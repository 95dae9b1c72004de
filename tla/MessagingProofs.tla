-------------------------- MODULE MessagingProofs --------------------------
(***************************************************************************)
(* The safety properties of Messaging, for any number of nodes, calls,     *)
(* connections and faults, and for every plan of calls.                    *)
(***************************************************************************)
EXTENDS Messaging, TLAPS

\* Where a call is: it has no connection before its dial is over, no stream
\* before it has a connection, and its connection joins its two nodes.
Placed ==
  \A c \in Calls :
    /\ stage[c] \in {"idle", "dialling"} => conn[c] = None
    /\ stage[c] \in {"idle", "dialling", "wrapping"} => inbound[c] = "none"
    /\ conn[c] \in Conns => ends[conn[c]] = {From(c), To(c)}

\* No wrapper has two listeners, and a tracked stream's wrapper has one.
Listening ==
  /\ HeardOnce
  /\ \A w \in Wrappers : listeners[w] \in {0, 1}
  /\ \A c \in Calls : inbound[c] = "tracked" => heardBy[c] \in Wrappers

\* A request that was not read has not been executed.
Executed ==
  \A c \in Calls : executions[c] <= 1 /\ (ran[c] = "none" => executions[c] = 0)

\* A response says what the execution came to.
Answering == \A c \in Calls : reply[c] # "none" => reply[c] = ran[c]

IInv ==
  /\ TypeOK /\ Placed /\ Listening /\ Executed /\ Answering
  /\ OpenStaysCached /\ TableIsOutstanding /\ Truthful

\* What a plan is: nobody calls himself.
LEMMA PlanFacts ==
  ASSUME plan \in Plans, NEW c \in Calls
  PROVE  /\ From(c) \in Nodes /\ To(c) \in Nodes /\ From(c) # To(c)
         /\ By(c) \in Calls \cup {None}
BY MessagingAssumption DEF From, To, By

\* The initial states satisfy the invariant.
THEOREM InitIInv == Init => IInv
<1> SUFFICES ASSUME Init PROVE IInv
  OBVIOUS
<1>1. TypeOK
  BY MessagingAssumption DEF Init, TypeOK, Stage, Outstanding
<1>2. Placed /\ Listening /\ Executed /\ Answering
  BY MessagingAssumption DEF Init, Placed, Listening, HeardOnce, Executed, Answering
<1>3. OpenStaysCached /\ TableIsOutstanding /\ Truthful
  BY PlanFacts DEF Init, OpenStaysCached, TableIsOutstanding, Truthful, Outstanding
<1> QED
  BY <1>1, <1>2, <1>3 DEF IInv

-----------------------------------------------------------------------------
(* The dial.                                                               *)

\* What a successful dial does to connections and calls.
LEMMA MadeFacts ==
  ASSUME TypeOK, NEW n \in Nodes, NEW m \in Nodes, Made(n, m)
  PROVE  /\ ends' \in [Conns -> SUBSET Nodes]
         /\ open' \in [Nodes -> SUBSET Conns]
         /\ conn' \in [Calls -> Conns \cup {None}]
         /\ \E k \in Conns :
              /\ ends[k] = {} \/ ends[k] = {n, m}
              /\ ends' = [ends EXCEPT ![k] = {n, m}]
              /\ \A i \in Nodes : \A j \in open'[i] : j \in open[i] \/ (j = k /\ ends[k] = {})
              /\ \A c \in Calls : conn'[c] = IF c \in Dialling(n, m) THEN k ELSE conn[c]
<1>1. PICK k \in Fresh \cup OpenTo(n, m) :
        /\ ends' = [ends EXCEPT ![k] = {n, m}]
        /\ open' = [open EXCEPT ![n] = @ \cup {k},
                                ![m] = IF ends[k] = {} THEN @ \cup {k} ELSE @]
        /\ conn' = [c \in Calls |-> IF c \in Dialling(n, m) THEN k ELSE conn[c]]
  BY DEF Made
<1>2. Fresh \subseteq {j \in Conns : ends[j] = {}}
  BY DEF Fresh, Unused
<1>3. k \in Conns /\ (ends[k] = {} \/ (k \in open[n] /\ ends[k] = {n, m}))
  BY <1>2 DEF OpenTo, TypeOK
<1>4. /\ ends' \in [Conns -> SUBSET Nodes] /\ open' \in [Nodes -> SUBSET Conns]
      /\ conn' \in [Calls -> Conns \cup {None}]
  BY <1>1, <1>3 DEF TypeOK
<1>5. \A i \in Nodes : \A j \in open'[i] : j \in open[i] \/ (j = k /\ ends[k] = {})
  BY <1>1, <1>3 DEF TypeOK
<1>6. \A c \in Calls : conn'[c] = IF c \in Dialling(n, m) THEN k ELSE conn[c]
  BY <1>1
<1> QED
  BY <1>1, <1>3, <1>4, <1>5, <1>6

-----------------------------------------------------------------------------
(* Frames: what a step keeps because it does not touch it.                 *)

\* The caller's steps, the dials and the closing of connections leave the
\* callee's side alone.
LEMMA CalleeFrame ==
  ASSUME IInv, UNCHANGED callee, plan' = plan
  PROVE  Listening' /\ Executed' /\ Answering'
BY DEF IInv, callee, Listening, HeardOnce, Executed, Answering

\* A connection that stays open and cached is still used by nobody new.
LEMMA CacheFrame ==
  ASSUME IInv, plan' = plan,
         \A n \in Nodes : open'[n] \subseteq open[n],
         \A n \in Nodes : \A k \in open'[n] :
           cachedConnections[n][k] # None => cachedConnections'[n][k] # None,
         \A n \in Nodes : \A k \in open'[n] :
           Uses(n, k)' => Uses(n, k) \/ cachedConnections'[n][k] # None
  PROVE  OpenStaysCached'
BY DEF IInv, OpenStaysCached

-----------------------------------------------------------------------------
(* The caller's steps.                                                     *)

\* A step of one caller that has a connection and keeps it.
LEMMA CallerMoves ==
  ASSUME IInv, UNCHANGED <<callee, plan, ends, open, cachedConnections, pendingDials, conn>>,
         NEW c \in Calls, NEW s \in Stage, stage' = [stage EXCEPT ![c] = s],
         Outstanding(c), s \in {"writing", "waiting", "ok", "error", "failed"},
         written' \in [Calls -> BOOLEAN], faults' \in 0..MaxFaults,
         requests' = IF s \in {"writing", "waiting"} THEN requests
                                                    ELSE RemoveRequest(From(c), c),
         s = "ok" => ran[c] = "data", s = "error" => ran[c] = "error"
  PROVE  IInv'
<1>0. plan \in Plans /\ TypeOK
  BY DEF IInv, TypeOK
<1>1. TypeOK'
  BY <1>0, PlanFacts DEF TypeOK, Outstanding, callee, RemoveRequest
<1>2. Placed'
  BY <1>0 DEF IInv, Placed, Outstanding, callee, TypeOK, Stage, From, To
<1>3. Listening' /\ Executed' /\ Answering'
  BY CalleeFrame
<1>4. OpenStaysCached'
  <2>1. \A n \in Nodes : \A k \in open'[n] : Uses(n, k)' => Uses(n, k)
    BY <1>0 DEF Uses, Outstanding, callee, TypeOK, From, To
  <2> QED
    BY <2>1, CacheFrame
<1>5. TableIsOutstanding'
  <2> SUFFICES ASSUME NEW d \in Calls
      PROVE  /\ d \in requests'[From(d)] <=> Sent(d) /\ Outstanding(d)'
             /\ ran[d] = "running" => d \in requests'[To(d)]
             /\ ran[d] = "data" => d \notin requests'[To(d)]
    BY DEF TableIsOutstanding, callee, From, To, Sent, By
  <2>1. From(d) \in Nodes /\ To(d) \in Nodes /\ From(d) # To(d) /\ From(c) \in Nodes
    BY <1>0, PlanFacts
  <2>2. /\ d \in requests[From(d)] <=> Sent(d) /\ Outstanding(d)
        /\ ran[d] = "running" => d \in requests[To(d)]
        /\ ran[d] = "data" => d \notin requests[To(d)]
    BY DEF IInv, TableIsOutstanding
  <2> QED
    BY <1>0, <2>1, <2>2 DEF TypeOK, Outstanding, RemoveRequest
<1>6. Truthful'
  BY <1>0, PlanFacts DEF IInv, Truthful, callee, TypeOK, Stage, Outstanding, By
<1> QED
  BY <1>1, <1>2, <1>3, <1>4, <1>5, <1>6 DEF IInv

\* What a step that neither ends a call nor serves one keeps of Truthful.
LEMMA TruthFrame ==
  ASSUME IInv, plan' = plan, ran' = ran,
         \A d \in Calls : stage'[d] \in {"ok", "error"} => stage'[d] = stage[d],
         \A d \in Calls : stage[d] = "ok" => stage'[d] = "ok"
  PROVE  Truthful'
<1>1. plan \in Plans
  BY DEF IInv, TypeOK
<1> QED
  BY <1>1, PlanFacts DEF IInv, Truthful, By

\* connect() returned to one call: it has a connection and is in the table.
LEMMA ConnectedKeeps ==
  ASSUME IInv, UNCHANGED <<callee, plan, ends, open, pendingDials, faults, written>>,
         NEW c \in Calls, NEW k \in Conns, Connected(c, k),
         stage[c] = "idle" \/ (stage[c] = "wrapping" /\ conn[c] = k),
         ends[k] = {From(c), To(c)},
         cachedConnections' \in [Nodes -> [Conns -> Wrappers \cup {None}]],
         cachedConnections'[From(c)][k] # None,
         \A n \in Nodes, j \in Conns :
           cachedConnections[n][j] # None => cachedConnections'[n][j] # None
  PROVE  IInv'
<1>0. TypeOK /\ plan \in Plans /\ Placed
  BY DEF IInv, TypeOK
<1>n. From(c) \in Nodes /\ To(c) \in Nodes
  BY <1>0, PlanFacts
<1>k. conn' = [conn EXCEPT ![c] = k] /\ stage' = [stage EXCEPT ![c] = "opening"]
  BY DEF Connected
<1>1. TypeOK'
  <2>1. requests' \in [Nodes -> SUBSET Calls]
    BY <1>0, <1>n DEF Connected, AddRequest, TypeOK
  <2> QED
    BY <1>0, <1>k, <2>1 DEF TypeOK, Stage, Outstanding, callee
<1>2. Placed'
  BY <1>0, <1>k DEF Placed, TypeOK, callee, From, To
<1>3. Listening' /\ Executed' /\ Answering'
  BY CalleeFrame
<1>4. OpenStaysCached'
  <2>1. ASSUME NEW n \in Nodes, NEW j \in open[n], Uses(n, j)'
        PROVE  Uses(n, j) \/ cachedConnections'[n][j] # None
    <3>1. PICK d \in Calls :
            /\ conn'[d] = j
            /\ \/ From(d) = n /\ stage'[d] # "wrapping"
               \/ To(d) = n /\ inbound[d] = "tracked"
      BY <2>1 DEF Uses, callee, From, To
    <3>2. CASE d # c
      BY <1>0, <1>k, <3>1, <3>2 DEF Uses, TypeOK
    <3>3. CASE d = c
      <4>1. inbound[c] # "tracked" /\ j = k
        BY <1>0, <1>k, <3>1, <3>3 DEF Placed, TypeOK
      <4> QED
        BY <3>1, <3>3, <4>1
    <3> QED
      BY <3>2, <3>3
  <2> QED
    BY <1>0, <2>1, CacheFrame DEF TypeOK
<1>5. TableIsOutstanding'
  <2> SUFFICES ASSUME NEW d \in Calls
      PROVE  /\ d \in requests'[From(d)] <=> Sent(d) /\ Outstanding(d)'
             /\ ran[d] = "running" => d \in requests'[To(d)]
             /\ ran[d] = "data" => d \notin requests'[To(d)]
    BY DEF TableIsOutstanding, callee, From, To, Sent, By
  <2>1. From(d) \in Nodes /\ To(d) \in Nodes /\ From(d) # To(d)
    BY <1>0, PlanFacts
  <2>2. /\ d \in requests[From(d)] <=> Sent(d) /\ Outstanding(d)
        /\ ran[d] = "running" => d \in requests[To(d)]
        /\ ran[d] = "data" => d \notin requests[To(d)]
    BY DEF IInv, TableIsOutstanding
  <2>3. requests' = IF Sent(c) THEN [requests EXCEPT ![From(c)] = @ \cup {c}] ELSE requests
    BY DEF Connected, AddRequest
  <2> QED
    BY <1>0, <1>n, <1>k, <2>1, <2>2, <2>3 DEF TypeOK, Outstanding
<1>6. Truthful'
  BY <1>0, <1>k, TruthFrame DEF TypeOK, callee
<1> QED
  BY <1>1, <1>2, <1>3, <1>4, <1>5, <1>6 DEF IInv

\* The caller finds a connection in the cache.
LEMMA ConnectCachedKeeps ==
  ASSUME IInv, NEW c \in Calls, ConnectCached(c) PROVE IInv'
<1>1. PICK k \in Reusable(From(c), To(c)) : Connected(c, k)
  BY DEF ConnectCached
<1>2. TypeOK /\ plan \in Plans /\ From(c) \in Nodes
  BY PlanFacts DEF IInv, TypeOK
<1>3. k \in Conns /\ ends[k] = {From(c), To(c)} /\ cachedConnections[From(c)][k] # None
  BY <1>2 DEF Reusable, OpenTo, TypeOK
<1> QED
  BY <1>1, <1>2, <1>3, ConnectedKeeps DEF ConnectCached, MayStart, network, TypeOK

\* The caller wraps the connection it dialled.
LEMMA WrappedKeeps ==
  ASSUME IInv, NEW c \in Calls, Wrapped(c) PROVE IInv'
<1>1. TypeOK /\ Placed /\ plan \in Plans /\ From(c) \in Nodes
  BY PlanFacts DEF IInv, TypeOK
<1>2. conn[c] \in Conns /\ ends[conn[c]] = {From(c), To(c)}
  BY <1>1 DEF Wrapped, TypeOK, Placed
<1>3. <<c, "connect">> \in Wrappers /\ <<c, "connect">> # None
  BY MessagingAssumption DEF Wrappers
<1>4. /\ cachedConnections' \in [Nodes -> [Conns -> Wrappers \cup {None}]]
      /\ cachedConnections'[From(c)][conn[c]] # None
      /\ \A n \in Nodes, j \in Conns :
           cachedConnections[n][j] # None => cachedConnections'[n][j] # None
  BY <1>1, <1>2, <1>3 DEF Wrapped, TypeOK
<1> QED
  BY <1>1, <1>2, <1>4, ConnectedKeeps DEF Wrapped, network

\* The caller dials, or joins who does.
LEMMA ConnectDiallingKeeps ==
  ASSUME IInv, NEW c \in Calls, ConnectDialling(c) PROVE IInv'
<1>0. TypeOK /\ plan \in Plans /\ Placed /\ plan' = plan
  BY DEF IInv, TypeOK, ConnectDialling, network
<1>n. From(c) \in Nodes /\ To(c) \in Nodes
  BY <1>0, PlanFacts
<1>k. stage[c] = "idle" /\ stage' = [stage EXCEPT ![c] = "dialling"]
  BY DEF ConnectDialling, MayStart
<1>1. TypeOK'
  BY <1>0, <1>n, <1>k DEF ConnectDialling, TypeOK, Stage, Outstanding, network, callee
<1>2. Placed'
  BY <1>0, <1>k DEF ConnectDialling, Placed, TypeOK, network, callee, From, To
<1>3. Listening' /\ Executed' /\ Answering'
  BY <1>0, CalleeFrame DEF ConnectDialling
<1>4. OpenStaysCached'
  <2>1. c \in Calls /\ conn[c] = None /\ \A n \in Nodes : None \notin open[n]
    BY <1>0, <1>k, MessagingAssumption DEF Placed, TypeOK
  <2>2. \A n \in Nodes : \A j \in open'[n] : Uses(n, j)' => Uses(n, j)
    BY <1>0, <1>k, <2>1 DEF ConnectDialling, Uses, TypeOK, network, callee, From, To
  <2> QED
    BY <1>0, <2>2, CacheFrame DEF ConnectDialling, network
<1>5. TableIsOutstanding'
  BY <1>0, <1>k DEF IInv, ConnectDialling, TableIsOutstanding, TypeOK, callee, Outstanding,
                    Sent, By, From, To
<1>6. Truthful'
  BY <1>0, <1>k, TruthFrame DEF ConnectDialling, TypeOK, callee
<1> QED
  BY <1>1, <1>2, <1>3, <1>4, <1>5, <1>6 DEF IInv

\* The table of calls that are not outstanding, before and after a dial.
LEMMA TableFrame ==
  ASSUME IInv, UNCHANGED <<plan, requests, ran>>,
         \A c \in Calls : Outstanding(c)' <=> Outstanding(c)
  PROVE  TableIsOutstanding'
BY DEF IInv, TableIsOutstanding, Sent, By, From, To

\* A dial succeeds: a new connection joins the nodes.
LEMMA DialSucceedsKeeps ==
  ASSUME IInv, NEW n \in Nodes, NEW m \in Nodes, DialSucceeds(n, m) PROVE IInv'
<1>0. TypeOK /\ plan \in Plans /\ Placed /\ plan' = plan
  BY DEF IInv, TypeOK, DialSucceeds
<1>d. Dialling(n, m) = {c \in Calls : stage[c] = "dialling" /\ From(c) = n /\ To(c) = m}
  BY DEF Dialling
<1>s. stage' = [c \in Calls |-> IF c \in Dialling(n, m) THEN "wrapping" ELSE stage[c]]
  BY DEF DialSucceeds
<1>m. PICK k \in Conns :
        /\ ends[k] = {} \/ ends[k] = {n, m}
        /\ ends' = [ends EXCEPT ![k] = {n, m}]
        /\ \A i \in Nodes : \A j \in open'[i] : j \in open[i] \/ (j = k /\ ends[k] = {})
        /\ \A c \in Calls : conn'[c] = IF c \in Dialling(n, m) THEN k ELSE conn[c]
  BY <1>0, MadeFacts DEF DialSucceeds
<1>t. /\ ends' \in [Conns -> SUBSET Nodes] /\ open' \in [Nodes -> SUBSET Conns]
      /\ conn' \in [Calls -> Conns \cup {None}]
  BY <1>0, MadeFacts DEF DialSucceeds
<1>o. \A c \in Calls : Outstanding(c)' <=> Outstanding(c)
  BY <1>0, <1>d, <1>s DEF Outstanding, TypeOK
<1>1. TypeOK'
  <2>1. \A c \in Calls : stage'[c] = "wrapping" \/ Outstanding(c)' => conn'[c] \in Conns
    BY <1>0, <1>d, <1>s, <1>m, <1>o DEF TypeOK
  <2>2. stage' \in [Calls -> Stage]
    BY <1>0, <1>s DEF TypeOK, Stage
  <2> QED
    BY <1>0, <1>t, <2>1, <2>2 DEF DialSucceeds, TypeOK, callee
<1>2. Placed'
  <2> SUFFICES ASSUME NEW c \in Calls
      PROVE  /\ stage'[c] \in {"idle", "dialling"} => conn'[c] = None
             /\ stage'[c] \in {"idle", "dialling", "wrapping"} => inbound[c] = "none"
             /\ conn'[c] \in Conns => ends'[conn'[c]] = {From(c), To(c)}
    BY <1>0 DEF Placed, DialSucceeds, callee, From, To
  <2>1. CASE c \in Dialling(n, m)
    BY <1>0, <1>d, <1>s, <1>m, <2>1 DEF Placed, TypeOK
  <2>2. CASE c \notin Dialling(n, m)
    <3>1. conn'[c] = conn[c] /\ stage'[c] = stage[c]
      BY <1>m, <1>s, <2>2
    <3>2. conn[c] \in Conns => ends'[conn[c]] = ends[conn[c]]
      <4>1. conn[c] \in Conns => ends[conn[c]] = {From(c), To(c)}
        BY <1>0 DEF Placed
      <4> QED
        BY <1>0, <1>m, <4>1 DEF TypeOK
    <3> QED
      BY <1>0, <3>1, <3>2 DEF Placed
  <2> QED
    BY <2>1, <2>2
<1>3. Listening' /\ Executed' /\ Answering'
  BY <1>0, CalleeFrame DEF DialSucceeds
<1>4. OpenStaysCached'
  <2> SUFFICES ASSUME NEW i \in Nodes, NEW j \in open'[i], Uses(i, j)'
      PROVE  cachedConnections'[i][j] # None
    BY DEF OpenStaysCached
  <2>1. PICK d \in Calls :
          /\ conn'[d] = j
          /\ \/ From(d) = i /\ stage'[d] # "wrapping"
             \/ To(d) = i /\ inbound[d] = "tracked"
    BY <1>0 DEF Uses, DialSucceeds, callee, From, To
  <2>2. d \notin Dialling(n, m)
    BY <1>0, <1>d, <1>s, <2>1 DEF Placed
  <2>3. conn[d] = j /\ stage'[d] = stage[d]
    BY <1>m, <1>s, <2>1, <2>2
  <2>4. j \in Conns /\ ends[j] = {From(d), To(d)}
    BY <1>0, <1>t, <2>3 DEF Placed
  <2>5. j \in open[i]
    BY <1>m, <2>4
  <2>6. Uses(i, j)
    BY <2>1, <2>3 DEF Uses
  <2> QED
    BY <2>5, <2>6 DEF IInv, OpenStaysCached, DialSucceeds
<1>5. TableIsOutstanding'
  BY <1>o, TableFrame DEF DialSucceeds, callee
<1>6. Truthful'
  BY <1>0, <1>d, <1>s, TruthFrame DEF DialSucceeds, TypeOK, callee
<1> QED
  BY <1>1, <1>2, <1>3, <1>4, <1>5, <1>6 DEF IInv

\* A dial fails, and everybody who waited for it.
LEMMA DialFailsKeeps ==
  ASSUME IInv, NEW n \in Nodes, NEW m \in Nodes, DialFails(n, m) PROVE IInv'
<1>0. TypeOK /\ plan \in Plans /\ Placed /\ plan' = plan
  BY DEF IInv, TypeOK, DialFails
<1>s. \A c \in Calls : stage'[c] = stage[c] \/ (stage[c] = "dialling" /\ stage'[c] = "failed")
  BY <1>0 DEF DialFails, Dialling, TypeOK
<1>1. TypeOK'
  <2>1. stage' \in [Calls -> Stage] /\ faults' \in 0..MaxFaults
    BY <1>0, MessagingAssumption DEF DialFails, TypeOK, Stage
  <2> QED
    BY <1>0, <1>s, <2>1 DEF DialFails, TypeOK, callee, Outstanding
<1>2. Placed'
  BY <1>0, <1>s DEF DialFails, Placed, callee, From, To
<1>3. Listening' /\ Executed' /\ Answering'
  BY <1>0, CalleeFrame DEF DialFails
<1>4. OpenStaysCached'
  <2>1. \A i \in Nodes : \A j \in open[i] : j # None
    BY <1>0, MessagingAssumption DEF TypeOK
  <2>2. \A i \in Nodes : \A j \in open'[i] : Uses(i, j)' => Uses(i, j)
    BY <1>0, <1>s, <2>1 DEF DialFails, Uses, Placed, callee, From, To
  <2> QED
    BY <1>0, <2>2, CacheFrame DEF DialFails
<1>5. TableIsOutstanding'
  BY <1>s, TableFrame DEF DialFails, callee, Outstanding
<1>6. Truthful'
  BY <1>0, <1>s, TruthFrame DEF DialFails, callee
<1> QED
  BY <1>1, <1>2, <1>3, <1>4, <1>5, <1>6 DEF IInv

\* One end sees the connection close.
LEMMA ConnectionClosesKeeps ==
  ASSUME IInv, NEW n \in Nodes, NEW k \in Conns, ConnectionCloses(n, k) PROVE IInv'
<1>0. TypeOK /\ Placed /\ plan' = plan
  BY DEF IInv, ConnectionCloses
<1>1. TypeOK'
  <2>1. faults' \in 0..MaxFaults
    BY <1>0, MessagingAssumption DEF ConnectionCloses, TypeOK
  <2> QED
    BY <1>0, <2>1 DEF ConnectionCloses, TypeOK, Evict, callee, Outstanding
<1>2. Placed'
  BY <1>0 DEF ConnectionCloses, Placed, callee, From, To
<1>3. Listening' /\ Executed' /\ Answering'
  BY <1>0, CalleeFrame DEF ConnectionCloses
<1>4. OpenStaysCached'
  <2>1. \A i \in Nodes : open'[i] \subseteq open[i]
    BY <1>0 DEF ConnectionCloses, TypeOK
  <2>2. \A i \in Nodes : \A j \in open'[i] : cachedConnections'[i][j] = cachedConnections[i][j]
    BY <1>0 DEF ConnectionCloses, Evict, TypeOK
  <2>3. \A i \in Nodes : \A j \in open'[i] : Uses(i, j)' => Uses(i, j)
    BY <1>0 DEF ConnectionCloses, Uses, callee, From, To
  <2> QED
    BY <1>0, <2>1, <2>2, <2>3, CacheFrame
<1>5. TableIsOutstanding'
  BY TableFrame DEF ConnectionCloses, callee, Outstanding
<1>6. Truthful'
  BY <1>0, TruthFrame DEF ConnectionCloses, callee
<1> QED
  BY <1>1, <1>2, <1>3, <1>4, <1>5, <1>6 DEF IInv

-----------------------------------------------------------------------------
(* The callee's steps.                                                     *)

\* Asking for a listener leaves one on the wrapper and none too many.
LEMMA ListenFacts ==
  ASSUME IInv, NEW w \in Wrappers, ListenForMessages(w)
  PROVE  /\ listeners' \in [Wrappers -> Nat]
         /\ listeners'[w] = 1
         /\ \A v \in Wrappers : listeners'[v] \in {0, 1} /\ listeners'[v] >= listeners[v]
BY DEF IInv, TypeOK, Listening, ListenForMessages

\* A stream comes to be tracked by a wrapper, which is listened to.
LEMMA TrackedListening ==
  ASSUME IInv, NEW c \in Calls, NEW w \in Wrappers, Track(c, w), ListenForMessages(w)
  PROVE  Listening'
<1>1. \A d \in Calls : inbound'[d] = "tracked" =>
        /\ heardBy'[d] \in Wrappers
        /\ listeners'[heardBy'[d]] = 1
  <2> SUFFICES ASSUME NEW d \in Calls, inbound'[d] = "tracked"
      PROVE  heardBy'[d] \in Wrappers /\ listeners'[heardBy'[d]] = 1
    OBVIOUS
  <2>1. CASE d = c
    BY <2>1, ListenFacts DEF Track, IInv, TypeOK
  <2>2. CASE d # c
    <3>1. inbound[d] = "tracked" /\ heardBy'[d] = heardBy[d]
      BY <2>2 DEF Track, IInv, TypeOK
    <3>2. heardBy[d] \in Wrappers /\ listeners[heardBy[d]] = 1
      BY <3>1 DEF IInv, Listening, HeardOnce
    <3> QED
      BY <3>1, <3>2, ListenFacts
  <2> QED
    BY <2>1, <2>2
<1> QED
  BY <1>1, ListenFacts DEF Listening, HeardOnce

\* The stream arrives at the callee, whose wrapper is found or made.
LEMMA StreamArrivesKeeps ==
  ASSUME IInv, NEW c \in Calls, StreamArrives(c) PROVE IInv'
<1>0. TypeOK /\ plan \in Plans /\ Placed
  BY DEF IInv, TypeOK
<1>n. To(c) \in Nodes /\ conn[c] \in Conns /\ Outstanding(c) /\ inbound[c] = "none"
  BY <1>0, PlanFacts DEF StreamArrives, OpenThere, TypeOK
<1>u. UNCHANGED <<caller, cachedConnections, requests, ran, executions, reply>>
  BY DEF StreamArrives
<1>w. cachedConnections[To(c)][conn[c]] \in Wrappers \cup {None}
  BY <1>0, <1>n DEF TypeOK
<1>e. /\ inbound' \in [Calls -> {"none", "wrapping", "tracked"}]
      /\ heardBy' \in [Calls -> Wrappers \cup {None}]
      /\ listeners' \in [Wrappers -> Nat]
      /\ \A d \in Calls : d # c => inbound'[d] = inbound[d]
      /\ inbound'[c] = "tracked" => cachedConnections[To(c)][conn[c]] # None
      /\ Listening'
  <2>1. CASE AnswerCached(c)
    <3>1. cachedConnections[To(c)][conn[c]] \in Wrappers
      BY <1>w, <2>1 DEF AnswerCached
    <3>2. /\ Track(c, cachedConnections[To(c)][conn[c]])
          /\ ListenForMessages(cachedConnections[To(c)][conn[c]])
          /\ cachedConnections[To(c)][conn[c]] # None
      BY <2>1 DEF AnswerCached
    <3>3. Listening' /\ listeners' \in [Wrappers -> Nat]
      BY <3>1, <3>2, TrackedListening, ListenFacts
    <3> QED
      BY <1>0, <3>1, <3>2, <3>3 DEF Track, TypeOK
  <2>2. CASE /\ inbound' = [inbound EXCEPT ![c] = "wrapping"]
             /\ UNCHANGED <<heardBy, listeners>>
    BY <1>0, <2>2 DEF IInv, Listening, HeardOnce, TypeOK
  <2> QED
    BY <2>1, <2>2 DEF StreamArrives
<1>1. TypeOK'
  BY <1>0, <1>u, <1>e DEF TypeOK, caller, Outstanding
<1>2. Placed'
  BY <1>0, <1>n, <1>u, <1>e DEF Placed, caller, Outstanding, From, To
<1>3. Executed' /\ Answering'
  BY <1>u DEF IInv, Executed, Answering
<1>4. OpenStaysCached'
  <2>1. \A n \in Nodes : \A k \in open'[n] :
          Uses(n, k)' => Uses(n, k) \/ cachedConnections'[n][k] # None
    BY <1>u, <1>e DEF Uses, caller, From, To
  <2> QED
    BY <1>u, <2>1, CacheFrame DEF caller
<1>5. TableIsOutstanding' /\ Truthful'
  BY <1>u DEF IInv, TableIsOutstanding, Truthful, caller, Outstanding, Sent, From, To, By
<1> QED
  BY <1>1, <1>2, <1>3, <1>4, <1>5, <1>e DEF IInv

\* The response arrives at the caller.
LEMMA AnsweredKeeps ==
  ASSUME IInv, NEW c \in Calls, Answered(c) PROVE IInv'
<1> DEFINE w == <<c, "answer">>
<1>0. TypeOK /\ plan \in Plans /\ Placed /\ inbound[c] = "wrapping"
  BY DEF IInv, TypeOK, Answered
<1>w. w \in Wrappers /\ w # None /\ To(c) \in Nodes
  BY <1>0, PlanFacts, MessagingAssumption DEF Wrappers
<1>u. UNCHANGED <<caller, requests, ran, executions, reply>> /\ Track(c, w) /\ ListenForMessages(w)
  BY DEF Answered
<1> HIDE DEF w
<1>l. Listening' /\ listeners' \in [Wrappers -> Nat]
  BY <1>w, <1>u, TrackedListening, ListenFacts
<1>c. /\ cachedConnections' \in [Nodes -> [Conns -> Wrappers \cup {None}]]
      /\ \A n \in Nodes, k \in Conns :
           cachedConnections'[n][k] = cachedConnections[n][k] \/ cachedConnections'[n][k] = w
      /\ conn[c] \in Conns => cachedConnections'[To(c)][conn[c]] = w
  BY <1>0, <1>w DEF Answered, TypeOK, w
<1>1. TypeOK'
  BY <1>0, <1>w, <1>u, <1>l, <1>c DEF TypeOK, caller, Track, Outstanding
<1>2. Placed'
  BY <1>0, <1>u DEF Placed, TypeOK, caller, Track, From, To
<1>3. Executed' /\ Answering'
  BY <1>u DEF IInv, Executed, Answering
<1>4. OpenStaysCached'
  <2> SUFFICES ASSUME NEW n \in Nodes, NEW k \in open'[n], Uses(n, k)'
      PROVE  cachedConnections'[n][k] # None
    BY DEF OpenStaysCached
  <2>1. k \in Conns /\ k \in open[n]
    BY <1>0, <1>u DEF TypeOK, caller
  <2>2. PICK d \in Calls :
          /\ conn[d] = k
          /\ \/ From(d) = n /\ stage[d] # "wrapping"
             \/ To(d) = n /\ inbound'[d] = "tracked"
    BY <1>u DEF Uses, caller, From, To
  <2>3. CASE d = c /\ To(c) = n
    BY <1>w, <1>c, <2>1, <2>2, <2>3
  <2>4. CASE ~(d = c /\ To(c) = n)
    <3>1. Uses(n, k)
      BY <1>0, <1>u, <2>2, <2>4 DEF Uses, Track, TypeOK
    <3>2. cachedConnections[n][k] # None
      BY <2>1, <3>1 DEF IInv, OpenStaysCached
    <3> QED
      BY <1>w, <1>c, <2>1, <3>2
  <2> QED
    BY <2>3, <2>4
<1>5. TableIsOutstanding' /\ Truthful'
  BY <1>u DEF IInv, TableIsOutstanding, Truthful, caller, Outstanding, Sent, From, To, By
<1> QED
  BY <1>1, <1>2, <1>3, <1>4, <1>5, <1>l DEF IInv

\* The request is read and executed, or forwarded.
LEMMA RequestReadKeeps ==
  ASSUME IInv, NEW c \in Calls, RequestRead(c) PROVE IInv'
<1>0. TypeOK /\ plan \in Plans /\ Placed
  BY DEF IInv, TypeOK
<1>n. To(c) \in Nodes /\ From(c) \in Nodes
  BY <1>0, PlanFacts
<1>u. UNCHANGED <<caller, cachedConnections, listeners, inbound, heardBy, reply>>
  BY DEF RequestRead
<1>r. /\ ran[c] = "none" /\ ran' = [ran EXCEPT ![c] = "running"]
      /\ requests' = [requests EXCEPT ![To(c)] = @ \cup {c}]
  BY DEF RequestRead, AddRequest
<1>e. executions' = [executions EXCEPT ![c] = 1]
  <2>1. executions[c] = 0 /\ listeners[heardBy[c]] = 1
    BY <1>r DEF IInv, Executed, Listening, HeardOnce, RequestRead
  <2> QED
    BY <1>0, <2>1 DEF RequestRead, TypeOK
<1>1. TypeOK'
  BY <1>0, <1>n, <1>u, <1>r, <1>e DEF TypeOK, caller, Outstanding
<1>2. Placed' /\ Listening'
  BY <1>u DEF IInv, Placed, Listening, HeardOnce, caller, From, To
<1>3. Executed'
  BY <1>0, <1>r, <1>e DEF IInv, Executed, TypeOK
<1>4. Answering'
  BY <1>0, <1>u, <1>r DEF IInv, Answering, TypeOK
<1>5. OpenStaysCached'
  BY <1>u DEF IInv, OpenStaysCached, Uses, caller, From, To
<1>6. TableIsOutstanding'
  <2> SUFFICES ASSUME NEW d \in Calls
      PROVE  /\ d \in requests'[From(d)] <=> Sent(d) /\ Outstanding(d)
             /\ ran'[d] = "running" => d \in requests'[To(d)]
             /\ ran'[d] = "data" => d \notin requests'[To(d)]
    BY <1>u DEF TableIsOutstanding, caller, Outstanding, From, To, Sent, By
  <2>1. From(d) \in Nodes /\ To(d) \in Nodes /\ From(d) # To(d)
    BY <1>0, PlanFacts
  <2>2. /\ d \in requests[From(d)] <=> Sent(d) /\ Outstanding(d)
        /\ ran[d] = "running" => d \in requests[To(d)]
        /\ ran[d] = "data" => d \notin requests[To(d)]
    BY DEF IInv, TableIsOutstanding
  <2> QED
    BY <1>0, <1>n, <1>r, <2>1, <2>2 DEF TypeOK
<1>7. Truthful'
  BY <1>0, <1>u, <1>r, PlanFacts DEF IInv, Truthful, caller, TypeOK, By
<1> QED
  BY <1>1, <1>2, <1>3, <1>4, <1>5, <1>6, <1>7 DEF IInv

\* An execution ends with a body, and its entry may be removed.
LEMMA ServedKeeps ==
  ASSUME IInv, NEW c \in Calls, NEW body \in {"data", "error"}, SendResponse(c, body),
         ran[c] = "running",
         \/ requests' = RemoveRequest(To(c), c)
         \/ body = "error" /\ UNCHANGED requests,
         body = "data" /\ By(c) # None => stage[By(c)] = "ok"
  PROVE  IInv'
<1>0. TypeOK /\ plan \in Plans /\ Placed
  BY DEF IInv, TypeOK
<1>n. To(c) \in Nodes /\ From(c) \in Nodes
  BY <1>0, PlanFacts
<1>u. UNCHANGED <<caller, cachedConnections, listeners, inbound, heardBy, executions>>
  BY DEF SendResponse
<1>r. ran' = [ran EXCEPT ![c] = body] /\ (reply' = reply \/ reply' = [reply EXCEPT ![c] = body])
  BY DEF SendResponse
<1>q. \/ requests' = [requests EXCEPT ![To(c)] = @ \ {c}]
      \/ body = "error" /\ requests' = requests
  BY DEF RemoveRequest
<1>1. TypeOK'
  <2>1. requests' \in [Nodes -> SUBSET Calls]
    BY <1>0, <1>n, <1>q DEF TypeOK
  <2>2. /\ ran' \in [Calls -> {"none", "running", "data", "error"}]
        /\ reply' \in [Calls -> {"none", "data", "error"}]
    BY <1>0, <1>r, ZenonT(40) DEF TypeOK
  <2> QED
    BY <1>0, <1>u, <2>1, <2>2 DEF TypeOK, caller, Outstanding
<1>2. Placed' /\ Listening'
  BY <1>u DEF IInv, Placed, Listening, HeardOnce, caller, From, To
<1>3. Executed'
  BY <1>0, <1>u, <1>r DEF IInv, Executed, TypeOK
<1>4. Answering'
  <2>1. reply[c] = "none"
    BY <1>0 DEF IInv, Answering, TypeOK
  <2> QED
    BY <1>0, <1>r, <2>1 DEF IInv, Answering, TypeOK
<1>5. OpenStaysCached'
  BY <1>u DEF IInv, OpenStaysCached, Uses, caller, From, To
<1>6. TableIsOutstanding'
  <2> SUFFICES ASSUME NEW d \in Calls
      PROVE  /\ d \in requests'[From(d)] <=> Sent(d) /\ Outstanding(d)
             /\ ran'[d] = "running" => d \in requests'[To(d)]
             /\ ran'[d] = "data" => d \notin requests'[To(d)]
    BY <1>u DEF TableIsOutstanding, caller, Outstanding, From, To, Sent, By
  <2>1. From(d) \in Nodes /\ To(d) \in Nodes /\ From(d) # To(d)
    BY <1>0, PlanFacts
  <2>2. /\ d \in requests[From(d)] <=> Sent(d) /\ Outstanding(d)
        /\ ran[d] = "running" => d \in requests[To(d)]
        /\ ran[d] = "data" => d \notin requests[To(d)]
    BY DEF IInv, TableIsOutstanding
  <2> QED
    BY <1>0, <1>n, <1>r, <1>q, <2>1, <2>2 DEF TypeOK
<1>7. Truthful'
  <2> SUFFICES ASSUME NEW d \in Calls
      PROVE  /\ stage[d] = "ok" => ran'[d] = "data"
             /\ stage[d] = "error" => ran'[d] = "error"
             /\ ran'[d] = "data" /\ By(d) # None => stage[By(d)] = "ok"
    BY <1>u DEF Truthful, caller, By
  <2>1. /\ stage[d] = "ok" => ran[d] = "data"
        /\ stage[d] = "error" => ran[d] = "error"
        /\ ran[d] = "data" /\ By(d) # None => stage[By(d)] = "ok"
    BY DEF IInv, Truthful
  <2> QED
    BY <1>0, <1>r, <2>1 DEF TypeOK
<1> QED
  BY <1>1, <1>2, <1>3, <1>4, <1>5, <1>6, <1>7 DEF IInv

\* An execution ends at the node itself.
LEMMA ExecutionEndsKeeps ==
  ASSUME IInv, NEW c \in Calls, ExecutionEnds(c) PROVE IInv'
BY ServedKeeps DEF ExecutionEnds, Returned, Threw

\* An execution ends with the call that forwarded it.
LEMMA ForwardEndsKeeps ==
  ASSUME IInv, NEW c \in Calls, ForwardEnds(c) PROVE IInv'
<1>1. ran[c] = "running"
  BY DEF ForwardEnds
<1>2. CASE Threw(c)
  BY <1>1, <1>2, ServedKeeps DEF Threw
<1>3. CASE Returned(c, ForwardedBody(c))
  <2>1. ForwardedBody(c) \in {"data", "error"}
    BY DEF ForwardedBody
  <2>2. ForwardedBody(c) = "data" => stage[By(c)] = "ok"
    BY DEF ForwardedBody
  <2> HIDE DEF ForwardedBody
  <2> QED
    BY <1>1, <1>3, <2>1, <2>2, ServedKeeps DEF Returned
<1> QED
  BY <1>2, <1>3 DEF ForwardEnds

-----------------------------------------------------------------------------
(* The invariant is inductive, and what follows from it.                   *)

\* Every step of a caller keeps the invariant.
LEMMA CallerKeeps ==
  ASSUME IInv, NEW c \in Calls, Caller(c) PROVE IInv'
<1>0. TypeOK
  BY DEF IInv
<1>1. CASE ConnectCached(c) \/ ConnectDialling(c) \/ Wrapped(c)
  BY <1>1, ConnectCachedKeeps, ConnectDiallingKeeps, WrappedKeeps
<1>2. CASE StreamOpened(c)
  BY <1>0, <1>2, CallerMoves
     DEF StreamOpened, Outstanding, TypeOK, Stage, network, callerUnchanged
<1>3. CASE StreamRefused(c)
  <2>1. faults' \in 0..MaxFaults
    BY <1>0, <1>3, MessagingAssumption DEF StreamRefused, TypeOK
  <2> QED
    BY <1>0, <1>3, <2>1, CallerMoves
       DEF StreamRefused, Settle, Outstanding, TypeOK, Stage, network, callerUnchanged
<1>4. CASE Transmitted(c)
  BY <1>0, <1>4, CallerMoves
     DEF Transmitted, Outstanding, TypeOK, Stage, network, callerUnchanged
<1>5. CASE WriteFails(c)
  BY <1>0, <1>5, CallerMoves
     DEF WriteFails, Settle, Outstanding, TypeOK, Stage, network, callerUnchanged
<1>6. CASE ResponseArrives(c)
  <2>1. reply[c] \in {"data", "error"} /\ reply[c] = ran[c]
    BY <1>0, <1>6 DEF ResponseArrives, IInv, Answering, TypeOK
  <2> QED
    BY <1>0, <1>6, <2>1, CallerMoves
       DEF ResponseArrives, Settle, Outstanding, TypeOK, Stage, network, callerUnchanged
<1> QED
  BY <1>1, <1>2, <1>3, <1>4, <1>5, <1>6 DEF Caller

\* Every step keeps the invariant.
THEOREM NextIInv == IInv /\ [Next]_vars => IInv'
<1> SUFFICES ASSUME IInv, [Next]_vars PROVE IInv'
  OBVIOUS
<1>1. ASSUME NEW c \in Calls, Caller(c) PROVE IInv'
  BY <1>1, CallerKeeps
<1>2. ASSUME NEW c \in Calls, Callee(c) PROVE IInv'
  BY <1>2, StreamArrivesKeeps, AnsweredKeeps, RequestReadKeeps, ExecutionEndsKeeps,
     ForwardEndsKeeps DEF Callee
<1>3. ASSUME NEW n \in Nodes, NEW m \in Nodes, Dial(n, m) PROVE IInv'
  BY <1>3, DialSucceedsKeeps, DialFailsKeeps DEF Dial
<1>4. ASSUME NEW n \in Nodes, NEW k \in Conns, ConnectionCloses(n, k) PROVE IInv'
  BY <1>4, ConnectionClosesKeeps
<1>5. CASE UNCHANGED vars
  BY <1>5 DEF vars, IInv, TypeOK, Placed, Listening, HeardOnce, Executed, AtMostOnce, Answering,
     OpenStaysCached, Uses, TableIsOutstanding, Truthful, Outstanding, Sent, From, To, By
<1> QED
  BY <1>1, <1>2, <1>3, <1>4, <1>5 DEF Next

\* The invariant holds in every state.
THEOREM InductiveInvariant == Spec => []IInv
BY InitIInv, NextIInv, PTL DEF Spec

\* The variables keep their types, and a call past its dial a connection.
THEOREM TypeCorrect == Spec => []TypeOK
<1>1. IInv => TypeOK
  BY DEF IInv
<1> QED
  BY <1>1, InductiveInvariant, PTL

\* However many streams share a wrapper, a request is executed once.
THEOREM ExecutedAtMostOnce == Spec => []AtMostOnce
<1>1. IInv => AtMostOnce
  BY DEF IInv, Executed, AtMostOnce
<1> QED
  BY <1>1, InductiveInvariant, PTL

\* No request is emitted to a wrapper that nobody listens to.
THEOREM StreamsAreHeard == Spec => []HeardOnce
<1>1. IInv => HeardOnce
  BY DEF IInv, Listening
<1> QED
  BY <1>1, InductiveInvariant, PTL

\* An open connection that was used is found in the cache again.
THEOREM OpenIsCached == Spec => []OpenStaysCached
<1>1. IInv => OpenStaysCached
  BY DEF IInv
<1> QED
  BY <1>1, InductiveInvariant, PTL

\* The request tables list what is under way.
THEOREM TablesAreRight == Spec => []TableIsOutstanding
<1>1. IInv => TableIsOutstanding
  BY DEF IInv
<1> QED
  BY <1>1, InductiveInvariant, PTL

\* A call's outcome is that of the execution, through a forwarder too.
THEOREM OutcomesAreTrue == Spec => []Truthful
<1>1. IInv => Truthful
  BY DEF IInv
<1> QED
  BY <1>1, InductiveInvariant, PTL
=============================================================================
