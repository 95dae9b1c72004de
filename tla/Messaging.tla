----------------------------- MODULE Messaging -----------------------------
(***************************************************************************)
(* Calls between nodes: oNodeRequestManager.send() finds or dials a        *)
(* connection (oNodeConnectionManager), opens a stream of its own on it,   *)
(* writes the request and waits for the response; receiveStream() on the   *)
(* other node reads the request, executes it and responds.  A node on the  *)
(* way forwards a request it cannot execute itself (oNodeRouter), which is *)
(* a second call, from there.                                              *)
(*                                                                         *)
(* A call is at one await of its caller (stage), and its stream at one     *)
(* await of the callee (inbound, ran).  A connection that is lost closes   *)
(* at its two ends one after the other, with all the streams on it.        *)
(***************************************************************************)
EXTENDS Naturals

CONSTANTS
  Nodes,      \* the nodes, each with one peer id
  Calls,      \* bound: the calls that are made
  Conns,      \* bound: libp2p connections; a call dials at most once
  Plans,      \* who calls whom, and which call forwards which
  MaxFaults,  \* bound: failed dials, refused streams and lost connections
  None

ASSUME MessagingAssumption ==
  /\ None \notin Calls \cup Conns \cup (Calls \X {"connect", "answer"})
  /\ Plans \subseteq [Calls -> [from : Nodes, to : Nodes, by : Calls \cup {None}]]
  /\ \A p \in Plans, c \in Calls :
       /\ p[c].from # p[c].to
       /\ p[c].by # None => /\ p[p[c].by].from = p[c].to
                            /\ p[p[c].by].by = None
  /\ MaxFaults \in Nat

VARIABLES
  plan,               \* the plan of this behaviour; never changes
  ends,               \* the two nodes of a connection; {} before it is made
  open,               \* open[n]: the connections whose status is open at n
  cachedConnections,  \* cachedConnections[n][k]: the wrapper cached under k's id
  pendingDials,       \* pendingDialsByAddress: pairs of a node and its target
  listeners,          \* listenerCount(request) of each wrapper's emitter
  requests,           \* requests[n]: the ids in the request manager's table
  stage,              \* where the caller is
  conn,               \* the connection a call goes over
  written,            \* the request has been handed to the stream
  inbound,            \* what the callee did with the stream
  heardBy,            \* the wrapper that tracks the stream at the callee
  ran,                \* what became of the request at the callee
  executions,         \* how many times the callee executed it
  reply,              \* the response on its way back
  faults

vars == <<plan, ends, open, cachedConnections, pendingDials, listeners, requests, stage,
          conn, written, inbound, heardBy, ran, executions, reply, faults>>
network == <<plan, ends, open, faults>>
callee  == <<listeners, inbound, heardBy, ran, executions, reply>>

\* An oNodeConnection is named by the call and the method that created it.
Wrappers == Calls \X {"connect", "answer"}

Stage == {"idle", "dialling", "wrapping", "opening", "writing", "waiting",
          "ok", "error", "failed"}

From(c) == plan[c].from
To(c)   == plan[c].to
By(c)   == plan[c].by

\* A call of requestManager.send(), as opposed to a forwarding one.
Sent(c) == \A d \in Calls : By(d) # c

Outstanding(c) == stage[c] \in {"opening", "writing", "waiting"}
Ended(c)       == stage[c] \in {"ok", "error", "failed"}
OpenHere(c)    == conn[c] \in open[From(c)]
OpenThere(c)   == conn[c] \in open[To(c)]

TypeOK ==
  /\ plan \in Plans
  /\ ends \in [Conns -> SUBSET Nodes]
  /\ open \in [Nodes -> SUBSET Conns]
  /\ cachedConnections \in [Nodes -> [Conns -> Wrappers \cup {None}]]
  /\ pendingDials \subseteq Nodes \X Nodes
  /\ listeners \in [Wrappers -> Nat]
  /\ requests \in [Nodes -> SUBSET Calls]
  /\ stage \in [Calls -> Stage]
  /\ conn \in [Calls -> Conns \cup {None}]
  /\ written \in [Calls -> BOOLEAN]
  /\ inbound \in [Calls -> {"none", "wrapping", "tracked"}]
  /\ heardBy \in [Calls -> Wrappers \cup {None}]
  /\ ran \in [Calls -> {"none", "running", "data", "error"}]
  /\ executions \in [Calls -> Nat]
  /\ reply \in [Calls -> {"none", "data", "error"}]
  /\ faults \in 0..MaxFaults
  \* A call past its dial has a connection.
  /\ \A c \in Calls : stage[c] = "wrapping" \/ Outstanding(c) => conn[c] \in Conns

Init ==
  /\ plan \in Plans
  /\ ends = [k \in Conns |-> {}]
  /\ open = [n \in Nodes |-> {}]
  /\ cachedConnections = [n \in Nodes |-> [k \in Conns |-> None]]
  /\ pendingDials = {}
  /\ listeners = [w \in Wrappers |-> 0]
  /\ requests = [n \in Nodes |-> {}]
  /\ stage = [c \in Calls |-> "idle"]
  /\ conn = [c \in Calls |-> None]
  /\ written = [c \in Calls |-> FALSE]
  /\ inbound = [c \in Calls |-> "none"]
  /\ heardBy = [c \in Calls |-> None]
  /\ ran = [c \in Calls |-> "none"]
  /\ executions = [c \in Calls |-> 0]
  /\ reply = [c \in Calls |-> "none"]
  /\ faults = 0

-----------------------------------------------------------------------------
(* The request table.  Only send() enters its own request: a forwarding    *)
(* call goes straight to the connection.                                   *)

AddRequest(n, c)    == [requests EXCEPT ![n] = @ \cup {c}]
RemoveRequest(n, c) == [requests EXCEPT ![n] = @ \ {c}]

\* Mutant: the catch block of send() forgets the entry.
SettleKeepingEntry(c, outcome) ==
  /\ stage' = [stage EXCEPT ![c] = outcome]
  /\ requests' = IF outcome = "failed" THEN requests ELSE RemoveRequest(From(c), c)

Settle(c, outcome) ==
  /\ stage' = [stage EXCEPT ![c] = outcome]
  /\ requests' = RemoveRequest(From(c), c)

-----------------------------------------------------------------------------
(* The caller: connect().                                                  *)

\* The connections to m that libp2p has at n, and those that are cached.
OpenTo(n, m)   == {k \in open[n] : ends[k] = {n, m}}
Reusable(n, m) == {k \in OpenTo(n, m) : cachedConnections[n][k] # None}

\* connect() returned: the request is entered and a stream is opened.
Connected(c, k) ==
  /\ stage' = [stage EXCEPT ![c] = "opening"]
  /\ conn' = [conn EXCEPT ![c] = k]
  /\ requests' = IF Sent(c) THEN AddRequest(From(c), c) ELSE requests

\* A forwarding call starts while the request it serves is executed.
MayStart(c) ==
  /\ stage[c] = "idle"
  /\ \A d \in Calls : By(d) = c => ran[d] = "running"

ConnectCached(c) ==
  /\ MayStart(c)
  /\ \E k \in Reusable(From(c), To(c)) : Connected(c, k)
  /\ UNCHANGED <<network, callee, cachedConnections, pendingDials, written>>

\* getOrCreateP2pConnection(): joins the pending dial or starts one.
ConnectDialling(c) ==
  /\ MayStart(c)
  /\ Reusable(From(c), To(c)) = {}
  /\ stage' = [stage EXCEPT ![c] = "dialling"]
  /\ pendingDials' = pendingDials \cup {<<From(c), To(c)>>}
  /\ UNCHANGED <<network, callee, cachedConnections, requests, conn, written>>

Dialling(n, m) == {c \in Calls : stage[c] = "dialling" /\ From(c) = n /\ To(c) = m}

\* libp2p's dial returns the connection it has or makes a new one.
Unused == {k \in Conns : ends[k] = {}}
Fresh  == IF Unused = {} THEN {} ELSE {CHOOSE k \in Unused : TRUE}

Made(n, m) ==
  \E k \in Fresh \cup OpenTo(n, m) :
    /\ ends' = [ends EXCEPT ![k] = {n, m}]
    /\ open' = [open EXCEPT ![n] = @ \cup {k},
                            ![m] = IF ends[k] = {} THEN @ \cup {k} ELSE @]
    /\ conn' = [c \in Calls |-> IF c \in Dialling(n, m) THEN k ELSE conn[c]]

\* The promise settles for all who wait for it, and its entry is deleted.
DialSucceeds(n, m) ==
  /\ <<n, m>> \in pendingDials
  /\ Made(n, m)
  /\ stage' = [c \in Calls |-> IF c \in Dialling(n, m) THEN "wrapping" ELSE stage[c]]
  /\ pendingDials' = pendingDials \ {<<n, m>>}
  /\ UNCHANGED <<plan, faults, callee, cachedConnections, requests, written>>

DialFails(n, m) ==
  /\ <<n, m>> \in pendingDials
  /\ faults < MaxFaults
  /\ faults' = faults + 1
  /\ stage' = [c \in Calls |-> IF c \in Dialling(n, m) THEN "failed" ELSE stage[c]]
  /\ pendingDials' = pendingDials \ {<<n, m>>}
  /\ UNCHANGED <<plan, ends, open, callee, cachedConnections, requests, conn, written>>

\* Each call that shared the dial wraps the connection; the last is cached.
Wrapped(c) ==
  /\ stage[c] = "wrapping"
  /\ cachedConnections' = [cachedConnections EXCEPT ![From(c)][conn[c]] = <<c, "connect">>]
  /\ Connected(c, conn[c])
  /\ UNCHANGED <<network, callee, pendingDials, written>>

-----------------------------------------------------------------------------
(* The caller: transmit() and waitForResponse().                           *)

callerUnchanged == <<cachedConnections, pendingDials, conn>>

\* newStream() returned, and the write began.
StreamOpened(c) ==
  /\ stage[c] = "opening" /\ OpenHere(c)
  /\ stage' = [stage EXCEPT ![c] = "writing"]
  /\ written' = [written EXCEPT ![c] = TRUE]
  /\ UNCHANGED <<network, callee, callerUnchanged, requests>>

\* newStream() threw: the connection is closed, or the stream was refused.
StreamRefused(c) ==
  /\ stage[c] = "opening"
  /\ \/ ~OpenHere(c) /\ UNCHANGED faults
     \/ OpenHere(c) /\ faults < MaxFaults /\ faults' = faults + 1
  /\ Settle(c, "failed")
  /\ UNCHANGED <<plan, ends, open, callee, callerUnchanged, written>>

Transmitted(c) ==
  /\ stage[c] = "writing" /\ OpenHere(c)
  /\ stage' = [stage EXCEPT ![c] = "waiting"]
  /\ UNCHANGED <<network, callee, callerUnchanged, requests, written>>

\* The write threw; what was written before may still reach the callee.
WriteFails(c) ==
  /\ stage[c] = "writing" /\ ~OpenHere(c)
  /\ Settle(c, "failed")
  /\ UNCHANGED <<network, callee, callerUnchanged, written>>

\* A response that carries an error is thrown to the caller.  Nothing else
\* ends the wait: a stream that is lost does not.
ResponseArrives(c) ==
  /\ stage[c] = "waiting" /\ OpenHere(c) /\ reply[c] # "none"
  /\ Settle(c, IF reply[c] = "data" THEN "ok" ELSE "error")
  /\ UNCHANGED <<network, callee, callerUnchanged, written>>

-----------------------------------------------------------------------------
(* The callee: receiveStream() and listenForMessages().                    *)

caller == <<plan, ends, open, pendingDials, stage, conn, written, faults>>

\* Mutant: a listener for every stream.
ListenAgain(w) == listeners' = [listeners EXCEPT ![w] = @ + 1]

\* One listener per wrapper, however many streams it has.
ListenForMessages(w) ==
  listeners' = IF listeners[w] > 0 THEN listeners ELSE [listeners EXCEPT ![w] = @ + 1]

Track(c, w) ==
  /\ inbound' = [inbound EXCEPT ![c] = "tracked"]
  /\ heardBy' = [heardBy EXCEPT ![c] = w]

\* answer() with a cached wrapper, whichever side made the connection.
AnswerCached(c) ==
  LET w == cachedConnections[To(c)][conn[c]]
  IN  /\ w # None
      /\ Track(c, w)
      /\ ListenForMessages(w)

\* handleStream(): the stream of an outstanding call has come.
StreamArrives(c) ==
  /\ Outstanding(c) /\ inbound[c] = "none" /\ OpenThere(c)
  /\ \/ AnswerCached(c)
     \/ /\ cachedConnections[To(c)][conn[c]] = None
        /\ inbound' = [inbound EXCEPT ![c] = "wrapping"]
        /\ UNCHANGED <<heardBy, listeners>>
  /\ UNCHANGED <<caller, cachedConnections, requests, ran, executions, reply>>

\* answer() with a wrapper of its own, cached over any that came first.
Answered(c) ==
  /\ inbound[c] = "wrapping"
  /\ Track(c, <<c, "answer">>)
  /\ cachedConnections' =
       [cachedConnections EXCEPT ![To(c)][conn[c]] = <<c, "answer">>]
  /\ ListenForMessages(<<c, "answer">>)
  /\ UNCHANGED <<caller, requests, ran, executions, reply>>

\* The message is read and emitted: every listener executes it.
RequestRead(c) ==
  /\ inbound[c] = "tracked" /\ written[c] /\ OpenThere(c) /\ ran[c] = "none"
  /\ listeners[heardBy[c]] > 0
  /\ ran' = [ran EXCEPT ![c] = "running"]
  /\ executions' = [executions EXCEPT ![c] = @ + listeners[heardBy[c]]]
  /\ requests' = AddRequest(To(c), c)
  /\ UNCHANGED <<caller, cachedConnections, listeners, inbound, heardBy, reply>>

\* sendResponse(): dropped, with a warning, when the stream is not open.
SendResponse(c, body) ==
  /\ ran' = [ran EXCEPT ![c] = body]
  /\ reply' = IF OpenThere(c) THEN [reply EXCEPT ![c] = body] ELSE reply
  /\ UNCHANGED <<caller, cachedConnections, listeners, inbound, heardBy, executions>>

\* The entry is removed when the execution returns.
Returned(c, body) ==
  /\ requests' = RemoveRequest(To(c), c)
  /\ SendResponse(c, body)

\* Mutant: the catch block does not answer.
ThrewSilently(c) ==
  /\ ran' = [ran EXCEPT ![c] = "error"]
  /\ UNCHANGED <<caller, cachedConnections, listeners, requests, inbound, heardBy,
                 executions, reply>>

\* The catch block answers with the error and leaves the entry.
Threw(c) ==
  /\ UNCHANGED requests
  /\ SendResponse(c, "error")

\* The node executes the request itself.
ExecutionEnds(c) ==
  /\ ran[c] = "running" /\ By(c) = None
  /\ Returned(c, "data") \/ Threw(c)

\* Mutant: build() looks at its error argument only.
ForwardedAsData(c) == "data"

\* dialAndTransmit() returns the data of the response; that of an error is
\* {error}, from which build() makes an error again.
ForwardedBody(c) == IF stage[By(c)] = "ok" THEN "data" ELSE "error"

ForwardEnds(c) ==
  /\ ran[c] = "running" /\ By(c) # None /\ Ended(By(c))
  /\ IF stage[By(c)] = "failed" THEN Threw(c) ELSE Returned(c, ForwardedBody(c))

-----------------------------------------------------------------------------
(* The network.                                                            *)

\* connection:close at n evicts the entry of that connection.
Evict(n, k) == [cachedConnections EXCEPT ![n][k] = None]

\* The first end to close is a fault, the other follows.
ConnectionCloses(n, k) ==
  /\ k \in open[n]
  /\ \/ /\ \E m \in Nodes \ {n} : k \in open[m]
        /\ faults < MaxFaults /\ faults' = faults + 1
     \/ /\ \A m \in Nodes \ {n} : k \notin open[m]
        /\ UNCHANGED faults
  /\ open' = [open EXCEPT ![n] = @ \ {k}]
  /\ cachedConnections' = Evict(n, k)
  /\ UNCHANGED <<plan, ends, callee, pendingDials, requests, stage, conn, written>>

Dial(n, m) == DialSucceeds(n, m) \/ DialFails(n, m)

Caller(c) ==
  \/ ConnectCached(c) \/ ConnectDialling(c) \/ Wrapped(c) \/ StreamOpened(c)
  \/ StreamRefused(c) \/ Transmitted(c) \/ WriteFails(c) \/ ResponseArrives(c)

Callee(c) ==
  \/ StreamArrives(c) \/ Answered(c) \/ RequestRead(c) \/ ExecutionEnds(c) \/ ForwardEnds(c)

Next ==
  \/ \E c \in Calls : Caller(c) \/ Callee(c)
  \/ \E n, m \in Nodes : Dial(n, m)
  \/ \E n \in Nodes, k \in Conns : ConnectionCloses(n, k)

Spec == Init /\ [][Next]_vars

\* The event loop runs what is queued, a dial ends one way or the other, a
\* stream that was opened reaches an open end, and an execution ends.
Fairness ==
  /\ \A c \in Calls : WF_vars(Caller(c)) /\ WF_vars(Callee(c))
  /\ \A n, m \in Nodes : WF_vars(Dial(n, m))

FairSpec == Spec /\ Fairness

-----------------------------------------------------------------------------
(* Safety.                                                                 *)

\* A request is executed at most once, although every stream of a node asks
\* for a listener on a wrapper that it shares with the others.
AtMostOnce == \A c \in Calls : executions[c] <= 1

\* No request is emitted to nobody: the wrapper that tracks an inbound
\* stream is listened to, also when the node's own dial had created it, for
\* calls in the other direction, and when another one has replaced it in
\* the cache.
HeardOnce == \A c \in Calls : inbound[c] = "tracked" => listeners[heardBy[c]] = 1

Uses(n, k) ==
  \E c \in Calls :
    /\ conn[c] = k
    /\ \/ From(c) = n /\ stage[c] # "wrapping"
       \/ To(c) = n /\ inbound[c] = "tracked"

\* A connection that was used stays cached as long as it is open, whatever
\* happens to the others between the same two nodes: it is never dialled
\* again beside an open one.
OpenStaysCached ==
  \A n \in Nodes : \A k \in open[n] : Uses(n, k) => cachedConnections[n][k] # None

\* The tables hold what is under way: at the caller a request from the time
\* it is sent until it ends, at the callee while it is executed and not after
\* it returned.  Of an execution that threw nothing is said: the code leaves
\* its entry in the table for good.
TableIsOutstanding ==
  \A c \in Calls :
    /\ c \in requests[From(c)] <=> Sent(c) /\ Outstanding(c)
    /\ ran[c] = "running" => c \in requests[To(c)]
    /\ ran[c] = "data" => c \notin requests[To(c)]

\* A call succeeds only if its request was executed with success, at the end
\* of the way when it was forwarded; an error is never lost on the way back.
Truthful ==
  \A c \in Calls :
    /\ stage[c] = "ok" => ran[c] = "data"
    /\ stage[c] = "error" => ran[c] = "error"
    /\ ran[c] = "data" /\ By(c) # None => stage[By(c)] = "ok"

-----------------------------------------------------------------------------
(* Liveness.                                                               *)

\* The caller has sent its request, and the stream is lost at an end.
Stranded(c) == stage[c] = "waiting" /\ ~(OpenHere(c) /\ OpenThere(c))

\* Every call ends, unless the stream is lost on which it, or the call that
\* forwards it, waits: no wait of the code depends on another call.
CallsEnd ==
  \A c \in Calls :
    stage[c] # "idle" ~> \/ Ended(c)
                         \/ Stranded(c)
                         \/ By(c) # None /\ Stranded(By(c))
=============================================================================
