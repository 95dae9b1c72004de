----------------------------- MODULE AgentInbox -----------------------------
(***************************************************************************)
(* The inbox of an AgentNode: envelopes sent by other agents are deposited *)
(* in a bounded ring, listed, read by id and drained.  Requests arrive at  *)
(* sub-paths of the agent's address, which oAgentResolver turns into       *)
(* methods.  The inbox lives in memory and ends with the process.          *)
(*                                                                         *)
(* A request is lost or handled once.                                      *)
(***************************************************************************)
EXTENDS Naturals, Sequences, FiniteSets

CONSTANTS
  Messages,   \* ids of the envelopes that are sent
  InboxBound  \* config.inboxBound

VARIABLES
  inbox,      \* ids, the oldest first
  transit,    \* envelopes on their way
  arrived,    \* ids in the order of their deposit since the last drain
  sent,       \* ids in use
  reply       \* what the last request that reads was answered

vars == <<inbox, transit, arrived, sent, reply>>

Ids(s) == {s[i] : i \in DOMAIN s}

\* A path below the agent's address: at most two segments are told apart.
Segments == {"inbox", "send", "receive", "drain", "card", "status", "other"}
Paths    == {<<>>} \cup {<<s>> : s \in Segments} \cup {<<s, m>> : s \in Segments, m \in Messages}

Methods == {"route_to_self", "list_inbox", "read_message", "send", "receive",
            "drain_inbox", "get_card", "get_status"} \cup Segments

Reply == [method : Methods, ids : SUBSET Messages]

TypeOK ==
  /\ inbox \in Seq(Messages) /\ Len(inbox) <= InboxBound
  /\ transit \subseteq Messages
  /\ arrived \in Seq(Messages)
  /\ sent \subseteq Messages
  /\ reply \in Reply

Init ==
  /\ inbox = <<>> /\ transit = {} /\ arrived = <<>>
  /\ sent = {}
  /\ reply = [method |-> "route_to_self", ids |-> {}]

-----------------------------------------------------------------------------
(* oAgentResolver.                                                         *)

SubPathToMethod ==
  [inbox |-> "list_inbox", send |-> "send", receive |-> "receive",
   drain |-> "drain_inbox", card |-> "get_card", status |-> "get_status"]

\* The rest of the path becomes a parameter.
TailToParams(tail) == Ids(tail) \cap Messages

\* An unknown segment is taken for the name of a method.
ParseSubPath(path) ==
  IF path = <<>> THEN [method |-> "route_to_self", params |-> {}]
  ELSE IF Head(path) = "inbox" /\ Len(path) >= 2
       THEN [method |-> "read_message", params |-> {path[2]} \cap Messages]
       ELSE [method |-> IF Head(path) \in DOMAIN SubPathToMethod
                        THEN SubPathToMethod[Head(path)] ELSE Head(path),
             params |-> TailToParams(Tail(path))]

-----------------------------------------------------------------------------
(* AgentNode.                                                              *)

\* _tool_send: the envelope gets an id of its own and leaves.
Send(m) ==
  /\ m \notin sent
  /\ sent' = sent \cup {m}
  /\ transit' = transit \cup {m}
  /\ UNCHANGED <<inbox, arrived, reply>>

\* Mutant: a full inbox refuses the new envelope.
DepositedUnlessFull(m) == IF Len(inbox) >= InboxBound THEN inbox ELSE Append(inbox, m)

\* A full inbox drops its oldest envelope.
Deposited(m) ==
  Append(IF Len(inbox) >= InboxBound THEN Tail(inbox) ELSE inbox, m)

\* _tool_receive.  Whether its answer reaches the sender changes nothing here.
Receive(m) ==
  /\ m \in transit
  /\ ParseSubPath(<<"receive">>).method = "receive"
  /\ transit' = transit \ {m}
  /\ inbox' = Deposited(m)
  /\ arrived' = Append(arrived, m)
  /\ UNCHANGED <<sent, reply>>

Lost(m) ==
  /\ m \in transit
  /\ transit' = transit \ {m}
  /\ UNCHANGED <<inbox, arrived, sent, reply>>

\* _tool_drain_inbox.
DrainInbox(path) ==
  /\ ParseSubPath(path).method = "drain_inbox"
  /\ reply' = [method |-> "drain_inbox", ids |-> Ids(inbox)]
  /\ inbox' = <<>>
  /\ arrived' = <<>>
  /\ UNCHANGED <<transit, sent>>

\* The methods that only read: list_inbox, read_message and the others.
Shown(request) ==
  CASE request.method \in {"list_inbox", "get_status"} -> Ids(inbox)
    [] request.method = "read_message" -> request.params \cap Ids(inbox)
    [] OTHER -> {}

Read(path) ==
  LET request == ParseSubPath(path)
  IN  /\ request.method \notin {"send", "receive", "drain_inbox"}
      /\ reply' = [method |-> request.method, ids |-> Shown(request)]
      /\ UNCHANGED <<inbox, transit, arrived, sent>>

-----------------------------------------------------------------------------
Next ==
  \/ \E m \in Messages : Send(m) \/ Lost(m) \/ Receive(m)
  \/ \E path \in Paths : DrainInbox(path) \/ Read(path)

Spec == Init /\ [][Next]_vars

-----------------------------------------------------------------------------
(* Properties.                                                             *)

\* "Bounded ring - drop the oldest message if we're over the bound"
\* (agent-node.tool.ts:241): whatever came in and however often it was
\* drained, the inbox is the end of what arrived since the last drain, in the
\* order of arrival, and all of it as long as that fits.
InboxKeepsLatest ==
  LET n == Len(arrived)
      k == IF n <= InboxBound THEN n ELSE InboxBound
  IN  inbox = SubSeq(arrived, n - k + 1, n)
=============================================================================
