------------------------------ MODULE Hierarchy ------------------------------
(***************************************************************************)
(* The parent's side of a node's hierarchy: the children that registered,  *)
(* the libp2p connections to them, and the joined and left events that     *)
(* subscribers of the notification manager are told.                       *)
(*                                                                         *)
(* A child keeps its address through its lives; every life has a peer id   *)
(* of its own, which is what connections are known by.  An entry of the    *)
(* list of children holds an address and the transports of the life that   *)
(* registered, so a peer id resolves only while that life is the latest    *)
(* one registered.  Events are dispatched in the turn that emits them.     *)
(*                                                                         *)
(* A connection is open until it is closed.  In between libp2p may report  *)
(* it as closing, which the code does not count as open: not modelled.     *)
(***************************************************************************)
EXTENDS Naturals, Sequences, SequencesExt, Filtering

CONSTANTS
    Children,       \* addresses of children: sequences of names
    Patterns,       \* address patterns subscriptions filter by
    Subscriptions,  \* what may be subscribed
    MaxLives        \* bound on the lives of each child

VARIABLES
    life,         \* the current life of each child
    open,         \* open connections to each life of each child
    children,     \* hierarchyManager.children
    registering,  \* child_register calls that ping their child
    subscribed,   \* the pattern of each subscription, "none" if it is off
    told          \* the last event each subscription was told of each child

vars == <<life, open, children, registering, subscribed, told>>

Lives == 1..MaxLives
Entry == [address : Children, peer : Lives]

TypeOK == /\ life \in [Children -> Lives]
          /\ open \in [Children -> [Lives -> 0..2]]
          /\ \A i \in DOMAIN children : children[i] \in Entry
          /\ registering \subseteq Entry
          /\ subscribed \in [Subscriptions -> Patterns \cup {<<>>}]
          /\ told \in [Subscriptions -> [Children -> {"nothing", "joined", "left"}]]

Init == /\ life = [c \in Children |-> 1]
        /\ open = [c \in Children |-> [l \in Lives |-> 0]]
        /\ children = <<>>
        /\ registering = {}
        /\ subscribed = [s \in Subscriptions |-> <<>>]
        /\ told = [s \in Subscriptions |-> [c \in Children |-> "nothing"]]

-----------------------------------------------------------------------------

\* EventFilters.addressMatches() for wildcard patterns: "*" is one name, "**"
\* whatever is left, as soon as every name before it agrees.
AddressMatches(address, pattern) ==
    LET Agree(i) == i <= Len(address) /\ pattern[i] \in {"*", address[i]}
        rest == SelectInSeq(pattern, LAMBDA name : name = "**")
    IN  IF rest # 0 THEN \A i \in 1..rest - 1 : Agree(i)
        ELSE Len(address) = Len(pattern) /\ \A i \in DOMAIN pattern : Agree(i)

\* matchesFilter(), then the handler of every subscription that is on.
Emit(c, event) ==
    told' = [s \in Subscriptions |->
                IF subscribed[s] # <<>> /\ AddressMatches(c, subscribed[s])
                THEN [told[s] EXCEPT ![c] = event] ELSE told[s]]

\* addChild(): the entry of an earlier life goes, the new one comes first.
AddChild(entry) ==
    <<entry>> \o Filter(children, {e \in Entry : e.address # entry.address})

\* peerIdToAddress() with isChild(): the child a connection belongs to.
IsChild(c, peer) == \E i \in DOMAIN children :
                       children[i] = [address |-> c, peer |-> peer]

\* A mutant: every closed connection counts.
LastConnectionAny(c, peer) == open[c][peer] >= 1
\* handleConnectionClose(): no other connection to the peer is open.
LastConnection(c, peer) == open[c][peer] = 1

-----------------------------------------------------------------------------

\* A connection opens.  libp2p reports a peer with its first connection, and
\* only a registered life resolves to a child.
ConnectionOpens(c) ==
    LET p == life[c] IN
    /\ open[c][p] < 2
    /\ open' = [open EXCEPT ![c][p] = @ + 1]
    /\ IF open[c][p] = 0 /\ IsChild(c, p) THEN Emit(c, "joined") ELSE UNCHANGED told
    /\ UNCHANGED <<life, children, registering, subscribed>>

\* A connection closes, of this life or of an earlier one.
ConnectionCloses(c, p) ==
    /\ open[c][p] > 0
    /\ open' = [open EXCEPT ![c][p] = @ - 1]
    /\ IF LastConnection(c, p) /\ IsChild(c, p) THEN Emit(c, "left") ELSE UNCHANGED told
    /\ UNCHANGED <<life, children, registering, subscribed>>

\* The child stops and starts again with a new peer id; the parent has not
\* noticed yet and still holds the connections.
ChildRestarts(c) ==
    /\ life[c] < MaxLives
    /\ life' = [life EXCEPT ![c] = @ + 1]
    /\ UNCHANGED <<open, children, registering, subscribed, told>>

\* _tool_child_register(): adds the child, tells that it joined and pings it.
\* The call of an earlier life may be read late.
ChildRegister(c, p) ==
    LET entry == [address |-> c, peer |-> p] IN
    /\ open[c][p] > 0
    /\ children' = AddChild(entry)
    /\ registering' = registering \cup {entry}
    /\ Emit(c, "joined")
    /\ UNCHANGED <<life, open, subscribed>>

\* The ping is answered or fails; the child stays in the list either way.
ChildRegistered(entry) ==
    /\ entry \in registering
    /\ registering' = registering \ {entry}
    /\ UNCHANGED <<life, open, children, subscribed, told>>

\* on(): the subscription's filter carries the pattern.
On(s, pattern) ==
    /\ subscribed[s] = <<>>
    /\ subscribed' = [subscribed EXCEPT ![s] = pattern]
    /\ told' = [told EXCEPT ![s] = [c \in Children |-> "nothing"]]
    /\ UNCHANGED <<life, open, children, registering>>

\* off(), and teardown() of all subscriptions.
Off(S) ==
    /\ subscribed' = [s \in Subscriptions |-> IF s \in S THEN <<>> ELSE subscribed[s]]
    /\ UNCHANGED <<life, open, children, registering, told>>

Next ==
    \/ \E c \in Children : \/ ConnectionOpens(c) \/ ChildRestarts(c)
                           \/ \E p \in Lives : ConnectionCloses(c, p) \/ ChildRegister(c, p)
    \/ \E entry \in registering : ChildRegistered(entry)
    \/ \E s \in Subscriptions : Off({s}) \/ \E pattern \in Patterns : On(s, pattern)
    \/ Off(Subscriptions)

Spec == Init /\ [][Next]_vars

-----------------------------------------------------------------------------

\* Nobody is left with the news that a child left while the life of that
\* child that is registered is connected: not by one of two connections that
\* closes, nor by a connection of an earlier life that closes late.
LeftIsTrue ==
    \A s \in Subscriptions, c \in Children :
       told[s][c] = "left" /\ subscribed[s] # <<>> =>
          \A p \in Lives : IsChild(c, p) => open[c][p] = 0
=============================================================================
