------------------------------ MODULE PeerDialing ------------------------------
(***************************************************************************)
(* How a node finds and keeps outbound peers: the address book and ADDR    *)
(* gossip (network/node.ts) and maintainPeers (network/transport.ts).      *)
(*                                                                         *)
(* Other nodes are external: they advertise URLs, answer or refuse dials,  *)
(* and drop connections.  A URL a peer came in with is in `inbound'.       *)
(***************************************************************************)
EXTENDS Integers, FiniteSets, Functions, SequencesExt

CONSTANTS
  Url, Own,         \* dialable URLs; config.advertiseUrl, one of them
  Seeds,            \* the URLs maintainPeers was given
  MaxBook,          \* MAX_ADDR_BOOK
  MaxAddrs,         \* MAX_ADDR_PER_MESSAGE
  MaxOutbound,      \* opts.maxOutbound
  MaxPeerCount,     \* config.maxPeers
  MaxSeconds, MaxLinkDrops  \* bounds: the clock, connections lost

ASSUME DialAssumption ==
  /\ IsFiniteSet(Url) /\ Seeds \subseteq Url
  /\ MaxBook \in Nat \ {0} /\ MaxAddrs \in Nat /\ MaxPeerCount \in Nat

VARIABLES
  book,      \* addrBook: a function from URLs to when they were last heard of
  link,      \* per URL: "none", "dialing", "peer", or "refused" until it closes
  asSeed,    \* per URL: its dial was made by dial(url, true)
  inbound,   \* URLs advertised by inbound peers
  redial,    \* seeds with a retry timer
  stopped,   \* close() was called
  second,    \* the clock, in seconds
  linkDrops  \* links lost so far

dialVars == <<book, link, asSeed, inbound, redial, stopped, second, linkDrops>>

DialInit ==
  /\ book = <<>>
  /\ link = [u \in Url |-> IF u \in Seeds THEN "dialing" ELSE "none"]
  /\ asSeed = [u \in Url |-> u \in Seeds]
  /\ inbound = {} /\ redial = {} /\ stopped = FALSE
  /\ second = 1 /\ linkDrops = 0
------------------------------------------------------------------------------
(* The address book *)

\* The books after addAddr(u): a full one forgets its oldest entry, never the
\* newcomer; which of equally old ones depends on the order they came in.
Oldest(b) == {v \in DOMAIN b : \A w \in DOMAIN b : b[v] <= b[w]}
Added(b, u) ==
  LET heard == [v \in DOMAIN b \cup {u} |-> IF v = u THEN second ELSE b[v]] IN
  CASE u = Own -> {b}
    [] u # Own /\ Cardinality(DOMAIN heard) <= MaxBook -> {heard}
    [] OTHER -> {Restrict(heard, DOMAIN heard \ {v}) : v \in Oldest(b)}

\* getDialCandidates: known, not this node, and not connected either way.
Connected == {u \in Url : link[u] = "peer"} \cup inbound
Candidates(b) == (DOMAIN b \ {Own}) \ Connected
PeerCount == Cardinality({u \in Url : link[u] = "peer"}) + Cardinality(inbound)
------------------------------------------------------------------------------
(* maintainPeers *)

\* dialing.has(url)
NotInFlight(u) == link[u] = "none"

\* fillOnce: while there are fewer peers than wanted, dial every candidate;
\* a dial in flight is not yet a peer.
Filled(b) ==
  IF stopped \/ PeerCount >= MaxOutbound THEN link
  ELSE [u \in Url |-> IF u \in Candidates(b) /\ NotInFlight(u) THEN "dialing" ELSE link[u]]
Fill(b) ==
  /\ link' = Filled(b)
  /\ asSeed' = [u \in Url |-> IF Filled(b)[u] # link[u] THEN FALSE ELSE asSeed[u]]

\* tick: the timer runs again and again until close.
FillTick ==
  /\ ~ stopped /\ Fill(book)
  /\ UNCHANGED <<book, inbound, redial, stopped, second, linkDrops>>

\* A dial succeeds: attachSocket, where connectPeer may have no room.
DialOpens(u) ==
  /\ link[u] = "dialing"
  /\ link' = [link EXCEPT ![u] = IF ~ stopped /\ PeerCount < MaxPeerCount THEN "peer" ELSE "refused"]
 
  /\ UNCHANGED <<book, asSeed, inbound, redial, stopped, second, linkDrops>>

\* Mutant: a timer is set although close() has run.
RetriesStopped(u) == asSeed[u]
Retries(u) == ~ stopped /\ asSeed[u]

\* The close event: a seed gets a timer, a discovered peer is left to the fill
\* loop; after close() nothing is dialed again.
LinkCloses(u) ==
  /\ link[u] # "none"
  /\ link[u] # "refused" => linkDrops < MaxLinkDrops /\ ~ stopped
  /\ linkDrops' = IF link[u] # "refused" THEN linkDrops + 1 ELSE linkDrops
  /\ link' = [link EXCEPT ![u] = "none"]
  /\ redial' = IF Retries(u) THEN redial \cup {u} ELSE redial
 
  /\ UNCHANGED <<book, asSeed, inbound, stopped, second>>

\* The retry timer: dial(url, true), which returns at once if the fill loop was
\* there first.
Redial(u) ==
  /\ u \in redial
  /\ redial' = redial \ {u}
  /\ IF NotInFlight(u)
     THEN link' = [link EXCEPT ![u] = "dialing"] /\ asSeed' = [asSeed EXCEPT ![u] = TRUE]
     ELSE UNCHANGED <<link, asSeed>>
 
  /\ UNCHANGED <<book, inbound, stopped, second, linkDrops>>

\* close(): timers are cleared and every socket terminated.
StopDialing ==
  /\ ~ stopped /\ stopped' = TRUE
  /\ redial' = {}
  /\ link' = [u \in Url |-> IF link[u] = "none" THEN "none" ELSE "refused"]
  /\ UNCHANGED <<book, asSeed, inbound, second, linkDrops>>

\* A peer that dialed this node advertises u, or leaves.
InboundPeer(u) ==
  /\ u # Own /\ u \notin inbound /\ PeerCount < MaxPeerCount
  /\ inbound' = inbound \cup {u}
  /\ book' \in Added(book, u)
  /\ UNCHANGED <<link, asSeed, redial, stopped, second, linkDrops>>
InboundLeaves(u) ==
  /\ u \in inbound /\ inbound' = inbound \ {u}
  /\ UNCHANGED <<book, link, asSeed, redial, stopped, second, linkDrops>>

\* beginPeerSync: an outbound peer's advertised URL, here the one dialed.
Advertises(u) ==
  /\ link[u] = "peer" /\ book' \in Added(book, u)
  /\ UNCHANGED <<link, asSeed, inbound, redial, stopped, second, linkDrops>>

\* The books after each number of a message's addresses.
Books(addrs) ==
  LET s[n \in 0 .. Len(addrs)] ==
        IF n = 0 THEN {book} ELSE UNION {Added(b, addrs[n]) : b \in s[n - 1]}
  IN  s

\* handleAddr: fresh ones are dialed at once (and relayed to the other peers).
HandleAddr(addrs) ==
  LET fresh == Range(addrs) \ (DOMAIN book \cup {Own}) IN
  /\ Connected # {}
  /\ \E b \in Books(addrs)[Len(addrs)] :
       /\ book' = b
       /\ IF fresh # {} THEN Fill(b) ELSE UNCHANGED <<link, asSeed>>
  /\ UNCHANGED <<inbound, redial, stopped, second, linkDrops>>

DialTick ==
  /\ second < MaxSeconds /\ second' = second + 1
  /\ UNCHANGED <<book, link, asSeed, inbound, redial, stopped, linkDrops>>

DialNext ==
  \/ FillTick \/ StopDialing \/ DialTick
  \/ \E u \in Url : DialOpens(u) \/ LinkCloses(u) \/ Redial(u) \/ InboundPeer(u)
                      \/ InboundLeaves(u) \/ Advertises(u)
  \/ \E addrs \in SeqOf(Url, MaxAddrs) : HandleAddr(addrs)

DialSpec == DialInit /\ [][DialNext]_dialVars
------------------------------------------------------------------------------
(* Properties *)

\* However closes, timers, fills and gossip interleave (dial, fillOnce,
\* addAddr): the book keeps its bound and never holds this node; there are no
\* more peers than allowed; nothing is dialed or scheduled once close() has run;
\* and, while the book has never been full, no seed is forgotten by a running
\* node: it is connected, in flight, due for a retry, or known to the fill loop.
DialInv ==
  /\ Cardinality(DOMAIN book) <= MaxBook /\ Own \notin DOMAIN book
  /\ PeerCount <= MaxPeerCount
  /\ stopped => redial = {} /\ \A u \in Url : link[u] \in {"none", "refused"}
  /\ ~ stopped /\ Cardinality(DOMAIN book) < MaxBook =>
       \A u \in Seeds : link[u] # "none" \/ u \in redial \cup DOMAIN book
==============================================================================
