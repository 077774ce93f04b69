------------------------------- MODULE PeerSync -------------------------------
(***************************************************************************)
(* How blocks travel between JGC nodes: the VERSION handshake, plain or    *)
(* authenticated (network/auth-session.ts), the headers-first catch-up     *)
(* that follows it, and the relay of new blocks (network/node.ts), over    *)
(* sockets that drop and are dialed again (network/transport.ts).          *)
(*                                                                         *)
(* A node's chain manager is reduced to the blocks it knows, its tip and   *)
(* its orphans: ChainNode shows what it does with them.  Every block is    *)
(* valid.  Address gossip, pings and other message types are left out.     *)
(***************************************************************************)
EXTENDS BlockTree, SequencesExt

CONSTANTS
  Node,       \* the nodes
  Link,       \* the pairs of nodes of which one keeps dialing the other
  Producer,   \* nodes that produce blocks
  AuthModes,  \* the values requirePeerAuthentication may have
  MaxDrops    \* bound: how often a socket closes

\* <<n, m>> is n's end of its connection with m.
End == {e \in Node \X Node : {e[1], e[2]} \in Link /\ e[1] # e[2]}
Other(e) == <<e[2], e[1]>>

VARIABLES
  auth,         \* config.requirePeerAuthentication, the same for all nodes
  known,        \* per node: ChainState.blocks
  tip,          \* per node: tipHash
  stash,        \* per node: blocks in ChainState.orphans
  open,         \* the links whose socket is open
  session,      \* per end: "none" (not a peer), "new", "keyed", "ready"
  startHeight,  \* per end: the height in the VERSION it received, -1 before
  inbox,        \* per end: frames sent to it and not yet handled
  serving,      \* per end: blocks its GETDATA handler has still to send
  drops         \* sockets closed so far

chains == <<known, tip, stash>>
vars == <<auth, chains, open, session, startHeight, inbox, serving, drops>>

Version(h) == [type |-> "VERSION", height |-> h]
Verack == [type |-> "VERACK"]
GetHeaders(b) == [type |-> "GETHEADERS", from |-> b]
Headers(s) == [type |-> "HEADERS", blocks |-> s]
GetData(s) == [type |-> "GETDATA", blocks |-> s]
BlockMsg(b) == [type |-> "BLOCK", block |-> b]

Message ==
  [type : {"VERSION"}, height : Nat] \cup {Verack}
    \cup [type : {"GETHEADERS"}, from : Block]
    \cup [type : {"HEADERS", "GETDATA"}, blocks : Seq(Block)]
    \cup [type : {"BLOCK"}, block : Block]

TypeOK ==
  /\ auth \in AuthModes
  /\ known \in [Node -> SUBSET Block]
  /\ tip \in [Node -> Block]
  /\ stash \in [Node -> SUBSET Block]
  /\ \A n \in Node : tip[n] \in known[n] /\ stash[n] \cap known[n] = {}
  /\ open \subseteq Link
  /\ session \in [End -> {"none", "new", "keyed", "ready"}]
  /\ startHeight \in [End -> Nat \cup {-1}]
  /\ inbox \in [End -> Seq(Message)]
  /\ serving \in [End -> Seq(Block)]
  /\ drops \in 0 .. MaxDrops

Init ==
  /\ auth \in AuthModes
  /\ known = [n \in Node |-> {Genesis}]
  /\ tip = [n \in Node |-> Genesis]
  /\ stash = [n \in Node |-> {}]
  /\ open = {}
  /\ session = [e \in End |-> "none"]
  /\ startHeight = [e \in End |-> -1]
  /\ inbox = [e \in End |-> <<>>]
  /\ serving = [e \in End |-> <<>>]
  /\ drops = 0
------------------------------------------------------------------------------
(* Sending *)

\* Mutant: nothing is held back during the handshake.
SealsAll(s, msg) == TRUE

\* AuthSession.seal at an end whose session is s: until the handshake is over
\* every message that is not part of it is dropped.  A plain socket sends all.
Seals(s, msg) ==
  \/ ~auth
  \/ msg.type = "VERSION"
  \/ s = "keyed" /\ msg.type = "VERACK"
  \/ s = "ready"

\* What goes out of an end in session s that is given msg to send.
Sealed(s, msg) == IF Seals(s, msg) THEN <<msg>> ELSE <<>>

\* The inboxes after each end e has sent out[e].
Sent(box, out) == [e \in End |-> box[e] \o out[Other(e)]]

Says(e, msgs) == [x \in End |-> IF x = e THEN msgs ELSE <<>>]

\* relayBlock: to every peer of n except the one the block came from.
Relays(n, b, except) ==
  [e \in End |-> IF e[1] = n /\ e # except /\ session[e] # "none"
                   THEN Sealed(session[e], BlockMsg(b)) ELSE <<>>]
------------------------------------------------------------------------------
(* Sockets *)

\* A dial succeeds; each end becomes a peer of its node on its own.
Open(l) ==
  /\ l \notin open
  /\ open' = open \cup {l}
  /\ UNCHANGED <<auth, chains, session, startHeight, inbox, serving, drops>>

\* connectPeer: the node registers the peer and sends it VERSION.
Attach(e) ==
  /\ {e[1], e[2]} \in open /\ session[e] = "none"
  /\ session' = [session EXCEPT ![e] = "new"]
  /\ inbox' = Sent(inbox, Says(e, Sealed("new", Version(Height(tip[e[1]])))))
  /\ UNCHANGED <<auth, chains, open, startHeight, serving, drops>>

\* The socket closes: disconnectPeer at both ends, undelivered frames are lost.
Drop(l) ==
  LET ends == {e \in End : {e[1], e[2]} = l} IN
  /\ l \in open /\ drops < MaxDrops
  /\ open' = open \ {l}
  /\ session' = [e \in End |-> IF e \in ends THEN "none" ELSE session[e]]
  /\ startHeight' = [e \in End |-> IF e \in ends THEN -1 ELSE startHeight[e]]
  /\ inbox' = [e \in End |-> IF e \in ends THEN <<>> ELSE inbox[e]]
  /\ serving' = [e \in End |-> IF e \in ends THEN <<>> ELSE serving[e]]
  /\ drops' = drops + 1
  /\ UNCHANGED <<auth, chains>>
------------------------------------------------------------------------------
(* Handlers.  The frames of one socket are handled one after the other. *)

Arrived(e) == Head(inbox[e])
Rest(e) == [inbox EXCEPT ![e] = Tail(@)]
Handles(e, type) ==
  /\ session[e] # "none" /\ serving[e] = <<>>
  /\ inbox[e] # <<>> /\ Arrived(e).type = type

\* AuthSession.open of an end whose session is s: one VERSION, then one VERACK,
\* then everything else; other frames throw and drop the peer.  A plain socket
\* has no such guard, and nothing but VERSION should reach it in session "new".
Accepts(s, msg) ==
  CASE msg.type = "VERSION" -> s = "new"
    [] msg.type = "VERACK" -> s = IF auth THEN "keyed" ELSE "ready"
    [] OTHER -> s = "ready"

\* beginPeerSync, of a ready session: headers are requested of a peer that
\* started ahead.
CatchUp(n, h) ==
  IF h > Height(tip[n]) THEN Sealed("ready", GetHeaders(tip[n])) ELSE <<>>

HandleVersion(e) ==
  /\ Handles(e, "VERSION")
  /\ session' = [session EXCEPT ![e] = IF auth THEN "keyed" ELSE "ready"]
  /\ startHeight' = [startHeight EXCEPT ![e] = Arrived(e).height]
  /\ inbox' = Sent(Rest(e), Says(e, Sealed(session'[e], Verack)
                                     \o IF auth THEN <<>> ELSE CatchUp(e[1], Arrived(e).height)))
  /\ UNCHANGED <<auth, chains, open, serving, drops>>

\* Mutant: the catch-up is left to the handler of VERSION.
HandleVerackOnly(e) ==
  /\ Handles(e, "VERACK")
  /\ session' = [session EXCEPT ![e] = IF auth THEN "ready" ELSE @]
  /\ inbox' = Rest(e)
  /\ UNCHANGED <<auth, chains, open, startHeight, serving, drops>>

HandleVerack(e) ==
  /\ Handles(e, "VERACK")
  /\ session' = [session EXCEPT ![e] = IF auth THEN "ready" ELSE @]
  /\ inbox' = Sent(Rest(e), Says(e, IF auth THEN CatchUp(e[1], startHeight[e]) ELSE <<>>))
  /\ UNCHANGED <<auth, chains, open, startHeight, serving, drops>>

\* findNextHash walks the active chain only: nothing follows any other block.
ActiveAfter(n, b) ==
  LET path == Ancestry[tip[n]] IN
  IF b \in ToSet(path) THEN SubSeq(path, Height(b) + 2, Len(path)) ELSE <<>>

HandleGetHeaders(e) ==
  /\ Handles(e, "GETHEADERS")
  /\ inbox' = Sent(Rest(e), Says(e, Sealed(session[e], Headers(ActiveAfter(e[1], Arrived(e).from)))))
  /\ UNCHANGED <<auth, chains, open, session, startHeight, serving, drops>>

HandleHeaders(e) ==
  LET wanted == SelectSeq(Arrived(e).blocks, LAMBDA b : b \notin known[e[1]]) IN
  /\ Handles(e, "HEADERS")
  /\ inbox' = Sent(Rest(e), Says(e, IF wanted = <<>> THEN <<>>
                                     ELSE Sealed(session[e], GetData(wanted))))
  /\ UNCHANGED <<auth, chains, open, session, startHeight, serving, drops>>

\* handleGetData awaits each send, so other messages may come in between.
HandleGetData(e) ==
  /\ Handles(e, "GETDATA")
  /\ inbox' = Rest(e)
  /\ serving' = [serving EXCEPT ![e] =
                   SelectSeq(Arrived(e).blocks, LAMBDA b : b \in known[e[1]])]
  /\ UNCHANGED <<auth, chains, open, session, startHeight, drops>>

ServeNext(e) ==
  /\ serving[e] # <<>>
  /\ serving' = [serving EXCEPT ![e] = Tail(@)]
  /\ inbox' = Sent(inbox, Says(e, Sealed(session[e], BlockMsg(Head(serving[e])))))
  /\ UNCHANGED <<auth, chains, open, session, startHeight, drops>>

Prefers(b, t) == PrefersChainTip(TotalWork[b], b, TotalWork[t], t)

\* Mutant: the orphans' own orphans stay stashed.
DrainedOnce(n, b) == {s \in stash[n] : Parent[s] = b}

\* drainOrphans: the stashed descendants of b that no gap separates from it.
Drained(n, b) ==
  {s \in stash[n] :
     /\ b \in ToSet(Ancestry[s])
     /\ \A x \in ToSet(Ancestry[s]) : x \in known[n] \cup stash[n] \cup {b}}

\* Where fork choice may end after learning new: at the tip it has, unless a
\* block that it prefers came with them.
NewTips(n, new) ==
  LET best == {b \in new \cup {tip[n]} :
                 \A x \in new \cup {tip[n]} : ~Prefers(x, b)}
  IN  IF tip[n] \in best THEN {tip[n]} ELSE best

\* Mutant: orphans stay stashed after they were drained.
UnstashNone(n, new) == UNCHANGED stash

Unstash(n, new) == stash' = [stash EXCEPT ![n] = @ \ new]

\* handleBlock: known blocks are skipped, orphans stashed; a block that becomes
\* active is relayed, the orphans it releases are not.
HandleBlock(e) ==
  LET n == e[1]
      b == Arrived(e).block
      new == {b} \cup Drained(n, b)
  IN
  /\ Handles(e, "BLOCK")
  /\ \/ /\ b \in known[n]
        /\ inbox' = Rest(e)
        /\ UNCHANGED chains
     \/ /\ b \notin known[n] /\ Parent[b] \notin known[n]
        /\ stash' = [stash EXCEPT ![n] = @ \cup {b}]
        /\ inbox' = Rest(e)
        /\ UNCHANGED <<known, tip>>
     \/ /\ b \notin known[n] /\ Parent[b] \in known[n]
        /\ known' = [known EXCEPT ![n] = @ \cup new]
        /\ Unstash(n, new)
        /\ \E t \in NewTips(n, new) : tip' = [tip EXCEPT ![n] = t]
        /\ inbox' = IF Prefers(b, tip[n])
                      THEN Sent(Rest(e), Relays(n, b, e))
                      ELSE Rest(e)
  /\ UNCHANGED <<auth, open, session, startHeight, serving, drops>>

\* submitBlock: a producer extends its tip and announces the block.
Produce(n, b) ==
  /\ n \in Producer /\ Parent[b] = tip[n]
  /\ \A m \in Node : b \notin known[m]
  /\ known' = [known EXCEPT ![n] = @ \cup {b}]
  /\ tip' = [tip EXCEPT ![n] = b]
  /\ inbox' = Sent(inbox, Relays(n, b, <<>>))
  /\ UNCHANGED <<auth, stash, open, session, startHeight, serving, drops>>
------------------------------------------------------------------------------
HandleFrame(e) ==
  \/ HandleVersion(e) \/ HandleVerack(e)
  \/ HandleGetHeaders(e) \/ HandleHeaders(e)
  \/ HandleGetData(e) \/ ServeNext(e)
  \/ HandleBlock(e)

Next ==
  \/ \E l \in Link : Open(l)
  \/ \E e \in End : Attach(e)
  \/ \E l \in Link : Drop(l)
  \/ \E e \in End : HandleFrame(e)
  \/ \E n \in Node, b \in Block \ {Genesis} : Produce(n, b)

\* connectToPeers dials again whenever a link is down; open sockets deliver.
Fairness ==
  /\ \A l \in Link : WF_vars(Open(l))
  /\ \A e \in End : WF_vars(Attach(e)) /\ WF_vars(HandleFrame(e))

Spec == Init /\ [][Next]_vars /\ Fairness
------------------------------------------------------------------------------
(* Properties *)

\* Two honest nodes never drop each other: whatever is relayed during the
\* handshake, the next frame is one the receiving end accepts in its session
\* (AuthSession.open; chain data before VERSION on a plain socket).
NoRefusal ==
  \A e \in End :
    session[e] # "none" /\ inbox[e] # <<>> => Accepts(session[e], Arrived(e))

\* "On (re)connection the VERSION handshake fires automatically; if the peer is
\* ahead, the node requests headers and catches up": a node reaches the height
\* that its peer announced, or the link goes down.
CatchesUp ==
  \A e \in End :
    (startHeight[e] > Height(tip[e[1]]))
      ~> (startHeight[e] <= Height(tip[e[1]]))

\* Nothing is in flight and every link is up with its handshake done: only a
\* new block or a lost socket can change anything.
AtRest ==
  /\ open = Link
  /\ \A e \in End : session[e] = "ready" /\ inbox[e] = <<>> /\ serving[e] = <<>>

\* Without authentication, nodes at rest have the same tip.
PlainInSyncAtRest == ~auth /\ AtRest => \A e \in End : tip[e[1]] = tip[e[2]]

\* Connected nodes end up on one chain: the one behind catches up, and plain
\* nodes that have nothing left to say to each other agree.
Converges == CatchesUp /\ []PlainInSyncAtRest

\* "Drop broadcasts until handshake completion; normal sync retrieves them" and
\* "the headers-first path will fetch the gap": nodes at rest wait for nothing.
GapIsFetched == AtRest => \A n \in Node : stash[n] = {}
==============================================================================
