------------------------------- MODULE PeerGuard -------------------------------
(***************************************************************************)
(* Who may be a peer of a node and for how long: the guard's host table    *)
(* (network/peer-guard.ts), connectPeer and disconnectPeer (network/       *)
(* node.ts), and the bounded queue of each socket (network/transport.ts).  *)
(*                                                                         *)
(* A frame is "good", "bad" (it does not decode) or "fatal" (its handler   *)
(* throws, or it breaks the handshake).  A closed socket's queue is        *)
(* emptied at once: the code drops its frames one by one, unhandled.       *)
(***************************************************************************)
EXTENDS Integers, FiniteSets, Sequences, Functions

CONSTANTS
  Host, Socket,
  MaxPeers,           \* config.maxPeers
  MaxInboundSockets,  \* the server's bound on sockets
  MaxInboundPerHost, MessagesPerWindow, MessageWindow, BanScore, BanDuration,
  Penalty,            \* PENALTY: of a "malformed" frame and of a "flood"
  MaxHosts,           \* MAX_PEER_GUARD_HOSTS
  MaxQueued,          \* MAX_QUEUED_PEER_MESSAGES
  HandshakeTime,      \* how long authentication may take
  MaxTime             \* bound on the clock

Frame == {"good", "bad", "fatal"}

VARIABLES
  hosts,   \* PeerGuard.hosts: a function on the hosts in the table
  socket,  \* per socket [phase, host, inbound, queue, window, count, since, ready];
           \* phase "peer": registered; "gone": terminated, its close event to come
  clock,   \* milliseconds, in units
  bans     \* history: per host, when the longest ban pronounced so far ends

guardVars == <<hosts, socket, clock, bans>>

Free == [phase |-> "free", host |-> CHOOSE h \in Host : TRUE, inbound |-> FALSE,
         queue |-> <<>>, window |-> 0, count |-> 0, since |-> 0, ready |-> FALSE]
FreshHost == [inbound |-> 0, connections |-> 0, lastSeen |-> clock, score |-> 0, bannedUntil |-> 0]

GuardInit ==
  /\ hosts = <<>>
  /\ socket = [s \in Socket |-> Free]
  /\ clock = 1
  /\ bans = [h \in Host |-> 0]

PeersAt(h) == {s \in Socket : socket[s].phase = "peer" /\ socket[s].host = h}
Peers == UNION {PeersAt(h) : h \in Host}
------------------------------------------------------------------------------
(* The host table *)

\* Mutant: a host with a connection may be forgotten.
EvictableConnected(h) == hosts[h].bannedUntil <= clock
\* Mutant: a banned host may be forgotten.
EvictableBanned(h) == hosts[h].connections = 0
\* Neither an active ban nor a connection is forgotten.
Evictable(h) ==
  /\ hosts[h].connections = 0 /\ hosts[h].bannedUntil <= clock
  /\ clock - hosts[h].lastSeen >= BanDuration

Full(table) == Cardinality(DOMAIN table) >= MaxHosts
Swept == IF Full(hosts) THEN Restrict(hosts, {h \in DOMAIN hosts : ~ Evictable(h)}) ELSE hosts

\* state(h): at the limit no entry is made, and the caller gets a state banned
\* for ever.
Seen(h) ==
  CASE h \in DOMAIN hosts -> [hosts EXCEPT ![h].lastSeen = clock]
    [] h \notin DOMAIN hosts /\ ~ Full(Swept) ->
         [x \in DOMAIN Swept \cup {h} |-> IF x = h THEN FreshHost ELSE Swept[x]]
    [] OTHER -> Swept

\* state(h), then expireBan.
Looked(h) ==
  LET table == Seen(h) IN
  IF h \in DOMAIN table /\ table[h].bannedUntil # 0 /\ table[h].bannedUntil <= clock
  THEN [table EXCEPT ![h].bannedUntil = 0, ![h].score = 0] ELSE table

Banned(table, h) == h \notin DOMAIN table \/ table[h].bannedUntil > clock

\* penalize
Score(h, violation) == Looked(h)[h].score + Penalty[violation]
Bans(h, violation) == Score(h, violation) >= BanScore
Penalized(h, violation) ==
  IF Bans(h, violation)
  THEN [Looked(h) EXCEPT ![h].bannedUntil = clock + BanDuration, ![h].score = 0]
  ELSE [Looked(h) EXCEPT ![h].score = Score(h, violation)]
Pronounced(h, violation) ==
  bans' = IF Bans(h, violation) THEN [bans EXCEPT ![h] = clock + BanDuration] ELSE bans

\* Mutant: a peer that leaves keeps its host's inbound slot.
ReleasedOutbound(table, s) == [table EXCEPT ![socket[s].host].connections = @ - 1]
\* release
Released(table, s) ==
  LET h == socket[s].host IN
  [table EXCEPT ![h].lastSeen = clock, ![h].connections = @ - 1,
                ![h].inbound = IF socket[s].inbound THEN @ - 1 ELSE @]
------------------------------------------------------------------------------
(* Sockets and peers *)

Terminated(s) == [socket EXCEPT ![s] = [@ EXCEPT !.phase = "gone", !.queue = <<>>]]

\* A socket opens: the server's bound, then connectPeer.
Connect(s, h, inbound) ==
  LET opened == [Free EXCEPT !.host = h, !.inbound = inbound, !.since = clock]
      table == Looked(h)
      served == {t \in Socket : socket[t].phase # "free" /\ socket[t].inbound}
      refused == Banned(table, h) \/ (inbound /\ table[h].inbound >= MaxInboundPerHost)
  IN /\ socket[s].phase = "free"
     /\ \/ /\ Cardinality(Peers) >= MaxPeers \/ (inbound /\ Cardinality(served) >= MaxInboundSockets)
           /\ socket' = [socket EXCEPT ![s] = [opened EXCEPT !.phase = "gone"]]
           /\ UNCHANGED hosts
        \/ /\ Cardinality(Peers) < MaxPeers
           /\ inbound => Cardinality(served) < MaxInboundSockets
           /\ hosts' = IF refused THEN table
                       ELSE [table EXCEPT ![h].connections = @ + 1,
                                          ![h].inbound = IF inbound THEN @ + 1 ELSE @]
           /\ socket' = [socket EXCEPT ![s] = [opened EXCEPT !.phase = IF refused THEN "gone" ELSE "peer"]]
     /\ UNCHANGED <<clock, bans>>

\* disconnectPeer and the end of the socket: the peer closed it, or a send to
\* it failed, or authentication took too long.
Lose(s) ==
  /\ socket[s].phase = "peer"
  /\ hosts' = Released(hosts, s)
  /\ \/ socket' = [socket EXCEPT ![s] = Free]
     \/ socket' = Terminated(s)
  /\ UNCHANGED <<clock, bans>>

HandshakeExpires(s) ==
  /\ socket[s].phase = "peer" /\ ~ socket[s].ready /\ clock >= socket[s].since + HandshakeTime
  /\ hosts' = Released(hosts, s) /\ socket' = Terminated(s)
  /\ UNCHANGED <<clock, bans>>

\* The close event of a terminated socket.
Closed(s) ==
  /\ socket[s].phase = "gone"
  /\ socket' = [socket EXCEPT ![s] = Free]
  /\ UNCHANGED <<hosts, clock, bans>>

\* A frame arrives: queued, or one too many.
Receive(s, frame) ==
  /\ socket[s].phase = "peer"
  /\ IF Len(socket[s].queue) >= MaxQueued
     THEN hosts' = Released(hosts, s) /\ socket' = Terminated(s)
     ELSE socket' = [socket EXCEPT ![s].queue = Append(@, frame)] /\ UNCHANGED hosts
  /\ UNCHANGED <<clock, bans>>

\* decodePeerMessage fails: reportPeerViolation.
HandleBad(s) ==
  LET h == socket[s].host IN
  /\ Pronounced(h, "malformed")
  /\ IF Bans(h, "malformed")
     THEN hosts' = Released(Penalized(h, "malformed"), s) /\ socket' = Terminated(s)
     ELSE /\ hosts' = Penalized(h, "malformed")
          /\ socket' = [socket EXCEPT ![s].queue = Tail(@)]

\* allowMessage, and the handler.
HandleDecoded(s, frame) ==
  LET h == socket[s].host
      anew == socket[s].count = 0 \/ clock - socket[s].window >= MessageWindow
      count == IF anew THEN 1 ELSE socket[s].count + 1
      flood == count > MessagesPerWindow
  IN \/ /\ Banned(Looked(h), h)
        /\ hosts' = Released(Looked(h), s) /\ socket' = Terminated(s) /\ UNCHANGED bans
     \/ /\ ~ Banned(Looked(h), h) /\ flood
        /\ Pronounced(h, "flood")
        /\ hosts' = Released(Penalized(h, "flood"), s) /\ socket' = Terminated(s)
     \/ /\ ~ Banned(Looked(h), h) /\ ~ flood /\ UNCHANGED bans
        /\ IF frame = "fatal"
           THEN hosts' = Released(Looked(h), s) /\ socket' = Terminated(s)
           ELSE /\ hosts' = Looked(h)
                /\ socket' = [socket EXCEPT ![s] = [socket[s] EXCEPT
                     !.queue = Tail(@), !.ready = TRUE, !.count = count,
                     !.window = IF anew THEN clock ELSE @]]

Handle(s) ==
  /\ socket[s].phase = "peer" /\ socket[s].queue # <<>>
  /\ IF Head(socket[s].queue) = "bad" THEN HandleBad(s)
     ELSE HandleDecoded(s, Head(socket[s].queue))
  /\ UNCHANGED clock

GuardTick == clock < MaxTime /\ clock' = clock + 1 /\ UNCHANGED <<hosts, socket, bans>>

GuardNext ==
  \/ \E s \in Socket, h \in Host, inbound \in BOOLEAN : Connect(s, h, inbound)
  \/ \E s \in Socket : Lose(s) \/ HandshakeExpires(s) \/ Closed(s) \/ Handle(s)
  \/ \E s \in Socket, frame \in Frame : Receive(s, frame)
  \/ GuardTick

GuardSpec == GuardInit /\ [][GuardNext]_guardVars
------------------------------------------------------------------------------
(* Properties *)

\* The table counts what is there (admit, release, state): every peer's host
\* is in it, its counters are the numbers of that host's peers, however they
\* came and went, so a slot is neither lost nor given twice; and the bounds hold.
GuardInv ==
  /\ \A s \in Peers : socket[s].host \in DOMAIN hosts
  /\ \A h \in DOMAIN hosts :
       /\ hosts[h].connections = Cardinality(PeersAt(h))
       /\ hosts[h].inbound = Cardinality({s \in PeersAt(h) : socket[s].inbound})
       /\ hosts[h].inbound <= MaxInboundPerHost
  /\ Cardinality(DOMAIN hosts) <= MaxHosts
  /\ \A s \in Socket : Len(socket[s].queue) <= MaxQueued

\* A ban is served in full (penalize, expireBan, state): while it runs the host
\* gets no new peer and none of its frames is handled, whatever happens to the
\* table meanwhile.
BanServed ==
  \A s \in Socket :
    LET h == socket'[s].host IN
    clock < bans[h] /\ socket'[s].phase = "peer" =>
      /\ socket[s].phase = "peer"
      /\ socket'[s].count = socket[s].count

BanHeld == [][BanServed]_guardVars
==============================================================================
