---------------------------- MODULE Peers_proofs ----------------------------
(***************************************************************************)
(* The host table counts the peers that are there, a ban is served in      *)
(* full, and the dialer forgets no seed, for any hosts, any finite number  *)
(* of sockets and URLs and any limits.  Nodes that run a handshake accept  *)
(* every frame of each other, on any network.                              *)
(***************************************************************************)
EXTENDS PeerGuard, PeerDialing, PeerSync, FiniteSetTheorems, SequenceTheorems, Sums

(* Admission and bans *)

GuardHypothesis ==
  /\ Host # {} /\ IsFiniteSet(Socket)
  /\ MaxHosts \in Nat /\ MaxInboundPerHost \in Nat /\ MaxQueued \in Nat
  /\ BanDuration \in Nat /\ MessageWindow \in Nat /\ MessagesPerWindow \in Nat
  /\ BanScore \in Nat /\ Penalty \in [{"malformed", "flood"} -> Nat]

Entry == [inbound : Int, connections : Int, lastSeen : Int, score : Int, bannedUntil : Int]
Phases == {"free", "peer", "gone"}
SocketState ==
  [phase : Phases, host : Host, inbound : BOOLEAN, queue : Seq(Frame),
   window : Int, count : Int, since : Int, ready : BOOLEAN]

PeersOf(sk, h) == {s \in Socket : sk[s].phase = "peer" /\ sk[s].host = h}
InboundOf(sk, h) == {s \in PeersOf(sk, h) : sk[s].inbound}

\* A table that is right for the sockets sk and the bans bn.
Counts(table, sk) ==
  /\ \A s \in Socket : sk[s].phase = "peer" => sk[s].host \in DOMAIN table
  /\ \A h \in DOMAIN table :
       /\ table[h].connections = Cardinality(PeersOf(sk, h))
       /\ table[h].inbound = Cardinality(InboundOf(sk, h))
       /\ table[h].inbound <= MaxInboundPerHost
Remembers(table, bn) ==
  \A h \in Host : clock < bn[h] => h \in DOMAIN table /\ table[h].bannedUntil >= bn[h]
Shaped(table) ==
  /\ IsFiniteSet(DOMAIN table) /\ Cardinality(DOMAIN table) <= MaxHosts
  /\ DOMAIN table \subseteq Host
  /\ \A h \in DOMAIN table : table[h] \in Entry
Sound(table, sk, bn) == Shaped(table) /\ Counts(table, sk) /\ Remembers(table, bn)

TableInv ==
  /\ socket \in [Socket -> SocketState]
  /\ clock \in Int /\ bans \in [Host -> Int]
  /\ \A s \in Socket : Len(socket[s].queue) <= MaxQueued
  /\ Sound(hosts, socket, bans)

LEMMA TableGivesGuard == TableInv => GuardInv
<1> SUFFICES ASSUME TableInv PROVE GuardInv
  OBVIOUS
<1>1. \A h \in DOMAIN hosts : PeersAt(h) = PeersOf(socket, h)
  BY DEF PeersAt, PeersOf
<1>2. \A h \in DOMAIN hosts :
        {s \in PeersAt(h) : socket[s].inbound} = InboundOf(socket, h)
  BY <1>1 DEF InboundOf
<1>3. \A s \in Peers : s \in Socket /\ socket[s].phase = "peer"
  BY DEF Peers, PeersAt
<1> QED BY <1>1, <1>2, <1>3 DEF TableInv, Sound, Shaped, Counts, GuardInv
------------------------------------------------------------------------------
(* What the guard does to a table *)

\* A table loses no peer's host and no running ban when it is swept.
LEMMA SweptSound ==
  ASSUME GuardHypothesis, TableInv
  PROVE  Sound(Swept, socket, bans)
<1> DEFINE kept == {h \in DOMAIN hosts : ~ Evictable(h)}
           T == Restrict(hosts, kept)
<1>1. DOMAIN T = kept /\ \A h \in kept : T[h] = hosts[h]
  BY DEF Restrict
<1>2. kept \subseteq DOMAIN hosts
  OBVIOUS
<1>3. Shaped(T)
  <2> HIDE DEF kept, T
  <2>1. IsFiniteSet(kept) /\ Cardinality(kept) <= Cardinality(DOMAIN hosts)
    BY <1>2, FS_Subset DEF TableInv, Sound, Shaped
  <2>2. Cardinality(kept) \in Nat /\ Cardinality(DOMAIN hosts) \in Nat
    BY <2>1, FS_CardinalityType DEF TableInv, Sound, Shaped
  <2> QED BY <1>1, <1>2, <2>1, <2>2 DEF TableInv, Sound, Shaped, GuardHypothesis
<1>4. \A s \in Socket : socket[s].phase = "peer" => socket[s].host \in kept
  <2> SUFFICES ASSUME NEW s \in Socket, socket[s].phase = "peer" PROVE socket[s].host \in kept
    OBVIOUS
  <2> DEFINE h == socket[s].host
  <2>1. h \in DOMAIN hosts /\ hosts[h].connections = Cardinality(PeersOf(socket, h))
    BY DEF TableInv, Sound, Counts
  <2>2. s \in PeersOf(socket, h) /\ IsFiniteSet(PeersOf(socket, h))
    <3>1. PeersOf(socket, h) \subseteq Socket
      BY DEF PeersOf
    <3>2. s \in PeersOf(socket, h)
      BY DEF PeersOf
    <3> QED BY <3>1, <3>2, FS_Subset DEF GuardHypothesis
  <2>3. Cardinality(PeersOf(socket, h)) # 0
    BY <2>2, FS_EmptySet
  <2> QED BY <2>1, <2>3 DEF Evictable
<1>5. \A h \in Host : clock < bans[h] => h \in kept
  <2> SUFFICES ASSUME NEW h \in Host, clock < bans[h] PROVE h \in kept
    OBVIOUS
  <2>1. h \in DOMAIN hosts /\ hosts[h].bannedUntil >= bans[h]
    BY DEF TableInv, Sound, Remembers
  <2>2. hosts[h].bannedUntil \in Int /\ bans[h] \in Int /\ clock \in Int
    BY <2>1 DEF TableInv, Sound, Shaped, Entry
  <2> QED BY <2>1, <2>2 DEF Evictable
<1> HIDE DEF kept, T
<1>6. Sound(T, socket, bans)
  BY <1>1, <1>2, <1>3, <1>4, <1>5 DEF TableInv, Sound, Counts, Remembers
<1>7. Swept = IF Full(hosts) THEN T ELSE hosts
  BY DEF Swept, T, kept
<1> QED BY <1>6, <1>7 DEF TableInv

\* Without a peer there is nothing to count.
LEMMA AbsentHasNone ==
  ASSUME NEW table, NEW sk, Counts(table, sk), NEW h, h \notin DOMAIN table
  PROVE  Cardinality(PeersOf(sk, h)) = 0 /\ Cardinality(InboundOf(sk, h)) = 0
<1>1. PeersOf(sk, h) = {} /\ InboundOf(sk, h) = {}
  BY DEF Counts, PeersOf, InboundOf
<1> QED BY <1>1, FS_EmptySet

LEMMA SeenSound ==
  ASSUME GuardHypothesis, TableInv, NEW h \in Host
  PROVE  Sound(Seen(h), socket, bans)
<1>1. CASE h \in DOMAIN hosts
  <2> DEFINE T == [hosts EXCEPT ![h].lastSeen = clock]
  <2>1. DOMAIN T = DOMAIN hosts /\ \A x \in DOMAIN hosts : x # h => T[x] = hosts[x]
    OBVIOUS
  <2>2. T[h] = [hosts[h] EXCEPT !.lastSeen = clock] /\ hosts[h] \in Entry
    BY <1>1 DEF TableInv, Sound, Shaped
  <2> HIDE DEF T
  <2>5. clock \in Int
    BY DEF TableInv
  <2>3. /\ T[h] \in Entry /\ T[h].connections = hosts[h].connections
        /\ T[h].inbound = hosts[h].inbound /\ T[h].bannedUntil = hosts[h].bannedUntil
    BY <2>2, <2>5 DEF Entry
  <2>4. Sound(T, socket, bans)
    BY <2>1, <2>3 DEF TableInv, Sound, Shaped, Counts, Remembers
  <2> QED BY <1>1, <2>4 DEF Seen, T
<1>2. CASE h \notin DOMAIN hosts /\ ~ Full(Swept)
  <2> DEFINE T == [x \in DOMAIN Swept \cup {h} |-> IF x = h THEN FreshHost ELSE Swept[x]]
  <2>1. Sound(Swept, socket, bans)
    BY SweptSound
  <2>2. h \notin DOMAIN Swept
    BY <1>2 DEF Swept, Restrict
  <2>3. /\ DOMAIN T = DOMAIN Swept \cup {h} /\ T[h] = FreshHost
        /\ \A x \in DOMAIN Swept : T[x] = Swept[x]
    BY <2>2
  <2>4. IsFiniteSet(DOMAIN T) /\ Cardinality(DOMAIN T) <= MaxHosts
    <3>1. /\ IsFiniteSet(DOMAIN Swept \cup {h})
          /\ Cardinality(DOMAIN Swept \cup {h}) = Cardinality(DOMAIN Swept) + 1
          /\ Cardinality(DOMAIN Swept) \in Nat
      BY <2>1, <2>2, FS_AddElement, FS_CardinalityType DEF Sound, Shaped
    <3> QED BY <1>2, <2>3, <3>1 DEF Full, GuardHypothesis
  <2>5. /\ FreshHost \in Entry /\ FreshHost.connections = 0 /\ FreshHost.inbound = 0
        /\ 0 <= MaxInboundPerHost
    BY DEF FreshHost, Entry, TableInv, GuardHypothesis
  <2>6. Cardinality(PeersOf(socket, h)) = 0 /\ Cardinality(InboundOf(socket, h)) = 0
    BY <2>1, <2>2, AbsentHasNone DEF Sound
  <2> HIDE DEF T
  <2>7. Sound(T, socket, bans)
    BY <2>1, <2>2, <2>3, <2>4, <2>5, <2>6 DEF Sound, Shaped, Counts, Remembers
  <2> QED BY <1>2, <2>7 DEF Seen, T
<1>3. CASE h \notin DOMAIN hosts /\ Full(Swept)
  BY <1>3, SweptSound DEF Seen
<1> QED BY <1>1, <1>2, <1>3

LEMMA LookedSound ==
  ASSUME GuardHypothesis, TableInv, NEW h \in Host
  PROVE  Sound(Looked(h), socket, bans)
<1> DEFINE S == Seen(h)
           T == [S EXCEPT ![h].bannedUntil = 0, ![h].score = 0]
<1>1. Sound(S, socket, bans)
  BY SeenSound
<1>2. Looked(h) = IF h \in DOMAIN S /\ S[h].bannedUntil # 0 /\ S[h].bannedUntil <= clock
                  THEN T ELSE S
  BY DEF Looked
<1> HIDE DEF S
<1>3. ASSUME h \in DOMAIN S, S[h].bannedUntil <= clock PROVE Sound(T, socket, bans)
  <2>1. DOMAIN T = DOMAIN S /\ \A x \in DOMAIN S : x # h => T[x] = S[x]
    OBVIOUS
  <2>2. S[h] \in Entry
    BY <1>1, <1>3 DEF Sound, Shaped
  <2>3. /\ T[h] \in Entry /\ T[h].connections = S[h].connections
        /\ T[h].inbound = S[h].inbound
    <3>1. T[h] = [S[h] EXCEPT !.bannedUntil = 0, !.score = 0]
      BY <1>3
    <3> HIDE DEF T
    <3>2. T[h] = [inbound |-> S[h].inbound, connections |-> S[h].connections,
                  lastSeen |-> S[h].lastSeen, score |-> 0, bannedUntil |-> 0]
      BY <3>1, <2>2 DEF Entry
    <3>3. S[h].inbound \in Int /\ S[h].connections \in Int /\ S[h].lastSeen \in Int
      BY <2>2 DEF Entry
    <3> QED BY <3>2, <3>3 DEF Entry
  <2>4. ~ (clock < bans[h])
    BY <1>1, <1>3, <2>2 DEF Sound, Remembers, Entry, TableInv
  <2> HIDE DEF T
  <2> QED BY <1>1, <1>3, <2>1, <2>3, <2>4 DEF Sound, Shaped, Counts, Remembers
<1> QED BY <1>1, <1>2, <1>3

\* After a penalty the table remembers the ban it pronounced.
Banning(h, violation) ==
  IF Bans(h, violation) THEN [bans EXCEPT ![h] = clock + BanDuration] ELSE bans

LEMMA BanningTyped ==
  ASSUME GuardHypothesis, TableInv, NEW h, NEW violation
  PROVE  Banning(h, violation) \in [Host -> Int]
<1>1. clock + BanDuration \in Int /\ bans \in [Host -> Int]
  BY DEF TableInv, GuardHypothesis
<1> QED BY <1>1 DEF Banning

LEMMA PenalizedSound ==
  ASSUME GuardHypothesis, TableInv, NEW h \in Host, NEW violation \in {"malformed", "flood"},
         h \in DOMAIN Looked(h)
  PROVE  Sound(Penalized(h, violation), socket, Banning(h, violation))
<1> DEFINE S == Looked(h)
           score == Score(h, violation)
           B == [S EXCEPT ![h].bannedUntil = clock + BanDuration, ![h].score = 0]
           P == [S EXCEPT ![h].score = score]
           bn == [bans EXCEPT ![h] = clock + BanDuration]
<1>1. Sound(S, socket, bans) /\ h \in DOMAIN S
  BY LookedSound
<1>2. S[h] \in Entry
  BY <1>1 DEF Sound, Shaped
<1>3. score \in Int
  <2>1. score = S[h].score + Penalty[violation] /\ S[h].score \in Int /\ Penalty[violation] \in Nat
    BY <1>2 DEF Score, Entry, GuardHypothesis
  <2> HIDE DEF score
  <2> QED BY <2>1
<1> HIDE DEF S, score
<1>4. Sound(P, socket, bans)
  <2>1. DOMAIN P = DOMAIN S /\ (\A x \in DOMAIN S : x # h => P[x] = S[x])
        /\ P[h] = [S[h] EXCEPT !.score = score]
    BY <1>1
  <2> HIDE DEF P
  <2>2. /\ P[h] \in Entry /\ P[h].connections = S[h].connections
        /\ P[h].inbound = S[h].inbound /\ P[h].bannedUntil = S[h].bannedUntil
    BY <1>2, <1>3, <2>1 DEF Entry
  <2> QED BY <1>1, <2>1, <2>2 DEF Sound, Shaped, Counts, Remembers
<1>5. Sound(B, socket, bn)
  <2>1. DOMAIN B = DOMAIN S /\ (\A x \in DOMAIN S : x # h => B[x] = S[x])
        /\ B[h] = [S[h] EXCEPT !.bannedUntil = clock + BanDuration, !.score = 0]
    BY <1>1
  <2>2. clock + BanDuration \in Int
    BY DEF TableInv, GuardHypothesis
  <2>3. bn[h] = clock + BanDuration /\ \A x \in Host : x # h => bn[x] = bans[x]
    BY DEF TableInv
  <2> HIDE DEF B, bn
  <2>4. /\ B[h] \in Entry /\ B[h].connections = S[h].connections
        /\ B[h].inbound = S[h].inbound /\ B[h].bannedUntil = clock + BanDuration
    <3>1. B[h] = [inbound |-> S[h].inbound, connections |-> S[h].connections,
                  lastSeen |-> S[h].lastSeen, score |-> 0, bannedUntil |-> clock + BanDuration]
      BY <1>2, <2>1 DEF Entry
    <3>2. S[h].inbound \in Int /\ S[h].connections \in Int /\ S[h].lastSeen \in Int
      BY <1>2 DEF Entry
    <3> QED BY <2>2, <3>1, <3>2 DEF Entry
  <2>5. B[h].bannedUntil >= bn[h]
    BY <2>2, <2>3, <2>4
  <2> QED BY <1>1, <2>1, <2>3, <2>4, <2>5 DEF Sound, Shaped, Counts, Remembers
<1>6. /\ Penalized(h, violation) = IF Bans(h, violation) THEN B ELSE P
      /\ Banning(h, violation) = IF Bans(h, violation) THEN bn ELSE bans
  BY DEF Penalized, Banning, S, score
<1> HIDE DEF B, P, bn
<1> QED BY <1>4, <1>5, <1>6
------------------------------------------------------------------------------
(* What happens to the sockets *)

\* Only phase, host and direction of a socket matter to the table.
LEMMA SameCounts ==
  ASSUME NEW table, NEW sk, NEW new, NEW bn, Sound(table, sk, bn),
         \A s \in Socket : /\ (new[s].phase = "peer" <=> sk[s].phase = "peer")
                           /\ (sk[s].phase = "peer" => /\ new[s].host = sk[s].host
                                                       /\ new[s].inbound = sk[s].inbound)
  PROVE  Sound(table, new, bn)
<1>1. \A h : PeersOf(new, h) = PeersOf(sk, h) /\ InboundOf(new, h) = InboundOf(sk, h)
  BY DEF PeersOf, InboundOf
<1> QED BY <1>1 DEF Sound, Counts

LEMMA PeersFinite ==
  ASSUME GuardHypothesis, NEW sk, NEW h
  PROVE  IsFiniteSet(PeersOf(sk, h)) /\ IsFiniteSet(InboundOf(sk, h))
<1>1. PeersOf(sk, h) \subseteq Socket /\ InboundOf(sk, h) \subseteq Socket
  BY DEF PeersOf, InboundOf
<1> QED BY <1>1, FS_Subset DEF GuardHypothesis

\* A peer leaves, and its host is released.
LEMMA ReleasedSound ==
  ASSUME GuardHypothesis, TableInv, NEW table, NEW bn, Sound(table, socket, bn),
         NEW s \in Socket, socket[s].phase = "peer",
         NEW new, new[s].phase # "peer", \A t \in Socket \ {s} : new[t] = socket[t]
  PROVE  Sound(Released(table, s), new, bn)
<1> DEFINE h == socket[s].host
           T == Released(table, s)
<1>1. h \in DOMAIN table /\ table[h] \in Entry
  BY DEF Sound, Counts, Shaped
<1>2. /\ DOMAIN T = DOMAIN table /\ \A x \in DOMAIN table : x # h => T[x] = table[x]
      /\ T[h] = [table[h] EXCEPT !.lastSeen = clock, !.connections = @ - 1,
                                 !.inbound = IF socket[s].inbound THEN @ - 1 ELSE @]
  BY <1>1 DEF Released
<1>3. PeersOf(new, h) = PeersOf(socket, h) \ {s} /\ s \in PeersOf(socket, h)
  BY DEF PeersOf
<1>4. \A x : x # h => PeersOf(new, x) = PeersOf(socket, x) /\ InboundOf(new, x) = InboundOf(socket, x)
  BY DEF PeersOf, InboundOf
<1>5. InboundOf(new, h) = InboundOf(socket, h) \ {s} /\ (s \in InboundOf(socket, h) <=> socket[s].inbound)
  BY <1>3 DEF InboundOf, PeersOf
<1> HIDE DEF T, h
<1>0. IsFiniteSet(PeersOf(socket, h)) /\ IsFiniteSet(InboundOf(socket, h))
  BY PeersFinite
<1>6a. Cardinality(PeersOf(new, h)) = Cardinality(PeersOf(socket, h)) - 1
  BY <1>0, <1>3, FS_RemoveElement
<1>6b. Cardinality(InboundOf(new, h)) = IF socket[s].inbound THEN Cardinality(InboundOf(socket, h)) - 1
                                       ELSE Cardinality(InboundOf(socket, h))
  BY <1>0, <1>5, FS_RemoveElement
<1>7. /\ T[h] \in Entry /\ T[h].connections = table[h].connections - 1
      /\ T[h].inbound = IF socket[s].inbound THEN table[h].inbound - 1 ELSE table[h].inbound
      /\ T[h].bannedUntil = table[h].bannedUntil
  <2> DEFINE c == table[h].connections - 1
             i == IF socket[s].inbound THEN table[h].inbound - 1 ELSE table[h].inbound
  <2>1. c \in Int /\ i \in Int /\ clock \in Int
    BY <1>1 DEF Entry, TableInv
  <2>2. T[h] = [table[h] EXCEPT !.lastSeen = clock, !.connections = c, !.inbound = i]
    BY <1>2
  <2> HIDE DEF c, i
  <2>3. T[h] \in Entry /\ T[h].connections = c /\ T[h].inbound = i
        /\ T[h].bannedUntil = table[h].bannedUntil
    <3>1. T[h] = [inbound |-> i, connections |-> c, lastSeen |-> clock,
                  score |-> table[h].score, bannedUntil |-> table[h].bannedUntil]
      BY <1>1, <2>2 DEF Entry
    <3>2. table[h].score \in Int /\ table[h].bannedUntil \in Int
      BY <1>1 DEF Entry
    <3> QED BY <2>1, <3>1, <3>2 DEF Entry
  <2> QED BY <2>3 DEF c, i
<1>8. T[h].inbound <= MaxInboundPerHost
  BY <1>1, <1>7 DEF Sound, Counts, Entry, GuardHypothesis
<1>9. Shaped(T)
  BY <1>2, <1>7 DEF Sound, Shaped
<1>10. Counts(T, new)
  <2>1. \A t \in Socket : new[t].phase = "peer" => new[t].host \in DOMAIN T
    BY <1>2 DEF Sound, Counts
  <2>2. ASSUME NEW x \in DOMAIN T
        PROVE  /\ T[x].connections = Cardinality(PeersOf(new, x))
               /\ T[x].inbound = Cardinality(InboundOf(new, x))
               /\ T[x].inbound <= MaxInboundPerHost
    <3>1. CASE x = h
      BY <1>1, <1>6a, <1>6b, <1>7, <1>8, <3>1 DEF Sound, Counts
    <3>2. CASE x # h
      BY <1>2, <1>4, <3>2 DEF Sound, Counts
    <3> QED BY <3>1, <3>2
  <2> QED BY <2>1, <2>2 DEF Counts
<1>11. Remembers(T, bn)
  BY <1>2, <1>7 DEF Sound, Remembers
<1> QED BY <1>9, <1>10, <1>11 DEF Sound, T

\* A socket becomes a peer of a host that has a slot left, and is counted.
LEMMA AdmittedSound ==
  ASSUME GuardHypothesis, TableInv, NEW s \in Socket, socket[s].phase # "peer",
         NEW h \in Host, NEW incoming \in BOOLEAN,
         NEW table, Sound(table, socket, bans), h \in DOMAIN table,
         incoming => table[h].inbound < MaxInboundPerHost,
         NEW new, new[s].phase = "peer", new[s].host = h, new[s].inbound = incoming,
         \A t \in Socket \ {s} : new[t] = socket[t]
  PROVE  Sound([table EXCEPT ![h].connections = @ + 1,
                             ![h].inbound = IF incoming THEN @ + 1 ELSE @], new, bans)
<1> DEFINE T == [table EXCEPT ![h].connections = @ + 1, ![h].inbound = IF incoming THEN @ + 1 ELSE @]
<1>1. table[h] \in Entry
  BY DEF Sound, Shaped
<1>2. /\ DOMAIN T = DOMAIN table /\ \A x \in DOMAIN table : x # h => T[x] = table[x]
      /\ T[h] = [table[h] EXCEPT !.connections = @ + 1, !.inbound = IF incoming THEN @ + 1 ELSE @]
  OBVIOUS
<1>3. PeersOf(new, h) = PeersOf(socket, h) \cup {s} /\ s \notin PeersOf(socket, h)
  BY DEF PeersOf
<1>4. \A x : x # h => PeersOf(new, x) = PeersOf(socket, x) /\ InboundOf(new, x) = InboundOf(socket, x)
  BY DEF PeersOf, InboundOf
<1>5. /\ InboundOf(new, h) = IF incoming THEN InboundOf(socket, h) \cup {s} ELSE InboundOf(socket, h)
      /\ s \notin InboundOf(socket, h)
  <2>1. \A t \in PeersOf(socket, h) : t # s /\ new[t] = socket[t]
    BY <1>3 DEF PeersOf
  <2>2. CASE incoming
    BY <1>3, <2>1, <2>2 DEF InboundOf
  <2>3. CASE ~ incoming
    BY <1>3, <2>1, <2>3 DEF InboundOf
  <2> QED BY <2>2, <2>3
<1>0. IsFiniteSet(PeersOf(socket, h)) /\ IsFiniteSet(InboundOf(socket, h))
  BY PeersFinite
<1>6a. Cardinality(PeersOf(new, h)) = Cardinality(PeersOf(socket, h)) + 1
  <2>1. Cardinality(PeersOf(socket, h) \cup {s}) = Cardinality(PeersOf(socket, h)) + 1
    BY <1>0, <1>3, FS_AddElement
  <2> QED BY <1>3, <2>1
<1>6b. Cardinality(InboundOf(new, h)) = IF incoming THEN Cardinality(InboundOf(socket, h)) + 1
                                       ELSE Cardinality(InboundOf(socket, h))
  <2>1. CASE incoming
    <3>1. /\ InboundOf(new, h) = InboundOf(socket, h) \cup {s}
          /\ s \notin InboundOf(socket, h)
      BY <1>5, <2>1
    <3>2. Cardinality(InboundOf(socket, h) \cup {s}) = Cardinality(InboundOf(socket, h)) + 1
      BY <1>0, <3>1, FS_AddElement
    <3> QED BY <2>1, <3>1, <3>2
  <2>2. CASE ~ incoming
    BY <1>5, <2>2
  <2> QED BY <2>1, <2>2
<1> HIDE DEF T
<1>7. /\ T[h] \in Entry /\ T[h].connections = table[h].connections + 1
      /\ T[h].inbound = IF incoming THEN table[h].inbound + 1 ELSE table[h].inbound
      /\ T[h].bannedUntil = table[h].bannedUntil
  <2> DEFINE c == table[h].connections + 1
             i == IF incoming THEN table[h].inbound + 1 ELSE table[h].inbound
  <2>1. c \in Int /\ i \in Int
    BY <1>1 DEF Entry
  <2>2. T[h] = [table[h] EXCEPT !.connections = c, !.inbound = i]
    BY <1>2
  <2> HIDE DEF c, i
  <2>3. T[h] \in Entry /\ T[h].connections = c /\ T[h].inbound = i
        /\ T[h].bannedUntil = table[h].bannedUntil
    <3>1. T[h] = [inbound |-> i, connections |-> c, lastSeen |-> table[h].lastSeen,
                  score |-> table[h].score, bannedUntil |-> table[h].bannedUntil]
      BY <1>1, <2>2 DEF Entry
    <3>2. /\ table[h].lastSeen \in Int /\ table[h].score \in Int
          /\ table[h].bannedUntil \in Int
      BY <1>1 DEF Entry
    <3> QED BY <2>1, <3>1, <3>2 DEF Entry
  <2> QED BY <2>3 DEF c, i
<1>8. T[h].inbound <= MaxInboundPerHost
  <2>1. table[h].inbound \in Int /\ table[h].inbound <= MaxInboundPerHost
    BY <1>1 DEF Sound, Counts, Entry
  <2> QED BY <1>7, <2>1 DEF GuardHypothesis
<1>9. Shaped(T)
  BY <1>2, <1>7 DEF Sound, Shaped
<1>10. Counts(T, new)
  <2>1. \A t \in Socket : new[t].phase = "peer" => new[t].host \in DOMAIN T
    BY <1>2 DEF Sound, Counts
  <2>2. ASSUME NEW x \in DOMAIN T
        PROVE  /\ T[x].connections = Cardinality(PeersOf(new, x))
               /\ T[x].inbound = Cardinality(InboundOf(new, x))
               /\ T[x].inbound <= MaxInboundPerHost
    <3>1. CASE x = h
      BY <1>1, <1>6a, <1>6b, <1>7, <1>8, <3>1 DEF Sound, Counts
    <3>2. CASE x # h
      BY <1>2, <1>4, <3>2 DEF Sound, Counts
    <3> QED BY <3>1, <3>2
  <2> QED BY <2>1, <2>2 DEF Counts
<1>11. Remembers(T, bans)
  BY <1>2, <1>7 DEF Sound, Remembers
<1> QED BY <1>9, <1>10, <1>11 DEF Sound, T
------------------------------------------------------------------------------
(* Every step keeps the table right and serves the bans *)

LEMMA Carries ==
  ASSUME clock \in Int, clock' \in Int, clock' >= clock,
         socket' \in [Socket -> SocketState], bans' \in [Host -> Int],
         \A s \in Socket : Len(socket'[s].queue) <= MaxQueued,
         Sound(hosts', socket', bans')
  PROVE  TableInv'
<1>1. Shaped(hosts)'
  BY DEF Sound, Shaped, Entry
<1>2. Counts(hosts, socket)'
  BY DEF Sound, Counts, PeersOf, InboundOf
<1>3. Remembers(hosts, bans)'
  BY DEF Sound, Shaped, Remembers, Entry
<1> QED BY <1>1, <1>2, <1>3 DEF TableInv, Sound, SocketState, Phases

LEMMA FreeTyped == GuardHypothesis => Free \in SocketState /\ Free.phase = "free" /\ Free.queue = <<>>
<1>1. GuardHypothesis => (CHOOSE h \in Host : TRUE) \in Host
  BY DEF GuardHypothesis
<1> QED BY <1>1 DEF Free, SocketState, Phases

\* A socket that stops being a peer.
LEMMA LeftTyped ==
  ASSUME GuardHypothesis, TableInv, NEW s \in Socket,
         NEW new \in {[socket EXCEPT ![s] = Free], Terminated(s)}
  PROVE  /\ new \in [Socket -> SocketState] /\ new[s].phase # "peer"
         /\ \A t \in Socket \ {s} : new[t] = socket[t]
         /\ \A t \in Socket : Len(new[t].queue) <= MaxQueued
<1>1. socket[s] \in SocketState /\ socket \in [Socket -> SocketState]
  BY DEF TableInv
<1>2. CASE new = [socket EXCEPT ![s] = Free]
  BY <1>1, <1>2, FreeTyped DEF TableInv, GuardHypothesis
<1>3. CASE new = Terminated(s)
  <2> DEFINE e == [socket[s] EXCEPT !.phase = "gone", !.queue = <<>>]
  <2>1. e \in SocketState /\ e.phase = "gone" /\ e.queue = <<>>
    <3> DEFINE f == [socket[s] EXCEPT !.phase = "gone"]
    <3>1. f \in SocketState /\ f.phase = "gone"
      BY <1>1 DEF SocketState, Phases
    <3>2. e = [f EXCEPT !.queue = <<>>]
      BY <1>1 DEF SocketState
    <3>3. <<>> \in Seq(Frame)
      OBVIOUS
    <3> HIDE DEF e, f
    <3>4. e.phase = "gone" /\ e.queue = <<>>
      BY <3>1, <3>2 DEF SocketState
    <3>5. e \in SocketState
      BY <3>1, <3>2, <3>3 DEF SocketState
    <3> QED BY <3>4, <3>5
  <2>2. new = [socket EXCEPT ![s] = e]
    BY <1>3 DEF Terminated
  <2> HIDE DEF e
  <2> QED BY <1>1, <2>1, <2>2 DEF TableInv, GuardHypothesis
<1> QED BY <1>2, <1>3

LEMMA LeavingKeeps ==
  ASSUME GuardHypothesis, TableInv, NEW s \in Socket, socket[s].phase = "peer",
         NEW table, Sound(table, socket, bans'), bans' \in [Host -> Int],
         hosts' = Released(table, s), clock' = clock,
         socket' \in {[socket EXCEPT ![s] = Free], Terminated(s)}
  PROVE  TableInv' /\ BanServed
<1>1. /\ socket' \in [Socket -> SocketState] /\ socket'[s].phase # "peer"
      /\ \A t \in Socket \ {s} : socket'[t] = socket[t]
      /\ \A t \in Socket : Len(socket'[t].queue) <= MaxQueued
  BY LeftTyped
<1>2. Sound(hosts', socket', bans')
  BY <1>1, ReleasedSound
<1>3. TableInv'
  BY <1>1, <1>2, Carries DEF TableInv
<1>4. BanServed
  BY <1>1 DEF BanServed
<1> QED BY <1>3, <1>4

LEMMA LoseKeeps ==
  ASSUME GuardHypothesis, TableInv, NEW s \in Socket, Lose(s) \/ HandshakeExpires(s)
  PROVE  TableInv' /\ BanServed
<1>1. /\ socket[s].phase = "peer" /\ hosts' = Released(hosts, s)
      /\ socket' \in {[socket EXCEPT ![s] = Free], Terminated(s)}
      /\ clock' = clock /\ bans' = bans
  BY DEF Lose, HandshakeExpires
<1>2. Sound(hosts, socket, bans') /\ bans' \in [Host -> Int]
  BY <1>1 DEF TableInv
<1> QED BY <1>1, <1>2, LeavingKeeps

\* A step of the sockets alone that makes no peer and counts no frame.
LEMMA QuietKeeps ==
  ASSUME GuardHypothesis, TableInv, NEW s \in Socket, UNCHANGED <<hosts, clock, bans>>,
         NEW e \in SocketState, socket' = [socket EXCEPT ![s] = e], Len(e.queue) <= MaxQueued,
         e.phase = "peer" <=> socket[s].phase = "peer",
         e.phase = "peer" => /\ e.host = socket[s].host /\ e.inbound = socket[s].inbound
                             /\ e.count = socket[s].count
  PROVE  TableInv' /\ BanServed
<1>1. /\ socket' \in [Socket -> SocketState] /\ socket'[s] = e
      /\ \A t \in Socket \ {s} : socket'[t] = socket[t]
  BY DEF TableInv
<1>2. Sound(hosts, socket, bans)
  BY DEF TableInv
<1>3. \A t \in Socket :
        /\ (socket'[t].phase = "peer" <=> socket[t].phase = "peer")
        /\ (socket[t].phase = "peer" => /\ socket'[t].host = socket[t].host
                                        /\ socket'[t].inbound = socket[t].inbound)
  BY <1>1
<1>4. Sound(hosts, socket', bans)
  BY <1>2, <1>3, SameCounts
<1>5. Sound(hosts', socket', bans')
  BY <1>4
<1>6. \A t \in Socket : Len(socket'[t].queue) <= MaxQueued
  BY <1>1 DEF TableInv
<1>7. TableInv'
  BY <1>1, <1>5, <1>6, Carries DEF TableInv
<1>8. BanServed
  BY <1>1 DEF BanServed
<1> QED BY <1>7, <1>8

LEMMA ClosedKeeps ==
  ASSUME GuardHypothesis, TableInv, NEW s \in Socket, Closed(s)
  PROVE  TableInv' /\ BanServed
<1>1. Free \in SocketState /\ Free.phase = "free" /\ Len(Free.queue) <= MaxQueued
  BY FreeTyped DEF GuardHypothesis
<1> QED BY <1>1, QuietKeeps DEF Closed

LEMMA ReceiveKeeps ==
  ASSUME GuardHypothesis, TableInv, NEW s \in Socket, NEW frame \in Frame, Receive(s, frame)
  PROVE  TableInv' /\ BanServed
<1>1. CASE Len(socket[s].queue) >= MaxQueued
  <2>1. /\ socket[s].phase = "peer" /\ hosts' = Released(hosts, s) /\ socket' = Terminated(s)
        /\ clock' = clock /\ bans' = bans
    BY <1>1 DEF Receive
  <2>2. Sound(hosts, socket, bans') /\ bans' \in [Host -> Int]
    BY <2>1 DEF TableInv
  <2> QED BY <2>1, <2>2, LeavingKeeps
<1>2. CASE ~ (Len(socket[s].queue) >= MaxQueued)
  <2> DEFINE q == Append(socket[s].queue, frame)
             e == [socket[s] EXCEPT !.queue = q]
  <2>1. socket[s] \in SocketState /\ socket[s].queue \in Seq(Frame)
    BY DEF TableInv, SocketState
  <2>2. q \in Seq(Frame) /\ Len(q) = Len(socket[s].queue) + 1 /\ Len(socket[s].queue) \in Nat
    BY <2>1
  <2>3. Len(q) <= MaxQueued
    BY <1>2, <2>2 DEF GuardHypothesis
  <2>4. socket' = [socket EXCEPT ![s] = e] /\ UNCHANGED <<hosts, clock, bans>>
    BY <1>2 DEF Receive
  <2> HIDE DEF q
  <2>5. /\ e \in SocketState /\ e.queue = q /\ e.phase = socket[s].phase
        /\ e.host = socket[s].host /\ e.inbound = socket[s].inbound /\ e.count = socket[s].count
    BY <2>1, <2>2 DEF SocketState
  <2> HIDE DEF e
  <2> QED BY <2>3, <2>4, <2>5, QuietKeeps
<1> QED BY <1>1, <1>2

\* A step that leaves the peers as they are, over a table that is right.
LEMMA StayingKeeps ==
  ASSUME GuardHypothesis, TableInv, NEW s \in Socket, clock' = clock, bans' \in [Host -> Int],
         Sound(hosts', socket, bans'),
         NEW e \in SocketState, socket' = [socket EXCEPT ![s] = e], Len(e.queue) <= MaxQueued,
         e.phase = "peer" <=> socket[s].phase = "peer",
         e.phase = "peer" => e.host = socket[s].host /\ e.inbound = socket[s].inbound
  PROVE  TableInv'
<1>1. /\ socket' \in [Socket -> SocketState] /\ socket'[s] = e
      /\ \A t \in Socket \ {s} : socket'[t] = socket[t]
  BY DEF TableInv
<1>2. \A t \in Socket :
        /\ (socket'[t].phase = "peer" <=> socket[t].phase = "peer")
        /\ (socket[t].phase = "peer" => /\ socket'[t].host = socket[t].host
                                        /\ socket'[t].inbound = socket[t].inbound)
  BY <1>1
<1>3. Sound(hosts', socket', bans')
  BY <1>2, SameCounts
<1>4. \A t \in Socket : Len(socket'[t].queue) <= MaxQueued
  BY <1>1 DEF TableInv
<1> QED BY <1>1, <1>3, <1>4, Carries DEF TableInv

\* A host whose ban runs is banned in every table that is right.
LEMMA RunningBan ==
  ASSUME TableInv, NEW table, Sound(table, socket, bans), NEW h \in Host, clock < bans[h]
  PROVE  Banned(table, h)
<1>1. h \in DOMAIN table /\ table[h].bannedUntil >= bans[h]
  BY DEF Sound, Remembers
<1>2. table[h].bannedUntil \in Int /\ bans[h] \in Int /\ clock \in Int
  BY <1>1 DEF Sound, Shaped, Entry, TableInv
<1> QED BY <1>1, <1>2 DEF Banned

Opened(h, incoming, phase) ==
  [[Free EXCEPT !.host = h, !.inbound = incoming, !.since = clock] EXCEPT !.phase = phase]

LEMMA OpenedTyped ==
  ASSUME GuardHypothesis, TableInv, NEW h \in Host, NEW incoming \in BOOLEAN, NEW phase \in Phases
  PROVE  LET e == Opened(h, incoming, phase)
         IN /\ e \in SocketState /\ e.phase = phase /\ e.host = h /\ e.inbound = incoming
            /\ e.queue = <<>>
<1> DEFINE f == [Free EXCEPT !.host = h, !.inbound = incoming, !.since = clock]
           e == Opened(h, incoming, phase)
<1>1. clock \in Int
  BY DEF TableInv
<1>2. f \in SocketState /\ f.host = h /\ f.inbound = incoming /\ f.queue = <<>>
  <2>1. Free \in SocketState /\ Free.queue = <<>>
    BY FreeTyped
  <2> QED BY <1>1, <2>1 DEF SocketState
<1>3. e = [f EXCEPT !.phase = phase]
  BY DEF Opened
<1> HIDE DEF e, f
<1>4. e \in SocketState /\ e.phase = phase /\ e.host = h /\ e.inbound = incoming /\ e.queue = <<>>
  BY <1>2, <1>3 DEF SocketState
<1> QED BY <1>4 DEF e

LEMMA ConnectKeeps ==
  ASSUME GuardHypothesis, TableInv, NEW s \in Socket, NEW h \in Host, NEW incoming \in BOOLEAN,
         Connect(s, h, incoming)
  PROVE  TableInv' /\ BanServed
<1> DEFINE table == Looked(h)
           refused == Banned(table, h) \/ (incoming /\ table[h].inbound >= MaxInboundPerHost)
           gone == Opened(h, incoming, "gone")
           peer == Opened(h, incoming, "peer")
<1>1. socket[s].phase = "free" /\ clock' = clock /\ bans' = bans
  BY DEF Connect
<1>2. Sound(table, socket, bans) /\ Sound(hosts, socket, bans) /\ bans \in [Host -> Int]
  BY LookedSound DEF TableInv
<1>3. \/ socket' = [socket EXCEPT ![s] = gone] /\ hosts' \in {hosts, table}
      \/ /\ socket' = [socket EXCEPT ![s] = peer] /\ ~ refused
         /\ hosts' = [table EXCEPT ![h].connections = @ + 1,
                                   ![h].inbound = IF incoming THEN @ + 1 ELSE @]
  BY DEF Connect, Opened
<1>4. /\ gone \in SocketState /\ gone.phase = "gone" /\ gone.queue = <<>>
      /\ peer \in SocketState /\ peer.phase = "peer" /\ peer.queue = <<>>
      /\ peer.host = h /\ peer.inbound = incoming
  BY OpenedTyped DEF Phases
<1> HIDE DEF gone, peer, table
<1>5. Len(gone.queue) <= MaxQueued /\ Len(peer.queue) <= MaxQueued
  BY <1>4 DEF GuardHypothesis
<1>6. CASE socket' = [socket EXCEPT ![s] = gone] /\ hosts' \in {hosts, table}
  <2>1. Sound(hosts', socket, bans')
    BY <1>1, <1>2, <1>6
  <2>2. TableInv'
    BY <1>1, <1>2, <1>4, <1>5, <1>6, <2>1, StayingKeeps
  <2>3. BanServed
    BY <1>4, <1>6 DEF BanServed, TableInv
  <2> QED BY <2>2, <2>3
<1>7. CASE /\ socket' = [socket EXCEPT ![s] = peer] /\ ~ refused
           /\ hosts' = [table EXCEPT ![h].connections = @ + 1,
                                     ![h].inbound = IF incoming THEN @ + 1 ELSE @]
  <2>1. h \in DOMAIN table /\ ~ Banned(table, h)
    BY <1>7 DEF Banned
  <2>2. incoming => table[h].inbound < MaxInboundPerHost
    <3>1. table[h].inbound \in Int
      BY <1>2, <2>1 DEF Sound, Shaped, Entry
    <3> QED BY <1>7, <3>1 DEF GuardHypothesis
  <2>3. /\ socket' \in [Socket -> SocketState] /\ socket'[s] = peer
        /\ \A t \in Socket \ {s} : socket'[t] = socket[t]
    BY <1>4, <1>7 DEF TableInv
  <2>4. Sound(hosts', socket', bans)
    <3>1. Sound([table EXCEPT ![h].connections = @ + 1,
                              ![h].inbound = IF incoming THEN @ + 1 ELSE @], socket', bans)
      <4> DEFINE new == socket'
      <4>1. /\ new[s].phase = "peer" /\ new[s].host = h /\ new[s].inbound = incoming
            /\ socket[s].phase # "peer"
        BY <1>1, <1>4, <2>3
      <4>2. \A t \in Socket \ {s} : new[t] = socket[t]
        BY <2>3
      <4>3. h \in DOMAIN table /\ Sound(table, socket, bans)
        BY <1>2, <2>1
      <4> HIDE DEF new
      <4>4. Sound([table EXCEPT ![h].connections = @ + 1,
                                ![h].inbound = IF incoming THEN @ + 1 ELSE @], new, bans)
        BY <2>2, <4>1, <4>2, <4>3, AdmittedSound
      <4> QED BY <4>4 DEF new
    <3>2. hosts' = [table EXCEPT ![h].connections = @ + 1,
                                 ![h].inbound = IF incoming THEN @ + 1 ELSE @]
      BY <1>7
    <3> QED BY <3>1, <3>2
  <2>5. \A t \in Socket : Len(socket'[t].queue) <= MaxQueued
    BY <1>5, <2>3 DEF TableInv
  <2>6. TableInv'
    BY <1>1, <1>2, <2>3, <2>4, <2>5, Carries DEF TableInv
  <2>7. ~ (clock < bans[h])
    BY <1>2, <2>1, RunningBan
  <2>8. BanServed
    BY <1>4, <2>3, <2>7 DEF BanServed
  <2> QED BY <2>6, <2>8
<1> QED BY <1>3, <1>6, <1>7

\* The host of a peer is in the table after any look at it.
LEMMA PeerLooked ==
  ASSUME GuardHypothesis, TableInv, NEW s \in Socket, socket[s].phase = "peer"
  PROVE  socket[s].host \in Host /\ socket[s].host \in DOMAIN Looked(socket[s].host)
<1>1. socket[s].host \in Host
  BY DEF TableInv, SocketState
<1>2. Sound(Looked(socket[s].host), socket, bans)
  BY <1>1, LookedSound
<1> QED BY <1>1, <1>2 DEF Sound, Counts

\* The socket once its first frame is out of its queue.
LEMMA TailTyped ==
  ASSUME GuardHypothesis, TableInv, NEW s \in Socket, socket[s].queue # <<>>
  PROVE  LET e == [socket[s] EXCEPT !.queue = Tail(@)]
         IN /\ e \in SocketState /\ Len(e.queue) <= MaxQueued /\ e.phase = socket[s].phase
            /\ e.host = socket[s].host /\ e.inbound = socket[s].inbound /\ e.count = socket[s].count
<1> DEFINE q == Tail(socket[s].queue)
           e == [socket[s] EXCEPT !.queue = q]
<1>1. socket[s] \in SocketState /\ socket[s].queue \in Seq(Frame)
  BY DEF TableInv, SocketState
<1>2. q \in Seq(Frame) /\ Len(q) = Len(socket[s].queue) - 1 /\ Len(socket[s].queue) \in Nat
  BY <1>1
<1>3. Len(socket[s].queue) <= MaxQueued
  BY DEF TableInv
<1>4. Len(q) <= MaxQueued
  BY <1>2, <1>3 DEF GuardHypothesis
<1> HIDE DEF q
<1>5. /\ e \in SocketState /\ e.queue = q /\ e.phase = socket[s].phase
      /\ e.host = socket[s].host /\ e.inbound = socket[s].inbound /\ e.count = socket[s].count
  BY <1>1, <1>2 DEF SocketState
<1> QED BY <1>4, <1>5 DEF e, q

LEMMA BadKeeps ==
  ASSUME GuardHypothesis, TableInv, NEW s \in Socket, socket[s].phase = "peer",
         socket[s].queue # <<>>, HandleBad(s), clock' = clock
  PROVE  TableInv' /\ BanServed
<1> DEFINE h == socket[s].host
<1>1. bans' = Banning(h, "malformed")
  BY DEF HandleBad, Pronounced, Banning
<1>2. bans' \in [Host -> Int]
  BY <1>1, BanningTyped
<1>3. Sound(Penalized(h, "malformed"), socket, bans')
  BY <1>1, PeerLooked, PenalizedSound
<1>4. CASE Bans(h, "malformed")
  <2>1. hosts' = Released(Penalized(h, "malformed"), s) /\ socket' = Terminated(s)
    BY <1>4 DEF HandleBad
  <2> QED BY <1>2, <1>3, <2>1, LeavingKeeps
<1>5. CASE ~ Bans(h, "malformed")
  <2> DEFINE e == [socket[s] EXCEPT !.queue = Tail(@)]
  <2>1. hosts' = Penalized(h, "malformed") /\ socket' = [socket EXCEPT ![s] = e]
    BY <1>5 DEF HandleBad
  <2>2. /\ e \in SocketState /\ Len(e.queue) <= MaxQueued /\ e.phase = socket[s].phase
        /\ e.host = socket[s].host /\ e.inbound = socket[s].inbound /\ e.count = socket[s].count
    BY TailTyped
  <2> HIDE DEF e
  <2>3. Sound(hosts', socket, bans')
    BY <1>3, <2>1
  <2>4. TableInv'
    BY <1>2, <2>1, <2>2, <2>3, StayingKeeps
  <2>5. BanServed
    BY <2>1, <2>2 DEF BanServed, TableInv
  <2> QED BY <2>4, <2>5
<1> QED BY <1>4, <1>5

LEMMA DecodedKeeps ==
  ASSUME GuardHypothesis, TableInv, NEW s \in Socket, socket[s].phase = "peer",
         socket[s].queue # <<>>, NEW frame \in Frame, HandleDecoded(s, frame), clock' = clock
  PROVE  TableInv' /\ BanServed
<1> DEFINE h == socket[s].host
           anew == socket[s].count = 0 \/ clock - socket[s].window >= MessageWindow
           count == IF anew THEN 1 ELSE socket[s].count + 1
           e == [socket[s] EXCEPT !.queue = Tail(@), !.ready = TRUE, !.count = count,
                                  !.window = IF anew THEN clock ELSE @]
<1>1. h \in Host /\ h \in DOMAIN Looked(h) /\ Sound(Looked(h), socket, bans)
  BY PeerLooked, LookedSound
<1>2. bans \in [Host -> Int]
  BY DEF TableInv
<1>3. \/ hosts' = Released(Looked(h), s) /\ socket' = Terminated(s) /\ bans' = bans
      \/ /\ hosts' = Released(Penalized(h, "flood"), s) /\ socket' = Terminated(s)
         /\ bans' = Banning(h, "flood")
      \/ /\ hosts' = Looked(h) /\ socket' = [socket EXCEPT ![s] = e] /\ bans' = bans
         /\ ~ Banned(Looked(h), h)
  BY DEF HandleDecoded, Pronounced, Banning
<1>4. CASE hosts' = Released(Looked(h), s) /\ socket' = Terminated(s) /\ bans' = bans
  BY <1>1, <1>2, <1>4, LeavingKeeps
<1>5. CASE /\ hosts' = Released(Penalized(h, "flood"), s) /\ socket' = Terminated(s)
           /\ bans' = Banning(h, "flood")
  <2>1. Sound(Penalized(h, "flood"), socket, bans')
    BY <1>1, <1>5, PenalizedSound
  <2>2. bans' \in [Host -> Int]
    BY <1>5, BanningTyped
  <2> QED BY <1>5, <2>1, <2>2, LeavingKeeps
<1>6. CASE /\ hosts' = Looked(h) /\ socket' = [socket EXCEPT ![s] = e] /\ bans' = bans
           /\ ~ Banned(Looked(h), h)
  <2> DEFINE f == [socket[s] EXCEPT !.queue = Tail(@)]
             window == IF anew THEN clock ELSE socket[s].window
  <2>1. /\ f \in SocketState /\ Len(f.queue) <= MaxQueued /\ f.phase = socket[s].phase
        /\ f.host = socket[s].host /\ f.inbound = socket[s].inbound
    BY TailTyped
  <2>2. count \in Int /\ window \in Int
    BY DEF TableInv, SocketState
  <2>3. e = [f EXCEPT !.ready = TRUE, !.count = count, !.window = window]
    BY DEF TableInv, SocketState
  <2> HIDE DEF f, count, window, e
  <2>4. /\ e \in SocketState /\ e.queue = f.queue /\ e.phase = f.phase
        /\ e.host = f.host /\ e.inbound = f.inbound
    BY <2>1, <2>2, <2>3 DEF SocketState
  <2>5. TableInv'
    BY <1>1, <1>2, <1>6, <2>1, <2>4, StayingKeeps
  <2>6. ~ (clock < bans[h])
    BY <1>1, <1>6, RunningBan
  <2>7. BanServed
    BY <1>6, <2>1, <2>4, <2>6 DEF BanServed, TableInv
  <2> QED BY <2>5, <2>7
<1> QED BY <1>3, <1>4, <1>5, <1>6

LEMMA HandleKeeps ==
  ASSUME GuardHypothesis, TableInv, NEW s \in Socket, Handle(s)
  PROVE  TableInv' /\ BanServed
<1>1. Head(socket[s].queue) \in Frame /\ socket[s].queue # <<>> /\ socket[s].phase = "peer"
  BY DEF Handle, TableInv, SocketState
<1> QED BY <1>1, BadKeeps, DecodedKeeps DEF Handle

LEMMA TickKeeps ==
  ASSUME GuardHypothesis, TableInv, GuardTick \/ UNCHANGED guardVars
  PROVE  TableInv' /\ BanServed
<1>1. /\ clock \in Int /\ clock' \in Int /\ clock' >= clock
      /\ hosts' = hosts /\ socket' = socket /\ bans' = bans
  BY DEF GuardTick, guardVars, TableInv
<1>2. TableInv'
  BY <1>1, Carries DEF TableInv
<1>3. BanServed
  BY <1>1 DEF BanServed
<1> QED BY <1>2, <1>3
------------------------------------------------------------------------------
(* The two theorems *)

LEMMA StepKeeps ==
  ASSUME GuardHypothesis, TableInv, [GuardNext]_guardVars
  PROVE  TableInv' /\ BanServed
<1>1. ASSUME NEW s \in Socket, NEW h \in Host, NEW incoming \in BOOLEAN, Connect(s, h, incoming)
      PROVE  TableInv' /\ BanServed
  BY <1>1, ConnectKeeps
<1>2. ASSUME NEW s \in Socket, Lose(s) \/ HandshakeExpires(s)
      PROVE  TableInv' /\ BanServed
  BY <1>2, LoseKeeps
<1>3. ASSUME NEW s \in Socket, Closed(s) PROVE TableInv' /\ BanServed
  BY <1>3, ClosedKeeps
<1>4. ASSUME NEW s \in Socket, Handle(s) PROVE TableInv' /\ BanServed
  BY <1>4, HandleKeeps
<1>5. ASSUME NEW s \in Socket, NEW frame \in Frame, Receive(s, frame)
      PROVE  TableInv' /\ BanServed
  BY <1>5, ReceiveKeeps
<1>6. CASE GuardTick \/ UNCHANGED guardVars
  BY <1>6, TickKeeps
<1> QED BY <1>1, <1>2, <1>3, <1>4, <1>5, <1>6 DEF GuardNext

LEMMA InitRight ==
  ASSUME GuardHypothesis, GuardInit
  PROVE  TableInv
<1>1. /\ DOMAIN hosts = {} /\ clock = 1 /\ bans = [h \in Host |-> 0]
      /\ socket = [s \in Socket |-> Free]
  BY DEF GuardInit
<1>2. Free \in SocketState /\ Free.phase = "free" /\ Len(Free.queue) <= MaxQueued
  BY FreeTyped DEF GuardHypothesis
<1>3. IsFiniteSet(DOMAIN hosts) /\ Cardinality(DOMAIN hosts) <= MaxHosts
  BY <1>1, FS_EmptySet DEF GuardHypothesis
<1>4. Sound(hosts, socket, bans)
  BY <1>1, <1>2, <1>3 DEF Sound, Shaped, Counts, Remembers
<1> QED BY <1>1, <1>2, <1>4 DEF TableInv

\* The counters of every host are the numbers of its peers, no peer's host is
\* forgotten, and the bounds hold (PeerGuard.admit, release, state).
THEOREM CountersAreRight ==
  ASSUME GuardHypothesis
  PROVE  GuardSpec => []GuardInv
<1>1. GuardInit => TableInv
  BY InitRight
<1>2. TableInv /\ [GuardNext]_guardVars => TableInv'
  BY StepKeeps
<1>3. TableInv => GuardInv
  BY TableGivesGuard
<1> QED BY <1>1, <1>2, <1>3, PTL DEF GuardSpec

\* A banned host gets no peer and has no frame handled while its ban runs
\* (PeerGuard.penalize, expireBan, allowMessage).
THEOREM BansAreServed ==
  ASSUME GuardHypothesis
  PROVE  GuardSpec => BanHeld
<1>1. GuardInit => TableInv
  BY InitRight
<1>2. TableInv /\ [GuardNext]_guardVars => TableInv' /\ [BanServed]_guardVars
  BY StepKeeps
<1> QED BY <1>1, <1>2, PTL DEF GuardSpec, BanHeld
------------------------------------------------------------------------------
(* Dialing *)

\* A book within its bound, without this node.
Kept(b) ==
  /\ DOMAIN b \subseteq Url /\ Own \notin DOMAIN b
  /\ Cardinality(DOMAIN b) <= MaxBook

\* Nothing leaves a book that is not full.
Leads(b, c) ==
  Cardinality(DOMAIN c) < MaxBook =>
    DOMAIN b \subseteq DOMAIN c /\ Cardinality(DOMAIN b) < MaxBook

\* Who dialed a seed that is not idle, and what brings an idle one back.
SeedsHeld ==
  ~ stopped /\ Cardinality(DOMAIN book) < MaxBook =>
    \A u \in Seeds :
      /\ link[u] = "none" => u \in redial \cup DOMAIN book
      /\ link[u] # "none" /\ ~ asSeed[u] => u \in DOMAIN book

DialIInv ==
  /\ link \in [Url -> {"none", "dialing", "peer", "refused"}]
  /\ asSeed \in [Url -> BOOLEAN] /\ inbound \subseteq Url
  /\ Kept(book)
  /\ PeerCount <= MaxPeerCount
  /\ stopped => redial = {} /\ \A u \in Url : link[u] \in {"none", "refused"}
  /\ SeedsHeld

LEMMA BookSize ==
  ASSUME DialAssumption, NEW S \in SUBSET Url
  PROVE  IsFiniteSet(S) /\ Cardinality(S) \in Nat
BY FS_Subset, FS_CardinalityType DEF DialAssumption

LEMMA AddedKept ==
  ASSUME DialAssumption, NEW b, Kept(b), NEW u \in Url, NEW c \in Added(b, u)
  PROVE  Kept(c) /\ Leads(b, c)
<1> DEFINE heard == [v \in DOMAIN b \cup {u} |-> IF v = u THEN second ELSE b[v]]
<1>1. /\ DOMAIN b \subseteq Url /\ Own \notin DOMAIN b /\ Cardinality(DOMAIN b) \in Nat
      /\ Cardinality(DOMAIN b) <= MaxBook /\ MaxBook \in Nat
      /\ DOMAIN heard = DOMAIN b \cup {u}
  BY BookSize DEF Kept, DialAssumption
<1>2. /\ IsFiniteSet(DOMAIN heard) /\ Cardinality(DOMAIN heard) \in Nat
      /\ Cardinality(DOMAIN heard) <= Cardinality(DOMAIN b) + 1
      /\ Cardinality(DOMAIN b) <= Cardinality(DOMAIN heard)
  <2>1. IsFiniteSet(DOMAIN b)
    BY <1>1, BookSize
  <2>2. CASE u \in DOMAIN b
    <3>1. DOMAIN heard = DOMAIN b
      BY <1>1, <2>2
    <3> HIDE DEF heard
    <3> QED BY <1>1, <2>1, <3>1
  <2>3. CASE u \notin DOMAIN b
    <3>1. /\ IsFiniteSet(DOMAIN b \cup {u})
          /\ Cardinality(DOMAIN b \cup {u}) = Cardinality(DOMAIN b) + 1
      BY <2>1, <2>3, FS_AddElement
    <3> HIDE DEF heard
    <3> QED BY <1>1, <3>1
  <2> QED BY <2>2, <2>3
<1> HIDE DEF heard
<1>3. CASE u = Own
  <2>1. c = b
    BY <1>3 DEF Added
  <2> QED BY <2>1 DEF Leads
<1>4. CASE u # Own /\ Cardinality(DOMAIN heard) <= MaxBook
  <2>1. c = heard
    BY <1>4 DEF Added, heard
  <2> QED BY <1>1, <1>2, <1>4, <2>1 DEF Kept, Leads
<1>5. CASE u # Own /\ ~ (Cardinality(DOMAIN heard) <= MaxBook)
  <2>1. PICK v \in Oldest(b) : c = Restrict(heard, DOMAIN heard \ {v})
    BY <1>5 DEF Added, heard
  <2>2. v \in DOMAIN heard /\ DOMAIN c = DOMAIN heard \ {v}
    BY <1>1, <2>1 DEF Oldest, Restrict
  <2>3. Cardinality(DOMAIN c) = Cardinality(DOMAIN heard) - 1
    BY <1>2, <2>2, FS_RemoveElement
  <2> QED BY <1>1, <1>2, <1>5, <2>2, <2>3 DEF Kept, Leads
<1> QED BY <1>3, <1>4, <1>5

LEMMA LeadsOn ==
  ASSUME NEW a, NEW b, NEW c, Leads(a, b), Leads(b, c)
  PROVE  Leads(a, c)
BY DEF Leads

\* Each address is added to the books that those before it left.
LEMMA BooksStep ==
  ASSUME NEW addrs, Len(addrs) \in Nat
  PROVE  /\ Books(addrs)[0] = {book}
         /\ \A i \in 1 .. Len(addrs) :
              Books(addrs)[i] = UNION {Added(b, addrs[i]) : b \in Books(addrs)[i - 1]}
<1> DEFINE Step(f, i) == IF i = 0 THEN {book} ELSE UNION {Added(b, addrs[i]) : b \in f[i - 1]}
           Is(f, n) == f = [i \in 0 .. n |-> Step(f, i)]
           N == {n \in Nat : \E f : Is(f, n)}
<1>1. 0 \in N
  <2> DEFINE f == [i \in 0 .. 0 |-> {book}]
  <2>1. Is(f, 0)
    BY SMT
  <2> QED BY <2>1
<1>2. ASSUME NEW n \in N PROVE n + 1 \in N
  <2>1. PICK f : Is(f, n)
    OBVIOUS
  <2>2. n \in Nat
    OBVIOUS
  <2> DEFINE g == [i \in 0 .. n + 1 |-> IF i = n + 1 THEN Step(f, i) ELSE f[i]]
  <2>3. \A i \in 0 .. n : f[i] = Step(f, i)
    BY <2>1
  <2>4. \A i \in 0 .. n + 1 : g[i] = Step(g, i)
    <3> SUFFICES ASSUME NEW i \in 0 .. n + 1 PROVE g[i] = Step(g, i)
      OBVIOUS
    <3>1. CASE i = 0
      <4>1. Step(g, 0) = {book} /\ Step(f, 0) = {book}
        OBVIOUS
      <4>2. g[0] = f[0] /\ 0 \in 0 .. n
        BY <2>2
      <4> HIDE DEF g, Step
      <4> QED BY <2>3, <3>1, <4>1, <4>2
    <3>2. CASE i # 0
      <4>1. i - 1 \in 0 .. n /\ i - 1 # n + 1 /\ i - 1 \in 0 .. n + 1
        BY <2>2, <3>2
      <4>2. g[i - 1] = f[i - 1]
        BY <4>1
      <4>3. i # n + 1 => i \in 0 .. n
        BY <2>2
      <4> QED BY <2>3, <3>2, <4>2, <4>3
    <3> QED BY <3>1, <3>2
  <2>5. g = [i \in 0 .. n + 1 |-> g[i]]
    OBVIOUS
  <2> HIDE DEF g, Step
  <2>6. Is(g, n + 1)
    BY <2>4, <2>5
  <2> QED BY <2>2, <2>6
<1>3. N = Nat
  <2>1. N \in SUBSET Nat
    OBVIOUS
  <2> HIDE DEF N
  <2> QED BY <1>1, <1>2, <2>1, Induction
<1> DEFINE s == Books(addrs)
<1>4. s = CHOOSE f : Is(f, Len(addrs))
  BY DEF Books
<1>5. \E f : Is(f, Len(addrs))
  BY <1>3
<1> HIDE DEF s, Is
<1>6. Is(s, Len(addrs))
  BY <1>4, <1>5
<1>7. s = [i \in 0 .. Len(addrs) |-> Step(s, i)]
  BY <1>6 DEF Is
<1>8. DOMAIN s = 0 .. Len(addrs) /\ \A i \in 0 .. Len(addrs) : s[i] = Step(s, i)
  BY <1>7
<1>9. 0 \in 0 .. Len(addrs) /\ \A i \in 1 .. Len(addrs) : i \in 0 .. Len(addrs) /\ i # 0
  OBVIOUS
<1> QED BY <1>8, <1>9 DEF s

LEMMA BooksKept ==
  ASSUME DialAssumption, Kept(book), NEW addrs \in SeqOf(Url, MaxAddrs),
         NEW c \in Books(addrs)[Len(addrs)]
  PROVE  Kept(c) /\ Leads(book, c)
<1> DEFINE S == {n \in 0 .. Len(addrs) : \A b \in Books(addrs)[n] : Kept(b) /\ Leads(book, b)}
<1>1. Len(addrs) \in Nat /\ \A i \in 1 .. Len(addrs) : addrs[i] \in Url
  BY DEF SeqOf, DialAssumption
<1>2. 0 \in S
  BY <1>1, BooksStep DEF Leads
<1>3. ASSUME NEW n \in 1 .. Len(addrs), n - 1 \in S PROVE n \in S
  <2>1. SUFFICES ASSUME NEW b \in Books(addrs)[n] PROVE Kept(b) /\ Leads(book, b)
    BY <1>1
  <2>2. PICK a \in Books(addrs)[n - 1] : b \in Added(a, addrs[n])
    BY <1>1, <2>1, BooksStep
  <2>3. Kept(a) /\ Leads(book, a) /\ addrs[n] \in Url
    BY <1>1, <1>3
  <2>4. Kept(b) /\ Leads(a, b)
    BY <2>2, <2>3, AddedKept
  <2> QED BY <2>3, <2>4, LeadsOn
<1>4. 0 .. Len(addrs) \subseteq S
  <2> HIDE DEF S
  <2> QED BY <1>1, <1>2, <1>3, Along
<1>5. Len(addrs) \in 0 .. Len(addrs)
  BY <1>1
<1> QED BY <1>4, <1>5

LEMMA DialStarts == ASSUME DialAssumption, DialInit PROVE DialIInv
<1>1. DOMAIN book = {} /\ {u \in Url : link[u] = "peer"} = {} /\ inbound = {}
  BY DEF DialInit
<1>2. Cardinality({}) = 0
  BY FS_EmptySet
<1>3. PeerCount <= MaxPeerCount
  <2>1. PeerCount = 0 + 0
    BY <1>1, <1>2 DEF PeerCount
  <2> QED BY <2>1 DEF DialAssumption
<1>4. Kept(book)
  BY <1>1, <1>2 DEF Kept, DialAssumption
<1>5. asSeed \in [Url -> BOOLEAN]
  <2>1. \A u \in Url : (u \in Seeds) \in BOOLEAN
    OBVIOUS
  <2> QED BY <2>1, Zenon DEF DialInit
<1>6. link \in [Url -> {"none", "dialing", "peer", "refused"}] /\ stopped = FALSE
  BY DEF DialInit
<1>7. \A u \in Seeds : link[u] = "dialing" /\ asSeed[u]
  BY DEF DialInit, DialAssumption
<1> QED BY <1>1, <1>3, <1>4, <1>5, <1>6, <1>7 DEF DialIInv, SeedsHeld

\* The fill loop makes nobody a peer, and dials what is in the book.
LEMMA FillKeeps ==
  ASSUME DialAssumption, DialIInv, NEW b, Kept(b), Leads(book, b), book' = b, Fill(b),
         UNCHANGED <<inbound, redial, stopped>>
  PROVE  DialIInv'
<1>1. /\ link' \in [Url -> {"none", "dialing", "peer", "refused"}]
      /\ asSeed' \in [Url -> BOOLEAN]
      /\ \A u \in Url :
           \/ link'[u] = link[u] /\ asSeed'[u] = asSeed[u]
           \/ /\ ~ stopped /\ u \in DOMAIN b /\ link[u] = "none"
              /\ link'[u] = "dialing" /\ asSeed'[u] = FALSE
  BY DEF DialIInv, Fill, Filled, Candidates, NotInFlight
<1>2. {u \in Url : link'[u] = "peer"} = {u \in Url : link[u] = "peer"}
  BY <1>1
<1>3. PeerCount' = PeerCount
  BY <1>2 DEF PeerCount
<1>4. stopped => \A u \in Url : link'[u] = link[u]
  BY <1>1
<1>5. SeedsHeld'
  BY <1>1 DEF DialIInv, SeedsHeld, Leads, DialAssumption
<1> QED BY <1>1, <1>3, <1>4, <1>5 DEF DialIInv

\* Only the book and the inbound peers change.
LEMMA BookKeeps ==
  ASSUME DialAssumption, DialIInv, Kept(book'), Leads(book, book'),
         inbound' \subseteq Url, PeerCount' <= MaxPeerCount,
         UNCHANGED <<link, asSeed, redial, stopped>>
  PROVE  DialIInv'
<1>1. SeedsHeld'
  BY DEF DialIInv, SeedsHeld, Leads, DialAssumption
<1> QED BY <1>1 DEF DialIInv

LEMMA OpensKeeps == ASSUME DialAssumption, DialIInv, NEW u \in Url, DialOpens(u) PROVE DialIInv'
<1>1. ~ stopped
  BY DEF DialIInv, DialOpens
<1>2. link' \in [Url -> {"none", "dialing", "peer", "refused"}]
  BY DEF DialIInv, DialOpens
<1>3. PeerCount' <= MaxPeerCount
  <2> DEFINE P == {v \in Url : link[v] = "peer"}
             Q == {v \in Url : link'[v] = "peer"}
  <2>1. CASE PeerCount < MaxPeerCount
    <3>1. Q = P \cup {u} /\ u \notin P /\ inbound' = inbound
      BY <1>1, <2>1 DEF DialOpens, DialIInv
    <3>2. IsFiniteSet(P) /\ Cardinality(P) \in Nat /\ Cardinality(inbound) \in Nat
      BY BookSize DEF DialIInv
    <3>3. Cardinality(Q) = Cardinality(P) + 1
      BY <3>1, <3>2, FS_AddElement
    <3>4. MaxPeerCount \in Nat
      BY DEF DialAssumption
    <3>5. PeerCount = Cardinality(P) + Cardinality(inbound)
      BY DEF PeerCount
    <3>6. PeerCount' = Cardinality(Q) + Cardinality(inbound)
      BY <3>1 DEF PeerCount
    <3> HIDE DEF P, Q
    <3> QED BY <2>1, <3>2, <3>3, <3>4, <3>5, <3>6
  <2>2. CASE ~ (PeerCount < MaxPeerCount)
    <3>1. Q = P /\ inbound' = inbound
      BY <2>2 DEF DialOpens, DialIInv
    <3> QED BY <3>1 DEF PeerCount, DialIInv
  <2> QED BY <2>1, <2>2
<1>4. SeedsHeld'
  BY DEF DialIInv, DialOpens, SeedsHeld, DialAssumption
<1> QED BY <1>1, <1>2, <1>3, <1>4 DEF DialIInv, DialOpens

\* Fewer links are up.
LEMMA FewerPeers ==
  ASSUME DialAssumption, DialIInv, inbound' \subseteq inbound,
         \A u \in Url : link'[u] = "peer" => link[u] = "peer"
  PROVE  PeerCount' <= MaxPeerCount
<1> DEFINE P == {v \in Url : link[v] = "peer"}
           Q == {v \in Url : link'[v] = "peer"}
<1>1. Q \subseteq P /\ P \subseteq Url /\ inbound \subseteq Url /\ MaxPeerCount \in Nat
  BY DEF DialIInv, DialAssumption
<1>2. /\ Cardinality(Q) \in Nat /\ Cardinality(P) \in Nat /\ Cardinality(Q) <= Cardinality(P)
      /\ Cardinality(inbound') \in Nat /\ Cardinality(inbound) \in Nat
      /\ Cardinality(inbound') <= Cardinality(inbound)
  BY <1>1, BookSize, FS_Subset
<1>3. /\ PeerCount = Cardinality(P) + Cardinality(inbound)
      /\ PeerCount' = Cardinality(Q) + Cardinality(inbound')
  BY DEF PeerCount
<1>4. PeerCount <= MaxPeerCount
  BY DEF DialIInv
<1> HIDE DEF P, Q
<1> QED BY <1>1, <1>2, <1>3, <1>4

LEMMA ClosesKeeps == ASSUME DialAssumption, DialIInv, NEW u \in Url, LinkCloses(u) PROVE DialIInv'
<1>1. /\ link' \in [Url -> {"none", "dialing", "peer", "refused"}]
      /\ \A v \in Url : link'[v] = IF v = u THEN "none" ELSE link[v]
  BY DEF DialIInv, LinkCloses
<1>2. PeerCount' <= MaxPeerCount
  BY <1>1, FewerPeers DEF LinkCloses
<1>3. stopped => redial' = {}
  BY DEF DialIInv, LinkCloses, Retries
<1>4. SeedsHeld'
  BY <1>1 DEF DialIInv, LinkCloses, Retries, SeedsHeld, DialAssumption
<1> QED BY <1>1, <1>2, <1>3, <1>4 DEF DialIInv, LinkCloses

LEMMA RedialKeeps == ASSUME DialAssumption, DialIInv, NEW u \in Url, Redial(u) PROVE DialIInv'
<1>1. ~ stopped /\ redial' = redial \ {u} /\ UNCHANGED <<book, inbound, stopped>>
  BY DEF DialIInv, Redial
<1>2. /\ link' \in [Url -> {"none", "dialing", "peer", "refused"}]
      /\ asSeed' \in [Url -> BOOLEAN]
      /\ \A v \in Url :
           \/ link'[v] = link[v] /\ asSeed'[v] = asSeed[v] /\ (v = u => link[v] # "none")
           \/ v = u /\ link[v] = "none" /\ link'[v] = "dialing" /\ asSeed'[v] = TRUE
  BY DEF DialIInv, Redial, NotInFlight
<1>3. PeerCount' <= MaxPeerCount
  BY <1>1, <1>2, FewerPeers
<1>4. SeedsHeld'
  BY <1>1, <1>2 DEF DialIInv, SeedsHeld, DialAssumption
<1> QED BY <1>1, <1>2, <1>3, <1>4 DEF DialIInv

LEMMA StopKeeps == ASSUME DialAssumption, DialIInv, StopDialing PROVE DialIInv'
<1>1. /\ link' \in [Url -> {"none", "dialing", "peer", "refused"}]
      /\ \A v \in Url : link'[v] \in {"none", "refused"}
  BY DEF StopDialing
<1>2. PeerCount' <= MaxPeerCount
  BY <1>1, FewerPeers DEF StopDialing
<1> QED BY <1>1, <1>2 DEF DialIInv, StopDialing, SeedsHeld

LEMMA InboundKeeps == ASSUME DialAssumption, DialIInv, NEW u \in Url, InboundPeer(u) PROVE DialIInv'
<1>1. Kept(book') /\ Leads(book, book')
  BY AddedKept DEF InboundPeer, DialIInv
<1>2. PeerCount' <= MaxPeerCount
  <2>1. IsFiniteSet(inbound) /\ Cardinality(inbound) \in Nat
    BY BookSize DEF DialIInv
  <2>2. Cardinality(inbound') = Cardinality(inbound) + 1
    BY <2>1, FS_AddElement DEF InboundPeer
  <2> DEFINE P == {v \in Url : link[v] = "peer"}
  <2>3. Cardinality(P) \in Nat /\ MaxPeerCount \in Nat
    BY BookSize DEF DialAssumption
  <2>4. /\ PeerCount = Cardinality(P) + Cardinality(inbound)
        /\ PeerCount' = Cardinality(P) + Cardinality(inbound')
        /\ PeerCount < MaxPeerCount
    BY DEF PeerCount, InboundPeer
  <2> HIDE DEF P
  <2> QED BY <2>1, <2>2, <2>3, <2>4
<1> QED BY <1>1, <1>2, BookKeeps DEF InboundPeer, DialIInv

LEMMA HandleAddrKeeps ==
  ASSUME DialAssumption, DialIInv, NEW addrs \in SeqOf(Url, MaxAddrs), HandleAddr(addrs)
  PROVE  DialIInv'
<1>1. book' \in Books(addrs)[Len(addrs)] /\ UNCHANGED <<inbound, redial, stopped>>
  BY DEF HandleAddr
<1>2. Kept(book') /\ Leads(book, book')
  BY <1>1, BooksKept DEF DialIInv
<1>3. CASE Fill(book')
  BY <1>1, <1>2, <1>3, FillKeeps
<1>4. CASE UNCHANGED <<link, asSeed>>
  <2>1. PeerCount' = PeerCount
    BY <1>1, <1>4 DEF PeerCount
  <2> QED BY <1>1, <1>2, <1>4, <2>1, BookKeeps DEF DialIInv
<1> QED BY <1>3, <1>4 DEF HandleAddr

LEMMA DialStep == ASSUME DialAssumption, DialIInv, [DialNext]_dialVars PROVE DialIInv'
<1>1. Leads(book, book) /\ Kept(book) /\ PeerCount <= MaxPeerCount /\ inbound \subseteq Url
  BY DEF Leads, DialIInv
<1>2. CASE FillTick
  BY <1>1, <1>2, FillKeeps DEF FillTick
<1>3. CASE StopDialing
  BY <1>3, StopKeeps
<1>4. ASSUME UNCHANGED <<book, link, asSeed, inbound, redial, stopped>> PROVE DialIInv'
  <2>1. PeerCount' = PeerCount
    BY <1>4 DEF PeerCount
  <2> QED BY <1>1, <1>4, <2>1, BookKeeps
<1>5. ASSUME NEW u \in Url, InboundLeaves(u) PROVE DialIInv'
  <2>1. PeerCount' <= MaxPeerCount
    BY <1>5, FewerPeers DEF InboundLeaves
  <2> QED BY <1>1, <1>5, <2>1, BookKeeps DEF InboundLeaves
<1>6. ASSUME NEW u \in Url, Advertises(u) PROVE DialIInv'
  <2>1. Kept(book') /\ Leads(book, book')
    BY <1>1, <1>6, AddedKept DEF Advertises
  <2>2. PeerCount' = PeerCount
    BY <1>6 DEF PeerCount, Advertises
  <2> QED BY <1>1, <1>6, <2>1, <2>2, BookKeeps DEF Advertises
<1> QED BY <1>2, <1>3, <1>4, <1>5, <1>6, OpensKeeps, ClosesKeeps, RedialKeeps, InboundKeeps,
           HandleAddrKeeps DEF DialNext, DialTick, dialVars

\* However closes, timers, fills and gossip interleave: the book keeps its bound
\* and never holds this node, the peers theirs, nothing is dialed after close(),
\* and no seed is forgotten while the book has room (dial, fillOnce, addAddr).
THEOREM SeedsAreKept == DialSpec => []DialInv
<1>1. DialInit => DialIInv
  BY DialStarts, DialAssumption
<1>2. DialIInv /\ [DialNext]_dialVars => DialIInv'
  BY DialStep, DialAssumption
<1>3. DialIInv => DialInv
  BY DEF DialIInv, DialInv, Kept, SeedsHeld
<1> QED BY <1>1, <1>2, <1>3, PTL DEF DialSpec
------------------------------------------------------------------------------
(* Handshakes *)

\* The frames of a handshake in the order they are sent, and how many of them
\* an end has sent or handled in each of its sessions.
Hello == <<"VERSION", "VERACK">>
Greets(a) == IF a THEN {"VERSION", "VERACK"} ELSE {"VERSION"}
SaidBy(a, s) == IF s = "none" THEN 0 ELSE IF a /\ s # "new" THEN 2 ELSE 1
HeardBy(a, s) == IF s = "none" \/ s = "new" THEN 0 ELSE IF a /\ s = "ready" THEN 2 ELSE 1
\* An end whose chain data leaves.
Talks(a, s) == IF a THEN s = "ready" ELSE s # "none"

\* What an end in session s has still to handle, from one in session o: the
\* greetings it has not heard, in order, then data, if the other may send it.
Order(a, q, s, o) ==
  /\ HeardBy(a, s) <= SaidBy(a, o) /\ SaidBy(a, o) - HeardBy(a, s) <= Len(q)
  /\ \A i \in 1 .. Len(q) :
       IF i <= SaidBy(a, o) - HeardBy(a, s) THEN q[i].type = Hello[HeardBy(a, s) + i]
       ELSE Talks(a, o) /\ q[i].type \notin Greets(a)

IsSeq(q) == \E S : q \in Seq(S)

Sessions == {"none", "new", "keyed", "ready"}
SyncIInv ==
  /\ auth \in BOOLEAN
  /\ session \in [End -> Sessions] /\ (~auth => \A e \in End : session[e] # "keyed")
  /\ inbox = [e \in End |-> inbox[e]] /\ \A e \in End : IsSeq(inbox[e])
  /\ serving = [e \in End |-> serving[e]]
  /\ \A e \in End : serving[e] # <<>> => session[e] # "none"
  /\ \A e \in End : Order(auth, inbox[e], session[e], session[Other(e)])

LEMMA Joined ==
  ASSUME NEW q, NEW r, IsSeq(q), IsSeq(r)
  PROVE  /\ IsSeq(q \o r) /\ Len(q \o r) = Len(q) + Len(r) /\ Len(q) \in Nat /\ Len(r) \in Nat
         /\ \A i \in 1 .. Len(q) : (q \o r)[i] = q[i]
         /\ \A i \in Len(q) + 1 .. Len(q) + Len(r) :
              (q \o r)[i] = r[i - Len(q)] /\ i - Len(q) \in 1 .. Len(r)
<1>1. PICK S : q \in Seq(S)
  BY DEF IsSeq
<1>2. PICK T : r \in Seq(T)
  BY DEF IsSeq
<1>3. q \in Seq(S \cup T) /\ r \in Seq(S \cup T)
  BY <1>1, <1>2
<1>4. q \o r \in Seq(S \cup T)
  BY <1>3
<1> QED BY <1>3, <1>4 DEF IsSeq

LEMMA Tailed ==
  ASSUME NEW q, IsSeq(q), q # <<>>
  PROVE  /\ IsSeq(Tail(q)) /\ Len(q) \in Nat \ {0} /\ Len(Tail(q)) = Len(q) - 1 /\ Head(q) = q[1]
         /\ \A i \in 1 .. Len(Tail(q)) : Tail(q)[i] = q[i + 1] /\ i + 1 \in 1 .. Len(q)
<1>1. PICK S : q \in Seq(S)
  BY DEF IsSeq
<1>2. Len(q) \in Nat \ {0} /\ Tail(q) \in Seq(S)
  BY <1>1
<1> QED BY <1>1, <1>2 DEF IsSeq

LEMMA Singles == /\ IsSeq(<<>>) /\ Len(<<>>) = 0
                 /\ \A m : IsSeq(<<m>>) /\ Len(<<m>>) = 1 /\ <<m>>[1] = m
<1>1. <<>> \in Seq({})
  OBVIOUS
<1>2. \A m : <<m>> \in Seq({m})
  OBVIOUS
<1> QED BY <1>1, <1>2 DEF IsSeq

LEMMA Counted ==
  ASSUME NEW a \in BOOLEAN, NEW s
  PROVE  SaidBy(a, s) \in 0 .. 2 /\ HeardBy(a, s) \in 0 .. 2
BY DEF SaidBy, HeardBy

\* Data that an end in session s may have sent.
Data(a, s, out) ==
  /\ IsSeq(out) /\ (out # <<>> => Talks(a, s))
  /\ \A i \in 1 .. Len(out) : out[i].type \notin Greets(a)

LEMMA DataAppended ==
  ASSUME NEW a \in BOOLEAN, NEW q, NEW s, NEW o, NEW out,
         IsSeq(q), Order(a, q, s, o), Data(a, o, out)
  PROVE  IsSeq(q \o out) /\ Order(a, q \o out, s, o)
<1> DEFINE h == HeardBy(a, s)
           m == SaidBy(a, o)
           r == q \o out
<1>1. /\ IsSeq(r) /\ Len(r) = Len(q) + Len(out) /\ Len(q) \in Nat /\ Len(out) \in Nat
      /\ \A i \in 1 .. Len(q) : r[i] = q[i]
      /\ \A i \in Len(q) + 1 .. Len(q) + Len(out) :
           r[i] = out[i - Len(q)] /\ i - Len(q) \in 1 .. Len(out)
  BY Joined DEF Data
<1>2. h \in 0 .. 2 /\ m \in 0 .. 2 /\ h <= m /\ m - h <= Len(q)
  BY Counted DEF Order
<1>3. \A i \in 1 .. Len(q) :
        IF i <= m - h THEN q[i].type = Hello[h + i] ELSE Talks(a, o) /\ q[i].type \notin Greets(a)
  BY DEF Order
<1>4. \A i \in 1 .. Len(out) : Talks(a, o) /\ out[i].type \notin Greets(a)
  BY Singles DEF Data
<1> HIDE DEF h, m, r
<1>5. ASSUME NEW i \in 1 .. Len(r)
      PROVE  IF i <= m - h THEN r[i].type = Hello[h + i]
             ELSE Talks(a, o) /\ r[i].type \notin Greets(a)
  <2>1. CASE i <= Len(q)
    <3>1. i \in 1 .. Len(q)
      BY <1>1, <2>1
    <3> QED BY <1>1, <1>3, <3>1
  <2>2. CASE ~ i <= Len(q)
    <3>1. i \in Len(q) + 1 .. Len(q) + Len(out) /\ ~ i <= m - h
      BY <1>1, <1>2, <2>2
    <3>2. r[i] = out[i - Len(q)] /\ i - Len(q) \in 1 .. Len(out)
      BY <1>1, <3>1
    <3> QED BY <1>4, <3>1, <3>2
  <2> QED BY <2>1, <2>2
<1>6. m - h <= Len(r)
  BY <1>1, <1>2
<1> QED BY <1>1, <1>2, <1>5, <1>6 DEF Order, h, m, r

LEMMA Bare == ASSUME NEW q, IsSeq(q) PROVE q \o <<>> = q
<1>1. PICK S : q \in Seq(S)
  BY DEF IsSeq
<1> QED BY <1>1

\* A handled frame is taken off, and counted if it is a greeting.
LEMMA Handled ==
  ASSUME NEW a \in BOOLEAN, NEW q, NEW s \in Sessions, NEW o \in Sessions, s # "none",
         ~a => s # "keyed" /\ o # "keyed", IsSeq(q), q # <<>>, Order(a, q, s, o)
  PROVE  /\ IsSeq(Tail(q))
         /\ Head(q).type \notin Greets(a) => Order(a, Tail(q), s, o)
         /\ Head(q).type = "VERSION" =>
              s = "new" /\ Order(a, Tail(q), IF a THEN "keyed" ELSE "ready", o)
         /\ a /\ Head(q).type = "VERACK" => s = "keyed" /\ Order(a, Tail(q), "ready", o)
         /\ Head(q).type \notin Greets(a) => s = "ready"
<1> DEFINE h == HeardBy(a, s)
           m == SaidBy(a, o)
           r == Tail(q)
<1>1. /\ IsSeq(r) /\ Len(q) \in Nat \ {0} /\ Len(r) = Len(q) - 1 /\ Head(q) = q[1]
      /\ \A i \in 1 .. Len(r) : r[i] = q[i + 1] /\ i + 1 \in 1 .. Len(q)
  BY Tailed
<1>2. h \in 0 .. 2 /\ m \in 0 .. 2 /\ h <= m /\ m - h <= Len(q)
  BY Counted DEF Order
<1>3. \A i \in 1 .. Len(q) :
        IF i <= m - h THEN q[i].type = Hello[h + i] ELSE Talks(a, o) /\ q[i].type \notin Greets(a)
  BY DEF Order
<1>4. /\ Hello[1] = "VERSION" /\ Hello[2] = "VERACK" /\ "VERSION" \in Greets(a)
      /\ a => "VERACK" \in Greets(a)
  BY DEF Hello, Greets
<1>5. /\ Talks(a, o) => m = IF a THEN 2 ELSE 1
      /\ m <= IF a THEN 2 ELSE 1
      /\ h = 0 <=> s = "new"
      /\ a => (h = 1 <=> s = "keyed") /\ (h = 2 <=> s = "ready")
      /\ ~a => h \in {0, 1} /\ (h = 1 <=> s = "ready")
  BY DEF Talks, SaidBy, HeardBy, Sessions
<1>6. HeardBy(a, IF a THEN "keyed" ELSE "ready") = 1 /\ (a => HeardBy(a, "ready") = 2)
  BY DEF HeardBy
<1> HIDE DEF h, m, r
<1>7. IF 1 <= m - h THEN q[1].type = Hello[h + 1] ELSE Talks(a, o) /\ q[1].type \notin Greets(a)
  BY <1>1, <1>3
<1>8. CASE q[1].type \notin Greets(a)
  <2>1. m = h
    <3>1. 1 <= m - h => q[1].type = Hello[h + 1]
      BY <1>7
    <3>2. h + 1 \in {1, 2} \/ ~ 1 <= m - h
      BY <1>2
    <3>3. ~ 1 <= m - h
      BY <1>2, <1>4, <1>5, <1>8, <3>1, <3>2
    <3> QED BY <1>2, <3>3
  <2>2. Talks(a, o)
    BY <1>2, <1>7, <2>1
  <2>3. \A i \in 1 .. Len(r) : Talks(a, o) /\ r[i].type \notin Greets(a)
    BY <1>1, <1>2, <1>3, <2>1
  <2>4. Order(a, r, s, o)
    BY <1>1, <1>2, <2>1, <2>3 DEF Order, h, m
  <2>5. s = "ready"
    BY <1>5, <2>1, <2>2
  <2> QED BY <1>1, <1>4, <1>8, <2>4, <2>5 DEF r
<1>9. CASE q[1].type \in Greets(a)
  <2>1. 1 <= m - h /\ q[1].type = Hello[h + 1]
    BY <1>7, <1>9
  <2>2. \A i \in 1 .. Len(r) :
          IF i <= m - (h + 1) THEN r[i].type = Hello[(h + 1) + i]
          ELSE Talks(a, o) /\ r[i].type \notin Greets(a)
    <3> SUFFICES ASSUME NEW i \in 1 .. Len(r)
                 PROVE  IF i <= m - (h + 1) THEN r[i].type = Hello[(h + 1) + i]
                        ELSE Talks(a, o) /\ r[i].type \notin Greets(a)
      OBVIOUS
    <3>1. r[i] = q[i + 1] /\ i + 1 \in 1 .. Len(q) /\ (i <= m - (h + 1) <=> i + 1 <= m - h)
          /\ h + (i + 1) = (h + 1) + i
      BY <1>1, <1>2
    <3> QED BY <1>3, <3>1
  <2>3. h + 1 <= m /\ m - (h + 1) <= Len(r)
    BY <1>1, <1>2, <2>1
  <2>4. h = 0 => s = "new" /\ q[1].type = "VERSION"
                 /\ Order(a, r, IF a THEN "keyed" ELSE "ready", o)
    <3> SUFFICES ASSUME h = 0 PROVE s = "new" /\ q[1].type = "VERSION"
                 /\ Order(a, r, IF a THEN "keyed" ELSE "ready", o)
      OBVIOUS
    <3>1. h + 1 = HeardBy(a, IF a THEN "keyed" ELSE "ready")
      BY <1>6
    <3>2. Order(a, r, IF a THEN "keyed" ELSE "ready", o)
      BY <2>2, <2>3, <3>1 DEF Order, m
    <3> QED BY <1>4, <1>5, <2>1, <3>2
  <2>5. h # 0 => a /\ s = "keyed" /\ q[1].type = "VERACK" /\ Order(a, r, "ready", o)
    <3> SUFFICES ASSUME h # 0
                 PROVE  a /\ s = "keyed" /\ q[1].type = "VERACK" /\ Order(a, r, "ready", o)
      OBVIOUS
    <3>1. a /\ h = 1 /\ m = 2
      BY <1>2, <1>5, <2>1
    <3>4. h + 1 = 2
      BY <3>1
    <3>2. h + 1 = HeardBy(a, "ready")
      BY <1>6, <3>1, <3>4
    <3>3. Order(a, r, "ready", o)
      BY <2>2, <2>3, <3>2 DEF Order, m
    <3>5. q[1].type = "VERACK"
      BY <1>4, <2>1, <3>4
    <3>6. s = "keyed"
      BY <1>5, <3>1
    <3> QED BY <3>1, <3>3, <3>5, <3>6
  <2>6. "VERSION" # "VERACK"
    OBVIOUS
  <2> QED BY <1>1, <1>4, <1>9, <2>4, <2>5, <2>6 DEF r
<1> QED BY <1>8, <1>9
------------------------------------------------------------------------------

LEMMA GreetingAppended ==
  ASSUME NEW a \in BOOLEAN, NEW q, NEW s, NEW o, NEW p, NEW msg, IsSeq(q), Order(a, q, s, o),
         ~Talks(a, o), SaidBy(a, p) = SaidBy(a, o) + 1, msg.type = Hello[SaidBy(a, o) + 1]
  PROVE  IsSeq(q \o <<msg>>) /\ Order(a, q \o <<msg>>, s, p)
<1> DEFINE h == HeardBy(a, s)
           m == SaidBy(a, o)
           n == SaidBy(a, p)
           r == q \o <<msg>>
<1>1. /\ IsSeq(r) /\ Len(r) = Len(q) + 1 /\ Len(q) \in Nat
      /\ (\A i \in 1 .. Len(q) : r[i] = q[i]) /\ r[Len(q) + 1] = msg
  <2>1. IsSeq(<<msg>>) /\ Len(<<msg>>) = 1 /\ <<msg>>[1] = msg
    BY Singles
  <2> DEFINE t == <<msg>>
  <2>2. IsSeq(t) /\ Len(t) = 1 /\ t[1] = msg
    BY <2>1
  <2> HIDE DEF t
  <2>3. /\ IsSeq(q \o t) /\ Len(q \o t) = Len(q) + Len(t) /\ Len(q) \in Nat
        /\ \A i \in 1 .. Len(q) : (q \o t)[i] = q[i]
        /\ \A i \in Len(q) + 1 .. Len(q) + Len(t) : (q \o t)[i] = t[i - Len(q)]
    BY <2>2, Joined
  <2>4. (q \o t)[Len(q) + 1] = msg
    <3>1. Len(q) + 1 \in Len(q) + 1 .. Len(q) + Len(t) /\ (Len(q) + 1) - Len(q) = 1
      BY <2>2, <2>3
    <3> QED BY <2>2, <2>3, <3>1
  <2> QED BY <2>2, <2>3, <2>4 DEF t
<1>2. h \in 0 .. 2 /\ m \in 0 .. 2 /\ h <= m /\ m - h <= Len(q) /\ n = m + 1
  BY Counted DEF Order
<1>3. \A i \in 1 .. Len(q) : i <= m - h /\ q[i].type = Hello[h + i]
  BY DEF Order
<1>4. msg.type = Hello[m + 1]
  OBVIOUS
<1> HIDE DEF h, m, n, r
<1>5. Len(q) = m - h
  <2>1. Len(q) >= 1 => Len(q) <= m - h
    BY <1>1, <1>3
  <2> QED BY <1>1, <1>2, <2>1
<1>6. ASSUME NEW i \in 1 .. Len(r) PROVE i <= n - h /\ r[i].type = Hello[h + i]
  <2>1. CASE i <= Len(q)
    BY <1>1, <1>2, <1>3, <2>1
  <2>2. CASE ~ i <= Len(q)
    <3>1. i = Len(q) + 1 /\ h + i = m + 1 /\ i <= n - h
      BY <1>1, <1>2, <1>5, <2>2
    <3> QED BY <1>1, <1>4, <3>1
  <2> QED BY <2>1, <2>2
<1>7. h <= n /\ n - h <= Len(r)
  BY <1>1, <1>2, <1>5
<1> QED BY <1>1, <1>6, <1>7 DEF Order, h, n, r

\* An order is of what was said and heard, not of the sessions' names.
LEMMA SameOrder ==
  ASSUME NEW a, NEW q, NEW s, NEW o, NEW t, NEW p, Order(a, q, s, o),
         HeardBy(a, t) = HeardBy(a, s), SaidBy(a, p) = SaidBy(a, o), Talks(a, o) => Talks(a, p)
  PROVE  Order(a, q, t, p)
BY DEF Order

LEMMA Others ==
  \A e \in End : /\ Other(e) \in End /\ Other(Other(e)) = e /\ Other(e) # e
                 /\ {Other(e)[1], Other(e)[2]} = {e[1], e[2]}
<1> SUFFICES ASSUME NEW e \in End
             PROVE  /\ Other(e) \in End /\ Other(Other(e)) = e /\ Other(e) # e
                    /\ {Other(e)[1], Other(e)[2]} = {e[1], e[2]}
  OBVIOUS
<1>1. e \in Node \X Node /\ e = <<e[1], e[2]>> /\ {e[1], e[2]} \in Link /\ e[1] # e[2]
  BY DEF End
<1>2. Other(e) = <<e[2], e[1]>> /\ Other(e)[1] = e[2] /\ Other(e)[2] = e[1]
  BY DEF Other
<1>3. Other(e) \in End
  BY <1>1, <1>2 DEF End
<1> QED BY <1>1, <1>2, <1>3 DEF Other

\* Data goes out everywhere; no session changes.
LEMMA DataKeeps ==
  ASSUME SyncIInv, auth' = auth, session' = session, NEW box, NEW out,
         \A x \in End : IsSeq(box[x]) /\ Order(auth, box[x], session[x], session[Other(x)]),
         \A x \in End : Data(auth, session[x], out[x]),
         inbox' = Sent(box, out), serving' = [x \in End |-> serving'[x]],
         \A x \in End : serving'[x] # <<>> => session[x] # "none"
  PROVE  SyncIInv'
<1>1. inbox' = [x \in End |-> inbox'[x]] /\ \A x \in End : inbox'[x] = box[x] \o out[Other(x)]
  BY DEF Sent
<1>2. ASSUME NEW x \in End
      PROVE  IsSeq(inbox'[x]) /\ Order(auth, inbox'[x], session[x], session[Other(x)])
  <2> DEFINE q == box[x]
             g == out[Other(x)]
             s == session[x]
             o == session[Other(x)]
             a == auth
  <2>1. Data(a, o, g) /\ a \in BOOLEAN /\ IsSeq(q) /\ Order(a, q, s, o)
    BY Others DEF SyncIInv
  <2>2. inbox'[x] = q \o g
    BY <1>1
  <2> HIDE DEF q, g, s, o, a
  <2>3. IsSeq(q \o g) /\ Order(a, q \o g, s, o)
    BY <2>1, DataAppended
  <2> QED BY <2>2, <2>3 DEF s, o, a
<1> QED BY <1>1, <1>2 DEF SyncIInv

\* One end changes its session, handles a frame of its own or sends.
LEMMA EndKeeps ==
  ASSUME SyncIInv, auth' = auth, NEW e \in End, NEW s \in Sessions, s # "none", ~auth => s # "keyed",
         session' = [session EXCEPT ![e] = s],
         IsSeq(inbox'[e]), Order(auth, inbox'[e], s, session[Other(e)]),
         IsSeq(inbox'[Other(e)]), Order(auth, inbox'[Other(e)], session[Other(e)], s),
         inbox' = [x \in End |-> inbox'[x]],
         \A x \in End \ {e, Other(e)} : inbox'[x] = inbox[x],
         serving' = serving
  PROVE  SyncIInv'
<1>1. /\ session \in [End -> Sessions] /\ session'[e] = s
      /\ \A x \in End \ {e} : session'[x] = session[x]
      /\ session' \in [End -> Sessions]
  BY DEF SyncIInv
<1>2. ASSUME NEW x \in End
      PROVE  /\ IsSeq(inbox'[x]) /\ Order(auth, inbox'[x], session'[x], session'[Other(x)])
             /\ serving'[x] # <<>> => session'[x] # "none"
             /\ ~auth => session'[x] # "keyed"
  <2>1. /\ Other(e) # e /\ Other(Other(e)) = e /\ Other(e) \in End /\ Other(x) \in End
        /\ Other(x) = e => x = Other(e)
    BY Others
  <2>2. CASE x = e
    BY <1>1, <2>1, <2>2
  <2>3. CASE x = Other(e)
    BY <1>1, <2>1, <2>3 DEF SyncIInv
  <2>4. CASE x # e /\ x # Other(e)
    BY <1>1, <2>1, <2>4 DEF SyncIInv
  <2> QED BY <2>2, <2>3, <2>4
<1>3. /\ auth' \in BOOLEAN /\ serving' = [x \in End |-> serving'[x]]
  BY DEF SyncIInv
<1> QED BY <1>1, <1>2, <1>3 DEF SyncIInv

LEMMA SealedData ==
  ASSUME NEW s, s # "none", NEW msg, msg.type \notin {"VERSION", "VERACK"}, auth \in BOOLEAN
  PROVE  Data(auth, s, Sealed(s, msg))
<1>1. CASE Seals(s, msg)
  <2>1. Sealed(s, msg) = <<msg>> /\ Talks(auth, s) /\ msg.type \notin Greets(auth)
    BY <1>1 DEF Sealed, Seals, Talks, Greets
  <2> QED BY <2>1, Singles DEF Data
<1>2. CASE ~Seals(s, msg)
  <2>1. Sealed(s, msg) = <<>>
    BY <1>2 DEF Sealed
  <2> QED BY <2>1, Singles DEF Data
<1> QED BY <1>1, <1>2

LEMMA NoData == \A a, s : Data(a, s, <<>>)
BY Singles DEF Data
------------------------------------------------------------------------------

LEMMA SyncStarts == ASSUME AuthModes \subseteq BOOLEAN, Init PROVE SyncIInv
<1>1. \A e \in End : Order(auth, <<>>, "none", "none") /\ Other(e) \in End
  BY Singles, Others DEF Order, HeardBy, SaidBy
<1>2. /\ auth \in BOOLEAN /\ session = [e \in End |-> "none"] /\ inbox = [e \in End |-> <<>>]
      /\ serving = [e \in End |-> <<>>]
  BY DEF Init
<1> QED BY <1>1, <1>2, Singles DEF SyncIInv, Sessions

LEMMA AttachKeeps == ASSUME SyncIInv, NEW e \in End, Attach(e) PROVE SyncIInv'
<1> DEFINE f == Other(e)
           msg == Version(Height(tip[e[1]]))
           out == Says(e, Sealed("new", msg))
<1>1. /\ session[e] = "none" /\ session' = [session EXCEPT ![e] = "new"]
      /\ inbox' = Sent(inbox, out) /\ auth' = auth /\ serving' = serving
  BY DEF Attach
<1>2. /\ f \in End /\ f # e /\ Other(f) = e /\ session[f] \in Sessions
      /\ \A x \in End \ {e, f} : Other(x) # e
      /\ \A x \in End : Other(x) \in End
  BY Others DEF SyncIInv
<1>3. Sealed("new", msg) = <<msg>> /\ msg.type = "VERSION"
  BY DEF Sealed, Seals, Version
<1>4. out[e] = <<msg>> /\ \A x \in End \ {e} : out[x] = <<>>
  BY <1>3 DEF Says
<1>5. /\ auth \in BOOLEAN /\ \A x \in End : IsSeq(inbox[x])
      /\ Order(auth, inbox[e], "none", session[f]) /\ Order(auth, inbox[f], session[f], "none")
  BY <1>1, <1>2 DEF SyncIInv
<1> HIDE DEF msg, out, f
<1>6. /\ inbox' = [x \in End |-> inbox'[x]] /\ inbox'[f] = inbox[f] \o <<msg>>
      /\ inbox'[e] = inbox[e] /\ \A x \in End \ {e, f} : inbox'[x] = inbox[x]
  <2>1. \A x \in End : inbox'[x] = inbox[x] \o out[Other(x)]
    BY <1>1 DEF Sent
  <2>2. \A x \in End \ {f} : inbox'[x] = inbox[x]
    BY <1>2, <1>4, <1>5, <2>1, Bare, Others DEF f
  <2>3. inbox'[f] = inbox[f] \o <<msg>>
    BY <1>2, <1>4, <2>1
  <2> QED BY <1>1, <1>2, <2>2, <2>3 DEF Sent
<1>7. Order(auth, inbox'[e], "new", session[f])
  <2>1. HeardBy(auth, "new") = HeardBy(auth, "none")
    BY DEF HeardBy
  <2> QED BY <1>5, <1>6, <2>1, SameOrder
<1>8. IsSeq(inbox'[f]) /\ Order(auth, inbox'[f], session[f], "new")
  <2>1. ~Talks(auth, "none") /\ SaidBy(auth, "new") = SaidBy(auth, "none") + 1
        /\ msg.type = Hello[SaidBy(auth, "none") + 1]
    BY <1>3 DEF Talks, SaidBy, Hello
  <2> QED BY <1>2, <1>5, <1>6, <2>1, GreetingAppended
<1> QED BY <1>1, <1>2, <1>5, <1>6, <1>7, <1>8, EndKeeps DEF f, Sessions

LEMMA DropKeeps == ASSUME SyncIInv, NEW l, Drop(l) PROVE SyncIInv'
<1> DEFINE ends == {e \in End : {e[1], e[2]} = l}
<1>1. /\ session' = [e \in End |-> IF e \in ends THEN "none" ELSE session[e]]
      /\ inbox' = [e \in End |-> IF e \in ends THEN <<>> ELSE inbox[e]]
      /\ serving' = [e \in End |-> IF e \in ends THEN <<>> ELSE serving[e]]
      /\ auth' = auth
  BY DEF Drop
<1>2. \A e \in End : Other(e) \in End /\ (Other(e) \in ends <=> e \in ends)
  BY Others
<1> HIDE DEF ends
<1>3. ASSUME NEW e \in End
      PROVE  /\ IsSeq(inbox'[e]) /\ Order(auth, inbox'[e], session'[e], session'[Other(e)])
             /\ session'[e] \in Sessions /\ (~auth => session'[e] # "keyed")
             /\ serving'[e] # <<>> => session'[e] # "none"
  <2>1. CASE e \in ends
    <3>1. Order(auth, <<>>, "none", "none")
      BY Singles DEF Order, HeardBy, SaidBy
    <3>2. inbox'[e] = <<>> /\ session'[e] = "none" /\ session'[Other(e)] = "none" /\ serving'[e] = <<>>
      BY <1>1, <1>2, <2>1
    <3> QED BY <3>1, <3>2, Singles DEF Sessions
  <2>2. CASE e \notin ends
    BY <1>1, <1>2, <2>2 DEF SyncIInv
  <2> QED BY <2>1, <2>2
<1>4. session' \in [End -> Sessions] /\ inbox' = [e \in End |-> inbox'[e]]
      /\ serving' = [e \in End |-> serving'[e]] /\ auth \in BOOLEAN
  BY <1>1, <1>3 DEF SyncIInv
<1> QED BY <1>1, <1>3, <1>4 DEF SyncIInv

\* What a handler starts from.
LEMMA Taken ==
  ASSUME SyncIInv, NEW e \in End, NEW type, Handles(e, type)
  PROVE  /\ IsSeq(Rest(e)[e]) /\ Rest(e)[e] = Tail(inbox[e])
         /\ \A x \in End \ {e} : Rest(e)[x] = inbox[x]
         /\ Rest(e) = [x \in End |-> Rest(e)[x]]
         /\ session[e] # "none" /\ auth \in BOOLEAN /\ Arrived(e).type = type
         /\ Other(e) \in End /\ Other(e) # e
         /\ Arrived(e).type \notin Greets(auth) =>
              session[e] = "ready" /\ Order(auth, Rest(e)[e], session[e], session[Other(e)])
         /\ type = "VERSION" =>
              /\ session[e] = "new"
              /\ Order(auth, Rest(e)[e], IF auth THEN "keyed" ELSE "ready", session[Other(e)])
         /\ auth /\ type = "VERACK" =>
              session[e] = "keyed" /\ Order(auth, Rest(e)[e], "ready", session[Other(e)])
<1>1. /\ session[e] # "none" /\ inbox[e] # <<>> /\ Head(inbox[e]).type = type
      /\ Arrived(e) = Head(inbox[e])
  BY DEF Handles, Arrived
<1>2. /\ inbox = [x \in End |-> inbox[x]] /\ IsSeq(inbox[e]) /\ auth \in BOOLEAN
      /\ Other(e) \in End /\ Other(e) # e /\ session[e] \in Sessions /\ session[Other(e)] \in Sessions
      /\ ~auth => session[e] # "keyed" /\ session[Other(e)] # "keyed"
      /\ Order(auth, inbox[e], session[e], session[Other(e)])
  BY Others DEF SyncIInv
<1>3. /\ Rest(e)[e] = Tail(inbox[e]) /\ \A x \in End \ {e} : Rest(e)[x] = inbox[x]
      /\ Rest(e) = [x \in End |-> Rest(e)[x]]
  BY <1>2 DEF Rest
<1> DEFINE q == inbox[e]
           s == session[e]
           o == session[Other(e)]
           a == auth
<1>4. /\ a \in BOOLEAN /\ s \in Sessions /\ o \in Sessions /\ s # "none"
      /\ ~a => s # "keyed" /\ o # "keyed"
      /\ IsSeq(q) /\ q # <<>> /\ Order(a, q, s, o)
  BY <1>1, <1>2
<1> HIDE DEF q, s, o, a
<1>5. /\ IsSeq(Tail(q))
      /\ Head(q).type \notin Greets(a) => Order(a, Tail(q), s, o)
      /\ Head(q).type = "VERSION" =>
           s = "new" /\ Order(a, Tail(q), IF a THEN "keyed" ELSE "ready", o)
      /\ a /\ Head(q).type = "VERACK" => s = "keyed" /\ Order(a, Tail(q), "ready", o)
      /\ Head(q).type \notin Greets(a) => s = "ready"
  BY <1>4, Handled
<1> QED BY <1>1, <1>2, <1>3, <1>5 DEF q, s, o, a

\* A handler that leaves end e in session s and sends reply.
LEMMA RepliedKeeps ==
  ASSUME SyncIInv, NEW e \in End, NEW type, Handles(e, type), NEW s \in Sessions, s # "none",
         ~auth => s # "keyed", NEW reply, session' = [session EXCEPT ![e] = s],
         inbox' = Sent(Rest(e), Says(e, reply)), auth' = auth, serving' = serving,
         Order(auth, Rest(e)[e], s, session[Other(e)]),
         IsSeq(inbox[Other(e)] \o reply),
         Order(auth, inbox[Other(e)] \o reply, session[Other(e)], s)
  PROVE  SyncIInv'
<1> DEFINE f == Other(e)
           out == Says(e, reply)
<1>1. /\ f \in End /\ f # e /\ Other(f) = e
      /\ \A x \in End \ {f} : Other(x) \in End /\ Other(x) # e
      /\ \A x \in End : IsSeq(Rest(e)[x])
      /\ \A x \in End \ {e} : Rest(e)[x] = inbox[x]
  BY Taken, Others DEF SyncIInv
<1>2. \A x \in End : inbox'[x] = Rest(e)[x] \o out[Other(x)]
  BY DEF Sent
<1>3. out[e] = reply /\ \A x \in End \ {e} : out[x] = <<>>
  BY DEF Says
<1> HIDE DEF out, f
<1>4. ASSUME NEW x \in End \ {f} PROVE inbox'[x] = Rest(e)[x]
  <2>1. out[Other(x)] = <<>> /\ IsSeq(Rest(e)[x])
    BY <1>1, <1>3
  <2> QED BY <1>2, <2>1, Bare
<1>5. /\ inbox'[e] = Rest(e)[e] /\ inbox'[f] = inbox[f] \o reply
      /\ inbox' = [x \in End |-> inbox'[x]]
      /\ \A x \in End \ {e, f} : inbox'[x] = inbox[x]
  BY <1>1, <1>2, <1>3, <1>4 DEF Sent
<1> QED BY <1>1, <1>5, EndKeeps DEF f

\* What beginPeerSync sends is data.
LEMMA CatchUpData ==
  ASSUME auth \in BOOLEAN, NEW n, NEW h PROVE Data(auth, "ready", CatchUp(n, h))
<1>1. GetHeaders(tip[n]).type \notin {"VERSION", "VERACK"}
  BY DEF GetHeaders
<1>2. Data(auth, "ready", Sealed("ready", GetHeaders(tip[n])))
  BY <1>1, SealedData
<1> QED BY <1>2, NoData DEF CatchUp

LEMMA DataJoined ==
  ASSUME NEW a, NEW s, NEW p, NEW q, Data(a, s, p), Data(a, s, q), Talks(a, s)
  PROVE  Data(a, s, p \o q)
<1> DEFINE r == p \o q
<1>1. /\ IsSeq(r) /\ Len(r) = Len(p) + Len(q) /\ Len(p) \in Nat /\ Len(q) \in Nat
      /\ \A i \in 1 .. Len(p) : r[i] = p[i]
      /\ \A i \in Len(p) + 1 .. Len(p) + Len(q) : r[i] = q[i - Len(p)] /\ i - Len(p) \in 1 .. Len(q)
  BY Joined DEF Data
<1> HIDE DEF r
<1>2. ASSUME NEW i \in 1 .. Len(r) PROVE r[i].type \notin Greets(a)
  <2>1. CASE i <= Len(p)
    <3>1. i \in 1 .. Len(p)
      BY <1>1, <2>1
    <3> QED BY <1>1, <3>1 DEF Data
  <2>2. CASE ~ i <= Len(p)
    <3>1. i \in Len(p) + 1 .. Len(p) + Len(q)
      BY <1>1, <2>2
    <3> QED BY <1>1, <3>1 DEF Data
  <2> QED BY <2>1, <2>2
<1> QED BY <1>1, <1>2 DEF Data, r

LEMMA VersionKeeps == ASSUME SyncIInv, NEW e \in End, HandleVersion(e) PROVE SyncIInv'
<1> DEFINE f == Other(e)
           more == CatchUp(e[1], Arrived(e).height)
<1>1. Handles(e, "VERSION") /\ auth' = auth /\ serving' = serving
  BY DEF HandleVersion
<1>2. /\ session[e] = "new" /\ auth \in BOOLEAN /\ f \in End
      /\ Order(auth, Rest(e)[e], IF auth THEN "keyed" ELSE "ready", session[f])
  BY <1>1, Taken
<1>3. Other(f) = e /\ IsSeq(inbox[f]) /\ Order(auth, inbox[f], session[f], "new")
  <2>1. Other(f) = e /\ IsSeq(inbox[f]) /\ Order(auth, inbox[f], session[f], session[Other(f)])
    BY <1>2, Others DEF SyncIInv
  <2> QED BY <1>2, <2>1
<1>4. Verack.type = "VERACK" /\ "keyed" \in Sessions /\ "ready" \in Sessions
  BY DEF Verack, Sessions
<1>5. CASE auth
  <2>1. session' = [session EXCEPT ![e] = "keyed"]
    BY <1>5 DEF HandleVersion
  <2>2. session'[e] = "keyed"
    BY <2>1 DEF SyncIInv
  <2>3. Sealed("keyed", Verack) = <<Verack>> /\ <<Verack>> \o <<>> = <<Verack>>
    BY <1>4, Singles, Bare DEF Sealed, Seals
  <2>4. inbox' = Sent(Rest(e), Says(e, <<Verack>>))
    BY <1>5, <2>2, <2>3 DEF HandleVersion
  <2>5. ~Talks(auth, "new") /\ SaidBy(auth, "keyed") = SaidBy(auth, "new") + 1
        /\ Verack.type = Hello[SaidBy(auth, "new") + 1]
    BY <1>4, <1>5 DEF Talks, SaidBy, Hello
  <2> HIDE DEF f
  <2>6. IsSeq(inbox[f] \o <<Verack>>) /\ Order(auth, inbox[f] \o <<Verack>>, session[f], "keyed")
    BY <1>2, <1>3, <2>5, GreetingAppended
  <2>7. Order(auth, Rest(e)[e], "keyed", session[f])
    BY <1>2, <1>5
  <2> QED BY <1>1, <1>4, <1>5, <2>1, <2>4, <2>6, <2>7, RepliedKeeps DEF f
<1>6. CASE ~auth
  <2>1. session' = [session EXCEPT ![e] = "ready"]
    BY <1>6 DEF HandleVersion
  <2>2. session'[e] = "ready"
    BY <2>1 DEF SyncIInv
  <2>3. inbox' = Sent(Rest(e), Says(e, Sealed("ready", Verack) \o more))
    BY <1>6, <2>2 DEF HandleVersion
  <2>4. Data(auth, "ready", Sealed("ready", Verack) \o more)
    <3>1. Data(auth, "ready", <<Verack>>) /\ Talks(auth, "ready") /\ Sealed("ready", Verack) = <<Verack>>
      BY <1>4, <1>6, Singles DEF Data, Talks, Greets, Sealed, Seals
    <3>2. Data(auth, "ready", more)
      BY <1>2, CatchUpData
    <3> HIDE DEF more
    <3> QED BY <3>1, <3>2, DataJoined
  <2> HIDE DEF more, f
  <2>5. SaidBy(auth, "ready") = SaidBy(auth, "new") /\ Talks(auth, "ready")
    BY <1>6 DEF SaidBy, Talks
  <2>6. Order(auth, inbox[f], session[f], "ready")
    BY <1>3, <2>5, SameOrder
  <2> DEFINE reply == Sealed("ready", Verack) \o more
  <2>7. Data(auth, "ready", reply) /\ inbox' = Sent(Rest(e), Says(e, reply))
    BY <2>3, <2>4
  <2> HIDE DEF reply
  <2>8. IsSeq(inbox[f] \o reply) /\ Order(auth, inbox[f] \o reply, session[f], "ready")
    BY <1>2, <1>3, <2>6, <2>7, DataAppended
  <2>9. Order(auth, Rest(e)[e], "ready", session[f])
    BY <1>2, <1>6
  <2> QED BY <1>1, <1>4, <1>6, <2>1, <2>7, <2>8, <2>9, RepliedKeeps DEF f
<1> QED BY <1>5, <1>6

LEMMA VerackKeeps == ASSUME SyncIInv, NEW e \in End, HandleVerack(e) PROVE SyncIInv'
<1> DEFINE f == Other(e)
           more == CatchUp(e[1], startHeight[e])
<1>1. Handles(e, "VERACK") /\ auth' = auth /\ serving' = serving
  BY DEF HandleVerack
<1>2. /\ session[e] # "none" /\ auth \in BOOLEAN /\ f \in End /\ session[e] \in Sessions
      /\ auth => session[e] = "keyed" /\ Order(auth, Rest(e)[e], "ready", session[f])
      /\ ~auth => session[e] = "ready" /\ Order(auth, Rest(e)[e], "ready", session[f])
  <2>1. session[e] \in Sessions
    BY DEF SyncIInv
  <2>2. ~auth => "VERACK" \notin Greets(auth)
    BY DEF Greets
  <2> QED BY <1>1, <2>1, <2>2, Taken
<1>3. Other(f) = e /\ IsSeq(inbox[f]) /\ Order(auth, inbox[f], session[f], session[e])
  BY <1>2, Others DEF SyncIInv
<1>4. session' = [session EXCEPT ![e] = "ready"]
  BY <1>2 DEF HandleVerack, SyncIInv
<1>5. PICK reply : inbox' = Sent(Rest(e), Says(e, reply)) /\ Data(auth, "ready", reply)
  <2>1. Data(auth, "ready", more)
    BY <1>2, CatchUpData
  <2> QED BY <2>1, NoData DEF HandleVerack
<1> HIDE DEF f
<1>6. Order(auth, inbox[f], session[f], "ready")
  <2>1. CASE auth
    <3>1. SaidBy(auth, "ready") = SaidBy(auth, "keyed") /\ Talks(auth, "ready")
      BY <2>1 DEF SaidBy, Talks
    <3> QED BY <1>2, <1>3, <2>1, <3>1, SameOrder
  <2>2. CASE ~auth
    BY <1>2, <1>3, <2>2
  <2> QED BY <2>1, <2>2
<1>7. IsSeq(inbox[f] \o reply) /\ Order(auth, inbox[f] \o reply, session[f], "ready")
  BY <1>2, <1>3, <1>5, <1>6, DataAppended
<1>8. "ready" \in Sessions /\ Order(auth, Rest(e)[e], "ready", session[f])
  BY <1>2 DEF Sessions
<1> QED BY <1>1, <1>4, <1>5, <1>7, <1>8, RepliedKeeps DEF f
------------------------------------------------------------------------------

\* A handler of chain data at e, or one that takes a frame without an answer.
LEMMA DataTaken ==
  ASSUME SyncIInv, NEW e \in End, NEW type, Handles(e, type), type \notin {"VERSION", "VERACK"}
  PROVE  /\ session[e] = "ready" /\ auth \in BOOLEAN
         /\ Rest(e) = [x \in End |-> Rest(e)[x]]
         /\ \A x \in End :
              IsSeq(Rest(e)[x]) /\ Order(auth, Rest(e)[x], session[x], session[Other(x)])
<1>1. type \notin Greets(auth)
  BY DEF Greets
<1>2. /\ session[e] = "ready" /\ auth \in BOOLEAN /\ Rest(e) = [x \in End |-> Rest(e)[x]]
      /\ IsSeq(Rest(e)[e]) /\ Order(auth, Rest(e)[e], session[e], session[Other(e)])
      /\ \A x \in End \ {e} : Rest(e)[x] = inbox[x]
  BY <1>1, Taken
<1>3. ASSUME NEW x \in End
      PROVE  IsSeq(Rest(e)[x]) /\ Order(auth, Rest(e)[x], session[x], session[Other(x)])
  <2>1. CASE x = e
    BY <1>2, <2>1
  <2>2. CASE x # e
    BY <1>2, <2>2 DEF SyncIInv
  <2> QED BY <2>1, <2>2
<1> QED BY <1>2, <1>3

\* Nothing is sent and box is what is left in the inboxes.
LEMMA SilenceKeeps ==
  ASSUME SyncIInv, auth' = auth, session' = session, inbox' = [x \in End |-> inbox'[x]],
         \A x \in End : IsSeq(inbox'[x]) /\ Order(auth, inbox'[x], session[x], session[Other(x)]),
         serving' = [x \in End |-> serving'[x]],
         \A x \in End : serving'[x] # <<>> => session[x] # "none"
  PROVE  SyncIInv'
BY DEF SyncIInv

LEMMA SaidData ==
  ASSUME NEW e \in End, NEW msgs, Data(auth, session[e], msgs)
  PROVE  \A x \in End : Data(auth, session[x], Says(e, msgs)[x])
BY NoData DEF Says

LEMMA RelaysData ==
  ASSUME auth \in BOOLEAN, NEW n, NEW b, NEW except
  PROVE  \A x \in End : Data(auth, session[x], Relays(n, b, except)[x])
<1> SUFFICES ASSUME NEW x \in End PROVE Data(auth, session[x], Relays(n, b, except)[x])
  OBVIOUS
<1>1. BlockMsg(b).type \notin {"VERSION", "VERACK"}
  BY DEF BlockMsg
<1>2. session[x] # "none" => Data(auth, session[x], Sealed(session[x], BlockMsg(b)))
  BY <1>1, SealedData
<1>3. CASE x[1] = n /\ x # except /\ session[x] # "none"
  <2>1. Relays(n, b, except)[x] = Sealed(session[x], BlockMsg(b))
    BY <1>3 DEF Relays
  <2> QED BY <1>2, <1>3, <2>1
<1>4. CASE ~(x[1] = n /\ x # except /\ session[x] # "none")
  <2>1. Relays(n, b, except)[x] = <<>>
    BY <1>4 DEF Relays
  <2> QED BY <2>1, NoData
<1> QED BY <1>3, <1>4

LEMMA GetHeadersKeeps == ASSUME SyncIInv, NEW e \in End, HandleGetHeaders(e) PROVE SyncIInv'
<1>1. Handles(e, "GETHEADERS") /\ "GETHEADERS" \notin {"VERSION", "VERACK"}
      /\ auth' = auth /\ session' = session /\ serving' = serving
  BY DEF HandleGetHeaders
<1>2. PICK msg : msg.type = "HEADERS" /\ inbox' = Sent(Rest(e), Says(e, Sealed(session[e], msg)))
  BY DEF HandleGetHeaders, Headers
<1>3. session[e] # "none" /\ auth \in BOOLEAN
  BY <1>1, DataTaken
<1>4. Data(auth, session[e], Sealed(session[e], msg))
  <2>1. msg.type \notin {"VERSION", "VERACK"}
    BY <1>2
  <2> QED BY <1>3, <2>1, SealedData
<1>5. \A x \in End : Data(auth, session[x], Says(e, Sealed(session[e], msg))[x])
  BY <1>4, SaidData
<1>6. serving' = [x \in End |-> serving'[x]] /\ \A x \in End : serving'[x] # <<>> => session[x] # "none"
  BY <1>1 DEF SyncIInv
<1>7. \A x \in End : IsSeq(Rest(e)[x]) /\ Order(auth, Rest(e)[x], session[x], session[Other(x)])
  BY <1>1, DataTaken
<1> QED BY <1>1, <1>2, <1>5, <1>6, <1>7, DataKeeps

LEMMA HeadersKeeps == ASSUME SyncIInv, NEW e \in End, HandleHeaders(e) PROVE SyncIInv'
<1>1. Handles(e, "HEADERS") /\ "HEADERS" \notin {"VERSION", "VERACK"}
      /\ auth' = auth /\ session' = session /\ serving' = serving
  BY DEF HandleHeaders
<1>2. session[e] # "none" /\ auth \in BOOLEAN
  BY <1>1, DataTaken
<1>3. PICK msgs : inbox' = Sent(Rest(e), Says(e, msgs)) /\ Data(auth, session[e], msgs)
  <2>1. PICK wanted : inbox' = Sent(Rest(e), Says(e, IF wanted = <<>> THEN <<>>
                                                     ELSE Sealed(session[e], GetData(wanted))))
    BY DEF HandleHeaders
  <2>2. GetData(wanted).type \notin {"VERSION", "VERACK"}
    BY DEF GetData
  <2>3. Data(auth, session[e], Sealed(session[e], GetData(wanted)))
    BY <1>2, <2>2, SealedData
  <2> QED BY <2>1, <2>3, NoData
<1>4. \A x \in End : Data(auth, session[x], Says(e, msgs)[x])
  BY <1>3, SaidData
<1>5. serving' = [x \in End |-> serving'[x]] /\ \A x \in End : serving'[x] # <<>> => session[x] # "none"
  BY <1>1 DEF SyncIInv
<1>6. \A x \in End : IsSeq(Rest(e)[x]) /\ Order(auth, Rest(e)[x], session[x], session[Other(x)])
  BY <1>1, DataTaken
<1> QED BY <1>1, <1>3, <1>4, <1>5, <1>6, DataKeeps

LEMMA GetDataKeeps == ASSUME SyncIInv, NEW e \in End, HandleGetData(e) PROVE SyncIInv'
<1>1. Handles(e, "GETDATA") /\ "GETDATA" \notin {"VERSION", "VERACK"}
      /\ auth' = auth /\ session' = session /\ inbox' = Rest(e)
  BY DEF HandleGetData
<1>2. PICK blocks : serving' = [serving EXCEPT ![e] = blocks]
  BY DEF HandleGetData
<1>3. session[e] = "ready"
  BY <1>1, DataTaken
<1>4. serving' = [x \in End |-> serving'[x]] /\ \A x \in End \ {e} : serving'[x] = serving[x]
  BY <1>2 DEF SyncIInv
<1>5. \A x \in End : serving'[x] # <<>> => session[x] # "none"
  BY <1>3, <1>4 DEF SyncIInv
<1>6. /\ inbox' = [x \in End |-> inbox'[x]]
      /\ \A x \in End : IsSeq(inbox'[x]) /\ Order(auth, inbox'[x], session[x], session[Other(x)])
  BY <1>1, DataTaken
<1> QED BY <1>1, <1>4, <1>5, <1>6, SilenceKeeps

LEMMA ServeKeeps == ASSUME SyncIInv, NEW e \in End, ServeNext(e) PROVE SyncIInv'
<1>1. serving[e] # <<>> /\ auth' = auth /\ session' = session
      /\ serving' = [serving EXCEPT ![e] = Tail(@)]
  BY DEF ServeNext
<1>2. session[e] # "none" /\ auth \in BOOLEAN
  BY <1>1 DEF SyncIInv
<1>3. PICK msg : msg.type = "BLOCK" /\ inbox' = Sent(inbox, Says(e, Sealed(session[e], msg)))
  BY DEF ServeNext, BlockMsg
<1>4. Data(auth, session[e], Sealed(session[e], msg))
  <2>1. msg.type \notin {"VERSION", "VERACK"}
    BY <1>3
  <2> QED BY <1>2, <2>1, SealedData
<1>5. \A x \in End : Data(auth, session[x], Says(e, Sealed(session[e], msg))[x])
  BY <1>4, SaidData
<1>6. serving' = [x \in End |-> serving'[x]] /\ \A x \in End \ {e} : serving'[x] = serving[x]
  BY <1>1 DEF SyncIInv
<1>7. \A x \in End : serving'[x] # <<>> => session[x] # "none"
  BY <1>2, <1>6 DEF SyncIInv
<1>8. \A x \in End : IsSeq(inbox[x]) /\ Order(auth, inbox[x], session[x], session[Other(x)])
  BY DEF SyncIInv
<1> QED BY <1>1, <1>3, <1>5, <1>6, <1>7, <1>8, DataKeeps

LEMMA BlockKeeps == ASSUME SyncIInv, NEW e \in End, HandleBlock(e) PROVE SyncIInv'
<1>1. Handles(e, "BLOCK") /\ "BLOCK" \notin {"VERSION", "VERACK"}
      /\ auth' = auth /\ session' = session /\ serving' = serving
  BY DEF HandleBlock
<1>2. /\ Rest(e) = [x \in End |-> Rest(e)[x]] /\ auth \in BOOLEAN
      /\ \A x \in End : IsSeq(Rest(e)[x]) /\ Order(auth, Rest(e)[x], session[x], session[Other(x)])
  BY <1>1, DataTaken
<1>3. serving' = [x \in End |-> serving'[x]] /\ \A x \in End : serving'[x] # <<>> => session[x] # "none"
  BY <1>1 DEF SyncIInv
<1>4. inbox' = Rest(e) \/ \E n, b : inbox' = Sent(Rest(e), Relays(n, b, e))
  BY DEF HandleBlock
<1>5. CASE inbox' = Rest(e)
  <2>1. /\ inbox' = [x \in End |-> inbox'[x]]
        /\ \A x \in End : IsSeq(inbox'[x]) /\ Order(auth, inbox'[x], session[x], session[Other(x)])
    BY <1>2, <1>5
  <2> QED BY <1>1, <1>3, <2>1, SilenceKeeps
<1>6. CASE \E n, b : inbox' = Sent(Rest(e), Relays(n, b, e))
  <2>1. PICK n, b : inbox' = Sent(Rest(e), Relays(n, b, e))
    BY <1>6
  <2>2. \A x \in End : Data(auth, session[x], Relays(n, b, e)[x])
    BY <1>2, RelaysData
  <2> QED BY <1>1, <1>2, <1>3, <2>1, <2>2, DataKeeps
<1> QED BY <1>4, <1>5, <1>6

LEMMA ProduceKeeps == ASSUME SyncIInv, NEW n, NEW b, Produce(n, b) PROVE SyncIInv'
<1>1. /\ auth' = auth /\ session' = session /\ serving' = serving
      /\ inbox' = Sent(inbox, Relays(n, b, <<>>))
  BY DEF Produce
<1>2. /\ auth \in BOOLEAN
      /\ \A x \in End : IsSeq(inbox[x]) /\ Order(auth, inbox[x], session[x], session[Other(x)])
  BY DEF SyncIInv
<1>3. serving' = [x \in End |-> serving'[x]] /\ \A x \in End : serving'[x] # <<>> => session[x] # "none"
  BY <1>1 DEF SyncIInv
<1>4. \A x \in End : Data(auth, session[x], Relays(n, b, <<>>)[x])
  BY <1>2, RelaysData
<1> QED BY <1>1, <1>2, <1>3, <1>4, DataKeeps

LEMMA SyncKept == SyncIInv /\ [Next]_vars => SyncIInv'
<1> SUFFICES ASSUME SyncIInv, [Next]_vars PROVE SyncIInv'
  OBVIOUS
<1>1. CASE UNCHANGED vars
  BY <1>1 DEF vars, SyncIInv
<1>2. ASSUME NEW l \in Link, Open(l) PROVE SyncIInv'
  BY <1>2 DEF Open, SyncIInv
<1>3. ASSUME NEW e \in End, HandleFrame(e) PROVE SyncIInv'
  BY <1>3, VersionKeeps, VerackKeeps, GetHeadersKeeps, HeadersKeeps, GetDataKeeps, ServeKeeps,
     BlockKeeps DEF HandleFrame
<1>4. ASSUME NEW e \in End, Attach(e) PROVE SyncIInv'
  BY <1>4, AttachKeeps
<1>5. ASSUME NEW l \in Link, Drop(l) PROVE SyncIInv'
  BY <1>5, DropKeeps
<1>6. ASSUME NEW n \in Node, NEW b \in Block \ {Genesis}, Produce(n, b) PROVE SyncIInv'
  BY <1>6, ProduceKeeps
<1> QED BY <1>1, <1>2, <1>3, <1>4, <1>5, <1>6 DEF Next

LEMMA SyncSuffices == SyncIInv => NoRefusal
<1> SUFFICES ASSUME SyncIInv, NEW e \in End, session[e] # "none", inbox[e] # <<>>
             PROVE  Accepts(session[e], Arrived(e))
  BY DEF NoRefusal
<1> DEFINE q == inbox[e]
           s == session[e]
           o == session[Other(e)]
           a == auth
<1>1. /\ a \in BOOLEAN /\ s \in Sessions /\ o \in Sessions /\ s # "none"
      /\ ~a => s # "keyed" /\ o # "keyed"
      /\ IsSeq(q) /\ q # <<>> /\ Order(a, q, s, o)
  BY Others DEF SyncIInv
<1> HIDE DEF q, s, o, a
<1>2. /\ Head(q).type = "VERSION" => s = "new"
      /\ a /\ Head(q).type = "VERACK" => s = "keyed"
      /\ Head(q).type \notin Greets(a) => s = "ready"
  BY <1>1, Handled
<1>3. Greets(a) = IF a THEN {"VERSION", "VERACK"} ELSE {"VERSION"}
  BY DEF Greets
<1>4. Arrived(e) = Head(q)
  BY DEF Arrived, q
<1> QED BY <1>1, <1>2, <1>3, <1>4 DEF q, s, a, Accepts

\* The next frame of every socket is one that its end accepts, however nodes
\* attach, drop, produce and relay: AuthSession.open throws for no honest peer
\* and a plain socket carries no chain data before VERSION.
THEOREM FramesAreAccepted ==
  ASSUME AuthModes \subseteq BOOLEAN PROVE Spec => []NoRefusal
<1>1. Init => SyncIInv
  BY SyncStarts
<1> QED BY <1>1, SyncKept, SyncSuffices, PTL DEF Spec
=============================================================================
