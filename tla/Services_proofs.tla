---------------------------- MODULE Services_proofs ----------------------------
(***************************************************************************)
(* Services beside the nodes.                                              *)
(* The assigned work journal (AssignedWork), for any number of processes   *)
(* and any jobs, accounts and amounts: the directory is one log of         *)
(* acceptable events, and no credit is made, lost or locked by it.         *)
(* Launch control (LaunchControl), for any gates, key holders, policies,   *)
(* manifests and releases, and any number of edits and signatures: no      *)
(* launch without its approvals, if the policies name keys of a finite set. *)
(* The soak monitor (SoakMonitor), for any chains, seeds, overlapping ticks *)
(* and limits: a completed window was witnessed.                           *)
(* The readiness report (PilotReadiness), for any order of its answers: a  *)
(* report that does not fail says what was so.                             *)
(* The website worker (SiteWorker), for any requests in flight at once:    *)
(* what one query writes and a later one counts is never counted first.    *)
(***************************************************************************)
EXTENDS AssignedWork, LaunchControl, SoakMonitor, PilotReadiness, SiteWorker,
        SequenceTheorems, Sums

\* The file that Open makes.
NewFile(p) ==
  [whole |-> FALSE, previous |-> call[p].base, event |-> call[p].event]

\* The events of a directory are a sequence of its length.
LEMMA EventsAreASequence ==
  ASSUME NEW fs \in Seq(File)
  PROVE  /\ EventsOf(fs) \in Seq(Event)
         /\ Len(EventsOf(fs)) = Len(fs)
         /\ Len(fs) \in Nat
         /\ \A i \in 1 .. Len(fs) : EventsOf(fs)[i] = fs[i].event
<1>1. Len(fs) \in Nat /\ \A i \in 1 .. Len(fs) : fs[i] \in File
  BY LenProperties, ElementOfSeq
<1>2. \A i \in 1 .. Len(fs) : fs[i].event \in Event
  BY <1>1 DEF File
<1> QED BY <1>1, <1>2 DEF EventsOf

\* A new file adds its event to them.
LEMMA EventsGrow ==
  ASSUME NEW fs \in Seq(File), NEW f \in File
  PROVE  EventsOf(Append(fs, f)) = Append(EventsOf(fs), f.event)
<1>1. /\ Append(fs, f) \in Seq(File) /\ Len(Append(fs, f)) = Len(fs) + 1
      /\ \A i \in 1 .. Len(fs) : Append(fs, f)[i] = fs[i]
      /\ Append(fs, f)[Len(fs) + 1] = f
  BY AppendProperties
<1>2. /\ EventsOf(fs) \in Seq(Event) /\ Len(EventsOf(fs)) = Len(fs)
      /\ Len(fs) \in Nat
      /\ \A i \in 1 .. Len(fs) : EventsOf(fs)[i] = fs[i].event
  BY EventsAreASequence
<1>3. f.event \in Event
  BY DEF File
<1>4. /\ Append(EventsOf(fs), f.event) \in Seq(Event)
      /\ Len(Append(EventsOf(fs), f.event)) = Len(fs) + 1
      /\ \A i \in 1 .. Len(fs) : Append(EventsOf(fs), f.event)[i] = fs[i].event
      /\ Append(EventsOf(fs), f.event)[Len(fs) + 1] = f.event
  BY <1>2, <1>3, AppendProperties
<1>5. /\ EventsOf(Append(fs, f)) \in Seq(Event)
      /\ Len(EventsOf(Append(fs, f))) = Len(fs) + 1
      /\ \A i \in 1 .. Len(fs) + 1 :
            EventsOf(Append(fs, f))[i] = Append(fs, f)[i].event
  BY <1>1, EventsAreASequence
<1>6. \A i \in 1 .. Len(fs) + 1 :
         EventsOf(Append(fs, f))[i] = Append(EventsOf(fs), f.event)[i]
  <2> SUFFICES ASSUME NEW i \in 1 .. Len(fs) + 1
               PROVE  EventsOf(Append(fs, f))[i] = Append(EventsOf(fs), f.event)[i]
    OBVIOUS
  <2>1. CASE i \in 1 .. Len(fs)
    BY <1>1, <1>4, <1>5, <2>1
  <2>2. CASE i = Len(fs) + 1
    BY <1>1, <1>4, <1>5, <2>2
  <2> QED BY <1>2, <2>1, <2>2
<1> QED BY <1>4, <1>5, <1>6, SeqEqual

\* What is appended to a sequence does not change how it begins.
LEMMA PrefixOfAppend ==
  ASSUME NEW S, NEW s \in Seq(S), NEW e \in S, NEW n \in 0 .. Len(s)
  PROVE  SubSeq(Append(s, e), 1, n) = SubSeq(s, 1, n)
<1> DEFINE t == Append(s, e)
<1>1. /\ t \in Seq(S) /\ Len(t) = Len(s) + 1 /\ Len(s) \in Nat
      /\ \A i \in 1 .. Len(s) : t[i] = s[i] /\ s[i] \in S
  BY AppendProperties, LenProperties, ElementOfSeq
<1> HIDE DEF t
<1>2. \A i \in 1 .. n : t[i] = s[i] /\ s[i] \in S
  BY <1>1
<1>3. /\ SubSeq(s, 1, n) \in Seq(S) /\ Len(SubSeq(s, 1, n)) = n
      /\ \A i \in 1 .. n : SubSeq(s, 1, n)[i] = s[i]
  BY <1>1, <1>2, SubSeqProperties
<1>4. /\ SubSeq(t, 1, n) \in Seq(S) /\ Len(SubSeq(t, 1, n)) = n
      /\ \A i \in 1 .. n : SubSeq(t, 1, n)[i] = t[i]
  BY <1>1, <1>2, SubSeqProperties
<1>5. \A i \in 1 .. n : SubSeq(t, 1, n)[i] = SubSeq(s, 1, n)[i]
  BY <1>2, <1>3, <1>4
<1>6. SubSeq(t, 1, n) = SubSeq(s, 1, n)
  BY <1>3, <1>4, <1>5, SeqEqual
<1> QED BY <1>6 DEF t

\* The front of a sequence, and the sequence put together again.
LEMMA FrontAndLast ==
  ASSUME NEW S, NEW s \in Seq(S), s # <<>>
  PROVE  /\ Len(s) \in Nat \ {0}
         /\ s[Len(s)] \in S
         /\ SubSeq(s, 1, Len(s) - 1) \in Seq(S)
         /\ Len(SubSeq(s, 1, Len(s) - 1)) = Len(s) - 1
         /\ \A i \in 1 .. Len(s) - 1 : SubSeq(s, 1, Len(s) - 1)[i] = s[i]
         /\ s = Append(SubSeq(s, 1, Len(s) - 1), s[Len(s)])
<1> DEFINE n == Len(s) - 1
           f == SubSeq(s, 1, n)
<1>1. Len(s) \in Nat \ {0}
  BY LenProperties, EmptySeq
<1>2. n \in Nat /\ n + 1 = Len(s) /\ \A i \in 1 .. n + 1 : s[i] \in S
  BY <1>1, ElementOfSeq
<1>3. f \in Seq(S) /\ Len(f) = n /\ \A i \in 1 .. n : f[i] = s[i]
  <2> HIDE DEF n
  <2> QED BY <1>2, SubSeqProperties
<1>4. s[n + 1] \in S
  <2> HIDE DEF n
  <2> QED BY <1>2
<1> HIDE DEF f, n
<1>5. /\ Append(f, s[n + 1]) \in Seq(S) /\ Len(Append(f, s[n + 1])) = n + 1
      /\ \A i \in 1 .. n : Append(f, s[n + 1])[i] = f[i]
      /\ Append(f, s[n + 1])[n + 1] = s[n + 1]
  BY <1>3, <1>4, AppendProperties
<1>6. \A i \in 1 .. n + 1 : s[i] = Append(f, s[n + 1])[i]
  BY <1>2, <1>3, <1>5
<1>7. s = Append(f, s[n + 1])
  BY <1>2, <1>5, <1>6, SeqEqual
<1> QED BY <1>1, <1>2, <1>3, <1>4, <1>7 DEF f, n

\* The events of a directory without its last file.
LEMMA EventsOfFront ==
  ASSUME NEW fs \in Seq(File), fs # <<>>
  PROVE  EventsOf(Front(fs)) = SubSeq(EventsOf(fs), 1, Len(fs) - 1)
<1> DEFINE n == Len(fs) - 1
<1>1. /\ n \in Nat /\ n + 1 = Len(fs)
      /\ Front(fs) \in Seq(File) /\ Len(Front(fs)) = n
      /\ \A i \in 1 .. n : Front(fs)[i] = fs[i]
  BY FrontAndLast DEF Front
<1>2. /\ EventsOf(fs) \in Seq(Event) /\ Len(EventsOf(fs)) = n + 1
      /\ \A i \in 1 .. n + 1 : EventsOf(fs)[i] = fs[i].event
  BY <1>1, EventsAreASequence
<1>3. /\ EventsOf(Front(fs)) \in Seq(Event) /\ Len(EventsOf(Front(fs))) = n
      /\ \A i \in 1 .. n : EventsOf(Front(fs))[i] = Front(fs)[i].event
  BY <1>1, EventsAreASequence
<1> HIDE DEF n
<1>4. \A i \in 1 .. n : EventsOf(fs)[i] \in Event
  BY <1>1, <1>2, ElementOfSeq
<1>5. /\ SubSeq(EventsOf(fs), 1, n) \in Seq(Event)
      /\ Len(SubSeq(EventsOf(fs), 1, n)) = n
      /\ \A i \in 1 .. n : SubSeq(EventsOf(fs), 1, n)[i] = EventsOf(fs)[i]
  BY <1>1, <1>4, SubSeqProperties
<1>6. \A i \in 1 .. n : EventsOf(Front(fs))[i] = SubSeq(EventsOf(fs), 1, n)[i]
  BY <1>1, <1>2, <1>3, <1>5
<1>7. EventsOf(Front(fs)) = SubSeq(EventsOf(fs), 1, n)
  BY <1>3, <1>5, <1>6, SeqEqual
<1> QED BY <1>7 DEF n

\* All of a sequence.
LEMMA FullSubSeq ==
  ASSUME NEW S, NEW s \in Seq(S)
  PROVE  SubSeq(s, 1, Len(s)) = s
<1>1. Len(s) \in Nat /\ \A i \in 1 .. Len(s) : s[i] \in S
  BY LenProperties, ElementOfSeq
<1>2. /\ SubSeq(s, 1, Len(s)) \in Seq(S) /\ Len(SubSeq(s, 1, Len(s))) = Len(s)
      /\ \A i \in 1 .. Len(s) : SubSeq(s, 1, Len(s))[i] = s[i]
  BY <1>1, SubSeqProperties
<1> QED BY <1>2, SeqEqual

\* Whether a file continues those before it does not depend on later ones.
LEMMA ContinuesStill ==
  ASSUME NEW fs \in Seq(File), NEW f \in File, NEW i \in 1 .. Len(fs)
  PROVE  Continues(Append(fs, f), i) <=> Continues(fs, i)
<1>1. Append(fs, f)[i] = fs[i]
  BY AppendProperties
<1>2. EventsOf(fs) \in Seq(Event) /\ Len(EventsOf(fs)) = Len(fs) /\ Len(fs) \in Nat
  BY EventsAreASequence
<1>3. f.event \in Event /\ i - 1 \in 0 .. Len(EventsOf(fs))
  BY <1>2 DEF File
<1>4. SubSeq(EventsOf(Append(fs, f)), 1, i - 1) = SubSeq(EventsOf(fs), 1, i - 1)
  <2> DEFINE s == EventsOf(fs)
             n == i - 1
  <2>1. s \in Seq(Event) /\ n \in 0 .. Len(s)
    BY <1>2, <1>3
  <2>2. EventsOf(Append(fs, f)) = Append(s, f.event)
    BY EventsGrow
  <2> HIDE DEF s, n
  <2>3. SubSeq(Append(s, f.event), 1, n) = SubSeq(s, 1, n)
    BY <1>3, <2>1, PrefixOfAppend
  <2> QED BY <2>2, <2>3 DEF s, n
<1> QED BY <1>1, <1>4 DEF Continues

\* The fields of an operation that has read the directory.
LEMMA CallFields ==
  ASSUME TypeOK, NEW p \in Process
  PROVE  /\ call[p] \in Calls
         /\ call[p].step = "called" => call[p].event \in Event
         /\ call[p].step \in {"opening", "writing"} =>
              /\ call[p].event \in Event /\ call[p].base \in Seq(Event)
              /\ NewFile(p) \in File
<1>1. call[p] \in Calls
  BY DEF TypeOK
<1>2. /\ call[p].step = "called" => call[p].event \in Event
      /\ call[p].step \in {"opening", "writing"} =>
           call[p].event \in Event /\ call[p].base \in Seq(Event)
  BY <1>1 DEF Calls, Idle
<1>3. call[p].step \in {"opening", "writing"} => NewFile(p) \in File
  BY <1>2 DEF NewFile, File
<1> QED BY <1>1, <1>2, <1>3
------------------------------------------------------------------------------
(* The invariant of the journal *)

\* An empty directory is sound.
LEMMA InitialInv == Init => JournalInv
<1> SUFFICES ASSUME Init PROVE JournalInv
  OBVIOUS
<1>1. files = <<>> /\ Len(files) = 0 /\ files \in Seq(File)
  BY DEF Init
<1>2. clock \in Time
  BY WorkAssumption DEF Init, Time
<1>3. call \in [Process -> Calls] /\ \A p \in Process : call[p].step = "idle"
  BY DEF Init, Calls, Idle
<1>4. TypeOK
  BY <1>1, <1>2, <1>3 DEF TypeOK
<1>5. JournalLoads
  BY <1>1 DEF JournalLoads
<1>6. CallsFollow
  BY <1>3 DEF CallsFollow
<1> QED BY <1>4, <1>5, <1>6 DEF JournalInv

\* A step that touches one operation only: unless it writes, what it has read
\* must be how the directory begins.
LEMMA CallChanges ==
  ASSUME JournalInv, NEW p \in Process, NEW c \in Calls,
         call' = [call EXCEPT ![p] = c], UNCHANGED <<files, clock>>,
         c.step # "writing",
         c.step = "opening" =>
           /\ Len(c.base) <= Len(files)
           /\ c.base = SubSeq(EventsOf(files), 1, Len(c.base))
           /\ \A i \in 1 .. Len(c.base) : files[i].whole
           /\ Follows(c.base, c.event)
  PROVE  JournalInv'
<1>1. TypeOK'
  BY DEF JournalInv, TypeOK
<1>2. JournalLoads'
  BY DEF JournalInv, JournalLoads
<1>3. /\ call'[p] = c
      /\ \A q \in Process \ {p} : call'[q] = call[q]
  BY DEF JournalInv, TypeOK
<1>4. CallsFollow'
  <2>1. ASSUME NEW q \in Process, call'[q].step \in {"opening", "writing"}
        PROVE  /\ Len(call'[q].base) <= Len(files')
               /\ call'[q].base = SubSeq(EventsOf(files'), 1, Len(call'[q].base))
               /\ \A i \in 1 .. Len(call'[q].base) : files'[i].whole
               /\ Follows(call'[q].base, call'[q].event)
    <3>1. CASE q = p
      BY <1>3, <2>1, <3>1
    <3>2. CASE q # p
      BY <1>3, <2>1, <3>2 DEF JournalInv, CallsFollow
    <3> QED BY <3>1, <3>2
  <2>2. ASSUME NEW q \in Process, call'[q].step = "writing"
        PROVE  /\ Len(files') = Len(call'[q].base) + 1
               /\ ~files'[Len(files')].whole
               /\ \A r \in Process \ {q} : call'[r].step # "writing"
    <3>1. q # p /\ call'[q] = call[q]
      BY <1>3, <2>2
    <3>2. /\ Len(files) = Len(call[q].base) + 1
          /\ ~files[Len(files)].whole
          /\ \A r \in Process \ {q} : call[r].step # "writing"
      BY <2>2, <3>1 DEF JournalInv, CallsFollow
    <3> QED BY <1>3, <3>1, <3>2
  <2> QED BY <2>1, <2>2 DEF CallsFollow
<1> QED BY <1>1, <1>2, <1>4 DEF JournalInv

\* The new file is the next one, of an event checked against all the others,
\* which are whole: nobody is writing.
LEMMA OpenKeeps ==
  ASSUME JournalInv, NEW p \in Process, Open(p)
  PROVE  /\ JournalInv'
         /\ \A i \in 1 .. Len(files) : files[i].whole
         /\ files' # <<>> /\ Len(files') = Len(files) + 1 /\ ~files'[Len(files')].whole
         /\ SubSeq(EventsOf(files'), 1, Len(files)) = EventsOf(files)
<1> DEFINE n == Len(files)
           base == call[p].base
<1>1. /\ files \in Seq(File) /\ n \in Nat
      /\ call[p].step = "opening" /\ call[p].event \in Event
      /\ base \in Seq(Event) /\ NewFile(p) \in File
  BY CallFields, EventsAreASequence DEF JournalInv, TypeOK, Open
<1>2. /\ Len(base) = n /\ base = EventsOf(files)
      /\ \A i \in 1 .. n : files[i].whole
      /\ Follows(EventsOf(files), call[p].event)
  <2>1. /\ Len(base) = n /\ base = SubSeq(EventsOf(files), 1, n)
        /\ \A i \in 1 .. n : files[i].whole /\ Follows(base, call[p].event)
        /\ Follows(base, call[p].event)
    BY <1>1 DEF JournalInv, CallsFollow, Open
  <2>2. EventsOf(files) \in Seq(Event) /\ Len(EventsOf(files)) = n
    BY <1>1, EventsAreASequence
  <2>3. SubSeq(EventsOf(files), 1, n) = EventsOf(files)
    BY <2>2, FullSubSeq
  <2> QED BY <2>1, <2>3
<1>3. files' = Append(files, NewFile(p)) /\ clock' = clock
  BY DEF Open, NewFile
<1>4. /\ files' \in Seq(File) /\ Len(files') = n + 1
      /\ \A i \in 1 .. n : files'[i] = files[i]
      /\ files'[n + 1] = NewFile(p)
  BY <1>1, <1>3, AppendProperties
<1>5. EventsOf(files') = Append(EventsOf(files), call[p].event)
  BY <1>1, <1>3, EventsGrow DEF NewFile
<1>6. /\ call'[p].step = "writing" /\ call'[p].base = base
      /\ call'[p].event = call[p].event /\ call' \in [Process -> Calls]
      /\ \A q \in Process \ {p} : call'[q] = call[q]
  <2>1. call[p] \in [step : {"opening", "writing"}, event : Event, base : Seq(Event)]
    BY <1>1, CallFields DEF JournalInv, Calls, Idle
  <2>2. [call[p] EXCEPT !.step = "writing"] \in Calls
    BY <2>1 DEF Calls
  <2>3. call' = [call EXCEPT ![p] = [call[p] EXCEPT !.step = "writing"]]
    BY DEF Open
  <2>4. call \in [Process -> Calls]
    BY DEF JournalInv, TypeOK
  <2> QED BY <2>1, <2>2, <2>3, <2>4
<1>7. \A k \in 0 .. n : SubSeq(EventsOf(files'), 1, k) = SubSeq(EventsOf(files), 1, k)
  <2> DEFINE s == EventsOf(files)
  <2>1. s \in Seq(Event) /\ Len(s) = n
    BY <1>1, EventsAreASequence
  <2> HIDE DEF s
  <2>2. \A k \in 0 .. Len(s) : SubSeq(Append(s, call[p].event), 1, k) = SubSeq(s, 1, k)
    BY <1>1, <2>1, PrefixOfAppend
  <2> QED BY <1>5, <2>1, <2>2 DEF s
<1>8. TypeOK'
  BY <1>3, <1>4, <1>6 DEF JournalInv, TypeOK
<1>9. JournalLoads'
  <2>1. \A i \in 1 .. n : Continues(files', i)
    BY <1>1, <1>3, ContinuesStill DEF JournalInv, JournalLoads
  <2>2. Continues(files', n + 1)
    <3>1. SubSeq(EventsOf(files'), 1, n) = base
      <4>1. n \in 0 .. n
        BY <1>1
      <4>2. EventsOf(files) \in Seq(Event) /\ Len(EventsOf(files)) = n
        BY <1>1, EventsAreASequence
      <4>3. SubSeq(EventsOf(files), 1, n) = EventsOf(files)
        BY <4>2, FullSubSeq
      <4> QED BY <1>2, <1>7, <4>1, <4>3
    <3>2. (n + 1) - 1 = n
      BY <1>1
    <3>3. files'[n + 1].previous = base /\ files'[n + 1].event = call[p].event
      BY <1>4 DEF NewFile
    <3>4. Follows(base, call[p].event)
      BY <1>2
    <3>5. SubSeq(EventsOf(files'), 1, (n + 1) - 1) = base
      BY <3>1, <3>2
    <3> HIDE DEF n, base
    <3> QED BY <3>3, <3>4, <3>5 DEF Continues
  <2> HIDE DEF n
  <2>3. \A i \in 1 .. n + 1 : Continues(files', i) /\ (i < n + 1 => files'[i].whole)
    BY <1>1, <1>2, <1>4, <2>1, <2>2
  <2> QED BY <1>4, <2>3 DEF JournalLoads
<1>10. \A q \in Process : call[q].step # "writing"
  BY <1>1, <1>2 DEF JournalInv, CallsFollow
<1>11. ASSUME NEW q \in Process, call'[q].step \in {"opening", "writing"}
       PROVE  /\ Len(call'[q].base) <= Len(files')
              /\ call'[q].base = SubSeq(EventsOf(files'), 1, Len(call'[q].base))
              /\ \A i \in 1 .. Len(call'[q].base) : files'[i].whole
              /\ Follows(call'[q].base, call'[q].event)
  <2>1. /\ call'[q].base = call[q].base /\ call'[q].event = call[q].event
        /\ call[q].step \in {"opening", "writing"}
    BY <1>1, <1>6, <1>11
  <2>2. /\ Len(call[q].base) <= n
        /\ call[q].base = SubSeq(EventsOf(files), 1, Len(call[q].base))
        /\ \A i \in 1 .. Len(call[q].base) : files[i].whole
        /\ Follows(call[q].base, call[q].event)
    BY <2>1 DEF JournalInv, CallsFollow
  <2> DEFINE k == Len(call[q].base)
  <2>3. k \in 0 .. n
    BY <1>1, <2>1, <2>2, CallFields, LenProperties DEF JournalInv
  <2>4. k <= Len(files')
    BY <1>1, <1>4, <2>3
  <2>5. call[q].base = SubSeq(EventsOf(files'), 1, k)
    BY <1>7, <2>2, <2>3
  <2>6. \A i \in 1 .. k : files'[i].whole
    <3>1. \A i \in 1 .. k : i \in 1 .. n /\ files[i].whole
      BY <1>1, <2>2, <2>3
    <3> QED BY <1>4, <3>1
  <2> QED BY <2>1, <2>2, <2>4, <2>5, <2>6
<1>12. ASSUME NEW q \in Process, call'[q].step = "writing"
       PROVE  /\ Len(files') = Len(call'[q].base) + 1
              /\ ~files'[Len(files')].whole
              /\ \A r \in Process \ {q} : call'[r].step # "writing"
  <2>1. q = p
    BY <1>6, <1>10, <1>12
  <2> QED BY <1>2, <1>4, <1>6, <1>10, <2>1 DEF NewFile
<1>13. CallsFollow'
  BY <1>11, <1>12 DEF CallsFollow
<1>14. files' # <<>> /\ ~files'[n + 1].whole
  BY <1>1, <1>4, EmptySeq DEF NewFile
<1>15. SubSeq(EventsOf(files'), 1, n) = EventsOf(files)
  <2>1. n \in 0 .. n /\ EventsOf(files) \in Seq(Event) /\ Len(EventsOf(files)) = n
    BY <1>1, EventsAreASequence
  <2>2. SubSeq(EventsOf(files), 1, n) = EventsOf(files)
    BY <2>1, FullSubSeq
  <2> QED BY <1>7, <2>1, <2>2
<1> QED BY <1>2, <1>4, <1>8, <1>9, <1>13, <1>14, <1>15 DEF JournalInv

\* The last file becomes whole; it is its writer's.
LEMMA WriteKeeps ==
  ASSUME JournalInv, NEW p \in Process, Write(p)
  PROVE  /\ JournalInv'
         /\ Len(files') = Len(files) /\ files # <<>>
         /\ ~files[Len(files)].whole /\ files'[Len(files)].whole
         /\ EventsOf(files') = EventsOf(files)
<1> DEFINE n == Len(files)
<1>1. /\ files \in Seq(File) /\ n = Len(call[p].base) + 1
      /\ call[p].step = "writing" /\ call[p].base \in Seq(Event)
      /\ ~files[n].whole
      /\ \A q \in Process \ {p} : call[q].step # "writing"
  BY CallFields DEF JournalInv, TypeOK, CallsFollow, Write
<1>2. n \in Nat \ {0} /\ files # <<>>
  BY <1>1, LenProperties, EmptySeq
<1>3. files' = [files EXCEPT ![n] = [files[n] EXCEPT !.whole = TRUE]]
  BY <1>1 DEF Write
<1>4. files[n] \in File /\ [files[n] EXCEPT !.whole = TRUE] \in File
  <2>1. files[n] \in File
    BY <1>1, <1>2, ElementOfSeq
  <2> QED BY <2>1 DEF File
<1>5. /\ files' \in Seq(File) /\ Len(files') = n
      /\ \A i \in 1 .. n : i # n => files'[i] = files[i]
      /\ files'[n] = [files[n] EXCEPT !.whole = TRUE]
  <2> DEFINE w == [files[n] EXCEPT !.whole = TRUE]
  <2>1. n \in 1 .. Len(files) /\ w \in File /\ files' = [files EXCEPT ![n] = w]
    BY <1>2, <1>3, <1>4
  <2> HIDE DEF w
  <2>2. /\ files' \in Seq(File) /\ Len(files') = n
        /\ \A i \in 1 .. n : files'[i] = IF i = n THEN w ELSE files[i]
    <3> HIDE DEF n
    <3> QED BY <1>1, <2>1, ExceptSeq DEF n
  <2>3. files'[n] = w
    BY <2>1, <2>2
  <2> QED BY <2>2, <2>3 DEF w
<1>6. \A i \in 1 .. n :
         /\ files'[i].event = files[i].event /\ files'[i].previous = files[i].previous
         /\ files[i].whole => files'[i].whole
  BY <1>4, <1>5 DEF File
<1>7. files'[n].whole
  BY <1>4, <1>5 DEF File
<1>8. EventsOf(files') = EventsOf(files)
  BY <1>5, <1>6 DEF EventsOf
<1>9. /\ call' \in [Process -> Calls] /\ call'[p].step = "idle" /\ clock' = clock
      /\ \A q \in Process \ {p} : call'[q] = call[q]
  BY DEF JournalInv, TypeOK, Write, Calls, Idle
<1>10. TypeOK'
  BY <1>5, <1>9 DEF JournalInv, TypeOK
<1>11. JournalLoads'
  BY <1>5, <1>6, <1>8 DEF JournalInv, JournalLoads, Continues
<1>12. \A q \in Process : call'[q].step # "writing"
  BY <1>1, <1>9
<1>13. ASSUME NEW q \in Process, call'[q].step = "opening"
       PROVE  /\ Len(call'[q].base) <= Len(files')
              /\ call'[q].base = SubSeq(EventsOf(files'), 1, Len(call'[q].base))
              /\ \A i \in 1 .. Len(call'[q].base) : files'[i].whole
              /\ Follows(call'[q].base, call'[q].event)
  <2>1. call'[q] = call[q]
    BY <1>9, <1>13
  <2>2. /\ Len(call[q].base) <= n
        /\ call[q].base = SubSeq(EventsOf(files), 1, Len(call[q].base))
        /\ \A i \in 1 .. Len(call[q].base) : files[i].whole
        /\ Follows(call[q].base, call[q].event)
    BY <1>13, <2>1 DEF JournalInv, CallsFollow
  <2>3. Len(call[q].base) \in Nat
    BY <1>13, <2>1, CallFields, LenProperties DEF JournalInv
  <2>4. \A i \in 1 .. Len(call[q].base) : i \in 1 .. n
    BY <1>2, <2>2, <2>3
  <2> QED BY <1>5, <1>6, <1>8, <2>1, <2>2, <2>4
<1>14. CallsFollow'
  BY <1>12, <1>13 DEF CallsFollow
<1> QED BY <1>1, <1>2, <1>5, <1>7, <1>8, <1>10, <1>11, <1>14 DEF JournalInv

\* Every step keeps the invariant.
LEMMA StepInv == JournalInv /\ [Next]_vars => JournalInv'
<1> SUFFICES ASSUME JournalInv, [Next]_vars PROVE JournalInv'
  OBVIOUS
<1>1. ASSUME NEW p \in Process, Call(p) PROVE JournalInv'
  <2>1. PICK e \in Inputs(p) : call' = [call EXCEPT ![p] = [step |-> "called", event |-> e]]
    BY <1>1 DEF Call
  <2>2. [step |-> "called", event |-> e] \in Calls
    BY DEF Inputs, Calls
  <2> QED BY <1>1, <2>1, <2>2, CallChanges DEF Call
<1>2. ASSUME NEW p \in Process, Read(p) PROVE JournalInv'
  <2> DEFINE c == [step |-> "opening", event |-> call[p].event, base |-> EventsOf(files)]
  <2>1. /\ files \in Seq(File) /\ call[p].event \in Event
        /\ EventsOf(files) \in Seq(Event) /\ Len(EventsOf(files)) = Len(files)
        /\ Len(files) \in Nat
    BY <1>2, CallFields, EventsAreASequence DEF JournalInv, TypeOK, Read
  <2>2. c \in Calls
    BY <2>1 DEF Calls
  <2>3. SubSeq(EventsOf(files), 1, Len(files)) = EventsOf(files)
    <3> DEFINE s == EventsOf(files)
    <3>1. s \in Seq(Event) /\ Len(s) = Len(files)
      BY <2>1
    <3> HIDE DEF s
    <3>2. SubSeq(s, 1, Len(s)) = s
      BY <3>1, FullSubSeq
    <3> QED BY <3>1, <3>2 DEF s
  <2>4. /\ \A i \in 1 .. Len(files) : files[i].whole
        /\ Follows(EventsOf(files), call[p].event)
    BY <1>2 DEF Read, Acceptable, Loads
  <2>5. call' = [call EXCEPT ![p] = c] /\ UNCHANGED <<files, clock>>
    BY <1>2 DEF Read
  <2>6. /\ c.step = "opening" /\ c.base = EventsOf(files) /\ c.event = call[p].event
    OBVIOUS
  <2>7. Len(c.base) <= Len(files)
    BY <2>1, <2>6
  <2> HIDE DEF c
  <2> QED BY <2>1, <2>2, <2>3, <2>4, <2>5, <2>6, <2>7, CallChanges
<1>3. ASSUME NEW p \in Process, Refuse(p) \/ Conflict(p) \/ Abandon(p) PROVE JournalInv'
  <2>1. call' = [call EXCEPT ![p] = Idle] /\ UNCHANGED <<files, clock>>
    BY <1>3 DEF Refuse, Conflict, Abandon
  <2>2. Idle \in Calls /\ Idle.step = "idle"
    BY DEF Calls, Idle
  <2> HIDE DEF Idle
  <2> QED BY <2>1, <2>2, CallChanges
<1>4. ASSUME Tick PROVE JournalInv'
  <2>1. clock' \in Time
    BY <1>4, WorkAssumption DEF JournalInv, TypeOK, Tick, Time
  <2> QED BY <1>4, <2>1 DEF Tick, JournalInv, TypeOK, JournalLoads, CallsFollow
<1>5. ASSUME UNCHANGED vars PROVE JournalInv'
  BY <1>5 DEF vars, JournalInv, TypeOK, JournalLoads, CallsFollow
<1> QED BY <1>1, <1>2, <1>3, <1>4, <1>5, OpenKeeps, WriteKeeps DEF Next

\* Whatever processes share the directory and wherever they die, the files on
\* disk replay in order, each accepted by those before it (read and append).
THEOREM JournalInvariant == Spec => []JournalInv
<1> QED BY InitialInv, StepInv, PTL DEF Spec
------------------------------------------------------------------------------
(* What the invariant gives *)

\* With an unfinished file that nobody is writing, no step changes the
\* directory: every append fails until someone removes the file.
THEOREM JournalFailsClosed == Spec => FailsClosed
<1>1. ASSUME JournalInv, [Next]_vars,
             files # <<>>, ~files[Len(files)].whole,
             \A p \in Process : call[p] # Idle => call[p].step # "writing"
      PROVE  UNCHANGED files
  <2>1. ASSUME NEW p \in Process, Open(p) PROVE FALSE
    <3>1. Len(files) \in Nat \ {0}
      BY <1>1, LenProperties, EmptySeq DEF JournalInv, TypeOK
    <3> QED BY <1>1, <2>1, <3>1, OpenKeeps
  <2>2. ASSUME NEW p \in Process, Write(p) PROVE FALSE
    BY <1>1, <2>2 DEF Write, Idle
  <2> QED BY <1>1, <2>1, <2>2
       DEF Next, vars, Call, Read, Refuse, Conflict, Abandon, Tick
<1>2. Spec => []JournalInv
  BY JournalInvariant
<1> QED BY <1>1, <1>2, PTL DEF Spec, FailsClosed

\* A new file is not recorded before it is whole.
LEMMA OpenRecordsNothing ==
  ASSUME JournalInv, NEW p \in Process, Open(p)
  PROVE  Recorded' = Recorded
<1>1. /\ files \in Seq(File) /\ files' \in Seq(File) /\ Len(files) \in Nat
      /\ \A i \in 1 .. Len(files) : files[i].whole
      /\ files' # <<>> /\ Len(files') = Len(files) + 1 /\ ~files'[Len(files')].whole
      /\ SubSeq(EventsOf(files'), 1, Len(files)) = EventsOf(files)
  BY OpenKeeps, LenProperties DEF JournalInv, TypeOK
<1>2. Recorded = EventsOf(files)
  <2>1. files # <<>> => files[Len(files)].whole
    BY <1>1, EmptySeq
  <2> QED BY <2>1 DEF Recorded
<1>3. Len(files') - 1 = Len(files)
  BY <1>1
<1>4. EventsOf(Front(files')) = EventsOf(files)
  BY <1>1, <1>3, EventsOfFront
<1>5. Recorded' = EventsOf(Front(files'))
  BY <1>1 DEF Recorded
<1> QED BY <1>2, <1>4, <1>5

\* A file that becomes whole adds its event, which the journal accepts.
LEMMA WriteRecords ==
  ASSUME JournalInv, NEW p \in Process, Write(p)
  PROVE  \E e \in Event : Recorded' = Append(Recorded, e) /\ Follows(Recorded, e)
<1> DEFINE n == Len(files)
           s == EventsOf(files)
           e == files[n].event
<1>1. /\ files \in Seq(File) /\ files # <<>> /\ Len(files') = n
      /\ ~files[n].whole /\ files'[n].whole /\ EventsOf(files') = s
      /\ JournalLoads
  BY WriteKeeps DEF JournalInv, TypeOK
<1>2. /\ n \in Nat \ {0} /\ s \in Seq(Event) /\ Len(s) = n /\ s[n] = e
  BY <1>1, LenProperties, EmptySeq, EventsAreASequence
<1>3. Recorded = SubSeq(s, 1, n - 1)
  BY <1>1, EventsOfFront DEF Recorded
<1>4. Recorded' = s
  BY <1>1 DEF Recorded
<1>5. Follows(SubSeq(s, 1, n - 1), e)
  BY <1>1, <1>2 DEF JournalLoads, Continues
<1> HIDE DEF n, s, e
<1>6. s # <<>>
  BY <1>2, EmptySeq
<1>7. s = Append(SubSeq(s, 1, n - 1), e) /\ e \in Event
  BY <1>2, <1>6, FrontAndLast
<1> QED BY <1>3, <1>4, <1>5, <1>7

\* The directory shared by any number of processes implements one append-only
\* log of acceptable events: two appends never take the same place, and what
\* an operation has returned is never changed or lost (append).
THEOREM JournalRefinement == Spec => ImplementsWorkLog
<1>1. Init => OneLog!Init
  <2> SUFFICES ASSUME Init PROVE Recorded = <<>>
    BY DEF OneLog!Init
  <2>1. files = <<>> /\ files \in Seq(File) /\ Len(files) = 0
    BY DEF Init
  <2>2. EventsOf(files) \in Seq(Event) /\ Len(EventsOf(files)) = 0
    BY <2>1, EventsAreASequence
  <2>3. EventsOf(files) = <<>>
    BY <2>2, EmptySeq
  <2> QED BY <2>1, <2>3 DEF Recorded
<1>2. JournalInv /\ [Next]_vars => [OneLog!Next]_Recorded
  <2> SUFFICES ASSUME JournalInv, [Next]_vars PROVE [OneLog!Next]_Recorded
    OBVIOUS
  <2>1. ASSUME NEW p \in Process, Open(p) PROVE UNCHANGED Recorded
    BY <2>1, OpenRecordsNothing
  <2>2. ASSUME NEW p \in Process, Write(p) PROVE OneLog!Next \/ UNCHANGED Recorded
    BY <2>2, WriteRecords DEF OneLog!Next, OneLog!Record
  <2>3. ASSUME UNCHANGED files PROVE UNCHANGED Recorded
    BY <2>3 DEF Recorded
  <2>4. UNCHANGED files \/ \E p \in Process : Open(p) \/ Write(p)
    BY DEF Next, vars, Call, Read, Refuse, Conflict, Abandon, Tick
  <2> QED BY <2>1, <2>2, <2>3, <2>4
<1>3. Spec => []JournalInv
  BY JournalInvariant
<1> QED BY <1>1, <1>2, <1>3, PTL DEF Spec, ImplementsWorkLog, OneLog!Spec

------------------------------------------------------------------------------
(* What the events of a log add up to *)

\* Each event is applied to what the ones before it left.
LEMMA StatesStep ==
  ASSUME NEW events, Len(events) \in Nat
  PROVE  /\ States(events)[0] = Start
         /\ \A i \in 1 .. Len(events) :
              States(events)[i] = Transition(States(events)[i - 1], events[i])
<1> DEFINE Step(f, i) == IF i = 0 THEN Start ELSE Transition(f[i - 1], events[i])
           Is(f, n) == f = [i \in 0 .. n |-> Step(f, i)]
           N == {n \in Nat : \E f : Is(f, n)}
<1>1. 0 \in N
  <2> DEFINE f == [i \in 0 .. 0 |-> Start]
  <2>1. Is(f, 0)
    BY SMT
  <2> QED BY <2>1
<1>2. ASSUME NEW n \in N PROVE n + 1 \in N
  <2>1. PICK f : Is(f, n)
    OBVIOUS
  <2>2. n \in Nat
    OBVIOUS
  <2> DEFINE g == [i \in 0 .. n + 1 |-> IF i = n + 1 THEN Step(f, i) ELSE f[i]]
  <2>3. \A i \in 0 .. n : f[i] = Step(f, i)
    BY <2>1
  <2>4. \A i \in 0 .. n + 1 : g[i] = Step(g, i)
    <3> SUFFICES ASSUME NEW i \in 0 .. n + 1 PROVE g[i] = Step(g, i)
      OBVIOUS
    <3>1. CASE i = 0
      BY <2>2, <2>3, <3>1
    <3>2. CASE i # 0
      <4>1. i - 1 \in 0 .. n /\ i - 1 # n + 1 /\ i - 1 \in 0 .. n + 1
        BY <2>2, <3>2
      <4>2. g[i - 1] = f[i - 1]
        BY <4>1
      <4>3. i # n + 1 => i \in 0 .. n
        BY <2>2
      <4> QED BY <2>3, <3>2, <4>2, <4>3
    <3> QED BY <3>1, <3>2
  <2>5. g = [i \in 0 .. n + 1 |-> g[i]]
    OBVIOUS
  <2> HIDE DEF g, Step
  <2>6. Is(g, n + 1)
    BY <2>4, <2>5
  <2> QED BY <2>2, <2>6
<1>3. N = Nat
  <2>1. N \in SUBSET Nat
    OBVIOUS
  <2> HIDE DEF N
  <2> QED BY <1>1, <1>2, <2>1, Induction
<1> DEFINE s == States(events)
<1>4. s = CHOOSE f : Is(f, Len(events))
  BY DEF States
<1>5. \E f : Is(f, Len(events))
  BY <1>3
<1> HIDE DEF s, Is
<1>6. Is(s, Len(events))
  BY <1>4, <1>5
<1>7. s = [i \in 0 .. Len(events) |-> Step(s, i)]
  BY <1>6 DEF Is
<1>8. DOMAIN s = 0 .. Len(events) /\ \A i \in 0 .. Len(events) : s[i] = Step(s, i)
  BY <1>7
<1>9. 0 \in 0 .. Len(events) /\ \A i \in 1 .. Len(events) : i \in 0 .. Len(events) /\ i # 0
  OBVIOUS
<1> QED BY <1>8, <1>9 DEF s

\* What is replayed of the beginning of a log is the state the log had there.
LEMMA ReplayOfPrefix ==
  ASSUME NEW s \in Seq(Event), NEW k \in 0 .. Len(s)
  PROVE  Replay(SubSeq(s, 1, k)) = States(s)[k]
<1> DEFINE t == SubSeq(s, 1, k)
           S == {i \in 0 .. k : States(t)[i] = States(s)[i]}
<1>1. Len(s) \in Nat /\ k \in Nat /\ k <= Len(s) /\ \A i \in 1 .. k : s[i] \in Event
  BY LenProperties, ElementOfSeq
<1>2. Len(t) = k /\ \A i \in 1 .. k : t[i] = s[i]
  BY <1>1, SubSeqProperties
<1> HIDE DEF t
<1>3. 0 \in S
  BY <1>1, <1>2, StatesStep
<1>4. ASSUME NEW i \in 1 .. k, i - 1 \in S PROVE i \in S
  <2>1. i \in 1 .. Len(s) /\ i \in 1 .. Len(t) /\ t[i] = s[i]
    BY <1>1, <1>2
  <2>2. States(t)[i] = Transition(States(t)[i - 1], t[i])
    BY <1>1, <1>2, <2>1, StatesStep
  <2>3. States(s)[i] = Transition(States(s)[i - 1], s[i])
    BY <1>1, <2>1, StatesStep
  <2> QED BY <1>4, <2>1, <2>2, <2>3
<1>5. 0 .. k \subseteq S
  <2> HIDE DEF S
  <2> QED BY <1>1, <1>3, <1>4, Along
<1>6. States(t)[k] = States(s)[k]
  BY <1>1, <1>5
<1> QED BY <1>2, <1>6 DEF Replay, t

\* A log of events that were acceptable one after the other.
IsLog(s) ==
  /\ s \in Seq(Event)
  /\ \A i \in 1 .. Len(s) : Accepts(States(s)[i - 1], s[i])

\* What is recorded is such a log.
LEMMA RecordedIsLog == ASSUME JournalInv PROVE IsLog(Recorded)
<1> DEFINE s == EventsOf(files)
           n == Len(files)
<1>1. files \in Seq(File) /\ n \in Nat /\ s \in Seq(Event) /\ Len(s) = n
      /\ \A i \in 1 .. n : s[i] = files[i].event
  BY EventsAreASequence DEF JournalInv, TypeOK
<1>2. PICK m \in 0 .. n : Recorded = SubSeq(s, 1, m)
  <2>1. CASE files # <<>> /\ ~files[n].whole
    <3>1. Recorded = SubSeq(s, 1, n - 1)
      BY <1>1, <2>1, EventsOfFront DEF Recorded
    <3>2. n - 1 \in 0 .. n
      BY <1>1, <2>1, EmptySeq
    <3> QED BY <3>1, <3>2
  <2>2. CASE ~ (files # <<>> /\ ~files[n].whole)
    <3>1. Recorded = s
      BY <2>2 DEF Recorded
    <3> HIDE DEF s
    <3>2. SubSeq(s, 1, n) = s
      BY <1>1, FullSubSeq
    <3>3. n \in 0 .. n
      BY <1>1
    <3> HIDE DEF n
    <3> QED BY <3>1, <3>2, <3>3
  <2> QED BY <2>1, <2>2
<1> DEFINE r == SubSeq(s, 1, m)
<1>3. m \in Nat /\ m <= n
  BY <1>1
<1>4. \A i \in 1 .. n : Accepts(States(s)[i - 1], s[i])
  <2> SUFFICES ASSUME NEW i \in 1 .. n PROVE Accepts(States(s)[i - 1], s[i])
    OBVIOUS
  <2>1. Follows(SubSeq(s, 1, i - 1), s[i])
    BY <1>1 DEF JournalInv, JournalLoads, Continues
  <2>2. i - 1 \in 0 .. Len(s)
    BY <1>1
  <2> HIDE DEF s
  <2>3. Replay(SubSeq(s, 1, i - 1)) = States(s)[i - 1]
    BY <1>1, <2>2, ReplayOfPrefix
  <2> QED BY <2>1, <2>3 DEF Follows
<1> HIDE DEF s, n
<1>5. \A i \in 1 .. m : s[i] \in Event
  BY <1>1, <1>3, ElementOfSeq
<1>6. r \in Seq(Event) /\ Len(r) = m /\ \A i \in 1 .. m : r[i] = s[i]
  BY <1>3, <1>5, SubSeqProperties
<1>7. \A k \in 0 .. m : States(r)[k] = States(s)[k]
  <2> SUFFICES ASSUME NEW k \in 0 .. m PROVE States(r)[k] = States(s)[k]
    OBVIOUS
  <2>1. k \in 0 .. Len(s) /\ k \in 0 .. Len(r) /\ k \in Nat /\ k <= m
    BY <1>1, <1>3, <1>6
  <2>2. Replay(SubSeq(s, 1, k)) = States(s)[k]
    BY <1>1, <2>1, ReplayOfPrefix
  <2> HIDE DEF r
  <2>3. Replay(SubSeq(r, 1, k)) = States(r)[k]
    BY <1>6, <2>1, ReplayOfPrefix
  <2>4. SubSeq(r, 1, k) = SubSeq(s, 1, k)
    <3>1. \A i \in 1 .. k : r[i] \in Event /\ s[i] \in Event /\ r[i] = s[i]
      BY <1>5, <1>6, <2>1
    <3>2. /\ SubSeq(r, 1, k) \in Seq(Event) /\ Len(SubSeq(r, 1, k)) = k
          /\ \A i \in 1 .. k : SubSeq(r, 1, k)[i] = r[i]
      BY <2>1, <3>1, SubSeqProperties
    <3>3. /\ SubSeq(s, 1, k) \in Seq(Event) /\ Len(SubSeq(s, 1, k)) = k
          /\ \A i \in 1 .. k : SubSeq(s, 1, k)[i] = s[i]
      BY <2>1, <3>1, SubSeqProperties
    <3> QED BY <3>1, <3>2, <3>3, SeqEqual
  <2> QED BY <2>2, <2>3, <2>4
<1>8. ASSUME NEW i \in 1 .. m PROVE Accepts(States(r)[i - 1], r[i])
  <2>1. i \in 1 .. n /\ i - 1 \in 0 .. m
    BY <1>1, <1>3
  <2> HIDE DEF r
  <2> QED BY <1>4, <1>6, <1>7, <2>1
<1> HIDE DEF r
<1> QED BY <1>2, <1>6, <1>8 DEF IsLog, r

-------------------------------------------------------------------------------
(* The state of the accounts, and what each event does to it *)

\* What changes in a state when some of its fields do.
State3(j, b, c) == [jobs : {j}, balance : {b}, credits : {c}]

Lease == [id : LeaseId, miner : Miner, startedAt : Time, deadline : 0 .. MaxTime + MaxLease]
Fundings == {{}} \cup {{f} : f \in Funding}
JobState ==
  [funding : Fundings, lease : {{}} \cup {{l} : l \in Lease},
   status : {"open", "done", "refunded"}]

Sound(st) ==
  /\ DOMAIN st.jobs \subseteq Job /\ IsFiniteSet(DOMAIN st.jobs)
  /\ st.jobs \in [DOMAIN st.jobs -> JobState]
  /\ st.balance \in [Account -> Int]
  /\ st \in State3(st.jobs, st.balance, st.credits)

OpenJobs(st) == {j \in DOMAIN st.jobs : st.jobs[j].status = "open"}
Reservations(st) == [j \in OpenJobs(st) |-> Held(st.jobs[j].funding)]
Worth(st) == Sum(st.balance, Account) + Sum(Reservations(st), OpenJobs(st))

\* The jobs of one state are in the other, under the same leases.
SameLeases(st, next) ==
  \A j \in DOMAIN st.jobs : j \in DOMAIN next.jobs /\ next.jobs[j].lease = st.jobs[j].lease

LEMMA Updates ==
  ASSUME NEW st, st \in State3(st.jobs, st.balance, st.credits), NEW x, NEW y
  PROVE  /\ [st EXCEPT !.jobs = x] \in State3(x, st.balance, st.credits)
         /\ [st EXCEPT !.jobs = x, !.balance = y] \in State3(x, y, st.credits)
         /\ [st EXCEPT !.credits = x, !.balance = y] \in State3(st.jobs, y, x)
BY DEF State3

LEMMA UpdatedFields ==
  ASSUME NEW st, NEW j, NEW b, NEW c, st \in State3(j, b, c)
  PROVE  st.jobs = j /\ st.balance = b /\ st.credits = c
BY DEF State3

LEMMA AccountsAreFinite == IsFiniteSet(Account)
BY WorkAssumption, FS_Union DEF Account

\* The fields of an event of each kind.
LEMMA EventFields ==
  ASSUME NEW e \in Event
  PROVE  /\ e.kind = "credit" => e.buyer \in Account /\ e.amount \in Nat
         /\ e.kind # "credit" => e.job \in Job /\ e.now \in Time
         /\ e.kind = "create" => e.funding \in Fundings
         /\ e.kind = "refund" => e.buyer \in Account
         /\ e.kind = "lease" =>
              e.lease \in LeaseId /\ e.miner \in Miner /\ e.deadline \in Int
         /\ e.kind = "complete" => e.lease \in LeaseId /\ e.miner \in Account
         /\ e.kind \in {"credit", "create", "refund", "lease", "complete"}
<1>1. Expiry \subseteq Int
  <2>1. Time \subseteq Int /\ Duration \subseteq Int
    BY WorkAssumption DEF Time
  <2> QED BY <2>1 DEF Expiry
<1>2. Amount \subseteq Nat
  BY WorkAssumption
<1>3. CASE e \in [kind : {"credit"}, id : CreditId, buyer : Buyer, amount : Amount]
  BY <1>2, <1>3 DEF Account
<1>4. CASE e \in [kind : {"create"}, job : Job, now : Time,
                  funding : {{}} \cup {{f} : f \in Funding}]
  BY <1>4 DEF Fundings
<1>5. CASE e \in [kind : {"refund"}, job : Job, now : Time, buyer : Buyer]
  BY <1>5 DEF Account
<1>6. CASE e \in [kind : {"lease"}, job : Job, now : Time, lease : LeaseId, miner : Miner,
                  deadline : Expiry]
  BY <1>1, <1>6
<1>7. CASE e \in [kind : {"complete"}, job : Job, now : Time, lease : LeaseId, miner : Miner]
  BY <1>7 DEF Account
<1> QED BY <1>3, <1>4, <1>5, <1>6, <1>7 DEF Event

\* A reservation is nothing, or what its one buyer put up.
LEMMA HeldIs ==
  /\ Held({}) = 0
  /\ \A f \in Funding : Held({f}) = f.amount
  /\ \A funding \in Fundings : Held(funding) \in Nat
<1>1. Held({}) = 0
  <2> DEFINE g == [f \in {} |-> f.amount]
  <2>1. Held({}) = Sum(g, DOMAIN g) /\ DOMAIN g = {}
    BY SumIs DEF Held
  <2> HIDE DEF g
  <2> QED BY <2>1, SumEmpty
<1>2. \A f \in Funding : f.amount \in Nat
  BY WorkAssumption DEF Funding
<1>3. ASSUME NEW f \in Funding PROVE Held({f}) = f.amount
  <2> DEFINE g == [x \in {f} |-> x.amount]
  <2>1. Held({f}) = Sum(g, {f})
    BY SumIs DEF Held
  <2>2. g[f] = f.amount /\ {} \cup {f} = {f} /\ f \notin {} /\ IsFiniteSet({})
    BY FS_EmptySet
  <2>3. f.amount \in Int
    BY <1>2
  <2> HIDE DEF g
  <2>4. Sum(g, {} \cup {f}) = g[f] + Sum(g, {})
    BY <2>2, <2>3, SumAdd
  <2>5. Sum(g, {}) = 0
    BY SumEmpty
  <2> QED BY <2>1, <2>2, <2>3, <2>4, <2>5
<1> QED BY <1>1, <1>2, <1>3 DEF Fundings

\* A payment adds its amount to the sum of the accounts.
LEMMA PayAdds ==
  ASSUME NEW balance \in [Account -> Int], NEW a \in Account, NEW n \in Int
  PROVE  /\ Pay(balance, a, n) \in [Account -> Int]
         /\ Sum(Pay(balance, a, n), Account) = Sum(balance, Account) + n
         /\ Sum(balance, Account) \in Int
<1> DEFINE paid == Pay(balance, a, n)
           rest == Account \ {a}
<1>1. paid \in [Account -> Int] /\ paid[a] = balance[a] + n /\ \A x \in rest : paid[x] = balance[x]
  BY DEF Pay
<1>2. IsFiniteSet(Account) /\ IsFiniteSet(rest)
  BY AccountsAreFinite, FS_Subset
<1>3. (\A x \in Account : balance[x] \in Int /\ paid[x] \in Int) /\ \A x \in rest : balance[x] \in Int
  BY <1>1
<1> HIDE DEF paid, rest
<1>4. Sum(paid, rest) = Sum(balance, rest) /\ Sum(balance, rest) \in Int
  BY <1>1, <1>2, <1>3, SumSame, SumType
<1>5. Sum(balance, Account) = balance[a] + Sum(balance, rest)
  BY <1>2, <1>3, SumRemove DEF rest
<1>6. Sum(paid, Account) = paid[a] + Sum(paid, rest)
  BY <1>2, <1>3, SumRemove DEF rest
<1>7. balance[a] \in Int
  BY <1>3
<1> QED BY <1>1, <1>4, <1>5, <1>6, <1>7 DEF paid

\* What is reserved is a natural number for each open job.
LEMMA ReservedWorth ==
  ASSUME NEW st, Sound(st)
  PROVE  /\ IsFiniteSet(OpenJobs(st))
         /\ \A j \in OpenJobs(st) : Reservations(st)[j] \in Nat
         /\ Sum(Reservations(st), OpenJobs(st)) \in Int
         /\ Sum(st.balance, Account) \in Int
<1>1. IsFiniteSet(OpenJobs(st))
  BY FS_Subset DEF OpenJobs, Sound
<1>2. \A j \in OpenJobs(st) : Reservations(st)[j] \in Nat
  <2>1. \A j \in OpenJobs(st) : st.jobs[j].funding \in Fundings
    BY DEF Sound, OpenJobs, JobState
  <2> QED BY <2>1, HeldIs DEF Reservations
<1>3. Sum(Reservations(st), OpenJobs(st)) \in Int
  BY <1>1, <1>2, SumType
<1>4. Sum(st.balance, Account) \in Int
  BY AccountsAreFinite, SumType DEF Sound
<1> QED BY <1>1, <1>2, <1>3, <1>4

\* Finishing a job pays what it holds to one account.
LEMMA FinishedWorth ==
  ASSUME NEW st, Sound(st), NEW e, e.job \in OpenJobs(st),
         NEW status \in {"done", "refunded"}, NEW payee \in Account
  PROVE  /\ Sound(Finished(st, e, status, payee))
         /\ Worth(Finished(st, e, status, payee)) = Worth(st)
         /\ SameLeases(st, Finished(st, e, status, payee))
<1> DEFINE j == e.job
           held == Held(st.jobs[j].funding)
           after == Finished(st, e, status, payee)
           rest == OpenJobs(st) \ {j}
<1>1. /\ st.jobs \in [DOMAIN st.jobs -> JobState] /\ st.balance \in [Account -> Int]
      /\ j \in DOMAIN st.jobs /\ st.jobs[j] \in JobState
      /\ DOMAIN st.jobs \subseteq Job /\ IsFiniteSet(DOMAIN st.jobs)
  BY DEF Sound, OpenJobs
<1>2. held \in Nat
  BY <1>1, HeldIs DEF JobState
<1>3. /\ after.jobs = [st.jobs EXCEPT ![j].status = status]
      /\ after.balance = Pay(st.balance, payee, held)
      /\ after \in State3(after.jobs, after.balance, after.credits)
  <2> DEFINE x == [st.jobs EXCEPT ![j].status = status]
             y == Pay(st.balance, payee, held)
  <2>1. after = [st EXCEPT !.jobs = x, !.balance = y]
    BY DEF Finished
  <2>2. st \in State3(st.jobs, st.balance, st.credits)
    BY DEF Sound
  <2> HIDE DEF x, y, after
  <2>3. after \in State3(x, y, st.credits)
    BY <2>1, <2>2, Updates
  <2>4. after.jobs = x /\ after.balance = y /\ after.credits = st.credits
    BY <2>3, UpdatedFields
  <2> QED BY <2>3, <2>4 DEF x, y
<1>4. /\ Pay(st.balance, payee, held) \in [Account -> Int]
      /\ Sum(Pay(st.balance, payee, held), Account) = Sum(st.balance, Account) + held
  BY <1>1, <1>2, PayAdds
<1> HIDE DEF held, after
<1>5. /\ DOMAIN after.jobs = DOMAIN st.jobs /\ after.jobs \in [DOMAIN st.jobs -> JobState]
      /\ after.jobs[j].status = status
      /\ \A k \in DOMAIN st.jobs : k # j => after.jobs[k] = st.jobs[k]
      /\ after.balance = Pay(st.balance, payee, held)
  <2>1. [st.jobs[j] EXCEPT !.status = status] \in JobState
    BY <1>1 DEF JobState
  <2>2. after.jobs = [st.jobs EXCEPT ![j] = [st.jobs[j] EXCEPT !.status = status]]
    BY <1>3
  <2>3. [st.jobs[j] EXCEPT !.status = status].status = status
    BY <1>1 DEF JobState
  <2> QED BY <1>1, <1>3, <2>1, <2>2, <2>3
<1>6. Sound(after)
  BY <1>1, <1>3, <1>4, <1>5 DEF Sound
<1>7. OpenJobs(after) = rest /\ \A k \in rest : Reservations(after)[k] = Reservations(st)[k]
  <2>1. OpenJobs(after) = rest
    BY <1>5 DEF OpenJobs
  <2> QED BY <1>5, <2>1 DEF Reservations, OpenJobs
<1>8. /\ Reservations(st)[j] = held
      /\ Sum(Reservations(st), OpenJobs(st)) = Reservations(st)[j] + Sum(Reservations(st), rest)
      /\ Sum(Reservations(st), rest) \in Int
      /\ Sum(Reservations(after), rest) = Sum(Reservations(st), rest)
  <2> DEFINE res == Reservations(st)
             new == Reservations(after)
  <2>1. res[j] = held
    BY DEF Reservations, held
  <2>2. IsFiniteSet(OpenJobs(st)) /\ \A k \in OpenJobs(st) : res[k] \in Int
    BY ReservedWorth
  <2>3. IsFiniteSet(rest) /\ rest \subseteq OpenJobs(st) /\ \A k \in rest : res[k] \in Int
    BY <2>2, FS_Subset
  <2>4. \A k \in rest : res[k] = new[k]
    BY <1>7
  <2> HIDE DEF res, new
  <2>5. Sum(res, OpenJobs(st)) = res[j] + Sum(res, rest)
    BY <2>2, SumRemove
  <2>6. Sum(res, rest) \in Int
    BY <2>3, SumType
  <2>7. Sum(res, rest) = Sum(new, rest)
    BY <2>3, <2>4, SumSame
  <2> QED BY <2>1, <2>5, <2>6, <2>7 DEF res, new
<1>9. Worth(after) = (Sum(st.balance, Account) + held) + Sum(Reservations(st), rest)
  BY <1>4, <1>5, <1>7, <1>8 DEF Worth
<1>10. Worth(st) = Sum(st.balance, Account) + (held + Sum(Reservations(st), rest))
  BY <1>8 DEF Worth
<1>11. Sum(st.balance, Account) \in Int
  BY ReservedWorth
<1>12. SameLeases(st, after)
  <2>1. after.jobs[j].lease = st.jobs[j].lease
    BY <1>1, <1>3 DEF JobState
  <2> QED BY <1>5, <2>1 DEF SameLeases
<1> QED BY <1>2, <1>6, <1>8, <1>9, <1>10, <1>11, <1>12 DEF after

\* A new job takes what it holds from its buyer's account.
LEMMA CreatedWorth ==
  ASSUME NEW st, Sound(st), NEW e, e.job \in Job \ DOMAIN st.jobs, e.funding \in Fundings
  PROVE  /\ Sound(Created(st, e)) /\ Worth(Created(st, e)) = Worth(st)
         /\ SameLeases(st, Created(st, e))
<1> DEFINE j == e.job
           held == Held(e.funding)
           after == Created(st, e)
           new == [funding |-> e.funding, lease |-> {}, status |-> "open"]
<1>1. /\ st.jobs \in [DOMAIN st.jobs -> JobState] /\ st.balance \in [Account -> Int]
      /\ DOMAIN st.jobs \subseteq Job /\ IsFiniteSet(DOMAIN st.jobs)
      /\ st \in State3(st.jobs, st.balance, st.credits)
  BY DEF Sound
<1>2. held \in Nat /\ new \in JobState
  BY HeldIs DEF JobState
<1>3. /\ after.jobs = [k \in DOMAIN st.jobs \cup {j} |-> IF k = j THEN new ELSE st.jobs[k]]
      /\ after.balance =
           [a \in Account |-> st.balance[a] - Held({f \in e.funding : f.buyer = a})]
      /\ after \in State3(after.jobs, after.balance, after.credits)
  <2> DEFINE x == [k \in DOMAIN st.jobs \cup {j} |-> IF k = j THEN new ELSE st.jobs[k]]
             y == [a \in Account |-> st.balance[a] - Held({f \in e.funding : f.buyer = a})]
  <2>1. after = [st EXCEPT !.jobs = x, !.balance = y]
    BY DEF Created
  <2> HIDE DEF x, y, after
  <2>2. after \in State3(x, y, st.credits)
    BY <1>1, <2>1, Updates
  <2>3. after.jobs = x /\ after.balance = y /\ after.credits = st.credits
    BY <2>2, UpdatedFields
  <2> QED BY <2>2, <2>3 DEF x, y
<1>4. after.balance \in [Account -> Int] /\ Sum(after.balance, Account) = Sum(st.balance, Account) - held
  <2>1. CASE e.funding = {}
    <3>1. \A a \in Account : {f \in e.funding : f.buyer = a} = {}
      BY <2>1
    <3>2. held = 0 /\ \A a \in Account : Held({f \in e.funding : f.buyer = a}) = 0
      BY <2>1, <3>1, HeldIs
    <3> HIDE DEF after, held
    <3>3. after.balance = st.balance
      <4>1. \A a \in Account : st.balance[a] - Held({f \in e.funding : f.buyer = a}) = st.balance[a]
        BY <1>1, <3>2
      <4>2. after.balance = [a \in Account |-> st.balance[a]]
        BY <1>3, <4>1
      <4> QED BY <1>1, <4>2
    <3> QED BY <1>1, <3>2, <3>3, ReservedWorth
  <2>2. CASE e.funding # {}
    <3>1. PICK f \in Funding : e.funding = {f}
      BY <2>2 DEF Fundings
    <3>2. f.buyer \in Account /\ held = f.amount /\ held \in Int
      BY <1>2, <3>1, HeldIs DEF Funding, Account
    <3>3. \A a \in Account :
            Held({g \in e.funding : g.buyer = a}) = IF a = f.buyer THEN held ELSE 0
      <4> SUFFICES ASSUME NEW a \in Account
                   PROVE  Held({g \in e.funding : g.buyer = a}) = IF a = f.buyer THEN held ELSE 0
        OBVIOUS
      <4>1. CASE a = f.buyer
        <5>1. {g \in e.funding : g.buyer = a} = e.funding
          BY <3>1, <4>1
        <5> QED BY <4>1, <5>1
      <4>2. CASE a # f.buyer
        <5>1. {g \in e.funding : g.buyer = a} = {}
          BY <3>1, <4>2
        <5> QED BY <4>2, <5>1, HeldIs
      <4> QED BY <4>1, <4>2
    <3> HIDE DEF held, after
    <3>4. after.balance = Pay(st.balance, f.buyer, -held)
      <4>1. \A a \in Account : st.balance[a] \in Int
        BY <1>1
      <4>2. \A a \in Account : st.balance[a] - (IF a = f.buyer THEN held ELSE 0)
              = IF a = f.buyer THEN st.balance[a] + (-held) ELSE st.balance[a]
        BY <3>2, <4>1
      <4>3. after.balance =
              [a \in Account |-> IF a = f.buyer THEN st.balance[a] + (-held) ELSE st.balance[a]]
        BY <1>3, <3>3, <4>2
      <4> QED BY <1>1, <3>2, <4>3 DEF Pay
    <3>5. /\ Pay(st.balance, f.buyer, -held) \in [Account -> Int]
          /\ Sum(Pay(st.balance, f.buyer, -held), Account) = Sum(st.balance, Account) + (-held)
          /\ Sum(st.balance, Account) \in Int
      <4>1. -held \in Int
        BY <3>2
      <4> QED BY <1>1, <3>2, <4>1, PayAdds
    <3> QED BY <3>2, <3>4, <3>5
  <2> QED BY <2>1, <2>2
<1> HIDE DEF held, after
<1>5. /\ DOMAIN after.jobs = DOMAIN st.jobs \cup {j}
      /\ after.jobs \in [DOMAIN after.jobs -> JobState]
      /\ after.jobs[j] = new
      /\ \A k \in DOMAIN st.jobs : after.jobs[k] = st.jobs[k]
  <2> HIDE DEF new, j
  <2>1. j \in Job /\ j \notin DOMAIN st.jobs /\ new \in JobState
    BY <1>2 DEF j
  <2> QED BY <1>1, <1>3, <2>1
<1>6. Sound(after)
  <2>1. IsFiniteSet(DOMAIN after.jobs)
    BY <1>1, <1>5, FS_AddElement
  <2> QED BY <1>1, <1>3, <1>4, <1>5, <2>1 DEF Sound
<1>7. /\ OpenJobs(after) = OpenJobs(st) \cup {j} /\ j \notin OpenJobs(st)
      /\ Reservations(after)[j] = held
      /\ \A k \in OpenJobs(st) : Reservations(after)[k] = Reservations(st)[k]
  <2>1. OpenJobs(after) = OpenJobs(st) \cup {j} /\ j \notin OpenJobs(st)
    BY <1>5 DEF OpenJobs
  <2> QED BY <1>5, <2>1 DEF Reservations, held, OpenJobs
<1>8. /\ Sum(Reservations(after), OpenJobs(after)) = held + Sum(Reservations(st), OpenJobs(st))
      /\ Sum(Reservations(st), OpenJobs(st)) \in Int
  <2> DEFINE old == Reservations(st)
             res == Reservations(after)
             open == OpenJobs(st)
  <2>1. IsFiniteSet(open) /\ \A k \in open : old[k] \in Int
    BY ReservedWorth
  <2>2. (\A k \in open : res[k] \in Int /\ old[k] = res[k]) /\ res[j] = held /\ j \notin open
    BY <1>7, <2>1
  <2>3. held \in Int
    BY <1>2
  <2> HIDE DEF old, res, open
  <2>4. Sum(res, open \cup {j}) = res[j] + Sum(res, open)
    BY <2>1, <2>2, <2>3, SumAdd
  <2>5. Sum(old, open) = Sum(res, open) /\ Sum(old, open) \in Int
    BY <2>1, <2>2, SumSame, SumType
  <2> QED BY <1>7, <2>2, <2>4, <2>5 DEF old, res, open
<1>9. Sum(st.balance, Account) \in Int
  BY ReservedWorth
<1>10. held \in Int
  BY <1>2
<1>11. Worth(after) = (Sum(st.balance, Account) - held) + (held + Sum(Reservations(st), OpenJobs(st)))
  BY <1>4, <1>8 DEF Worth
<1>12. SameLeases(st, after)
  BY <1>5 DEF SameLeases
<1> QED BY <1>6, <1>8, <1>9, <1>10, <1>11, <1>12 DEF after, Worth

\* A lease, and a credit.
LeaseOf(e) ==
  [id |-> e.lease, miner |-> e.miner, startedAt |-> e.now, deadline |-> e.deadline]

LEMMA LeasedWorth ==
  ASSUME NEW st, Sound(st), NEW e \in Event, e.kind = "lease", CanLease(st, e)
  PROVE  LET after == Transition(st, e) IN
         /\ Sound(after) /\ Worth(after) = Worth(st)
         /\ DOMAIN after.jobs = DOMAIN st.jobs
         /\ after.jobs[e.job].lease = {LeaseOf(e)}
         /\ \A k \in DOMAIN st.jobs \ {e.job} : after.jobs[k].lease = st.jobs[k].lease
<1> DEFINE j == e.job
           l == LeaseOf(e)
           x == [st.jobs EXCEPT ![j].lease = {l}]
           after == Transition(st, e)
<1>1. /\ st.jobs \in [DOMAIN st.jobs -> JobState] /\ st.balance \in [Account -> Int]
      /\ j \in DOMAIN st.jobs /\ st.jobs[j] \in JobState
      /\ st \in State3(st.jobs, st.balance, st.credits)
  BY DEF Sound, CanLease, Unfinished
<1>2. l \in Lease
  <2>1. e.lease \in LeaseId /\ e.miner \in Miner /\ e.now \in Time /\ e.deadline \in Int
    BY EventFields
  <2>2. e.now < e.deadline /\ e.deadline - e.now <= MaxLease
    BY DEF CanLease
  <2>3. e.deadline \in 0 .. MaxTime + MaxLease
    BY <2>1, <2>2, WorkAssumption DEF Time
  <2> QED BY <2>1, <2>3 DEF LeaseOf, Lease
<1>3. /\ after.jobs = x /\ after.balance = st.balance
      /\ after \in State3(after.jobs, after.balance, after.credits)
  <2>1. after = [st EXCEPT !.jobs = x]
    BY DEF Transition, LeaseOf
  <2> HIDE DEF x, after
  <2>2. after \in State3(x, st.balance, st.credits)
    BY <1>1, <2>1, Updates
  <2>3. after.jobs = x /\ after.balance = st.balance /\ after.credits = st.credits
    BY <2>2, UpdatedFields
  <2> QED BY <2>2, <2>3
<1> HIDE DEF after, l
<1>4. /\ DOMAIN after.jobs = DOMAIN st.jobs /\ after.jobs \in [DOMAIN st.jobs -> JobState]
      /\ after.jobs[j].lease = {l}
      /\ \A k \in DOMAIN st.jobs \ {j} : after.jobs[k].lease = st.jobs[k].lease
      /\ \A k \in DOMAIN st.jobs : /\ after.jobs[k].status = st.jobs[k].status
                                   /\ after.jobs[k].funding = st.jobs[k].funding
  <2> DEFINE new == [st.jobs[j] EXCEPT !.lease = {l}]
  <2>1. new \in JobState
    BY <1>1, <1>2 DEF JobState
  <2>2. /\ new.lease = {l} /\ new.status = st.jobs[j].status
        /\ new.funding = st.jobs[j].funding
    BY <1>1 DEF JobState
  <2>3. x = [st.jobs EXCEPT ![j] = new]
    OBVIOUS
  <2> HIDE DEF new, x
  <2>4. /\ DOMAIN x = DOMAIN st.jobs /\ x \in [DOMAIN st.jobs -> JobState]
        /\ x[j] = new /\ \A k \in DOMAIN st.jobs \ {j} : x[k] = st.jobs[k]
    BY <1>1, <2>1, <2>3
  <2> QED BY <1>3, <2>2, <2>4
<1> HIDE DEF x
<1>5. Sound(after)
  <2>1. DOMAIN st.jobs \subseteq Job /\ IsFiniteSet(DOMAIN st.jobs)
    BY DEF Sound
  <2>2. after.balance \in [Account -> Int]
    BY <1>1, <1>3
  <2> QED BY <1>3, <1>4, <2>1, <2>2 DEF Sound
<1>6. OpenJobs(after) = OpenJobs(st)
  BY <1>4 DEF OpenJobs
<1>7. \A k \in OpenJobs(st) : Reservations(st)[k] = Reservations(after)[k]
  BY <1>4, <1>6 DEF Reservations, OpenJobs
<1>8. Sum(Reservations(st), OpenJobs(st)) = Sum(Reservations(after), OpenJobs(st))
  <2> DEFINE old == Reservations(st)
             new == Reservations(after)
  <2>1. IsFiniteSet(OpenJobs(st)) /\ \A k \in OpenJobs(st) : old[k] \in Int /\ old[k] = new[k]
    BY <1>7, ReservedWorth
  <2> HIDE DEF old, new
  <2>2. Sum(old, OpenJobs(st)) = Sum(new, OpenJobs(st))
    BY <2>1, SumSame
  <2> QED BY <2>2 DEF old, new
<1>9. Worth(after) = Worth(st)
  BY <1>3, <1>6, <1>8 DEF Worth
<1> QED BY <1>4, <1>5, <1>9 DEF after, l

LEMMA CreditedWorth ==
  ASSUME NEW st, Sound(st), NEW e \in Event, e.kind = "credit"
  PROVE  /\ Sound(Transition(st, e)) /\ Worth(Transition(st, e)) = Worth(st) + e.amount
         /\ SameLeases(st, Transition(st, e))
<1> DEFINE x == st.credits \cup {e.id}
           y == Pay(st.balance, e.buyer, e.amount)
           after == Transition(st, e)
<1>1. /\ st.jobs \in [DOMAIN st.jobs -> JobState] /\ st.balance \in [Account -> Int]
      /\ st \in State3(st.jobs, st.balance, st.credits)
  BY DEF Sound
<1>2. e.buyer \in Account /\ e.amount \in Int
  BY EventFields
<1>3. y \in [Account -> Int] /\ Sum(y, Account) = Sum(st.balance, Account) + e.amount
  BY <1>1, <1>2, PayAdds
<1>4. /\ after.jobs = st.jobs /\ after.balance = y
      /\ after \in State3(after.jobs, after.balance, after.credits)
  <2>1. after = [st EXCEPT !.credits = x, !.balance = y]
    BY DEF Transition
  <2> HIDE DEF x, y, after
  <2>2. after \in State3(st.jobs, y, x)
    BY <1>1, <2>1, Updates
  <2>3. after.jobs = st.jobs /\ after.balance = y /\ after.credits = x
    BY <2>2, UpdatedFields
  <2> QED BY <2>2, <2>3
<1> HIDE DEF after, y
<1>5. Sound(after)
  BY <1>3, <1>4 DEF Sound
<1>6. OpenJobs(after) = OpenJobs(st) /\ Reservations(after) = Reservations(st)
  BY <1>4 DEF OpenJobs, Reservations
<1>7. /\ Sum(st.balance, Account) \in Int /\ Sum(Reservations(st), OpenJobs(st)) \in Int
  BY ReservedWorth
<1>8. Worth(after) = Worth(st) + e.amount
  BY <1>2, <1>3, <1>4, <1>6, <1>7 DEF Worth
<1>9. SameLeases(st, after)
  BY <1>4 DEF SameLeases
<1> QED BY <1>5, <1>8, <1>9 DEF after

\* Every acceptable event but a credit leaves what the accounts and the open
\* reservations are worth, and only a lease changes a job's lease.
Credit(e) == IF e.kind = "credit" THEN e.amount ELSE 0

LEMMA TransitionWorth ==
  ASSUME NEW st, Sound(st), NEW e \in Event, Accepts(st, e)
  PROVE  LET after == Transition(st, e) IN
         /\ Sound(after) /\ Worth(after) = Worth(st) + Credit(e)
         /\ DOMAIN st.jobs \subseteq DOMAIN after.jobs
         /\ e.kind = "lease" => after.jobs[e.job].lease = {LeaseOf(e)}
         /\ \A k \in DOMAIN st.jobs :
              (e.kind = "lease" /\ e.job = k) \/ after.jobs[k].lease = st.jobs[k].lease
<1> DEFINE after == Transition(st, e)
<1>1. Worth(st) \in Int
  BY ReservedWorth DEF Worth
<1>2. CASE e.kind = "credit"
  BY <1>2, CreditedWorth DEF Credit, SameLeases
<1>3. CASE e.kind = "create"
  <2>1. e.job \in Job \ DOMAIN st.jobs /\ e.funding \in Fundings
    BY <1>3, EventFields DEF Accepts, CanCreate
  <2>2. after = Created(st, e)
    BY <1>3 DEF Transition
  <2>3. Sound(after) /\ Worth(after) = Worth(st) /\ SameLeases(st, after)
    BY <2>1, <2>2, CreatedWorth
  <2> QED BY <1>1, <1>3, <2>3 DEF Credit, SameLeases
<1>4. CASE e.kind = "refund"
  <2>1. e.job \in OpenJobs(st) /\ e.buyer \in Account
    BY <1>4, EventFields DEF Accepts, CanRefund, Unfinished, OpenJobs
  <2>2. after = Finished(st, e, "refunded", e.buyer)
    BY <1>4 DEF Transition
  <2>3. Sound(after) /\ Worth(after) = Worth(st) /\ SameLeases(st, after)
    BY <2>1, <2>2, FinishedWorth
  <2> QED BY <1>1, <1>4, <2>3 DEF Credit, SameLeases
<1>5. CASE e.kind = "lease"
  <2>1. CanLease(st, e)
    BY <1>5 DEF Accepts
  <2> QED BY <1>1, <1>5, <2>1, LeasedWorth DEF Credit
<1>6. CASE e.kind = "complete"
  <2>1. e.job \in OpenJobs(st) /\ e.miner \in Account
    BY <1>6, EventFields DEF Accepts, CanComplete, Unfinished, OpenJobs
  <2>2. after = Finished(st, e, "done", e.miner)
    BY <1>6 DEF Transition
  <2>3. Sound(after) /\ Worth(after) = Worth(st) /\ SameLeases(st, after)
    BY <2>1, <2>2, FinishedWorth
  <2> QED BY <1>1, <1>6, <2>3 DEF Credit, SameLeases
<1> QED BY <1>2, <1>3, <1>4, <1>5, <1>6, EventFields

-------------------------------------------------------------------------------
(* Along a log *)

LEMMA StartIsSound == Sound(Start) /\ Worth(Start) = 0
<1> DEFINE none == [a \in Account |-> 0]
<1>1. /\ Start.jobs = NoJobs /\ Start.balance = none /\ DOMAIN NoJobs = {}
      /\ Start \in State3(Start.jobs, Start.balance, Start.credits)
  BY DEF Start, NoJobs, State3
<1>2. NoJobs \in [DOMAIN NoJobs -> JobState] /\ IsFiniteSet(DOMAIN NoJobs)
  BY <1>1, FS_EmptySet DEF NoJobs
<1>3. Sound(Start)
  BY <1>1, <1>2 DEF Sound
<1>4. Sum(none, Account) = 0
  <2>1. IsFiniteSet(Account) /\ IsFiniteSet({}) /\ {} \subseteq Account
    BY AccountsAreFinite, FS_EmptySet
  <2>2. \A a \in Account : none[a] \in Int /\ none[a] = 0
    OBVIOUS
  <2> HIDE DEF none
  <2>3. Sum(none, Account) = Sum(none, {})
    BY <2>1, <2>2, SumZeros
  <2> QED BY <2>3, SumEmpty
<1>5. OpenJobs(Start) = {}
  BY <1>1 DEF OpenJobs
<1> QED BY <1>1, <1>3, <1>4, <1>5, SumEmpty DEF Worth

Credits(s) == [i \in DOMAIN s |-> Credit(s[i])]

\* What accounts and reservations are worth is what was credited so far.
LEMMA LogWorth ==
  ASSUME NEW s, IsLog(s)
  PROVE  \A n \in 0 .. Len(s) : Sound(States(s)[n]) /\ Worth(States(s)[n]) = Sum(Credits(s), 1 .. n)
<1> DEFINE S == {n \in 0 .. Len(s) :
                  Sound(States(s)[n]) /\ Worth(States(s)[n]) = Sum(Credits(s), 1 .. n)}
<1>1. /\ Len(s) \in Nat /\ DOMAIN s = 1 .. Len(s)
      /\ \A i \in 1 .. Len(s) : s[i] \in Event /\ Accepts(States(s)[i - 1], s[i])
  BY LenProperties, ElementOfSeq DEF IsLog
<1>2. 0 \in S
  <2>1. 1 .. 0 = {} /\ 0 \in 0 .. Len(s)
    BY <1>1
  <2>2. Sum(Credits(s), 1 .. 0) = 0
    BY <2>1, SumEmpty
  <2> QED BY <1>1, <2>1, <2>2, StartIsSound, StatesStep
<1>3. ASSUME NEW n \in 1 .. Len(s), n - 1 \in S PROVE n \in S
  <2> DEFINE st == States(s)[n - 1]
  <2>1. s[n] \in Event /\ Accepts(st, s[n]) /\ Sound(st) /\ States(s)[n] = Transition(st, s[n])
    BY <1>1, <1>3, StatesStep
  <2>2. /\ Sound(States(s)[n])
        /\ Worth(States(s)[n]) = Worth(st) + Credit(s[n])
    BY <2>1, TransitionWorth
  <2>3. Worth(st) = Sum(Credits(s), 1 .. n - 1)
    BY <1>3
  <2> HIDE DEF st
  <2>4. \A i \in 1 .. n : Credits(s)[i] = Credit(s[i]) /\ Credits(s)[i] \in Int
    BY <1>1, EventFields DEF Credits, Credit
  <2>5. Sum(Credits(s), 1 .. n) = Credit(s[n]) + Sum(Credits(s), 1 .. n - 1)
        /\ Sum(Credits(s), 1 .. n - 1) \in Int
    <3> DEFINE c == Credits(s)
               first == 1 .. n - 1
    <3>1. IsFiniteSet(first) /\ n \notin first /\ 1 .. n = first \cup {n}
      <4>1. n - 1 \in Int /\ 1 \in Int
        OBVIOUS
      <4>2. IsFiniteSet(first)
        BY <4>1, FS_Interval
      <4> QED BY <4>2
    <3>2. (\A i \in first : c[i] \in Int) /\ c[n] \in Int /\ c[n] = Credit(s[n])
      BY <2>4
    <3> HIDE DEF c, first
    <3>3. Sum(c, first \cup {n}) = c[n] + Sum(c, first) /\ Sum(c, first) \in Int
      BY <3>1, <3>2, SumAdd, SumType
    <3> QED BY <3>1, <3>2, <3>3 DEF c, first
  <2>6. Credit(s[n]) \in Int
    <3>1. n \in 1 .. n
      OBVIOUS
    <3> QED BY <2>4, <3>1
  <2>7. Worth(States(s)[n]) = Sum(Credits(s), 1 .. n)
    BY <2>2, <2>3, <2>5, <2>6
  <2> QED BY <2>2, <2>7
<1>4. 0 .. Len(s) \subseteq S
  <2> HIDE DEF S
  <2> QED BY <1>1, <1>2, <1>3, Along
<1> QED BY <1>4

\* A lease's id tells when it was taken.
Named(e) == e.kind = "lease" => e.lease[2] = e.now

\* The lease at i is the job's lease at n, or was over when a later one was taken.
LeaseAt(s, i, n) ==
  /\ s[i].job \in DOMAIN States(s)[n].jobs
  /\ \E m \in i .. n :
       /\ s[m].kind = "lease" /\ s[m].job = s[i].job
       /\ States(s)[n].jobs[s[i].job].lease = {LeaseOf(s[m])}
       /\ m = i \/ s[m].now >= s[i].deadline

LEMMA LeaseTimes ==
  ASSUME NEW s, IsLog(s), NEW m \in 1 .. Len(s), s[m].kind = "lease"
  PROVE  s[m].now < s[m].deadline /\ s[m].now \in Int /\ s[m].deadline \in Int
<1>1. s[m] \in Event /\ CanLease(States(s)[m - 1], s[m])
  BY ElementOfSeq DEF IsLog, Accepts
<1> QED BY <1>1, EventFields DEF CanLease, Time

LEMMA LeasesLast ==
  ASSUME NEW s, IsLog(s), NEW i \in 1 .. Len(s), s[i].kind = "lease"
  PROVE  \A n \in i .. Len(s) : LeaseAt(s, i, n)
<1> DEFINE S == {n \in 0 .. Len(s) : n < i \/ LeaseAt(s, i, n)}
           j == s[i].job
<1>1. /\ Len(s) \in Nat
      /\ \A k \in 1 .. Len(s) : s[k] \in Event /\ Accepts(States(s)[k - 1], s[k])
      /\ \A k \in 0 .. Len(s) : Sound(States(s)[k])
      /\ \A k \in 1 .. Len(s) : States(s)[k] = Transition(States(s)[k - 1], s[k])
  BY LenProperties, ElementOfSeq, LogWorth, StatesStep DEF IsLog
<1>2. 0 \in S
  BY <1>1
<1>3. ASSUME NEW n \in 1 .. Len(s), n - 1 \in S PROVE n \in S
  <2> DEFINE st == States(s)[n - 1]
             after == States(s)[n]
             e == s[n]
  <2>1. /\ Sound(st) /\ e \in Event /\ Accepts(st, e) /\ after = Transition(st, e)
        /\ n \in 0 .. Len(s) /\ n \in Int /\ i \in Int
    BY <1>1
  <2>2. /\ DOMAIN st.jobs \subseteq DOMAIN after.jobs
        /\ e.kind = "lease" => after.jobs[e.job].lease = {LeaseOf(e)}
        /\ \A k \in DOMAIN st.jobs :
             (e.kind = "lease" /\ e.job = k) \/ after.jobs[k].lease = st.jobs[k].lease
    <3> HIDE DEF st, after, e, S, j
    <3>1. Sound(st) /\ e \in Event /\ Accepts(st, e) /\ after = Transition(st, e)
      BY <2>1
    <3>2. /\ DOMAIN st.jobs \subseteq DOMAIN Transition(st, e).jobs
          /\ e.kind = "lease" => Transition(st, e).jobs[e.job].lease = {LeaseOf(e)}
          /\ \A k \in DOMAIN st.jobs :
               (e.kind = "lease" /\ e.job = k)
                 \/ Transition(st, e).jobs[k].lease = st.jobs[k].lease
      BY <3>1, TransitionWorth
    <3> QED BY <3>1, <3>2
  <2>3. e.kind = "lease" => CanLease(st, e)
    BY <2>1 DEF Accepts
  <2> HIDE DEF st, after, e
  <2>4. CASE n < i
    BY <2>1, <2>4
  <2>5. CASE n = i
    <3>1. e.kind = "lease" /\ e.job = j /\ e = s[i]
      BY <2>5 DEF e
    <3>2. j \in DOMAIN after.jobs
      BY <2>2, <2>3, <3>1 DEF CanLease, Unfinished
    <3>3. i \in i .. n
      BY <2>1, <2>5
    <3> QED BY <2>1, <2>2, <3>1, <3>2, <3>3 DEF LeaseAt, after
  <2>6. CASE i < n
    <3>1. LeaseAt(s, i, n - 1)
      BY <1>3, <2>1, <2>6
    <3>2. PICK m \in i .. n - 1 :
            /\ s[m].kind = "lease" /\ s[m].job = j /\ st.jobs[j].lease = {LeaseOf(s[m])}
            /\ m = i \/ s[m].now >= s[i].deadline
      BY <3>1 DEF LeaseAt, st
    <3>3. j \in DOMAIN st.jobs /\ j \in DOMAIN after.jobs
      BY <2>2, <3>1 DEF LeaseAt, st
    <3>4. CASE e.kind = "lease" /\ e.job = j
      <4>1. e.now >= s[m].deadline
        <5>1. \A l \in st.jobs[e.job].lease : e.now >= l.deadline
          BY <2>3, <3>4 DEF CanLease
        <5>2. LeaseOf(s[m]) \in st.jobs[e.job].lease
          BY <3>2, <3>4
        <5>3. LeaseOf(s[m]).deadline = s[m].deadline
          BY DEF LeaseOf
        <5> QED BY <5>1, <5>2, <5>3
      <4>2. m \in 1 .. Len(s)
        BY <1>1, <2>1, <3>2
      <4>3. /\ s[m].now < s[m].deadline /\ s[m].now \in Int /\ s[m].deadline \in Int
            /\ s[i].deadline \in Int
        BY <3>2, <4>2, LeaseTimes
      <4>4. e.now \in Int
        BY <2>1, <3>4, EventFields DEF Time
      <4>5. s[m].now >= s[i].deadline => e.now >= s[i].deadline
        BY <4>1, <4>3, <4>4
      <4>6. e.now >= s[i].deadline
        BY <3>2, <4>1, <4>5
      <4>7. n \in i .. n
        BY <2>1, <2>6
      <4> QED BY <2>1, <2>2, <3>3, <3>4, <4>6, <4>7 DEF LeaseAt, after, e
    <3>5. CASE ~ (e.kind = "lease" /\ e.job = j)
      <4>1. after.jobs[j].lease = st.jobs[j].lease
        BY <2>2, <3>3, <3>5
      <4>2. m \in i .. n
        BY <2>1, <3>2
      <4> QED BY <2>1, <3>2, <3>3, <4>1, <4>2 DEF LeaseAt, after
    <3> QED BY <3>4, <3>5
  <2> QED BY <2>1, <2>4, <2>5, <2>6
<1>4. 0 .. Len(s) \subseteq S
  <2> HIDE DEF S
  <2> QED BY <1>1, <1>2, <1>3, Along
<1>5. \A n \in i .. Len(s) : n \in 0 .. Len(s) /\ ~ (n < i)
  BY <1>1
<1> QED BY <1>4, <1>5

-------------------------------------------------------------------------------
(* The promises of the journal *)

LeasesNamed ==
  /\ \A i \in 1 .. Len(files) : Named(files[i].event)
  /\ \A p \in Process : call[p].step # "idle" => Named(call[p].event)

LEMMA NamesKept == JournalInv /\ LeasesNamed /\ [Next]_vars => LeasesNamed'
<1> SUFFICES ASSUME JournalInv, LeasesNamed, [Next]_vars PROVE LeasesNamed'
  OBVIOUS
<1>1. /\ files \in Seq(File) /\ Len(files) \in Nat /\ call \in [Process -> Calls]
      /\ Idle.step = "idle"
  BY LenProperties DEF JournalInv, TypeOK, Idle
<1>2. ASSUME NEW p \in Process, Call(p) PROVE LeasesNamed'
  <2>1. PICK e \in Inputs(p) : call' = [call EXCEPT ![p] = [step |-> "called", event |-> e]]
    BY <1>2 DEF Call
  <2>2. Named(e)
    <3>1. ASSUME e.kind = "lease" PROVE e.now = clock /\ e.lease = <<p, clock>>
      BY <3>1 DEF Inputs
    <3> QED BY <3>1 DEF Named
  <2>3. /\ call'[p].event = e
        /\ \A q \in Process \ {p} : call'[q] = call[q]
    BY <1>1, <2>1
  <2> QED BY <1>2, <2>2, <2>3 DEF Call, LeasesNamed
<1>3. ASSUME NEW p \in Process, Read(p) PROVE LeasesNamed'
  <2>1. call' = [call EXCEPT ![p] = [step |-> "opening", event |-> call[p].event,
                                     base |-> EventsOf(files)]]
    BY <1>3 DEF Read
  <2>2. call'[p].event = call[p].event /\ \A q \in Process \ {p} : call'[q] = call[q]
    BY <1>1, <2>1
  <2>3. call[p].step # "idle"
    BY <1>3 DEF Read
  <2> QED BY <1>3, <2>2, <2>3 DEF Read, LeasesNamed
<1>4. ASSUME NEW p \in Process, Refuse(p) \/ Conflict(p) \/ Abandon(p) PROVE LeasesNamed'
  <2>1. call' = [call EXCEPT ![p] = Idle] /\ UNCHANGED files
    BY <1>4 DEF Refuse, Conflict, Abandon
  <2>2. call'[p].step = "idle" /\ \A q \in Process \ {p} : call'[q] = call[q]
    BY <1>1, <2>1
  <2> QED BY <2>1, <2>2 DEF LeasesNamed
<1>5. ASSUME NEW p \in Process, Open(p) PROVE LeasesNamed'
  <2>1. /\ files' = Append(files, NewFile(p)) /\ call[p].step = "opening" /\ NewFile(p) \in File
        /\ NewFile(p).event = call[p].event
    BY <1>5, CallFields DEF JournalInv, Open, NewFile
  <2>2. /\ Len(files') = Len(files) + 1 /\ files'[Len(files) + 1] = NewFile(p)
        /\ \A i \in 1 .. Len(files) : files'[i] = files[i]
    BY <1>1, <2>1, AppendProperties
  <2>3. \A i \in 1 .. Len(files') : Named(files'[i].event)
    <3> SUFFICES ASSUME NEW i \in 1 .. Len(files') PROVE Named(files'[i].event)
      OBVIOUS
    <3>1. CASE i \in 1 .. Len(files)
      BY <2>2, <3>1 DEF LeasesNamed
    <3>2. CASE i = Len(files) + 1
      BY <2>1, <2>2, <3>2 DEF LeasesNamed
    <3> QED BY <1>1, <2>2, <3>1, <3>2
  <2>4. \A q \in Process : call'[q].event = call[q].event /\ (call[q].step = "idle" => call'[q] = call[q])
    <3>1. call' = [call EXCEPT ![p] = [call[p] EXCEPT !.step = "writing"]]
      BY <1>5 DEF Open
    <3>2. call[p] \in [step : {"opening", "writing"}, event : Event, base : Seq(Event)]
      BY <1>1, <2>1 DEF Calls, Idle
    <3>3. [call[p] EXCEPT !.step = "writing"].event = call[p].event
      BY <3>2
    <3> QED BY <1>1, <2>1, <3>1, <3>3
  <2> QED BY <2>3, <2>4 DEF LeasesNamed
<1>6. ASSUME NEW p \in Process, Write(p) PROVE LeasesNamed'
  <2>1. /\ files' \in Seq(File) /\ Len(files') = Len(files) /\ EventsOf(files') = EventsOf(files)
    BY <1>6, WriteKeeps DEF JournalInv, TypeOK
  <2>2. \A i \in 1 .. Len(files) : files'[i].event = files[i].event
    BY <1>1, <2>1, EventsAreASequence
  <2>3. call' = [call EXCEPT ![p] = Idle]
    BY <1>6 DEF Write
  <2>4. call'[p].step = "idle" /\ \A q \in Process \ {p} : call'[q] = call[q]
    BY <1>1, <2>3
  <2> QED BY <2>1, <2>2, <2>4 DEF LeasesNamed
<1>7. ASSUME UNCHANGED <<files, call>> PROVE LeasesNamed'
  BY <1>7 DEF LeasesNamed
<1> QED BY <1>2, <1>3, <1>4, <1>5, <1>6, <1>7 DEF Next, Tick, vars

\* What is recorded comes from a file.
LEMMA RecordedNamed ==
  ASSUME JournalInv, LeasesNamed
  PROVE  \A i \in 1 .. Len(Recorded) : Named(Recorded[i])
<1>1. files \in Seq(File) /\ Len(files) \in Nat
  BY LenProperties DEF JournalInv, TypeOK
<1>2. CASE files # <<>> /\ ~files[Len(files)].whole
  <2>1. /\ Front(files) \in Seq(File) /\ Len(Front(files)) = Len(files) - 1
        /\ \A i \in 1 .. Len(files) - 1 : Front(files)[i] = files[i]
    BY <1>1, <1>2, FrontAndLast DEF Front
  <2>2. Recorded = EventsOf(Front(files))
    BY <1>2 DEF Recorded
  <2>3. /\ Len(Recorded) = Len(files) - 1
        /\ \A i \in 1 .. Len(files) - 1 : Recorded[i] = files[i].event
    BY <2>1, <2>2, EventsAreASequence
  <2> QED BY <1>1, <2>3 DEF LeasesNamed
<1>3. CASE ~ (files # <<>> /\ ~files[Len(files)].whole)
  <2>1. Recorded = EventsOf(files)
    BY <1>3 DEF Recorded
  <2> QED BY <1>1, <2>1, EventsAreASequence DEF LeasesNamed
<1> QED BY <1>2, <1>3

LEMMA Conserved == ASSUME JournalInv PROVE CreditsConserved
<1> DEFINE s == Recorded
           n == Len(s)
<1>1. IsLog(s) /\ n \in Nat /\ DOMAIN s = 1 .. n /\ State = States(s)[n]
  BY RecordedIsLog, LenProperties DEF IsLog, State, Replay
<1>2. Sound(State) /\ Worth(State) = Sum(Credits(s), 1 .. n)
  <2>1. n \in 0 .. n
    BY <1>1
  <2> HIDE DEF s
  <2> QED BY <1>1, <2>1, LogWorth
<1>3. SumFunction(State.balance) = Sum(State.balance, Account)
  BY <1>2, SumIs DEF Sound
<1>4. SumFunction([j \in Reserved |-> Held(State.jobs[j].funding)])
        = Sum(Reservations(State), OpenJobs(State))
  <2>1. Reserved = OpenJobs(State)
    BY DEF Reserved, OpenJobs
  <2>2. Reservations(State) = [j \in Reserved |-> Held(State.jobs[j].funding)]
    BY <2>1 DEF Reservations
  <2>3. DOMAIN Reservations(State) = OpenJobs(State)
    BY DEF Reservations
  <2>4. SumFunction(Reservations(State)) = Sum(Reservations(State), DOMAIN Reservations(State))
    BY SumIs
  <2> QED BY <2>2, <2>3, <2>4
<1>5. SumFunction([i \in DOMAIN s |-> IF s[i].kind = "credit" THEN s[i].amount ELSE 0])
        = Sum(Credits(s), 1 .. n)
  <2>1. Credits(s) = [i \in DOMAIN s |-> IF s[i].kind = "credit" THEN s[i].amount ELSE 0]
    BY DEF Credits, Credit
  <2>2. DOMAIN Credits(s) = 1 .. n
    BY <1>1 DEF Credits
  <2>3. SumFunction(Credits(s)) = Sum(Credits(s), DOMAIN Credits(s))
    BY SumIs
  <2> QED BY <2>1, <2>2, <2>3
<1> QED BY <1>2, <1>3, <1>4, <1>5 DEF CreditsConserved, Worth

LEMMA Recoverable == ASSUME JournalInv PROVE FundsRecoverable
<1>1. Sound(State)
  <2>1. IsLog(Recorded) /\ Len(Recorded) \in 0 .. Len(Recorded)
    BY RecordedIsLog, LenProperties DEF IsLog
  <2> QED BY <2>1, LogWorth DEF State, Replay
<1> SUFFICES ASSUME NEW j \in Reserved, NEW f \in State.jobs[j].funding
             PROVE  Accepts(State, [kind |-> "refund", job |-> j, buyer |-> f.buyer,
                                    now |-> MaxTime + MaxLease])
  BY DEF FundsRecoverable
<1> DEFINE st == State
           e == [kind |-> "refund", job |-> j, buyer |-> f.buyer, now |-> MaxTime + MaxLease]
<1>2. j \in DOMAIN st.jobs /\ st.jobs[j].status = "open" /\ st.jobs[j] \in JobState
  BY <1>1 DEF Reserved, Sound
<1>3. \A l \in st.jobs[j].lease : MaxTime + MaxLease >= l.deadline
  <2>1. \A l \in st.jobs[j].lease : l \in Lease
    BY <1>2 DEF JobState
  <2> QED BY <2>1, WorkAssumption DEF Lease
<1> HIDE DEF st
<1>4. e.kind = "refund" /\ e.job = j /\ e.buyer = f.buyer /\ e.now = MaxTime + MaxLease
  OBVIOUS
<1>5. f \in st.jobs[j].funding
  BY DEF st
<1> HIDE DEF e
<1>6. CanRefund(st, e)
  BY <1>2, <1>3, <1>4, <1>5 DEF CanRefund, Unfinished
<1> QED BY <1>4, <1>6 DEF Accepts, st, e

\* From its entry on a lease is over before anything but its own completion.
LEMMA Honoured == ASSUME JournalInv, LeasesNamed PROVE LeaseHonoured
<1> DEFINE s == Recorded
<1>1. /\ IsLog(s) /\ Len(s) \in Nat /\ DOMAIN s = 1 .. Len(s)
      /\ \A i \in 1 .. Len(s) : s[i] \in Event /\ Named(s[i])
  BY RecordedIsLog, RecordedNamed, LenProperties, ElementOfSeq DEF IsLog
<1> DEFINE Afterwards(i) == {k \in i + 1 .. Len(s) : s[k].kind # "credit" /\ s[k].job = s[i].job}
<1> SUFFICES ASSUME NEW i \in 1 .. Len(s), s[i].kind = "lease", NEW k \in Afterwards(i)
             PROVE  \/ s[k].kind \in {"lease", "refund"} /\ s[k].now >= s[i].deadline
                    \/ /\ s[k].kind = "complete"
                       /\ s[k].lease = s[i].lease =>
                            s[k].miner = s[i].miner /\ s[k].now < s[i].deadline
                       /\ s[k].lease # s[i].lease =>
                            \E n \in Afterwards(i) : n < k /\ s[n].kind = "lease"
  BY <1>1 DEF LeaseHonoured
<1> DEFINE st == States(s)[k - 1]
           e == s[k]
           j == s[i].job
<1>2. /\ k \in 1 .. Len(s) /\ k - 1 \in i .. Len(s) /\ i \in Nat /\ k \in Nat /\ i < k
      /\ e.kind # "credit" /\ e.job = j
  BY <1>1
<1>3. e \in Event /\ Accepts(st, e)
  BY <1>1, <1>2 DEF IsLog
<1>4. LeaseAt(s, i, k - 1)
  <2> HIDE DEF s
  <2> QED BY <1>1, <1>2, LeasesLast
<1>5. PICK m \in i .. k - 1 :
        /\ s[m].kind = "lease" /\ s[m].job = j
        /\ st.jobs[j].lease = {LeaseOf(s[m])}
        /\ m = i \/ s[m].now >= s[i].deadline
  BY <1>4 DEF LeaseAt
<1>6. j \in DOMAIN st.jobs
  BY <1>4 DEF LeaseAt
<1>7. m \in 1 .. Len(s) /\ m \in Nat /\ m < k
  BY <1>2, <1>5
<1> HIDE DEF s, st
<1>8. /\ s[m].now < s[m].deadline /\ s[m].now \in Int /\ s[m].deadline \in Int
      /\ s[i].now < s[i].deadline /\ s[i].now \in Int /\ s[i].deadline \in Int
  BY <1>1, <1>5, <1>7, LeaseTimes
<1>9. e.kind \in {"create", "refund", "lease", "complete"} /\ e.now \in Int
  BY <1>2, <1>3, EventFields DEF Time
<1>10. LeaseOf(s[m]) \in st.jobs[e.job].lease
  BY <1>2, <1>5
<1>11. /\ LeaseOf(s[m]).deadline = s[m].deadline /\ LeaseOf(s[m]).id = s[m].lease
       /\ LeaseOf(s[m]).miner = s[m].miner
  BY DEF LeaseOf
<1> HIDE DEF e, Afterwards
<1>12. CASE e.kind = "create"
  BY <1>2, <1>3, <1>6, <1>12 DEF Accepts, CanCreate
<1>13. CASE e.kind \in {"refund", "lease"}
  <2>1. e.now >= s[m].deadline
    <3>1. \A l \in st.jobs[e.job].lease : e.now >= l.deadline
      BY <1>3, <1>13 DEF Accepts, CanRefund, CanLease
    <3> QED BY <1>10, <1>11, <3>1
  <2>2. s[m].now >= s[i].deadline => e.now >= s[i].deadline
    BY <1>8, <1>9, <2>1
  <2>3. e.now >= s[i].deadline
    BY <1>5, <2>1, <2>2
  <2> QED BY <1>13, <2>3 DEF e
<1>14. CASE e.kind = "complete"
  <2>1. e.lease = s[m].lease /\ e.miner = s[m].miner /\ e.now < s[m].deadline
    <3>1. \E l \in st.jobs[e.job].lease :
            l.id = e.lease /\ l.miner = e.miner /\ e.now < l.deadline
      BY <1>3, <1>14 DEF Accepts, CanComplete
    <3>2. st.jobs[e.job].lease = {LeaseOf(s[m])}
      BY <1>2, <1>5
    <3> QED BY <1>11, <3>1, <3>2
  <2>2. CASE m = i
    BY <1>14, <2>1, <2>2 DEF e
  <2>3. CASE m # i
    <3>1. s[m].now >= s[i].deadline
      BY <1>5, <2>3
    <3>2. s[m].lease # s[i].lease
      <4>1. s[m].lease[2] = s[m].now /\ s[i].lease[2] = s[i].now
        BY <1>1, <1>5, <1>7 DEF Named
      <4>2. s[m].now # s[i].now
        BY <1>8, <3>1
      <4> QED BY <4>1, <4>2
    <3>3. m \in Afterwards(i)
      <4>1. m \in i + 1 .. Len(s)
        BY <1>2, <1>5, <1>7, <2>3
      <4> QED BY <1>5, <4>1 DEF Afterwards
    <3> QED BY <1>5, <1>7, <1>14, <2>1, <3>2, <3>3 DEF e
  <2> QED BY <2>2, <2>3
<1> QED BY <1>9, <1>12, <1>13, <1>14

\* At any time, whatever processes raced and wherever they died: accounts and
\* open reservations hold exactly what was credited, a reservation can be had
\* back when its lease is over, and until then only the leaseholder's
\* completion touches its job (transition, complete, lease, refund).
THEOREM FundsAreSafe == Spec => []FundsInv
<1>1. Init => LeasesNamed
  BY DEF Init, LeasesNamed, Idle
<1>2. JournalInv /\ LeasesNamed => FundsInv
  BY Conserved, Recoverable, Honoured DEF FundsInv
<1>3. Spec => [](JournalInv /\ LeasesNamed)
  BY <1>1, InitialInv, StepInv, NamesKept, PTL DEF Spec
<1> QED BY <1>2, <1>3, PTL

-------------------------------------------------------------------------------
(* Launch control *)

LaunchHypothesis == IsFiniteSet(Key) /\ \A p \in Policies : p.keys \subseteq Key

\* Every signature on a file is one that its holder made, over the text it names.
Signed == {Signature(s[1], s[2]) : s \in made}

RecordSigned ==
  record # None =>
    /\ DOMAIN record = {"payload", "signatures"}
    /\ record.signatures \in Seq(Signed)

LedgerSigned ==
  /\ DOMAIN ledger = {"commit", "records"}
  /\ DOMAIN ledger.records = Gate
  /\ \A g \in Gate : ledger.records[g] # None =>
       /\ ledger.records[g].payload.gate = g
       /\ ledger.records[g].signatures \in Seq(Signed)

SignedInv ==
  /\ policy \in Policies
  /\ \A s \in made : s = <<s[1], s[2]>>
  /\ RecordSigned /\ LedgerSigned

\* A good signature of an envelope is one the key's holder made over its text.
LEMMA GoodIsMade ==
  ASSUME NEW p, NEW e, e.signatures \in Seq(Signed),
         \A s \in made : s = <<s[1], s[2]>>,
         NEW k \in Signers(p, e)
  PROVE  k \in p.keys /\ <<k, e.payload>> \in made
<1>1. PICK i \in DOMAIN e.signatures :
        k = e.signatures[i].key /\ SignatureGood(p, e, i)
  BY DEF Signers
<1>2. e.signatures[i] \in Signed
  BY <1>1
<1>3. PICK s \in made : e.signatures[i] = Signature(s[1], s[2])
  BY <1>2 DEF Signed
<1>4. s[1] = k /\ s[2] = e.payload
  BY <1>1, <1>3 DEF SignatureGood, Signature
<1> QED BY <1>1, <1>3, <1>4 DEF SignatureGood

\* What was signed stays signed.
LEMMA SignedGrows ==
  ASSUME made \subseteq made', NEW ss \in Seq(Signed)
  PROVE  ss \in Seq(Signed')
<1>1. Signed \subseteq Signed'
  BY DEF Signed
<1> QED BY <1>1

LEMMA InitSigned == LaunchInit => SignedInv
BY DEF LaunchInit, SignedInv, RecordSigned, LedgerSigned

LEMMA NextSigned == SignedInv /\ [LaunchNext]_launchVars => SignedInv'
<1> SUFFICES ASSUME SignedInv, [LaunchNext]_launchVars PROVE SignedInv'
  OBVIOUS
<1> USE DEF SignedInv
<1>1. ASSUME NEW k \in Key, NEW gate \in Gate, NEW commit \in Commit, NEW complete \in BOOLEAN,
             FileEvidence(k, gate, commit, complete)
      PROVE  SignedInv'
  <2> DEFINE payload == [kind |-> "evidence", gate |-> gate, commit |-> commit,
                         complete |-> complete, reviewers |-> {k} \cap Reviewer]
             envelope == [payload |-> payload, signatures |-> <<Signature(k, payload)>>]
  <2>1. /\ ledger' = [ledger EXCEPT !.records[gate] = envelope]
        /\ made' = made \cup {<<k, payload>>}
        /\ UNCHANGED <<policy, record>>
    BY <1>1 DEF FileEvidence, Sign
  <2>2. envelope.payload.gate = gate /\ envelope.signatures \in Seq(Signed')
    <3>1. Signature(k, payload) \in Signed'
      <4> HIDE DEF payload
      <4>1. <<k, payload>> \in made' /\ <<k, payload>>[1] = k /\ <<k, payload>>[2] = payload
        BY <2>1
      <4> QED BY <4>1 DEF Signed, Signature
    <3> HIDE DEF payload
    <3>2. <<Signature(k, payload)>> \in Seq(Signed')
      BY <3>1
    <3> QED BY <3>2 DEF payload
  <2> HIDE DEF payload, envelope
  <2>3. LedgerSigned'
    <3>1. DOMAIN ledger' = {"commit", "records"} /\ DOMAIN ledger'.records = Gate
      BY <2>1 DEF LedgerSigned
    <3>2. ASSUME NEW g \in Gate, ledger'.records[g] # None
          PROVE  ledger'.records[g].payload.gate = g /\ ledger'.records[g].signatures \in Seq(Signed')
      <4>1. CASE g = gate
        BY <4>1, <2>1, <2>2 DEF LedgerSigned
      <4>2. CASE g # gate
        <5>1. ledger'.records[g] = ledger.records[g]
          BY <4>2, <2>1 DEF LedgerSigned
        <5> QED BY <5>1, <3>2, <2>1, SignedGrows DEF LedgerSigned
      <4> QED BY <4>1, <4>2
    <3> QED BY <3>1, <3>2 DEF LedgerSigned
  <2>4. RecordSigned'
    BY <2>1, SignedGrows DEF RecordSigned
  <2> QED BY <2>1, <2>3, <2>4
<1>2. ASSUME NEW commit \in Commit, Retarget(commit) PROVE SignedInv'
  <2>1. ledger' = [ledger EXCEPT !.commit = commit] /\ UNCHANGED <<policy, record, made>>
    BY <1>2 DEF Retarget
  <2> QED BY <2>1 DEF RecordSigned, LedgerSigned, Signed
<1>3. ASSUME UNCHANGED <<ledger, record, made>>, policy' \in Policies PROVE SignedInv'
  BY <1>3 DEF RecordSigned, LedgerSigned, Signed
<1>4. ASSUME NEW readiness \in BOOLEAN, NEW keep \in BOOLEAN, DrawUp(readiness, keep)
      PROVE  SignedInv'
  <2>1. /\ UNCHANGED <<policy, ledger, made>>
        /\ DOMAIN record' = {"payload", "signatures"}
        /\ record'.signatures = IF keep /\ record # None THEN record.signatures ELSE <<>>
    BY <1>4 DEF DrawUp
  <2>2. record'.signatures \in Seq(Signed)
    BY <2>1 DEF RecordSigned
  <2> QED BY <2>1, <2>2 DEF RecordSigned, LedgerSigned, Signed
<1>5. ASSUME NEW k \in Key, SignRecord(k) PROVE SignedInv'
  <2> DEFINE signature == Signature(k, record.payload)
  <2>1. /\ record # None
        /\ record' = [record EXCEPT !.signatures = Append(@, signature)]
        /\ made' = made \cup {<<k, record.payload>>}
        /\ UNCHANGED <<policy, ledger>>
    BY <1>5 DEF SignRecord, Sign
  <2>2. signature \in Signed'
    <3>1. /\ <<k, record.payload>> \in made'
          /\ <<k, record.payload>>[1] = k /\ <<k, record.payload>>[2] = record.payload
      BY <2>1
    <3> QED BY <3>1 DEF Signed, Signature
  <2> HIDE DEF signature
  <2>3. record.signatures \in Seq(Signed')
    BY <2>1, SignedGrows DEF RecordSigned
  <2>4. Append(record.signatures, signature) \in Seq(Signed')
    BY <2>2, <2>3, AppendProperties
  <2>5. RecordSigned'
    BY <2>1, <2>4 DEF RecordSigned
  <2>6. LedgerSigned'
    BY <2>1, SignedGrows DEF LedgerSigned
  <2> QED BY <2>1, <2>5, <2>6
<1> QED BY <1>1, <1>2, <1>3, <1>4, <1>5
        DEF LaunchNext, ReplaceRegistry, ReplacePolicy, LaunchTick, launchVars
------------------------------------------------------------------------------
\* An envelope that is valid under the policy has as many trusted makers as it
\* has signers, and an independent one where it needs one.
LEMMA ValidHasMakers ==
  ASSUME LaunchHypothesis, SignedInv,
         NEW e, e.signatures \in Seq(Signed),
         NEW kind, NEW least \in Nat, NEW independent,
         EnvelopeValid(policy, e, kind, least, independent)
  PROVE  LET makers == {k \in policy.keys : <<k, e.payload>> \in made} IN
         /\ Cardinality(makers) >= least
         /\ independent => makers \cap Reviewer # {}
         /\ makers # {}
<1> DEFINE makers == {k \in policy.keys : <<k, e.payload>> \in made}
<1>1. Signers(policy, e) \subseteq makers
  BY GoodIsMade DEF SignedInv
<1>2. IsFiniteSet(makers)
  <2>1. makers \subseteq Key
    BY DEF LaunchHypothesis, SignedInv
  <2> QED BY <2>1, FS_Subset DEF LaunchHypothesis
<1>3. Cardinality(Signers(policy, e)) \in Nat /\ Cardinality(makers) \in Nat
      /\ Cardinality(Signers(policy, e)) <= Cardinality(makers)
  <2> HIDE DEF makers
  <2> QED BY <1>1, <1>2, FS_Subset, FS_CardinalityType
<1>4. Cardinality(makers) >= least /\ (independent => makers \cap Reviewer # {})
  <2> HIDE DEF makers
  <2> QED BY <1>1, <1>3 DEF EnvelopeValid
<1>5. makers # {}
  <2>1. 1 \in DOMAIN e.signatures /\ SignatureGood(policy, e, 1)
    BY DEF EnvelopeValid
  <2>2. Signers(policy, e) # {}
    BY <2>1 DEF Signers
  <2> QED BY <1>1, <2>2
<1> QED BY <1>4, <1>5

LEMMA SignedIsApproved == LaunchHypothesis /\ SignedInv => LaunchIsApproved
<1> SUFFICES ASSUME LaunchHypothesis, SignedInv, Ready PROVE LaunchIsApproved
  BY DEF LaunchIsApproved
<1> DEFINE approvers == {k \in policy.keys : <<k, record.payload>> \in made}
<1>1. LeastSigners(policy) \in Nat
  BY DEF LeastSigners, Ready, PolicyValid
<1>2. Cardinality(approvers) >= LeastSigners(policy) /\ approvers \cap Reviewer # {}
  <2>1. record.signatures \in Seq(Signed)
    BY DEF Ready, SignedInv, RecordSigned
  <2>2. EnvelopeValid(policy, record, "launch", LeastSigners(policy), TRUE)
    BY DEF Ready
  <2> QED BY <1>1, <2>1, <2>2, ValidHasMakers
<1>3. /\ record.payload.ledger = ledger
      /\ record.payload.registry = registry /\ RegistryReviewed(registry)
  BY DEF Ready, RecordBinds, RegistryDigest
<1>4. ASSUME NEW gate \in Gate
      PROVE  \E k \in policy.keys, s \in made :
               /\ s = <<k, ledger.records[gate].payload>>
               /\ s[2].gate = gate /\ s[2].commit = record.payload.commit
               /\ gate \in IndependentGate => k \in Reviewer
  <2> DEFINE e == ledger.records[gate]
             makers == {k \in policy.keys : <<k, e.payload>> \in made}
  <2>1. /\ e # None /\ e.payload.commit = record.payload.commit
        /\ EnvelopeValid(policy, e, "evidence", 1, gate \in IndependentGate)
    BY DEF Ready, LedgerSatisfied, GateSatisfied
  <2>2. e.payload.gate = gate /\ e.signatures \in Seq(Signed)
    BY <2>1 DEF SignedInv, LedgerSigned
  <2>3. makers # {} /\ (gate \in IndependentGate => makers \cap Reviewer # {})
    <3> HIDE DEF e
    <3> QED BY <2>1, <2>2, ValidHasMakers
  <2>4. PICK k \in makers : gate \in IndependentGate => k \in Reviewer
    BY <2>3
  <2>5. /\ k \in policy.keys /\ <<k, e.payload>> \in made
        /\ <<k, e.payload>>[2] = e.payload
    BY <2>4
  <2> QED BY <2>1, <2>2, <2>4, <2>5
<1> QED BY <1>2, <1>3, <1>4 DEF LaunchIsApproved

\* Whatever files were edited while signatures were collected, a launch that the
\* evaluation allows has its approvals (evaluateLaunchRequest).
THEOREM LaunchNeedsApproval ==
  ASSUME LaunchHypothesis
  PROVE  LaunchSpec => []LaunchIsApproved
<1>1. SignedInv => LaunchIsApproved
  BY SignedIsApproved
<1> QED BY InitSigned, NextSigned, <1>1, PTL DEF LaunchSpec
------------------------------------------------------------------------------
(* The soak monitor *)

SoakPhases == {"observing", "completed", "incomplete"}
Window ==
  [phase : SoakPhases, evidence : Nat, observations : Nat, first : Nat,
   minimumEnd : Int, hardEnd : Int, lastAt : Int, lastHeight : Nat, lastAdvance : Int,
   blocks : SUBSET Seq(Body), down : [Seed -> Nat], gaps : Nat, failed : BOOLEAN]

History ==
  [seen : SUBSET Seq(Body), last : Int, gap : Int, worst : [Seed -> Nat],
   run : [Seed -> Nat], wrong : BOOLEAN, count : Nat]

\* What a window's state says of the observations it counted, and a clean
\* one of every block they showed.
Tallies(s, h) ==
  /\ s.observations = h.count
  /\ s.down = h.run
  /\ s.phase = "completed" => Complete(s.first, s.blocks) /\ ~s.failed
  /\ ~s.failed =>
       /\ h.gap <= MaxGap
       /\ \A e \in Seed : h.worst[e] < Threshold
       /\ ~h.wrong
       /\ s.blocks = {b \in h.seen : Len(b) \in s.first .. LastHeight(s.first)}
       /\ \A b, c \in s.blocks : Len(b) = Len(c) => b = c

Counted(s, h) == s.lastAt = h.last /\ Tallies(s, h)

Requests ==
  {Free} \cup [at : {"closing"}, generation : Nat]
    \cup [at : {"read"}, state : {Missing} \cup Window, generation : Nat]
    \cup [at : {"reviewing"}, state : Window]
    \cup [at : {"reviewed"}, state : Window, generation : Nat]

StoreSound ==
  IF generation = 0
  THEN /\ saved = Missing
       /\ history.seen = {} /\ history.count = 0 /\ ~history.wrong /\ history.gap = 0
       /\ history.run = [e \in Seed |-> 0] /\ history.worst = [e \in Seed |-> 0]
  ELSE saved \in Window /\ saved.evidence <= generation /\ Counted(saved, history)

\* What a request may still write, if the stored object did not change.
TickSound(k) ==
  /\ k.at \in {"closing", "read", "reviewed"} => k.generation <= generation
  /\ k.at = "closing" => generation # 0
  /\ k.at = "read" =>
       /\ k.state # Missing => k.state.phase = "observing"
       /\ k.generation = generation => k.state = saved
  /\ k.at \in {"reviewing", "reviewed"} =>
       /\ generation # 0
       /\ k.state.evidence <= saved.evidence
       /\ k.state.evidence = saved.evidence => Counted(k.state, history)
  /\ k.at = "reviewed" /\ k.generation = generation => k.state.evidence = saved.evidence

MonitorIInv ==
  /\ instant \in Nat /\ chain \in Seq(Body) /\ generation \in Nat /\ history \in History
  /\ ticks \in [Request -> Requests]
  /\ StoreSound
  /\ \A t \in Request : TickSound(ticks[t])

\* What a collection returns was so when it returned.
LEMMA ObservationShape ==
  ASSUME NEW o \in {Good} \cup Faulty
  PROVE  /\ o.at = instant /\ o.up \subseteq Seed
         /\ o.explorer # Missing => o.explorer.tip = chain /\ o.explorer.blocks = RecentBlocks(chain)
<1>1. CASE o = Good \/ o = [Good EXCEPT !.visible = FALSE]
  BY <1>1 DEF Good, Snapshot
<1>5. CASE o = NoAnswer
  <2>1. o.at = instant /\ o.up = Seed /\ o.explorer = Missing
    BY <1>5 DEF Good, NoAnswer
  <2> QED BY <2>1
<1>2. CASE o = [Good EXCEPT !.explorer = Snapshot(FALSE)]
  BY <1>2 DEF Good, Snapshot
<1>3. CASE \E e \in Seed : o = [Good EXCEPT !.up = Seed \ {e}]
  BY <1>3 DEF Good, Snapshot
<1>4. CASE o \in RecorderFaults
  BY <1>4 DEF RecorderFaults, Good, Snapshot
<1> QED BY <1>1, <1>2, <1>3, <1>4, <1>5 DEF Faulty

\* An explorer answer shows blocks of one chain: one per height.
LEMMA RecentAreDistinct ==
  ASSUME chain \in Seq(Body)
  PROVE  /\ RecentBlocks(chain) \subseteq Seq(Body)
         /\ \A b, c \in RecentBlocks(chain) : Len(b) = Len(c) => b = c
<1>1. Len(chain) \in Nat /\ Recent \in Nat
  BY LenProperties, SoakAssumption
<1>2. \A h \in Greater(0, Len(chain) - Recent + 1) .. Len(chain) :
        /\ h \in 0 .. Len(chain)
        /\ SubSeq(chain, 1, h) \in Seq(Body)
        /\ Len(SubSeq(chain, 1, h)) = h
  <2> TAKE h \in Greater(0, Len(chain) - Recent + 1) .. Len(chain)
  <2>1. h \in 0 .. Len(chain)
    BY <1>1 DEF Greater
  <2>2. \A i \in 1 .. h : i \in 1 .. Len(chain)
    BY <1>1, <2>1
  <2> QED BY <2>1, <2>2, SubSeqProperties, ElementOfSeq, <1>1
<1> QED BY <1>2 DEF RecentBlocks

\* The window's first height.
LEMMA HeightIsNat ==
  ASSUME NEW h \in Nat
  PROVE  FirstHeight(h) \in Nat
<1>1. EpochLength \in Nat /\ EpochLength > 0
  BY SoakAssumption
<1>2. h \div EpochLength \in Nat
  BY <1>1, Z3
<1>3. \A n \in Nat : (n + 1) * EpochLength \in Nat
  BY <1>1, Z3
<1> QED BY <1>2, <1>3 DEF FirstHeight

\* A state that is absent is no window's.
LEMMA MissingIsNoWindow == Missing \notin Window
<1>1. DOMAIN Missing = {"absent"}
  BY DEF Missing
<1>2. \A s \in Window : "phase" \in DOMAIN s
  BY DEF Window
<1> QED BY <1>1, <1>2

\* The state of a window after one more observation, field by field.
LEMMA AdvanceFields ==
  ASSUME chain \in Seq(Body), instant \in Nat,
         NEW o \in {Good} \cup Faulty, NEW s \in Window, s.phase = "observing"
  PROVE  LET n == Advance(s, o) IN
         /\ n \in Window
         /\ n.first = s.first /\ n.observations = s.observations + 1 /\ n.lastAt = instant
         /\ n.blocks = Kept(s, o) /\ n.down = Down(s, o)
         /\ n.failed <=> \/ s.failed \/ ObservationFails(o, FALSE) \/ GapFails(s, o)
                         \/ ChainFails(s, o) \/ BlocksFail(s, o)
                         \/ \E e \in Seed : Down(s, o)[e] >= Threshold
         /\ n.phase = "completed" => Complete(n.first, n.blocks) /\ ~n.failed
<1> DEFINE fails == \/ s.failed \/ ObservationFails(o, FALSE) \/ GapFails(s, o)
                    \/ ChainFails(s, o) \/ BlocksFail(s, o)
                    \/ \E e \in Seed : Down(s, o)[e] >= Threshold
           height == IF o.explorer = Missing THEN s.lastHeight ELSE Len(o.explorer.tip)
           advance == IF Advanced(s, o) THEN o.at ELSE s.lastAdvance
           gaps == s.gaps + (IF GapFails(s, o) THEN 1 ELSE 0)
           next == [s EXCEPT !.lastAt = o.at, !.lastHeight = height, !.lastAdvance = advance,
                             !.blocks = Kept(s, o), !.down = Down(s, o), !.gaps = gaps,
                             !.failed = fails, !.observations = s.observations + 1]
           ends == \/ o.at >= s.hardEnd
                   \/ o.at >= s.minimumEnd /\ next.lastHeight >= LastHeight(s.first)
<1>1. Advance(s, o) = IF ends THEN [next EXCEPT !.phase = Verdict(next)] ELSE next
  BY DEF Advance
<1>2. height \in Nat /\ advance \in Int /\ gaps \in Nat /\ fails \in BOOLEAN /\ o.at = instant
  BY ObservationShape, LenProperties DEF Window
<1>3. Kept(s, o) \in SUBSET Seq(Body)
  <2>1. Targets(s, o) \subseteq Seq(Body)
    BY ObservationShape, RecentAreDistinct DEF Targets
  <2> QED BY <2>1 DEF Kept, Window
<1>4. Down(s, o) \in [Seed -> Nat]
  BY DEF Down, Window
<1>5. /\ next \in Window /\ next.phase = "observing"
      /\ next.first = s.first /\ next.observations = s.observations + 1 /\ next.lastAt = instant
      /\ next.blocks = Kept(s, o) /\ next.down = Down(s, o) /\ next.failed = fails
  <2> DEFINE count == s.observations + 1
             blocks == Kept(s, o)
             down == Down(s, o)
             n == [s EXCEPT !.lastAt = o.at, !.lastHeight = height, !.lastAdvance = advance,
                            !.blocks = blocks, !.down = down, !.gaps = gaps,
                            !.failed = fails, !.observations = count]
  <2>1. count \in Nat
    BY DEF Window
  <2>2. next = n
    OBVIOUS
  <2>3. blocks \in SUBSET Seq(Body) /\ down \in [Seed -> Nat] /\ o.at \in Int
    BY <1>2, <1>3, <1>4
  <2> HIDE DEF fails, height, advance, gaps, count, next, blocks, down
  <2>4. n \in Window
    BY <1>2, <2>1, <2>3 DEF Window
  <2>5. /\ n.phase = "observing" /\ n.first = s.first
        /\ n.observations = count /\ n.lastAt = o.at
        /\ n.blocks = blocks /\ n.down = down /\ n.failed = fails
    BY DEF Window
  <2> QED BY <1>2, <2>2, <2>4, <2>5 DEF count, blocks, down
<1>6. /\ Verdict(next) \in {"completed", "incomplete"}
      /\ Verdict(next) = "completed" => Complete(next.first, next.blocks) /\ ~next.failed
  BY DEF Verdict
<1> HIDE DEF next, ends
<1>7. CASE ends
  <2> DEFINE n == [next EXCEPT !.phase = Verdict(next)]
  <2>1. /\ n \in Window /\ n.phase = Verdict(next)
        /\ n.first = next.first /\ n.observations = next.observations /\ n.lastAt = next.lastAt
        /\ n.blocks = next.blocks /\ n.down = next.down /\ n.failed = next.failed
    BY <1>5, <1>6 DEF Window, SoakPhases
  <2>2. Advance(s, o) = n
    BY <1>1, <1>7
  <2> HIDE DEF n
  <2> QED BY <1>5, <1>6, <2>1, <2>2
<1>8. CASE ~ends
  BY <1>1, <1>5, <1>8
<1> QED BY <1>7, <1>8

\* The window that a good baseline starts.
LEMMA StartedFields ==
  ASSUME chain \in Seq(Body), instant \in Nat, NEW o \in {Good} \cup Faulty, BaselinePasses(o)
  PROVE  /\ Started(o) \in Window
         /\ Started(o).phase = "observing" /\ Started(o).observations = 0
         /\ Started(o).lastAt = instant /\ Started(o).blocks = {}
         /\ Started(o).down = [e \in Seed |-> 0] /\ ~Started(o).failed
         /\ o.up = Seed /\ o.explorer # Missing
<1>1. o.explorer # Missing /\ o.up = Seed
  BY DEF BaselinePasses, ObservationFails
<1>2. o.at = instant /\ o.explorer.tip = chain
  BY <1>1, ObservationShape
<1>3. Len(chain) \in Nat /\ FirstHeight(Len(chain)) \in Nat
  BY LenProperties, HeightIsNat
<1> QED BY <1>1, <1>2, <1>3, SoakAssumption DEF Started, Window, SoakPhases

\* One more observation: what the window kept of the blocks it was shown is
\* still all of them, one per height, unless it has failed.
LEMMA BlocksCount ==
  ASSUME chain \in Seq(Body), NEW o \in {Good} \cup Faulty, NEW s \in Window, NEW seen \in SUBSET Seq(Body),
         ~ObservationFails(o, FALSE), ~BlocksFail(s, o),
         s.blocks = {b \in seen : Len(b) \in s.first .. LastHeight(s.first)},
         \A b, c \in s.blocks : Len(b) = Len(c) => b = c
  PROVE  LET all == seen \cup o.explorer.blocks
             kept == Kept(s, o) IN
         /\ o.explorer # Missing /\ o.explorer.blocks \in SUBSET Seq(Body)
         /\ kept = {b \in all : Len(b) \in s.first .. LastHeight(s.first)}
         /\ \A b, c \in kept : Len(b) = Len(c) => b = c
<1>1. o.explorer # Missing
  BY DEF ObservationFails
<1>2. o.explorer.blocks = RecentBlocks(chain) /\ RecentBlocks(chain) \subseteq Seq(Body)
  BY <1>1, ObservationShape, RecentAreDistinct
<1>3. Targets(s, o) = {b \in o.explorer.blocks : Len(b) \in s.first .. LastHeight(s.first)}
  BY <1>1 DEF Targets
<1>4. \A n \in Targets(s, o), b \in s.blocks : Len(n) = Len(b) => n = b
  BY DEF BlocksFail, Changed
<1>5. Kept(s, o) = s.blocks \cup Targets(s, o)
  BY <1>4 DEF Kept
<1>6. \A b, c \in Targets(s, o) : Len(b) = Len(c) => b = c
  BY <1>2, <1>3, RecentAreDistinct
<1>7. \A b, c \in Kept(s, o) : Len(b) = Len(c) => b = c
  BY <1>4, <1>5, <1>6
<1>8. Kept(s, o) = {b \in seen \cup o.explorer.blocks : Len(b) \in s.first .. LastHeight(s.first)}
  BY <1>3, <1>5
<1> QED BY <1>1, <1>2, <1>7, <1>8

\* The history after an observation.
LEMMA RememberFields ==
  ASSUME history \in History, chain \in Seq(Body), instant \in Nat,
         NEW o \in {Good} \cup Faulty, NEW fresh \in BOOLEAN, Remember(o, fresh)
  PROVE  LET run == [e \in Seed |-> IF e \in o.up THEN 0 ELSE history.run[e] + 1] IN
         /\ history' \in History
         /\ history'.seen = history.seen \cup (IF o.explorer = Missing THEN {} ELSE o.explorer.blocks)
         /\ history'.last = instant
         /\ history'.gap = IF fresh THEN 0 ELSE Greater(history.gap, instant - history.last)
         /\ history'.run = run
         /\ history'.worst = [e \in Seed |-> Greater(history.worst[e], run[e])]
         /\ history'.wrong <=> history.wrong \/ \E p \in Participant : o.recorder[p] = "wrong"
         /\ history'.count = history.count + 1
<1> DEFINE run == [e \in Seed |-> IF e \in o.up THEN 0 ELSE history.run[e] + 1]
           worst == [e \in Seed |-> Greater(history.worst[e], run[e])]
           seen == history.seen \cup (IF o.explorer = Missing THEN {} ELSE o.explorer.blocks)
           gap == IF fresh THEN 0 ELSE Greater(history.gap, o.at - history.last)
           wrong == history.wrong \/ \E p \in Participant : o.recorder[p] = "wrong"
           count == history.count + 1
<1>1. o.at = instant /\ (o.explorer # Missing => o.explorer.blocks \subseteq Seq(Body))
  BY ObservationShape, RecentAreDistinct
<1>2. run \in [Seed -> Nat]
  BY DEF History
<1>3. worst \in [Seed -> Nat]
  BY <1>2 DEF History, Greater
<1>4. seen \in SUBSET Seq(Body) /\ gap \in Int /\ count \in Nat /\ wrong \in BOOLEAN /\ o.at \in Int
  BY <1>1 DEF History, Greater
<1>5. history' = [seen |-> seen, last |-> o.at, gap |-> gap, run |-> run, worst |-> worst,
                  wrong |-> wrong, count |-> count]
  BY DEF Remember
<1> HIDE DEF run, worst, seen, gap, wrong, count
<1>6. history' \in History
  BY <1>2, <1>3, <1>4, <1>5 DEF History
<1>7. /\ history'.seen = seen /\ history'.last = o.at /\ history'.gap = gap /\ history'.run = run
      /\ history'.worst = worst /\ history'.wrong = wrong /\ history'.count = count
  BY <1>5
<1> QED BY <1>1, <1>6, <1>7 DEF run, worst, seen, gap, wrong, count

\* A window that counted everything so far counts the next observation too.
LEMMA AdvanceCounts ==
  ASSUME history \in History, chain \in Seq(Body), instant \in Nat,
         NEW o \in {Good} \cup Faulty, NEW s \in Window, s.phase = "observing",
         NEW fresh \in BOOLEAN, Tallies(s, history), ~fresh => s.lastAt = history.last,
         Remember(o, fresh)
  PROVE  Counted(Advance(s, o), history')
<1> DEFINE n == Advance(s, o)
           run == [e \in Seed |-> IF e \in o.up THEN 0 ELSE history.run[e] + 1]
           fails == \/ s.failed \/ ObservationFails(o, FALSE) \/ GapFails(s, o)
                    \/ ChainFails(s, o) \/ BlocksFail(s, o)
                    \/ \E e \in Seed : Down(s, o)[e] >= Threshold
<1>1. /\ n \in Window /\ n.first = s.first /\ n.observations = s.observations + 1 /\ n.lastAt = instant
      /\ n.blocks = Kept(s, o) /\ n.down = Down(s, o)
      /\ n.failed <=> fails
      /\ n.phase = "completed" => Complete(n.first, n.blocks) /\ ~n.failed
  BY AdvanceFields
<1>2. /\ history' \in History /\ history'.last = instant
      /\ history'.seen = history.seen \cup (IF o.explorer = Missing THEN {} ELSE o.explorer.blocks)
      /\ history'.gap = IF fresh THEN 0 ELSE Greater(history.gap, instant - history.last)
      /\ history'.run = run /\ history'.worst = [e \in Seed |-> Greater(history.worst[e], run[e])]
      /\ history'.wrong <=> history.wrong \/ \E p \in Participant : o.recorder[p] = "wrong"
      /\ history'.count = history.count + 1
  BY RememberFields
<1>3. n.observations = history'.count /\ n.lastAt = history'.last
  BY <1>1, <1>2 DEF Tallies
<1>4. run = Down(s, o)
  BY DEF Tallies, Down
<1>5. ASSUME ~n.failed
      PROVE  /\ history'.gap <= MaxGap
             /\ \A e \in Seed : history'.worst[e] < Threshold
             /\ ~history'.wrong
             /\ n.blocks = {b \in history'.seen : Len(b) \in n.first .. LastHeight(n.first)}
             /\ \A b, c \in n.blocks : Len(b) = Len(c) => b = c
  <2>1. ~fails
    BY <1>1, <1>5
  <2>2. /\ history.gap <= MaxGap /\ ~history.wrong
        /\ \A e \in Seed : history.worst[e] < Threshold
        /\ s.blocks = {b \in history.seen : Len(b) \in s.first .. LastHeight(s.first)}
        /\ \A b, c \in s.blocks : Len(b) = Len(c) => b = c
    BY <2>1 DEF Tallies
  <2>3. history'.gap <= MaxGap
    <3>1. o.at = instant
      BY ObservationShape
    <3>2. ~fresh => ~(instant - history.last > MaxGap)
      BY <2>1, <3>1 DEF GapFails
    <3> QED BY <1>2, <2>2, <3>2, SoakAssumption DEF Greater, History
  <2>4. ASSUME NEW e \in Seed PROVE history'.worst[e] < Threshold
    <3>1. ~(run[e] >= Threshold)
      BY <1>4, <2>1
    <3>2. run[e] \in Nat /\ history.worst[e] \in Nat /\ Threshold \in Nat
      BY SoakAssumption DEF History
    <3>3. history'.worst[e] = Greater(history.worst[e], run[e])
      BY <1>2
    <3> QED BY <2>2, <3>1, <3>2, <3>3 DEF Greater
  <2>5. ~history'.wrong
    BY <1>2, <2>1, <2>2 DEF ObservationFails
  <2>6. ~ObservationFails(o, FALSE) /\ ~BlocksFail(s, o) /\ history.seen \in SUBSET Seq(Body)
    BY <2>1 DEF History
  <2>7. /\ o.explorer # Missing
        /\ Kept(s, o) = {b \in history.seen \cup o.explorer.blocks : Len(b) \in s.first .. LastHeight(s.first)}
        /\ \A b, c \in Kept(s, o) : Len(b) = Len(c) => b = c
    BY <2>2, <2>6, BlocksCount
  <2> QED BY <1>1, <1>2, <2>3, <2>4, <2>5, <2>7
<1> QED BY <1>1, <1>2, <1>3, <1>4, <1>5 DEF Counted, Tallies

\* A window that starts has counted the nothing that was observed before.
LEMMA StartTallies ==
  ASSUME history \in History, chain \in Seq(Body), instant \in Nat, NEW o \in {Good} \cup Faulty,
         BaselinePasses(o), generation = 0, StoreSound
  PROVE  Tallies(Started(o), history)
<1>1. /\ Started(o).phase = "observing" /\ Started(o).observations = 0 /\ Started(o).blocks = {}
      /\ Started(o).down = [e \in Seed |-> 0]
  BY StartedFields
<1>2. /\ history.seen = {} /\ history.count = 0 /\ ~history.wrong /\ history.gap = 0
      /\ history.run = [e \in Seed |-> 0] /\ history.worst = [e \in Seed |-> 0]
  BY DEF StoreSound
<1>3. 0 <= MaxGap /\ 0 < Threshold
  BY SoakAssumption
<1> QED BY <1>1, <1>2, <1>3 DEF Tallies

\* Every state of a request that it leaves for another one.
LEMMA FreeIsSound ==
  Free \in Requests /\ TickSound(Free) /\ TickSound(Free)'
BY DEF Free, Requests, TickSound

\* The invariant, initially and by each action.
LEMMA MonitorStarts ==
  ASSUME SoakInit PROVE MonitorIInv
<1>1. history \in History /\ StoreSound
  BY DEF SoakInit, History, StoreSound
<1>2. ticks \in [Request -> Requests] /\ \A t \in Request : ticks[t] = Free
  BY FreeIsSound DEF SoakInit
<1>3. << >> \in Seq(Body)
  BY EmptySeq
<1> QED BY <1>1, <1>2, <1>3, FreeIsSound DEF SoakInit, MonitorIInv

\* A step that changes neither the stored object nor the history, and of the
\* requests only one, into a sound one.
LEMMA StoreStands ==
  ASSUME MonitorIInv, UNCHANGED <<saved, generation, history>>,
         instant' \in Nat, chain' \in Seq(Body),
         NEW t \in Request, NEW k \in Requests, TickSound(k), ticks' = [ticks EXCEPT ![t] = k]
  PROVE  MonitorIInv'
<1>1. StoreSound'
  BY DEF MonitorIInv, StoreSound, Counted, Tallies
<1>2. ticks' \in [Request -> Requests]
  BY DEF MonitorIInv
<1>3. ASSUME NEW u \in Request PROVE TickSound(ticks[u])'
  <2>1. TickSound(ticks'[u])
    BY DEF MonitorIInv
  <2> QED BY <2>1 DEF TickSound
<1> QED BY <1>1, <1>2, <1>3 DEF MonitorIInv

\* What a request holds.
LEMMA RequestFields ==
  ASSUME NEW k \in Requests
  PROVE  /\ k.at \in {"idle", "closing", "read", "reviewing", "reviewed"}
         /\ k.at \in {"closing", "read", "reviewed"} => k.generation \in Nat
         /\ k.at = "read" => k.state \in {Missing} \cup Window
         /\ k.at \in {"reviewing", "reviewed"} => k.state \in Window
         /\ k.at = "idle" => k = Free
BY DEF Requests, Free

\* The world moves: nothing that is stored does.
LEMMA PassKeeps ==
  ASSUME MonitorIInv, Pass PROVE MonitorIInv'
<1>1. chain \in Seq(Body) /\ Len(chain) \in Nat
  BY LenProperties DEF MonitorIInv
<1>2. \A k \in 1 .. 2 \cap 1 .. Len(chain) : SubSeq(chain, 1, Len(chain) - k) \in Seq(Body)
  <2> TAKE k \in 1 .. 2 \cap 1 .. Len(chain)
  <2>1. \A i \in 1 .. Len(chain) - k : i \in 1 .. Len(chain)
    BY <1>1
  <2> QED BY <1>1, <2>1, SubSeqProperties, ElementOfSeq
<1>3. chain' \in Seq(Body)
  <2>1. CASE UNCHANGED chain
    BY <1>1, <2>1
  <2>2. CASE \E b \in Body : chain' = Append(chain, b)
    BY <1>1, <2>2, AppendProperties
  <2>3. CASE chain' \in Branches
    <3>1. PICK k \in 1 .. 2 \cap 1 .. Len(chain), b \in Body :
            chain' = Append(SubSeq(chain, 1, Len(chain) - k), b)
      BY <2>3 DEF Branches
    <3> QED BY <1>2, <3>1, AppendProperties
  <2> QED BY <2>1, <2>2, <2>3 DEF Pass
<1>4. UNCHANGED <<saved, generation, ticks, history>> /\ instant' \in Nat
  BY DEF Pass, MonitorIInv
<1>5. StoreSound'
  BY <1>4 DEF MonitorIInv, StoreSound, Counted, Tallies
<1>6. \A t \in Request : TickSound(ticks[t])'
  BY <1>4 DEF MonitorIInv, TickSound
<1> QED BY <1>3, <1>4, <1>5, <1>6 DEF MonitorIInv

\* A request that reads the stored object, and may decide to close it.
LEMMA TickReadKeeps ==
  ASSUME MonitorIInv, NEW t \in Request, TickRead(t) PROVE MonitorIInv'
<1> DEFINE closing == [at |-> "closing", generation |-> generation]
           read == [at |-> "read", state |-> saved, generation |-> generation]
<1>1. generation \in Nat /\ instant \in Nat /\ chain \in Seq(Body) /\ StoreSound
  BY DEF MonitorIInv
<1>2. UNCHANGED <<saved, generation, history, instant, chain>>
  BY DEF TickRead
<1>3. CASE ticks' = [ticks EXCEPT ![t] = Free]
  BY <1>1, <1>2, <1>3, FreeIsSound, StoreStands
<1>4. CASE ticks' = [ticks EXCEPT ![t] = closing] /\ saved # Missing
  <2>1. closing \in Requests
    BY <1>1 DEF Requests
  <2>2. generation # 0
    BY <1>1, <1>4 DEF StoreSound
  <2>3. TickSound(closing)
    BY <1>1, <2>2 DEF TickSound
  <2> HIDE DEF closing
  <2> QED BY <1>1, <1>2, <1>4, <2>1, <2>3, StoreStands
<1>5. CASE ticks' = [ticks EXCEPT ![t] = read] /\ ~Closed
  <2>1. saved \in {Missing} \cup Window
    BY <1>1 DEF StoreSound
  <2>2. read \in Requests
    BY <1>1, <2>1 DEF Requests
  <2>3. TickSound(read)
    BY <1>1, <1>5 DEF TickSound, Closed
  <2> HIDE DEF read
  <2> QED BY <1>1, <1>2, <1>5, <2>2, <2>3, StoreStands
<1> QED BY <1>3, <1>4, <1>5 DEF TickRead

\* A request that fails leaves what it stored.
LEMMA TickFailsKeeps ==
  ASSUME MonitorIInv, NEW t \in Request, TickFails(t) PROVE MonitorIInv'
<1>1. UNCHANGED <<saved, generation, history, instant, chain>> /\ ticks' = [ticks EXCEPT ![t] = Free]
  BY DEF TickFails
<1> QED BY <1>1, FreeIsSound, StoreStands DEF MonitorIInv

\* The review is done: the same evidence means the same observations.
LEMMA TickRereadKeeps ==
  ASSUME MonitorIInv, NEW t \in Request, TickReread(t) PROVE MonitorIInv'
<1> DEFINE k == ticks[t]
           reviewed == [at |-> "reviewed", state |-> k.state, generation |-> generation]
<1>1. generation \in Nat /\ instant \in Nat /\ chain \in Seq(Body) /\ TickSound(k) /\ k \in Requests
  BY DEF MonitorIInv
<1>2. UNCHANGED <<saved, generation, history, instant, chain>> /\ k.at = "reviewing"
  BY DEF TickReread
<1>3. CASE SameEvidence(t)
  <2>1. ticks' = [ticks EXCEPT ![t] = reviewed] /\ saved.evidence = k.state.evidence
    BY <1>3 DEF TickReread, SameEvidence
  <2>2. k.state \in Window
    BY <1>1, <1>2, RequestFields
  <2>3. reviewed \in Requests
    BY <1>1, <2>2 DEF Requests
  <2>4. TickSound(reviewed)
    BY <1>1, <1>2, <2>1 DEF TickSound
  <2> HIDE DEF reviewed
  <2> QED BY <1>1, <1>2, <2>1, <2>3, <2>4, StoreStands
<1>4. CASE ~SameEvidence(t)
  <2>1. ticks' = [ticks EXCEPT ![t] = Free]
    BY <1>4 DEF TickReread, TickEnds
  <2> QED BY <1>1, <1>2, <2>1, FreeIsSound, StoreStands
<1> QED BY <1>3, <1>4

\* A write leaves every request sound that read the object before it.
LEMMA OthersStand ==
  ASSUME MonitorIInv, generation' = generation + 1, NEW e \in Nat, saved'.evidence = e,
         generation # 0 => /\ saved.evidence <= e
                           /\ e = saved.evidence => history' = history,
         NEW u \in Request, ticks'[u] = ticks[u]
  PROVE  TickSound(ticks[u])'
<1> DEFINE k == ticks[u]
<1>1. generation \in Nat /\ k \in Requests /\ TickSound(k)
  BY DEF MonitorIInv
<1>2. generation # 0 => saved.evidence \in Nat
  BY DEF MonitorIInv, StoreSound, Window
<1>3. CASE k.at \in {"reviewing", "reviewed"}
  <2>1. k.state.evidence \in Nat
    BY <1>1, <1>3, RequestFields DEF Window
  <2>2. generation # 0 /\ k.state.evidence <= saved.evidence /\ saved.evidence \in Nat
    BY <1>1, <1>2, <1>3 DEF TickSound
  <2>3. k.state.evidence <= saved'.evidence
    BY <2>1, <2>2
  <2>4. k.state.evidence = saved'.evidence => Counted(k.state, history')
    BY <1>1, <1>3, <2>1, <2>2 DEF TickSound
  <2>5. k.at = "reviewed" => k.generation <= generation /\ k.generation \in Nat
    BY <1>1, RequestFields DEF TickSound
  <2> QED BY <1>1, <1>3, <2>2, <2>3, <2>4, <2>5 DEF TickSound
<1>4. CASE k.at \in {"idle", "closing", "read"}
  <2>1. k.at \in {"closing", "read"} => k.generation \in Nat
    BY <1>1, RequestFields
  <2> QED BY <1>1, <1>4, <2>1 DEF TickSound
<1> QED BY <1>1, <1>3, <1>4, RequestFields

\* What an accepted write has to show: the new state counts everything.
LEMMA StoredKeeps ==
  ASSUME MonitorIInv, NEW s \in Window, NEW k \in Requests, NEW t \in Request,
         saved' = s, generation' = generation + 1, ticks' = [ticks EXCEPT ![t] = k],
         UNCHANGED <<instant, chain>>, history' \in History, Counted(s, history'),
         s.evidence <= generation + 1,
         generation # 0 => /\ saved.evidence <= s.evidence
                           /\ s.evidence = saved.evidence => history' = history,
         k = Free \/ (k.at = "reviewing" /\ k.state = s)
  PROVE  MonitorIInv'
<1>1. generation \in Nat /\ ticks \in [Request -> Requests] /\ s.evidence \in Nat
  BY DEF MonitorIInv, Window
<1>2. generation' \in Nat /\ generation' # 0
  BY <1>1
<1>3. StoreSound'
  BY <1>1, <1>2 DEF StoreSound
<1>4. ticks' \in [Request -> Requests]
  BY <1>1
<1>5. ASSUME NEW u \in Request, u # t PROVE TickSound(ticks[u])'
  BY <1>1, <1>5, OthersStand
<1>6. TickSound(ticks[t])'
  <2>1. ticks'[t] = k
    BY <1>1
  <2>2. CASE k = Free
    BY <2>1, <2>2 DEF TickSound, Free
  <2>3. CASE k.at = "reviewing" /\ k.state = s
    BY <1>1, <1>2, <2>1, <2>3 DEF TickSound
  <2> QED BY <2>2, <2>3
<1> QED BY <1>2, <1>3, <1>4, <1>5, <1>6 DEF MonitorIInv

\* Closing changes the phase, and says incomplete.
LEMMA TickCloseKeeps ==
  ASSUME MonitorIInv, NEW t \in Request, TickClose(t) PROVE MonitorIInv'
<1> DEFINE s == [saved EXCEPT !.phase = "incomplete"]
<1>1. ticks[t].at = "closing" /\ TickSound(ticks[t]) /\ history \in History
  BY DEF MonitorIInv, TickClose
<1>2. saved \in Window /\ saved.evidence <= generation /\ Counted(saved, history) /\ generation \in Nat
  BY <1>1 DEF MonitorIInv, StoreSound, TickSound
<1>3. s \in Window /\ s.evidence = saved.evidence /\ saved.evidence \in Nat
  BY <1>2 DEF Window, SoakPhases
<1>4. Counted(s, history)
  <2>1. /\ s.phase = "incomplete" /\ s.observations = saved.observations /\ s.lastAt = saved.lastAt
        /\ s.down = saved.down /\ s.failed = saved.failed /\ s.blocks = saved.blocks
        /\ s.first = saved.first
    BY <1>2 DEF Window
  <2> HIDE DEF s
  <2> QED BY <1>2, <2>1 DEF Counted, Tallies
<1>5. /\ saved' = s /\ generation' = generation + 1 /\ ticks' = [ticks EXCEPT ![t] = Free]
      /\ UNCHANGED <<instant, chain, history>>
  BY DEF TickClose, Put
<1> HIDE DEF s
<1>6. s.evidence <= generation + 1 /\ saved.evidence <= s.evidence
  BY <1>2, <1>3
<1> QED BY <1>1, <1>3, <1>4, <1>5, <1>6, FreeIsSound, StoredKeeps

\* A reviewed state replaces one of the same evidence, which counted the same.
LEMMA TickReviewedKeeps ==
  ASSUME MonitorIInv, NEW t \in Request, TickReviewed(t) PROVE MonitorIInv'
<1> DEFINE s == ticks[t].state
<1>1. /\ ticks[t].at = "reviewed" /\ ticks[t].generation = generation /\ TickSound(ticks[t])
      /\ ticks[t] \in Requests /\ history \in History
  BY DEF MonitorIInv, TickReviewed, Put
<1>2. s \in Window
  BY <1>1, RequestFields
<1>3. /\ generation # 0 /\ s.evidence = saved.evidence /\ Counted(s, history)
  BY <1>1 DEF TickSound
<1>4. saved \in Window /\ saved.evidence <= generation /\ generation \in Nat
  BY <1>3 DEF MonitorIInv, StoreSound
<1>5. saved.evidence \in Nat
  BY <1>4 DEF Window
<1>6. /\ saved' = s /\ generation' = generation + 1 /\ ticks' = [ticks EXCEPT ![t] = Free]
      /\ UNCHANGED <<instant, chain, history>>
  BY DEF TickReviewed, TickEnds, Put
<1> HIDE DEF s
<1>7. s.evidence <= generation + 1 /\ saved.evidence <= s.evidence
  BY <1>3, <1>4, <1>5
<1> QED BY <1>1, <1>2, <1>3, <1>6, <1>7, FreeIsSound, StoredKeeps

\* A collected observation is stored only over the state it was added to.
LEMMA TickAdvanceKeeps ==
  ASSUME MonitorIInv, NEW t \in Request, NEW o \in {Good} \cup Faulty, TickAdvance(t, o)
  PROVE  MonitorIInv'
<1> DEFINE fresh == ticks[t].state = Missing
           base == IF fresh THEN Started(o) ELSE ticks[t].state
           n == Advance(base, o)
           s == [n EXCEPT !.evidence = generation + 1]
           k == [at |-> "reviewing", state |-> s]
<1>1. /\ instant \in Nat /\ chain \in Seq(Body) /\ generation \in Nat /\ history \in History
      /\ ticks[t] \in Requests /\ TickSound(ticks[t]) /\ StoreSound
  BY DEF MonitorIInv
<1>2. ticks[t].at = "read" /\ UNCHANGED <<instant, chain>>
  BY DEF TickAdvance
<1>3. CASE fresh /\ ~BaselinePasses(o)
  <2>1. ticks' = [ticks EXCEPT ![t] = Free] /\ UNCHANGED <<saved, generation, history>>
    BY <1>3 DEF TickAdvance
  <2> QED BY <1>1, <1>2, <2>1, FreeIsSound, StoreStands
<1>4. CASE ~(fresh /\ ~BaselinePasses(o))
  <2>1. /\ ticks[t].generation = generation /\ saved' = s /\ generation' = generation + 1
        /\ Remember(o, fresh) /\ ticks' = [ticks EXCEPT ![t] = k]
    BY <1>4 DEF TickAdvance, Put
  <2>2. ticks[t].state = saved
    BY <1>1, <1>2, <2>1 DEF TickSound
  <2>3. base \in Window /\ base.phase = "observing" /\ Tallies(base, history)
        /\ (~fresh => base.lastAt = history.last)
    <3>1. CASE fresh
      <4>1. generation = 0
        BY <1>1, <2>2, <3>1, MissingIsNoWindow DEF StoreSound
      <4> QED BY <1>1, <1>4, <3>1, <4>1, StartedFields, StartTallies
    <3>2. CASE ~fresh
      <4>1. saved \in Window /\ Counted(saved, history)
        BY <1>1, <2>2, <3>2 DEF StoreSound
      <4>2. saved.phase = "observing"
        BY <1>1, <1>2, <2>2, <3>2 DEF TickSound
      <4> QED BY <2>2, <3>2, <4>1, <4>2 DEF Counted
    <3> QED BY <3>1, <3>2
  <2>4. n \in Window /\ Counted(n, history') /\ history' \in History
    <3> HIDE DEF base, n
    <3>1. fresh \in BOOLEAN
      OBVIOUS
    <3> HIDE DEF fresh
    <3>2. Advance(base, o) \in Window
      BY <1>1, <2>3, AdvanceFields
    <3>3. Counted(Advance(base, o), history')
      BY <1>1, <2>1, <2>3, <3>1, AdvanceCounts
    <3>4. history' \in History
      BY <1>1, <2>1, <3>1, RememberFields
    <3> QED BY <3>2, <3>3, <3>4 DEF n
  <2> HIDE DEF n, base, fresh
  <2>5. s \in Window /\ s.evidence = generation + 1
    <3> DEFINE e == generation + 1
    <3>1. e \in Nat
      BY <1>1
    <3> HIDE DEF e
    <3>2. [n EXCEPT !.evidence = e] \in Window /\ [n EXCEPT !.evidence = e].evidence = e
      BY <2>4, <3>1 DEF Window
    <3> QED BY <3>2 DEF e
  <2>6. Counted(s, history')
    <3>1. /\ s.phase = n.phase /\ s.observations = n.observations /\ s.lastAt = n.lastAt
          /\ s.down = n.down /\ s.failed = n.failed /\ s.blocks = n.blocks /\ s.first = n.first
      BY <2>4 DEF Window
    <3> HIDE DEF s
    <3> QED BY <2>4, <3>1 DEF Counted, Tallies
  <2>7. k \in Requests /\ k.at = "reviewing" /\ k.state = s
    BY <2>5 DEF Requests
  <2>8. generation # 0 => saved.evidence <= generation /\ saved.evidence \in Nat
    BY <1>1 DEF StoreSound, Window
  <2> HIDE DEF s, k
  <2>9. /\ s.evidence <= generation + 1
        /\ generation # 0 => saved.evidence <= s.evidence /\ s.evidence # saved.evidence
    BY <1>1, <2>5, <2>8
  <2> QED BY <1>2, <2>1, <2>4, <2>5, <2>6, <2>7, <2>9, StoredKeeps
<1> QED BY <1>3, <1>4

\* Every step.
LEMMA MonitorStep ==
  ASSUME MonitorIInv, [SoakNext]_soakVars PROVE MonitorIInv'
<1>1. CASE UNCHANGED soakVars
  BY <1>1 DEF soakVars, MonitorIInv, StoreSound, TickSound, Counted, Tallies
<1>2. CASE SoakNext
  BY <1>2, PassKeeps, TickReadKeeps, TickCloseKeeps, TickRereadKeeps, TickReviewedKeeps,
     TickFailsKeeps, TickAdvanceKeeps DEF SoakNext
<1> QED BY <1>1, <1>2

\* Three epochs of a window are all its heights.
LEMMA EpochsCover ==
  ASSUME NEW first \in Nat, NEW h \in first .. LastHeight(first)
  PROVE  \E k \in 0 .. 2 : h \in (first + k * EpochLength) .. (first + (k + 1) * EpochLength - 1)
<1>1. EpochLength \in Nat /\ EpochLength > 0
  BY SoakAssumption
<1>2. CASE h < first + EpochLength
  <2>1. h \in (first + 0 * EpochLength) .. (first + (0 + 1) * EpochLength - 1)
    BY <1>1, <1>2 DEF LastHeight
  <2> QED BY <2>1
<1>3. CASE h >= first + EpochLength /\ h < first + 2 * EpochLength
  <2>1. h \in (first + 1 * EpochLength) .. (first + (1 + 1) * EpochLength - 1)
    BY <1>1, <1>3 DEF LastHeight
  <2> QED BY <2>1
<1>4. CASE h >= first + 2 * EpochLength
  <2>1. h \in (first + 2 * EpochLength) .. (first + (2 + 1) * EpochLength - 1)
    BY <1>1, <1>4 DEF LastHeight
  <2> QED BY <2>1
<1> QED BY <1>1, <1>2, <1>3, <1>4

\* A completed window that counted everything was witnessed.
LEMMA MonitorIsWitness ==
  ASSUME MonitorIInv PROVE MonitorInv
<1>1. CASE saved = Missing
  BY <1>1 DEF MonitorInv, CompletedIsWitnessed, NoObservationLost
<1>2. CASE saved # Missing
  <2>1. saved \in Window /\ Counted(saved, history)
    BY <1>2 DEF MonitorIInv, StoreSound
  <2>2. NoObservationLost
    BY <2>1 DEF NoObservationLost, Counted, Tallies
  <2>3. ASSUME saved.phase = "completed"
        PROVE  /\ \A h \in saved.first..LastHeight(saved.first) :
                    \E b \in history.seen :
                      /\ {o \in history.seen : Len(o) = h} = {b}
                      /\ Absent(b) = {}
                      /\ h > saved.first => SubSeq(b, 1, h - 1) \in history.seen
               /\ history.gap <= MaxGap
               /\ \A e \in Seed : history.worst[e] < Threshold
               /\ ~history.wrong
    <3>1. /\ Complete(saved.first, saved.blocks)
          /\ history.gap <= MaxGap
          /\ \A e \in Seed : history.worst[e] < Threshold
          /\ ~history.wrong
          /\ saved.blocks = {b \in history.seen : Len(b) \in saved.first .. LastHeight(saved.first)}
          /\ \A b, c \in saved.blocks : Len(b) = Len(c) => b = c
      BY <2>1, <2>3 DEF Counted, Tallies
    <3>2. ASSUME NEW h \in saved.first .. LastHeight(saved.first)
          PROVE  \E b \in history.seen :
                   /\ {o \in history.seen : Len(o) = h} = {b}
                   /\ Absent(b) = {}
                   /\ h > saved.first => SubSeq(b, 1, h - 1) \in history.seen
      <4>1. saved.first \in Nat
        BY <2>1 DEF Window
      <4>2. PICK k \in 0 .. 2 : h \in (saved.first + k * EpochLength) .. (saved.first + (k + 1) * EpochLength - 1)
        BY <4>1, EpochsCover
      <4>3. EpochComplete(saved.first, saved.blocks, k)
        BY <3>1 DEF Complete
      <4>4. PICK b \in saved.blocks :
              /\ Len(b) = h /\ Absent(b) = {}
              /\ h > saved.first => SubSeq(b, 1, h - 1) \in saved.blocks
        BY <4>2, <4>3 DEF EpochComplete
      <4>5. \A o \in history.seen : Len(o) = h => o = b
        BY <3>1, <4>4
      <4> QED BY <3>1, <4>4, <4>5
    <3> QED BY <3>1, <3>2
  <2> QED BY <2>2, <2>3 DEF MonitorInv, CompletedIsWitnessed
<1> QED BY <1>1, <1>2

\* For any participants, endpoints, limits, epoch length and number of overlapping
\* requests: no stored observation is lost, and a window reported as completed saw
\* at every height of its three epochs exactly one block, on one chain that every
\* participant contributed to (hosted-soak-monitor.ts, server.mjs).
THEOREM CompletedWindowsAreWitnessed == SoakSpec => []MonitorInv
<1>1. SoakInit => MonitorIInv
  BY MonitorStarts
<1>2. MonitorIInv /\ [SoakNext]_soakVars => MonitorIInv'
  BY MonitorStep
<1>3. MonitorIInv => MonitorInv
  BY MonitorIsWitness
<1> QED BY <1>1, <1>2, <1>3, PTL DEF SoakSpec
-------------------------------------------------------------------------------
(* The readiness report *)

PilotSeed ==
  [up : BOOLEAN, height : Int, peers : Int, producer : BOOLEAN, disk : Nat, expires : Int,
   snapshots : SUBSET [at : Int, done : BOOLEAN]]

\* What the collectors returned of a seed was so when they returned it.
Truthful(s) ==
  LET e == evidence[s] IN
  /\ e["status"].ok =>
       /\ e["status"].value.peers >= 1 => <<s, "serves", 0>> \in witnessed
       /\ e["status"].value.producer = (s = "seed-a") => <<s, "role", 0>> \in witnessed
  /\ e["disk"].ok =>
       /\ e["disk"].value \in Nat
       /\ e["disk"].value < FailDisk => <<s, "room", 0>> \in witnessed
  /\ e["snapshot"].ok =>
       /\ e["snapshot"].value \in Int /\ e["snapshot"].value <= hour
       /\ <<s, "saved", e["snapshot"].value>> \in witnessed
  /\ e["certificate"].ok => e["certificate"].value = seeds[s].expires

\* The collectors' answers, one function per seed.
Results == {evidence[s][c] : s \in Seeds, c \in Collector}
EvidenceShape == evidence \in [Seeds -> [Collector -> Results]]

PilotIInv ==
  /\ hour \in Nat
  /\ seeds \in [Seeds -> PilotSeed]
  /\ \A s \in Seeds : /\ IsFiniteSet(seeds[s].snapshots)
                      /\ \A p \in seeds[s].snapshots : p.at <= hour
  /\ EvidenceShape
  /\ phase \in {"idle", "collecting", "judged"}
  /\ phase = "idle" => \A s \in Seeds, c \in Collector : evidence[s][c] = Pending
  /\ phase = "collecting" => Facts(seeds) \subseteq witnessed
  /\ \A s \in Seeds : Truthful(s)
  /\ ReadyIsTrue

\* A finite set of numbers that is not empty has a first and a last one.
LEMMA Extremes ==
  ASSUME NEW S \in SUBSET Int, IsFiniteSet(S), S # {}
  PROVE  /\ \E m \in S : \A x \in S : x <= m
         /\ \E m \in S : \A x \in S : m <= x
<1> DEFINE F == {T \in SUBSET S : T # {} => /\ \E m \in T : \A x \in T : x <= m
                                            /\ \E m \in T : \A x \in T : m <= x}
<1>1. {} \in F
  OBVIOUS
<1>2. ASSUME NEW T \in SUBSET S, NEW y \in S \ T, T \in F PROVE T \cup {y} \in F
  <2>1. CASE T = {}
    BY <2>1
  <2>2. CASE T # {}
    <3>1. PICK a \in T, b \in T : \A x \in T : x <= a /\ b <= x
      BY <1>2, <2>2
    <3>2. \A x \in T \cup {y} : /\ x <= (IF y <= a THEN a ELSE y)
                                /\ (IF b <= y THEN b ELSE y) <= x
      BY <3>1
    <3>3. /\ (IF y <= a THEN a ELSE y) \in T \cup {y}
          /\ (IF b <= y THEN b ELSE y) \in T \cup {y}
      OBVIOUS
    <3> QED BY <3>2, <3>3
  <2> QED BY <2>1, <2>2
<1>3. S \in F
  <2> HIDE DEF F
  <2> QED BY <1>1, <1>2, FiniteInduction
<1> QED BY <1>3

\* The invariant, initially and by each action.
LEMMA PilotStarts ==
  ASSUME PilotInit PROVE PilotIInv
<1> DEFINE least == CHOOSE d \in Disk : \A e \in Disk : d <= e
           fresh == [at |-> -1, done |-> TRUE]
<1>1. least \in Nat
  <2>1. \E d \in Disk : \A e \in Disk : d <= e
    BY PilotAssumption, Extremes
  <2> QED BY <2>1, PilotAssumption
<1>2. PICK life \in {FailLife, WarnLife + MaxHour} :
        seeds = [s \in Seeds |->
          [up |-> TRUE, height |-> 0, peers |-> 1, producer |-> s = "seed-a",
           disk |-> least, expires |-> life, snapshots |-> {fresh}]]
  BY DEF PilotInit
<1>3. life \in Int /\ fresh \in [at : Int, done : BOOLEAN] /\ fresh.at = -1
  BY PilotAssumption
<1>4. IsFiniteSet({fresh})
  BY FS_Singleton
<1> HIDE DEF least, fresh
<1>5. seeds \in [Seeds -> PilotSeed] /\ \A s \in Seeds : seeds[s].snapshots = {fresh}
  BY <1>1, <1>2, <1>3 DEF PilotSeed
<1>6. hour = 0 /\ phase = "idle" /\ evidence = [s \in Seeds |-> [c \in Collector |-> Pending]]
  BY DEF PilotInit
<1>7. \A s \in Seeds : Truthful(s)
  BY <1>6 DEF Truthful, Pending, Collector
<1>8. EvidenceShape
  BY <1>6 DEF EvidenceShape, Results
<1>9. ReadyIsTrue
  BY <1>6 DEF ReadyIsTrue
<1>10. \A s \in Seeds : /\ IsFiniteSet(seeds[s].snapshots)
                        /\ \A p \in seeds[s].snapshots : p.at <= hour
  <2>1. \A s \in Seeds : IsFiniteSet(seeds[s].snapshots)
    BY <1>4, <1>5
  <2>2. \A p \in {fresh} : p.at <= hour
    BY <1>3, <1>6
  <2> QED BY <1>5, <2>1, <2>2
<1> QED BY <1>5, <1>6, <1>7, <1>8, <1>9, <1>10 DEF PilotIInv

\* A change of a seed that keeps its certificate.
LEMMA BecomesKeeps ==
  ASSUME PilotIInv, NEW s \in Seeds, NEW seed \in PilotSeed, Becomes(s, seed),
         seed.expires = seeds[s].expires, IsFiniteSet(seed.snapshots),
         \A p \in seed.snapshots : p.at <= hour
  PROVE  PilotIInv'
<1>1. /\ seeds' = [seeds EXCEPT ![s] = seed] /\ phase # "judged"
      /\ witnessed' = IF phase = "collecting" THEN witnessed \cup Facts(seeds') ELSE witnessed
      /\ UNCHANGED <<hour, attested, runner, phase, evidence, report>>
  BY DEF Becomes
<1>2. seeds' \in [Seeds -> PilotSeed] /\ \A u \in Seeds : seeds'[u] = IF u = s THEN seed ELSE seeds[u]
  BY <1>1 DEF PilotIInv
<1>3. \A u \in Seeds : Truthful(u)'
  <2>1. \A u \in Seeds : Truthful(u) /\ seeds'[u].expires = seeds[u].expires
    BY <1>2 DEF PilotIInv
  <2>2. \A f \in witnessed : f \in witnessed'
    BY <1>1
  <2> QED BY <1>1, <2>1, <2>2 DEF Truthful
<1>4. ReadyIsTrue'
  BY <1>1 DEF ReadyIsTrue
<1>5. EvidenceShape'
  BY <1>1 DEF EvidenceShape, Results, PilotIInv
<1>6. \A u \in Seeds : /\ IsFiniteSet(seeds'[u].snapshots)
                       /\ \A p \in seeds'[u].snapshots : p.at <= hour'
  BY <1>1, <1>2 DEF PilotIInv
<1>7. phase' = "collecting" => Facts(seeds') \subseteq witnessed'
  BY <1>1
<1> QED BY <1>1, <1>2, <1>3, <1>4, <1>5, <1>6, <1>7 DEF PilotIInv

\* A seed follows the chain.
LEMMA GrowKeeps ==
  ASSUME PilotIInv, NEW s \in Seeds, Grow(s) PROVE PilotIInv'
<1>1. PICK h \in {seeds[s].height + 1, seeds[Other(s)].height} : Becomes(s, [seeds[s] EXCEPT !.height = h])
  BY DEF Grow
<1>2. Other(s) \in Seeds
  BY DEF Other, Seeds
<1>3. h \in Int /\ seeds[s] \in PilotSeed
  BY <1>2 DEF PilotIInv, PilotSeed
<1> DEFINE seed == [seeds[s] EXCEPT !.height = h]
<1>4. /\ seed \in PilotSeed /\ seed.expires = seeds[s].expires /\ seed.snapshots = seeds[s].snapshots
  BY <1>3 DEF PilotSeed
<1>5. IsFiniteSet(seeds[s].snapshots) /\ \A p \in seeds[s].snapshots : p.at <= hour
  BY DEF PilotIInv
<1> HIDE DEF seed
<1>6. Becomes(s, seed)
  BY <1>1 DEF seed
<1> QED BY <1>4, <1>5, <1>6, BecomesKeeps

\* A seed stops, starts, changes its role, its peers or its disk, or loses a snapshot.
LEMMA SwitchKeeps ==
  ASSUME PilotIInv, NEW s \in Seeds, Switch(s) PROVE PilotIInv'
<1>1. seeds[s] \in PilotSeed /\ IsFiniteSet(seeds[s].snapshots) /\ \A p \in seeds[s].snapshots : p.at <= hour
  BY DEF PilotIInv
<1>2. ASSUME NEW seed \in PilotSeed, Becomes(s, seed), seed.expires = seeds[s].expires,
             seed.snapshots \subseteq seeds[s].snapshots
      PROVE  PilotIInv'
  <2>1. IsFiniteSet(seed.snapshots)
    BY <1>1, <1>2, FS_Subset
  <2> QED BY <1>1, <1>2, <2>1, BecomesKeeps
<1>3. CASE Becomes(s, [seeds[s] EXCEPT !.up = ~seeds[s].up])
  <2>1. /\ [seeds[s] EXCEPT !.up = ~seeds[s].up] \in PilotSeed
        /\ [seeds[s] EXCEPT !.up = ~seeds[s].up].expires = seeds[s].expires
        /\ [seeds[s] EXCEPT !.up = ~seeds[s].up].snapshots = seeds[s].snapshots
    BY <1>1 DEF PilotSeed
  <2> QED BY <1>2, <1>3, <2>1
<1>4. CASE Becomes(s, [seeds[s] EXCEPT !.producer = ~seeds[s].producer])
  <2>1. /\ [seeds[s] EXCEPT !.producer = ~seeds[s].producer] \in PilotSeed
        /\ [seeds[s] EXCEPT !.producer = ~seeds[s].producer].expires = seeds[s].expires
        /\ [seeds[s] EXCEPT !.producer = ~seeds[s].producer].snapshots = seeds[s].snapshots
    BY <1>1 DEF PilotSeed
  <2> QED BY <1>2, <1>4, <2>1
<1>5. CASE Becomes(s, [seeds[s] EXCEPT !.peers = 1 - seeds[s].peers])
  <2>1. PICK n \in Int : n = 1 - seeds[s].peers
    BY <1>1 DEF PilotSeed
  <2>2. /\ [seeds[s] EXCEPT !.peers = n] \in PilotSeed
        /\ [seeds[s] EXCEPT !.peers = n].expires = seeds[s].expires
        /\ [seeds[s] EXCEPT !.peers = n].snapshots = seeds[s].snapshots
    BY <1>1 DEF PilotSeed
  <2> QED BY <1>2, <1>5, <2>1, <2>2
<1>6. CASE \E d \in Disk : Becomes(s, [seeds[s] EXCEPT !.disk = d])
  <2>1. PICK d \in Disk : Becomes(s, [seeds[s] EXCEPT !.disk = d])
    BY <1>6
  <2>2. /\ [seeds[s] EXCEPT !.disk = d] \in PilotSeed
        /\ [seeds[s] EXCEPT !.disk = d].expires = seeds[s].expires
        /\ [seeds[s] EXCEPT !.disk = d].snapshots = seeds[s].snapshots
    BY <1>1, PilotAssumption DEF PilotSeed
  <2> QED BY <1>2, <2>1, <2>2
<1>7. CASE \E p \in seeds[s].snapshots : Becomes(s, [seeds[s] EXCEPT !.snapshots = @ \ {p}])
  <2>1. PICK p \in seeds[s].snapshots : Becomes(s, [seeds[s] EXCEPT !.snapshots = seeds[s].snapshots \ {p}])
    BY <1>7
  <2> DEFINE rest == seeds[s].snapshots \ {p}
  <2>2. rest \in SUBSET [at : Int, done : BOOLEAN] /\ rest \subseteq seeds[s].snapshots
    BY <1>1 DEF PilotSeed
  <2>3. Becomes(s, [seeds[s] EXCEPT !.snapshots = rest])
    BY <2>1
  <2> HIDE DEF rest
  <2>4. /\ [seeds[s] EXCEPT !.snapshots = rest] \in PilotSeed
        /\ [seeds[s] EXCEPT !.snapshots = rest].expires = seeds[s].expires
        /\ [seeds[s] EXCEPT !.snapshots = rest].snapshots = rest
    BY <1>1, <2>2 DEF PilotSeed
  <2> QED BY <1>2, <2>2, <2>3, <2>4
<1> QED BY <1>3, <1>4, <1>5, <1>6, <1>7 DEF Switch

\* A snapshot begins now, or one that began completes.
LEMMA SnapshotKeeps ==
  ASSUME PilotIInv, NEW s \in Seeds, SnapshotMoves(s) PROVE PilotIInv'
<1> DEFINE old == seeds[s].snapshots
<1>1. /\ seeds[s] \in PilotSeed /\ IsFiniteSet(old) /\ old \subseteq [at : Int, done : BOOLEAN]
      /\ \A p \in old : p.at <= hour
      /\ hour \in Nat
  BY DEF PilotIInv, PilotSeed
<1>2. PICK base \in SUBSET old, p \in [at : Int, done : BOOLEAN] :
        /\ p.at <= hour
        /\ Becomes(s, [seeds[s] EXCEPT !.snapshots = base \cup {p}])
  <2>1. CASE Becomes(s, [seeds[s] EXCEPT !.snapshots = @ \cup {[at |-> hour, done |-> FALSE]}])
    <3> DEFINE q == [at |-> hour, done |-> FALSE]
    <3>1. q \in [at : Int, done : BOOLEAN] /\ q.at <= hour
      BY <1>1
    <3> QED BY <2>1, <3>1
  <2>2. CASE \E p \in {r \in old : ~r.done} :
               Becomes(s, [seeds[s] EXCEPT !.snapshots = (@ \ {p}) \cup {[at |-> p.at, done |-> TRUE]}])
    <3>1. PICK p \in old :
            Becomes(s, [seeds[s] EXCEPT !.snapshots = (old \ {p}) \cup {[at |-> p.at, done |-> TRUE]}])
      BY <2>2
    <3> DEFINE q == [at |-> p.at, done |-> TRUE]
    <3>2. q \in [at : Int, done : BOOLEAN] /\ q.at <= hour
      BY <1>1
    <3> QED BY <3>1, <3>2
  <2> QED BY <2>1, <2>2 DEF SnapshotMoves
<1> DEFINE new == base \cup {p}
<1>3. new \in SUBSET [at : Int, done : BOOLEAN] /\ \A q \in new : q.at <= hour
  BY <1>1, <1>2
<1>4. IsFiniteSet(new)
  <2>1. IsFiniteSet(base)
    BY <1>1, FS_Subset
  <2> QED BY <2>1, FS_AddElement
<1> HIDE DEF new
<1>5. /\ [seeds[s] EXCEPT !.snapshots = new] \in PilotSeed
      /\ [seeds[s] EXCEPT !.snapshots = new].expires = seeds[s].expires
      /\ [seeds[s] EXCEPT !.snapshots = new].snapshots = new
  BY <1>1, <1>3 DEF PilotSeed
<1>6. Becomes(s, [seeds[s] EXCEPT !.snapshots = new])
  BY <1>2 DEF new
<1> QED BY <1>3, <1>4, <1>5, <1>6, BecomesKeeps

\* Time passes.
LEMMA HourKeeps ==
  ASSUME PilotIInv, HourPasses PROVE PilotIInv'
<1>1. hour \in Nat /\ hour' = hour + 1 /\ phase # "judged"
      /\ UNCHANGED <<seeds, attested, runner, phase, evidence, report, faults, witnessed>>
  BY DEF HourPasses, PilotIInv
<1>2. \A s \in Seeds : Truthful(s)'
  <2> TAKE s \in Seeds
  <2>1. Truthful(s)
    BY DEF PilotIInv
  <2>2. evidence[s]["snapshot"].ok => evidence[s]["snapshot"].value <= hour'
    BY <1>1, <2>1 DEF Truthful
  <2> QED BY <1>1, <2>1, <2>2 DEF Truthful
<1>3. \A s \in Seeds : \A p \in seeds[s].snapshots : p.at \in Int /\ p.at <= hour
  BY DEF PilotIInv, PilotSeed
<1>4. \A s \in Seeds : \A p \in seeds'[s].snapshots : p.at <= hour'
  BY <1>1, <1>3
<1>5. EvidenceShape' /\ ReadyIsTrue'
  BY <1>1 DEF EvidenceShape, Results, ReadyIsTrue, PilotIInv
<1> QED BY <1>1, <1>2, <1>4, <1>5 DEF PilotIInv

\* The collection begins: nothing is collected, and what is so now was so.
LEMMA BeginKeeps ==
  ASSUME PilotIInv, Begin PROVE PilotIInv'
<1>1. /\ phase = "idle" /\ phase' = "collecting" /\ witnessed' = Facts(seeds)
      /\ UNCHANGED <<hour, seeds, attested, runner, evidence, report, faults>>
  BY DEF Begin
<1>2. \A s \in Seeds, c \in Collector : evidence[s][c].ok = FALSE
  BY <1>1 DEF PilotIInv, Pending
<1>3. \A s \in Seeds : Truthful(s)'
  BY <1>1, <1>2 DEF Truthful, Collector
<1>4. EvidenceShape' /\ ReadyIsTrue'
  BY <1>1 DEF EvidenceShape, Results, ReadyIsTrue, PilotIInv
<1> QED BY <1>1, <1>3, <1>4 DEF PilotIInv, Pending

\* What a collector answers is so now.
LEMMA AnswerIsTrue ==
  ASSUME PilotIInv, phase = "collecting", NEW s \in Seeds, NEW c \in Collector,
         NEW a, a = Answer(s, c), a.ok
  PROVE  /\ c = "status" => /\ a.value.peers >= 1 => <<s, "serves", 0>> \in witnessed
                            /\ a.value.producer = (s = "seed-a") => <<s, "role", 0>> \in witnessed
         /\ c = "disk" => /\ a.value \in Nat
                          /\ a.value < FailDisk => <<s, "room", 0>> \in witnessed
         /\ c = "snapshot" => /\ a.value \in Int /\ a.value <= hour
                              /\ <<s, "saved", a.value>> \in witnessed
         /\ c = "certificate" => a.value = seeds[s].expires
<1>1. seeds[s] \in PilotSeed /\ Facts(seeds) \subseteq witnessed /\ Failed.ok = FALSE
  BY DEF PilotIInv, Failed
<1>2. CASE c = "status"
  <2>1. /\ seeds[s].up
        /\ a = Returned([height |-> seeds[s].height, peers |-> seeds[s].peers,
                         producer |-> seeds[s].producer])
    BY <1>1, <1>2 DEF Answer
  <2>2. a.value.peers = seeds[s].peers /\ a.value.producer = seeds[s].producer
    BY <2>1 DEF Returned
  <2>3. seeds[s].peers >= 1 => <<s, "serves", 0>> \in Facts(seeds)
    BY <2>1 DEF Facts
  <2>4. seeds[s].producer = (s = "seed-a") => <<s, "role", 0>> \in Facts(seeds)
    BY DEF Facts
  <2> QED BY <1>1, <1>2, <2>2, <2>3, <2>4
<1>3. CASE c = "disk"
  <2>1. a = Returned(seeds[s].disk)
    BY <1>1, <1>3 DEF Answer
  <2>2. a.value = seeds[s].disk /\ seeds[s].disk \in Nat
    BY <1>1, <2>1 DEF Returned, PilotSeed
  <2>3. seeds[s].disk < FailDisk => <<s, "room", 0>> \in Facts(seeds)
    BY DEF Facts
  <2> QED BY <1>1, <1>3, <2>2, <2>3
<1>4. CASE c = "certificate"
  <2>1. a = Returned(seeds[s].expires)
    BY <1>1, <1>4 DEF Answer
  <2> QED BY <1>4, <2>1 DEF Returned
<1>5. CASE c = "snapshot"
  <2> DEFINE times == SnapshotTimes(s)
             last == CHOOSE t \in times : \A u \in times : u <= t
  <2>1. times # {} /\ a = Returned(last)
    BY <1>1, <1>5 DEF Answer
  <2>2. seeds[s].snapshots \subseteq [at : Int, done : BOOLEAN] /\ IsFiniteSet(seeds[s].snapshots)
        /\ \A p \in seeds[s].snapshots : p.at <= hour
    BY <1>1 DEF PilotIInv, PilotSeed
  <2>3. times = {p.at : p \in {q \in seeds[s].snapshots : q.done}}
    BY DEF SnapshotTimes, Completed
  <2>4. times \subseteq Int /\ IsFiniteSet(times)
    <3>1. IsFiniteSet({q \in seeds[s].snapshots : q.done})
      BY <2>2, FS_Subset
    <3>2. IsFiniteSet({p.at : p \in {q \in seeds[s].snapshots : q.done}})
      <4> DEFINE D == {q \in seeds[s].snapshots : q.done}
                 f == [p \in D |-> p.at]
      <4>1. f \in Surjection(D, {p.at : p \in D})
        BY DEF Surjection
      <4> QED BY <3>1, <4>1, FS_Surjection
    <3> QED BY <2>2, <2>3, <3>2
  <2> HIDE DEF times
  <2>5. last \in times
    <3>1. \E t \in times : \A u \in times : u <= t
      BY <2>1, <2>4, Extremes
    <3> QED BY <3>1
  <2> HIDE DEF last
  <2>6. PICK p \in seeds[s].snapshots : p.done /\ p.at = last
    BY <2>3, <2>5
  <2>7. <<s, "saved", last>> \in Facts(seeds)
    BY <2>6 DEF Facts
  <2>8. a.value = last
    BY <2>1 DEF Returned
  <2> QED BY <1>1, <1>5, <2>2, <2>4, <2>5, <2>6, <2>7, <2>8
<1> QED BY <1>2, <1>3, <1>4, <1>5 DEF Collector

\* One collector returns, or fails.
LEMMA CollectKeeps ==
  ASSUME PilotIInv, NEW s \in Seeds, NEW c \in Collector, Collect(s, c) PROVE PilotIInv'
<1>1. /\ phase = "collecting" /\ UNCHANGED <<hour, seeds, attested, runner, phase, report, witnessed>>
      /\ EvidenceShape
  BY DEF Collect, PilotIInv
<1>2. PICK a : /\ a = Answer(s, c) \/ a = Failed
               /\ evidence' = [evidence EXCEPT ![s][c] = a]
  BY DEF Collect
<1>3. \A u \in Seeds, d \in Collector :
        evidence'[u][d] = IF u = s /\ d = c THEN a ELSE evidence[u][d]
  BY <1>1, <1>2 DEF EvidenceShape
<1>4. EvidenceShape'
  <2>1. evidence' = [u \in Seeds |-> [d \in Collector |-> evidence'[u][d]]]
    BY <1>1, <1>2 DEF EvidenceShape
  <2> DEFINE e == evidence'
  <2>2. e \in [Seeds -> [Collector -> {e[u][d] : u \in Seeds, d \in Collector}]]
    <3> HIDE DEF e
    <3>1. e = [u \in Seeds |-> [d \in Collector |-> e[u][d]]]
      BY <2>1 DEF e
    <3> QED BY <3>1
  <2> QED BY <2>2 DEF EvidenceShape, Results
<1>5. \A u \in Seeds : Truthful(u)'
  <2> TAKE u \in Seeds
  <2>1. Truthful(u)
    BY DEF PilotIInv
  <2>2. CASE a.ok
    <3>1. a = Answer(s, c)
      BY <1>2, <2>2 DEF Failed
    <3>2. /\ c = "status" => /\ a.value.peers >= 1 => <<s, "serves", 0>> \in witnessed
                             /\ a.value.producer = (s = "seed-a") => <<s, "role", 0>> \in witnessed
          /\ c = "disk" => /\ a.value \in Nat
                           /\ a.value < FailDisk => <<s, "room", 0>> \in witnessed
          /\ c = "snapshot" => /\ a.value \in Int /\ a.value <= hour
                               /\ <<s, "saved", a.value>> \in witnessed
          /\ c = "certificate" => a.value = seeds[s].expires
      BY <1>1, <2>2, <3>1, AnswerIsTrue
    <3>3. \A d \in Collector : evidence'[u][d] = IF u = s /\ d = c THEN a ELSE evidence[u][d]
      BY <1>3
    <3> QED BY <1>1, <2>1, <3>2, <3>3 DEF Truthful, Collector
  <2>3. CASE ~a.ok
    <3>3. \A d \in Collector : evidence'[u][d] = IF u = s /\ d = c THEN a ELSE evidence[u][d]
      BY <1>3
    <3> QED BY <1>1, <2>1, <2>3, <3>3 DEF Truthful, Collector
  <2> QED BY <2>2, <2>3
<1>6. ReadyIsTrue'
  BY <1>1 DEF ReadyIsTrue
<1> QED BY <1>1, <1>4, <1>5, <1>6 DEF PilotIInv

\* A report that does not say "fail" found each check passed.
LEMMA JudgedChecks ==
  ASSUME NEW outage \in Seeds \cup {"none"}, Severity(outage) # "fail"
  PROVE  /\ \A s \in Seeds \ {outage} :
              /\ Got(s, "status") /\ Got(s, "disk") /\ Got(s, "snapshot") /\ Got(s, "certificate")
              /\ Value(s, "status").peers >= 1
              /\ Value(s, "status").producer = (s = "seed-a")
              /\ ~(Value(s, "disk") >= FailDisk)
              /\ s \in attested
              /\ ~(hour - Value(s, "snapshot") > FailAge)
              /\ ~(Value(s, "certificate") - hour < FailLife)
         /\ outage # "none" => runner
<1> DEFINE found == (UNION {SeedChecks(s, outage) : s \in Seeds}) \cup PairCheck(outage) \cup OutageCheck(outage)
<1>1. "fail" \notin found
  <2>1. Severity(outage) = Grade("warn" \in found, "fail" \in found)
    BY DEF Severity
  <2> HIDE DEF found
  <2> QED BY <2>1 DEF Grade
<1>2. ASSUME NEW s \in Seeds \ {outage}
      PROVE  /\ Got(s, "status") /\ Got(s, "disk") /\ Got(s, "snapshot") /\ Got(s, "certificate")
             /\ Value(s, "status").peers >= 1
             /\ Value(s, "status").producer = (s = "seed-a")
             /\ ~(Value(s, "disk") >= FailDisk)
             /\ s \in attested
             /\ ~(hour - Value(s, "snapshot") > FailAge)
             /\ ~(Value(s, "certificate") - hour < FailLife)
  <2>1. "fail" \notin SeedChecks(s, outage)
    BY <1>1, <1>2
  <2>2. Got(s, "status")
    BY <1>2, <2>1 DEF SeedChecks
  <2>3. SeedChecks(s, outage) =
          {Must(Value(s, "status").peers >= 1), Must(Value(s, "status").producer = (s = "seed-a")),
           DiskCheck(s), Must(s \in attested)} \cup Freshness(s)
    BY <1>2, <2>2 DEF SeedChecks
  <2>4. /\ "fail" # Must(Value(s, "status").peers >= 1)
        /\ "fail" # Must(Value(s, "status").producer = (s = "seed-a"))
        /\ "fail" # DiskCheck(s) /\ "fail" # Must(s \in attested)
        /\ "fail" \notin Freshness(s)
    BY <2>1, <2>3
  <2>5. /\ Value(s, "status").peers >= 1 /\ Value(s, "status").producer = (s = "seed-a")
        /\ s \in attested
    BY <2>4 DEF Must, Grade
  <2>6. Got(s, "disk") /\ ~(Value(s, "disk") >= FailDisk)
    BY <2>4 DEF DiskCheck, Grade
  <2>7. Got(s, "snapshot") /\ ~(hour - Value(s, "snapshot") > FailAge)
    BY <2>4 DEF Freshness, Grade
  <2>8. Got(s, "certificate") /\ ~(Value(s, "certificate") - hour < FailLife)
    BY <2>4 DEF Freshness, Grade
  <2> QED BY <2>2, <2>5, <2>6, <2>7, <2>8
<1>3. outage # "none" => runner
  BY <1>1 DEF OutageCheck, Must, Grade
<1> QED BY <1>2, <1>3

\* The report is written.
LEMMA JudgeKeeps ==
  ASSUME PilotIInv, Judge PROVE PilotIInv'
<1>1. /\ phase' = "judged" /\ UNCHANGED <<hour, seeds, attested, runner, evidence, faults, witnessed>>
      /\ hour \in Nat
  BY DEF Judge, PilotIInv
<1>2. PICK outage \in Seeds \cup {"none"} :
        report' = [at |-> hour, outage |-> outage, severity |-> Severity(outage)]
  BY DEF Judge
<1>3. ReadyIsTrue'
  <2>1. report'.at = hour /\ report'.outage = outage /\ report'.severity = Severity(outage)
    BY <1>2
  <2> SUFFICES ASSUME Severity(outage) # "fail"
               PROVE  /\ \A s \in Seeds \ {outage} :
                           /\ {<<s, "serves", 0>>, <<s, "role", 0>>, <<s, "room", 0>>} \subseteq witnessed
                           /\ s \in attested
                           /\ seeds[s].expires - hour >= FailLife
                           /\ \E t \in hour - FailAge .. hour : <<s, "saved", t>> \in witnessed
                      /\ outage # "none" => runner
    BY <1>1, <2>1 DEF ReadyIsTrue
  <2>2. ASSUME NEW s \in Seeds \ {outage}
        PROVE  /\ {<<s, "serves", 0>>, <<s, "role", 0>>, <<s, "room", 0>>} \subseteq witnessed
               /\ s \in attested
               /\ seeds[s].expires - hour >= FailLife
               /\ \E t \in hour - FailAge .. hour : <<s, "saved", t>> \in witnessed
    <3>1. Truthful(s) /\ seeds[s].expires \in Int
      BY DEF PilotIInv, PilotSeed
    <3>2. /\ Got(s, "status") /\ Got(s, "disk") /\ Got(s, "snapshot") /\ Got(s, "certificate")
          /\ Value(s, "status").peers >= 1
          /\ Value(s, "status").producer = (s = "seed-a")
          /\ ~(Value(s, "disk") >= FailDisk)
          /\ s \in attested
          /\ ~(hour - Value(s, "snapshot") > FailAge)
          /\ ~(Value(s, "certificate") - hour < FailLife)
      BY <2>2, JudgedChecks
    <3>3. <<s, "serves", 0>> \in witnessed /\ <<s, "role", 0>> \in witnessed
      BY <3>1, <3>2 DEF Truthful, Got, Value
    <3>4. <<s, "room", 0>> \in witnessed
      BY <3>1, <3>2, PilotAssumption DEF Truthful, Got, Value
    <3>5. seeds[s].expires - hour >= FailLife
      <4>1. Value(s, "certificate") = seeds[s].expires
        BY <3>1, <3>2 DEF Truthful, Got, Value
      <4> QED BY <1>1, <3>1, <3>2, <4>1, PilotAssumption
    <3>6. \E t \in hour - FailAge .. hour : <<s, "saved", t>> \in witnessed
      <4> DEFINE t == Value(s, "snapshot")
      <4>1. t \in Int /\ t <= hour /\ <<s, "saved", t>> \in witnessed
        BY <3>1, <3>2 DEF Truthful, Got, Value
      <4>2. ~(hour - t > FailAge)
        BY <3>2
      <4> HIDE DEF t
      <4>3. t \in hour - FailAge .. hour
        BY <1>1, <4>1, <4>2, PilotAssumption
      <4> QED BY <4>1, <4>3
    <3> QED BY <3>2, <3>3, <3>4, <3>5, <3>6
  <2>3. outage # "none" => runner
    BY JudgedChecks
  <2> QED BY <2>2, <2>3
<1>4. \A s \in Seeds : Truthful(s)'
  BY <1>1 DEF PilotIInv, Truthful
<1>5. EvidenceShape'
  BY <1>1 DEF EvidenceShape, Results, PilotIInv
<1> QED BY <1>1, <1>3, <1>4, <1>5 DEF PilotIInv

\* Every step.
LEMMA PilotStep ==
  ASSUME PilotIInv, [PilotNext]_pilotVars PROVE PilotIInv'
<1>1. CASE UNCHANGED pilotVars
  <2>1. UNCHANGED <<hour, seeds, attested, runner, phase, evidence, report, faults, witnessed>>
    BY <1>1 DEF pilotVars
  <2>2. \A s \in Seeds : Truthful(s)'
    BY <2>1 DEF PilotIInv, Truthful
  <2>3. EvidenceShape'
    BY <2>1 DEF PilotIInv, EvidenceShape, Results
  <2>4. ReadyIsTrue'
    BY <2>1 DEF PilotIInv, ReadyIsTrue
  <2> QED BY <2>1, <2>2, <2>3, <2>4 DEF PilotIInv
<1>2. CASE PilotNext
  BY <1>2, HourKeeps, BeginKeeps, JudgeKeeps, GrowKeeps, SwitchKeeps, SnapshotKeeps, CollectKeeps
     DEF PilotNext
<1> QED BY <1>1, <1>2

\* For any thresholds, disks and number of faults: a report that does not say "fail"
\* says of the seeds only what was so during its collection, although its eight
\* collectors read them at different moments (pilot-evidence.ts, pilot-readiness.ts).
THEOREM ReadyReportsAreTrue == PilotSpec => []ReadyIsTrue
<1>1. PilotInit => PilotIInv
  BY PilotStarts
<1>2. PilotIInv /\ [PilotNext]_pilotVars => PilotIInv'
  BY PilotStep
<1>3. PilotIInv => ReadyIsTrue
  BY DEF PilotIInv
<1> QED BY <1>1, <1>2, <1>3, PTL DEF PilotSpec
------------------------------------------------------------------------------
(* The website worker *)

\* What handlers went on without.
losses == <<lost, dropped, missed>>

\* Impressions of all campaigns, what is owed to all wallets, the sessions of one.
Shown(cs) == Sum([c \in Campaign |-> cs[c].shown], Campaign)
OwedBy(cl) == Sum([w \in Wallet |-> 2 * cl[w].view + cl[w].referral], Wallet)
Own(ss, w) == {i \in DOMAIN ss : ss[i].wallet = w}
AdsOf(ss, w) == Sum([i \in Own(ss, w) |-> ss[i].ads], Own(ss, w))

Kinds == {"ad-view", "referral", "join", "activate", "subscribe", "hire-lead", "funding",
          "weekly-metrics", "campaign", "scoreboard", "pending", "user", "campaigns", "dispense",
          "digest"}
Rows == [table : {"newsletter", "lead"}, email : Email, at : Nat \ {0}]
Args == Wallet \cup Action \cup Campaign \cup Stage \cup Week \cup {Null}
RequestType ==
  [kind : Kinds \cup {Null}, step : Nat, who : Wallet \cup Email \cup {Null},
   arg : Args,
   seen : Nat, since : Nat, found : SUBSET Rows, read : Seq(Nat)]

\* What a request says of itself.
FormFits(r) ==
  /\ r.kind # Null => r.step \in 1 .. Len(Queries(r.kind))
  /\ r.kind = "ad-view" => r.who \in Wallet
  /\ r.kind = "referral" => r.who \in Wallet /\ r.arg \in Wallet
  /\ r.kind \in {"join", "subscribe", "hire-lead"} => r.who \in Email
  /\ r.kind = "activate" => r.who \in Email /\ r.arg \in Action
  /\ r.kind = "campaign" => r.arg \in Campaign
  /\ r.kind = "funding" => r.arg \in Stage
  /\ r.kind = "weekly-metrics" => r.arg \in Week
  /\ r.kind = "user" => r.who \in Wallet

SiteTypes ==
  /\ users \in [Wallet -> [known : BOOLEAN, count : Nat, earned : Nat,
                           referrer : Wallet \cup {Null}, reward : Nat]]
  /\ sessions \in Seq([wallet : Wallet, ads : Nat])
  /\ views \in [Wallet -> Nat]
  /\ claims \in [Wallet -> [view : Nat, referral : Nat]]
  /\ members \in [Email -> [joined : BOOLEAN, activated : BOOLEAN, first : Action \cup {Null}]]
  /\ actions \subseteq Email \X Action
  /\ rows \subseteq Rows
  /\ lastSent \in Nat /\ sentAt \subseteq Nat /\ second \in Nat \ {0}
  /\ campaigns \in [Campaign -> [live : BOOLEAN, shown : Nat]]
  /\ funds \in [Stage -> Nat] /\ answers \in [Report -> Seq(Nat)]
  /\ req \in [Slot -> RequestType]
  /\ lost \in [Wallet -> [MoneyWrite -> Nat]] /\ dropped \subseteq Email \X Action

\* A session that a handler has found is its wallet's.
SessionFits(r) ==
  r.kind = "ad-view" /\ r.seen # 0 =>
    r.seen \in 1 .. Len(sessions) /\ sessions[r.seen].wallet = r.who

MemberFits(r) ==
  r.kind = "activate" =>
    /\ r.step >= 2 => members[r.who].joined
    /\ r.step = 3 => <<r.who, r.arg>> \in actions \cup dropped

\* A digest has what was put on the lists between the last one and its time.
DigestFits(r) ==
  r.kind = "digest" /\ r.step >= 2 =>
    /\ r.seen <= second /\ r.since \in sentAt \cup {0}
    /\ \A x \in rows : r.since < x.at /\ x.at < r.seen =>
         /\ x.table = "newsletter" /\ r.step \in {3, 4} => x \in r.found \cup missed
         /\ r.step = 4 => x \in r.found \cup missed
         /\ r.step = 5 => x \in mailed \cup missed

Joined == {e \in Email : members[e].joined}
Activated == {e \in Email : members[e].activated}

\* What a report has read so far.
ReportFits(r) ==
  /\ r.kind \in Report /\ r.step = 1 => r.read = << >>
  /\ r.kind = "scoreboard" /\ r.step >= 2 =>
       /\ Len(r.read) = (IF r.step = 4 THEN 5 ELSE r.step)
       /\ r.read[2] <= r.read[1]
       /\ r.step = 2 => r.read[2] <= Cardinality(actions) + Cardinality(dropped)
       /\ r.step >= 3 /\ r.read[3] > 0 => r.read[2] <= r.read[3] + Cardinality(dropped)
  /\ r.kind = "pending" /\ r.step = 2 => Len(r.read) = 1 /\ r.read[1] <= OwedBy(claims)

RequestFits(r) == FormFits(r) /\ SessionFits(r) /\ MemberFits(r) /\ DigestFits(r) /\ ReportFits(r)

\* The requests of one kind, for one wallet, at some of its queries.
Marks(r, kind, w, K) ==
  /\ r.kind = kind /\ r.step \in K
  /\ w = (IF kind = "referral" THEN r.arg ELSE r.who)
Marked(q, kind, w, K) == Sum([s \in Slot |-> IF Marks(q[s], kind, w, K) THEN 1 ELSE 0], Slot)
Shows(r) == r.kind = "ad-view" /\ r.step = 8
Showing(q) == Sum([s \in Slot |-> IF Shows(q[s]) THEN 1 ELSE 0], Slot)

\* The columns of the books, with the writes that handlers went on without.
Noted(w) == users[w].count + lost[w]["count"]
Displayed(w) == AdsOf(sessions, w) + lost[w]["session"]
Viewed(w) == views[w] + lost[w]["view"]
Claimed(w) == claims[w].view + lost[w]["claim"]
Rewarded(w) == users[w].reward + lost[w]["reward"]

\* The books with what the requests in flight have written and not yet counted.
WalletBooks(w) ==
  /\ users[w].earned + Marked(req, "ad-view", w, {10}) <= Claimed(w)
  /\ Claimed(w) + Marked(req, "ad-view", w, {8, 9}) <= Viewed(w)
  /\ Viewed(w) + Marked(req, "ad-view", w, {6, 7}) <= Displayed(w)
  /\ Displayed(w) + Marked(req, "ad-view", w, {3, 4, 5}) <= Noted(w)
  /\ claims[w].referral + Marked(req, "referral", w, {5}) <= Rewarded(w)

\* What handlers went on without, for all wallets.
LossOf(l, q) == Sum([w \in Wallet |-> l[w][q]], Wallet)
AllViewed == Sum(views, Wallet) + LossOf(lost, "view")

\* No campaign is ahead of the views.
ViewsCover == Shown(campaigns) + Showing(req) <= AllViewed

SentCovers ==
  /\ lastSent \in sentAt \cup {0}
  /\ \A v \in sentAt : v <= second
  /\ \A v \in sentAt, x \in rows : x.at < v /\ x.at \notin sentAt => x \in mailed \cup missed

AnswersLag ==
  /\ answers["campaigns"] # << >> => answers["campaigns"][1] <= AllViewed
  /\ answers["scoreboard"] # << >> =>
       /\ Len(answers["scoreboard"]) = 6
       /\ answers["scoreboard"][2] <= answers["scoreboard"][1]
       /\ answers["scoreboard"][3] > 0 =>
            answers["scoreboard"][2] <= answers["scoreboard"][3] + Cardinality(dropped)
  /\ answers["pending"] # << >> =>
       /\ Len(answers["pending"]) = 2
       /\ answers["pending"][2] > 0 => answers["pending"][1] <= answers["pending"][2]
       /\ answers["pending"][2] <= OwedBy(claims)
  /\ answers["dispense"] # << >> => answers["dispense"][1] <= OwedBy(claims)
  /\ answers["user"] # << >> =>
       /\ Len(answers["user"]) = 2
       /\ answers["user"][1] <= answers["user"][2] + 2 * LossOf(lost, "claim")

SiteIInv ==
  /\ SiteTypes
  /\ \A s \in Slot : RequestFits(req[s])
  /\ \A w \in Wallet : WalletBooks(w)
  /\ ViewsCover /\ ActivatedActed /\ SentCovers /\ AnswersLag

(* What a request is about to do. *)
LEMMA QueryTable ==
  /\ Queries("ad-view") = AdQueries /\ Queries("referral") = ReferralQueries
  /\ Queries("join") = JoinQueries /\ Queries("activate") = ActivateQueries
  /\ Queries("subscribe") = SubscribeQueries /\ Queries("hire-lead") = LeadQueries
  /\ Queries("funding") = FundingQueries /\ Queries("weekly-metrics") = MetricsQueries
  /\ Queries("campaign") = CampaignQueries /\ Queries("scoreboard") = ScoreboardQueries
  /\ Queries("pending") = PendingQueries /\ Queries("user") = UserQueries
  /\ Queries("campaigns") = ActiveQueries /\ Queries("dispense") = DispenseQueries
  /\ Queries("digest") = DigestQueries
BY DEF Queries

LEMMA Lengths ==
  /\ Len(Queries("ad-view")) = 10 /\ Len(Queries("referral")) = 5
  /\ Len(Queries("join")) = 2 /\ Len(Queries("activate")) = 3
  /\ Len(Queries("subscribe")) = 1 /\ Len(Queries("hire-lead")) = 1
  /\ Len(Queries("funding")) = 1 /\ Len(Queries("weekly-metrics")) = 1
  /\ Len(Queries("campaign")) = 1 /\ Len(Queries("scoreboard")) = 4
  /\ Len(Queries("pending")) = 2 /\ Len(Queries("user")) = 1
  /\ Len(Queries("campaigns")) = 1 /\ Len(Queries("dispense")) = 1
  /\ Len(Queries("digest")) = 5
BY QueryTable DEF AdQueries, ReferralQueries, JoinQueries, ActivateQueries, SubscribeQueries,
   LeadQueries, FundingQueries, MetricsQueries, CampaignQueries, ScoreboardQueries,
   PendingQueries, UserQueries, ActiveQueries, DispenseQueries, DigestQueries

\* Each query is one kind's, but for the mailing list.
Home(k, i, q) ==
  /\ q = "user" => k = "ad-view" /\ i = 1
  /\ q = "count" => k = "ad-view" /\ i = 2
  /\ q = "id" => k = "ad-view" /\ i = 3
  /\ q = "active" => k = "ad-view" /\ i = 4
  /\ q = "session" => k = "ad-view" /\ i = 5
  /\ q = "created" => k = "ad-view" /\ i = 6
  /\ q = "view" => k = "ad-view" /\ i = 7
  /\ q = "impression" => k = "ad-view" /\ i = 8
  /\ q = "claim" => k = "ad-view" /\ i = 9
  /\ q = "total" => k = "ad-view" /\ i = 10
  /\ q = "referrer" => k = "referral" /\ i = 1
  /\ q = "code" => k = "referral" /\ i = 2
  /\ q = "set" => k = "referral" /\ i = 3
  /\ q = "reward" => k = "referral" /\ i = 4
  /\ q = "credit" => k = "referral" /\ i = 5
  /\ q = "member" => k = "join" /\ i = 1
  /\ q = "subscriber" => (k = "join" /\ i = 2) \/ (k = "subscribe" /\ i = 1)
  /\ q = "joined" => k = "activate" /\ i = 1
  /\ q = "action" => k = "activate" /\ i = 2
  /\ q = "activate" => k = "activate" /\ i = 3
  /\ q = "lead" => k = "hire-lead" /\ i = 1
  /\ q = "funding" => k = "funding" /\ i = 1
  /\ q = "metrics" => k = "weekly-metrics" /\ i = 1
  /\ q = "campaign" => k = "campaign" /\ i = 1
  /\ q = "totals" => k = "scoreboard" /\ i = 1
  /\ q = "contributions" => k = "scoreboard" /\ i = 2
  /\ q = "raised" => k = "scoreboard" /\ i = 3
  /\ q = "week" => k = "scoreboard" /\ i = 4
  /\ q = "recipients" => k = "pending" /\ i = 1
  /\ q = "summary" => k = "pending" /\ i = 2
  /\ q = "account" => k = "user" /\ i = 1
  /\ q = "list" => k = "campaigns" /\ i = 1
  /\ q = "preview" => k = "dispense" /\ i = 1
  /\ q = "state" => k = "digest" /\ i = 1
  /\ q = "news" => k = "digest" /\ i = 2
  /\ q = "leads" => k = "digest" /\ i = 3
  /\ q = "mail" => k = "digest" /\ i = 4
  /\ q = "sent" => k = "digest" /\ i = 5

LEMMA Places ==
  ASSUME NEW k \in Kinds, NEW i \in 1 .. Len(Queries(k))
  PROVE  Home(k, i, Queries(k)[i])
<1>1. CASE k = "ad-view"
  <2>1. i \in 1 .. 10
    <3>1. Len(Queries(k)) = 10
      BY <1>1, Lengths
    <3> QED BY <3>1
  <2>2. i = 1 \/ i = 2 \/ i = 3 \/ i = 4 \/ i = 5 \/ i = 6 \/ i = 7 \/ i = 8 \/ i = 9 \/ i = 10
    BY <2>1
  <2>3. /\ AdQueries[1] = "user" /\ AdQueries[2] = "count" /\ AdQueries[3] = "id"
        /\ AdQueries[4] = "active" /\ AdQueries[5] = "session" /\ AdQueries[6] = "created"
        /\ AdQueries[7] = "view" /\ AdQueries[8] = "impression" /\ AdQueries[9] = "claim"
        /\ AdQueries[10] = "total"
    BY DEF AdQueries
  <2>4. Queries(k) = AdQueries
    BY <1>1, QueryTable
  <2>5. \E q : q = Queries(k)[i]
    OBVIOUS
  <2>6. PICK q : q = Queries(k)[i]
    BY <2>5
  <2>7. q = AdQueries[i]
    BY <2>4, <2>6
  <2>8. Home(k, i, q)
    BY <1>1, <2>2, <2>3, <2>7 DEF Home
  <2> QED BY <2>6, <2>8
<1>2. CASE k = "referral"
  <2>1. i \in 1 .. 5
    <3>1. Len(Queries(k)) = 5
      BY <1>2, Lengths
    <3> QED BY <3>1
  <2>2. i = 1 \/ i = 2 \/ i = 3 \/ i = 4 \/ i = 5
    BY <2>1
  <2>3. ReferralQueries[1] = "referrer" /\ ReferralQueries[2] = "code" /\ ReferralQueries[3] = "set" /\ ReferralQueries[4] = "reward" /\ ReferralQueries[5] = "credit"
    BY DEF ReferralQueries
  <2> QED BY <1>2, <2>2, <2>3, QueryTable DEF Home
<1>3. CASE k = "join"
  <2>1. i \in 1 .. 2
    <3>1. Len(Queries(k)) = 2
      BY <1>3, Lengths
    <3> QED BY <3>1
  <2>2. i = 1 \/ i = 2
    BY <2>1
  <2>3. JoinQueries[1] = "member" /\ JoinQueries[2] = "subscriber"
    BY DEF JoinQueries
  <2> QED BY <1>3, <2>2, <2>3, QueryTable DEF Home
<1>4. CASE k = "activate"
  <2>1. i \in 1 .. 3
    <3>1. Len(Queries(k)) = 3
      BY <1>4, Lengths
    <3> QED BY <3>1
  <2>2. i = 1 \/ i = 2 \/ i = 3
    BY <2>1
  <2>3. ActivateQueries[1] = "joined" /\ ActivateQueries[2] = "action" /\ ActivateQueries[3] = "activate"
    BY DEF ActivateQueries
  <2> QED BY <1>4, <2>2, <2>3, QueryTable DEF Home
<1>5. CASE k = "subscribe"
  <2>1. i \in 1 .. 1
    <3>1. Len(Queries(k)) = 1
      BY <1>5, Lengths
    <3> QED BY <3>1
  <2>2. i = 1
    BY <2>1
  <2>3. SubscribeQueries[1] = "subscriber"
    BY DEF SubscribeQueries
  <2> QED BY <1>5, <2>2, <2>3, QueryTable DEF Home
<1>6. CASE k = "hire-lead"
  <2>1. i \in 1 .. 1
    <3>1. Len(Queries(k)) = 1
      BY <1>6, Lengths
    <3> QED BY <3>1
  <2>2. i = 1
    BY <2>1
  <2>3. LeadQueries[1] = "lead"
    BY DEF LeadQueries
  <2> QED BY <1>6, <2>2, <2>3, QueryTable DEF Home
<1>7. CASE k = "funding"
  <2>1. i \in 1 .. 1
    <3>1. Len(Queries(k)) = 1
      BY <1>7, Lengths
    <3> QED BY <3>1
  <2>2. i = 1
    BY <2>1
  <2>3. FundingQueries[1] = "funding"
    BY DEF FundingQueries
  <2> QED BY <1>7, <2>2, <2>3, QueryTable DEF Home
<1>8. CASE k = "weekly-metrics"
  <2>1. i \in 1 .. 1
    <3>1. Len(Queries(k)) = 1
      BY <1>8, Lengths
    <3> QED BY <3>1
  <2>2. i = 1
    BY <2>1
  <2>3. MetricsQueries[1] = "metrics"
    BY DEF MetricsQueries
  <2> QED BY <1>8, <2>2, <2>3, QueryTable DEF Home
<1>9. CASE k = "campaign"
  <2>1. i \in 1 .. 1
    <3>1. Len(Queries(k)) = 1
      BY <1>9, Lengths
    <3> QED BY <3>1
  <2>2. i = 1
    BY <2>1
  <2>3. CampaignQueries[1] = "campaign"
    BY DEF CampaignQueries
  <2> QED BY <1>9, <2>2, <2>3, QueryTable DEF Home
<1>10. CASE k = "scoreboard"
  <2>1. i \in 1 .. 4
    <3>1. Len(Queries(k)) = 4
      BY <1>10, Lengths
    <3> QED BY <3>1
  <2>2. i = 1 \/ i = 2 \/ i = 3 \/ i = 4
    BY <2>1
  <2>3. ScoreboardQueries[1] = "totals" /\ ScoreboardQueries[2] = "contributions" /\ ScoreboardQueries[3] = "raised" /\ ScoreboardQueries[4] = "week"
    BY DEF ScoreboardQueries
  <2> QED BY <1>10, <2>2, <2>3, QueryTable DEF Home
<1>11. CASE k = "pending"
  <2>1. i \in 1 .. 2
    <3>1. Len(Queries(k)) = 2
      BY <1>11, Lengths
    <3> QED BY <3>1
  <2>2. i = 1 \/ i = 2
    BY <2>1
  <2>3. PendingQueries[1] = "recipients" /\ PendingQueries[2] = "summary"
    BY DEF PendingQueries
  <2> QED BY <1>11, <2>2, <2>3, QueryTable DEF Home
<1>12. CASE k = "user"
  <2>1. i \in 1 .. 1
    <3>1. Len(Queries(k)) = 1
      BY <1>12, Lengths
    <3> QED BY <3>1
  <2>2. i = 1
    BY <2>1
  <2>3. UserQueries[1] = "account"
    BY DEF UserQueries
  <2> QED BY <1>12, <2>2, <2>3, QueryTable DEF Home
<1>13. CASE k = "campaigns"
  <2>1. i \in 1 .. 1
    <3>1. Len(Queries(k)) = 1
      BY <1>13, Lengths
    <3> QED BY <3>1
  <2>2. i = 1
    BY <2>1
  <2>3. ActiveQueries[1] = "list"
    BY DEF ActiveQueries
  <2> QED BY <1>13, <2>2, <2>3, QueryTable DEF Home
<1>14. CASE k = "dispense"
  <2>1. i \in 1 .. 1
    <3>1. Len(Queries(k)) = 1
      BY <1>14, Lengths
    <3> QED BY <3>1
  <2>2. i = 1
    BY <2>1
  <2>3. DispenseQueries[1] = "preview"
    BY DEF DispenseQueries
  <2> QED BY <1>14, <2>2, <2>3, QueryTable DEF Home
<1>15. CASE k = "digest"
  <2>1. i \in 1 .. 5
    <3>1. Len(Queries(k)) = 5
      BY <1>15, Lengths
    <3> QED BY <3>1
  <2>2. i = 1 \/ i = 2 \/ i = 3 \/ i = 4 \/ i = 5
    BY <2>1
  <2>3. DigestQueries[1] = "state" /\ DigestQueries[2] = "news" /\ DigestQueries[3] = "leads" /\ DigestQueries[4] = "mail" /\ DigestQueries[5] = "sent"
    BY DEF DigestQueries
  <2> QED BY <1>15, <2>2, <2>3, QueryTable DEF Home
<1> QED BY <1>1, <1>2, <1>3, <1>4, <1>5, <1>6, <1>7, <1>8, <1>9, <1>10, <1>11, <1>12, <1>13, <1>14, <1>15 DEF Kinds

(* Counting. *)
LEMMA OneMoves ==
  ASSUME NEW S, IsFiniteSet(S), NEW f, NEW g, NEW a \in S,
         \A x \in S : f[x] \in {0, 1} /\ g[x] \in {0, 1} /\ (x # a => g[x] = f[x])
  PROVE  Sum(f, S) \in Nat /\ Sum(g, S) \in Nat /\ Sum(g, S) = Sum(f, S) + g[a] - f[a]
<1>1. \A x \in S : f[x] \in Nat /\ g[x] \in Nat /\ f[x] \in Int /\ g[x] \in Int
  OBVIOUS
<1>2. Sum(f, S) \in Nat /\ Sum(g, S) \in Nat
  BY <1>1, SumNatural
<1>3. Sum(g, S) = Sum(f, S) + g[a] - f[a]
  BY <1>1, SumChange
<1> QED BY <1>2, <1>3

\* What a request does to a count when it becomes n.
By(r, n, kind, w, K) == (IF Marks(n, kind, w, K) THEN 1 ELSE 0) - (IF Marks(r, kind, w, K) THEN 1 ELSE 0)
ShowsBy(r, n) == (IF Shows(n) THEN 1 ELSE 0) - (IF Shows(r) THEN 1 ELSE 0)

LEMMA MarksMove ==
  ASSUME NEW q, NEW s \in Slot, NEW p, \A t \in Slot \ {s} : p[t] = q[t]
  PROVE  \A kind, w, K :
           /\ Marked(q, kind, w, K) \in Nat /\ Marked(p, kind, w, K) \in Nat
           /\ Marked(p, kind, w, K) = Marked(q, kind, w, K) + By(q[s], p[s], kind, w, K)
<1> TAKE kind, w, K
<1> DEFINE f == [t \in Slot |-> IF Marks(q[t], kind, w, K) THEN 1 ELSE 0]
           g == [t \in Slot |-> IF Marks(p[t], kind, w, K) THEN 1 ELSE 0]
<1>2. \A t \in Slot : f[t] \in {0, 1} /\ g[t] \in {0, 1} /\ (t # s => g[t] = f[t])
  OBVIOUS
<1>3. g[s] - f[s] = By(q[s], p[s], kind, w, K)
  BY DEF By
<1> HIDE DEF f, g
<1>4. Sum(f, Slot) \in Nat /\ Sum(g, Slot) \in Nat /\ Sum(g, Slot) = Sum(f, Slot) + g[s] - f[s]
  BY <1>2, SiteAssumption, OneMoves
<1>5. g[s] \in Nat /\ f[s] \in Nat
  BY <1>2
<1>6. Sum(g, Slot) = Sum(f, Slot) + (g[s] - f[s])
  BY <1>4, <1>5
<1> QED BY <1>3, <1>4, <1>6 DEF Marked, f, g

LEMMA ShowsMove ==
  ASSUME NEW q, NEW s \in Slot, NEW p, \A t \in Slot \ {s} : p[t] = q[t]
  PROVE  /\ Showing(q) \in Nat /\ Showing(p) \in Nat
         /\ Showing(p) = Showing(q) + ShowsBy(q[s], p[s])
<1> DEFINE f == [t \in Slot |-> IF Shows(q[t]) THEN 1 ELSE 0]
           g == [t \in Slot |-> IF Shows(p[t]) THEN 1 ELSE 0]
<1>2. \A t \in Slot : f[t] \in {0, 1} /\ g[t] \in {0, 1} /\ (t # s => g[t] = f[t])
  OBVIOUS
<1>3. g[s] - f[s] = ShowsBy(q[s], p[s])
  BY DEF ShowsBy
<1> HIDE DEF f, g
<1>4. Sum(f, Slot) \in Nat /\ Sum(g, Slot) \in Nat /\ Sum(g, Slot) = Sum(f, Slot) + g[s] - f[s]
  BY <1>2, SiteAssumption, OneMoves
<1>5. g[s] \in Nat /\ f[s] \in Nat
  BY <1>2
<1>6. Sum(g, Slot) = Sum(f, Slot) + (g[s] - f[s])
  BY <1>4, <1>5
<1> QED BY <1>3, <1>4, <1>6 DEF Showing, f, g

Session == [wallet : Wallet, ads : Nat]

LEMMA AdsNumber ==
  ASSUME NEW ss \in Seq(Session), NEW w
  PROVE  /\ IsFiniteSet(Own(ss, w)) /\ AdsOf(ss, w) \in Nat
         /\ \A i \in Own(ss, w) : ss[i].ads \in Nat
<1>1. Len(ss) \in Nat /\ DOMAIN ss = 1 .. Len(ss) /\ \A i \in 1 .. Len(ss) : ss[i] \in Session
  BY LenProperties, ElementOfSeq
<1>2. IsFiniteSet(1 .. Len(ss))
  BY <1>1, FS_Interval
<1>3. Own(ss, w) \subseteq 1 .. Len(ss)
  BY <1>1 DEF Own
<1>4. IsFiniteSet(Own(ss, w))
  BY <1>2, <1>3, FS_Subset
<1>5. \A i \in Own(ss, w) : ss[i].ads \in Nat
  BY <1>1, <1>3 DEF Session
<1> DEFINE f == [i \in Own(ss, w) |-> ss[i].ads]
<1>6. \A i \in Own(ss, w) : f[i] \in Nat
  BY <1>5
<1> HIDE DEF f
<1>7. Sum(f, Own(ss, w)) \in Nat
  BY <1>4, <1>6, SumNatural
<1> QED BY <1>4, <1>5, <1>7 DEF AdsOf, f

\* One more ad in a session.
LEMMA AdsCount ==
  ASSUME NEW ss \in Seq(Session), NEW i \in 1 .. Len(ss), NEW w
  PROVE  LET more == [ss EXCEPT ![i].ads = @ + 1]
         IN /\ more \in Seq(Session) /\ Len(more) = Len(ss)
            /\ \A j \in 1 .. Len(ss) : more[j].wallet = ss[j].wallet
            /\ AdsOf(more, w) = AdsOf(ss, w) + (IF ss[i].wallet = w THEN 1 ELSE 0)
<1> DEFINE more == [ss EXCEPT ![i].ads = @ + 1]
<1>1. Len(ss) \in Nat /\ DOMAIN ss = 1 .. Len(ss) /\ \A j \in 1 .. Len(ss) : ss[j] \in Session
  BY LenProperties, ElementOfSeq
<1>2. /\ ss[i].ads \in Nat /\ ss[i].ads + 1 \in Nat
      /\ [ss[i] EXCEPT !.ads = @ + 1] \in Session
      /\ [ss[i] EXCEPT !.ads = @ + 1].wallet = ss[i].wallet
      /\ [ss[i] EXCEPT !.ads = @ + 1].ads = ss[i].ads + 1
  BY <1>1 DEF Session
<1>3. more = [ss EXCEPT ![i] = [ss[i] EXCEPT !.ads = @ + 1]]
  OBVIOUS
<1>4. /\ more \in Seq(Session) /\ Len(more) = Len(ss)
      /\ more[i] = [ss[i] EXCEPT !.ads = @ + 1]
      /\ \A j \in 1 .. Len(ss) : j # i => more[j] = ss[j]
  BY <1>1, <1>2, <1>3, ExceptSeq
<1> HIDE DEF more
<1>5. \A j \in 1 .. Len(ss) : more[j].wallet = ss[j].wallet
  BY <1>2, <1>4
<1>6. DOMAIN more = 1 .. Len(ss)
  BY <1>4, LenProperties
<1>7. Own(more, w) = Own(ss, w)
  BY <1>1, <1>5, <1>6 DEF Own
<1> DEFINE O == Own(ss, w)
           f == [j \in O |-> ss[j].ads]
           g == [j \in O |-> more[j].ads]
<1>8. IsFiniteSet(O) /\ O \subseteq 1 .. Len(ss) /\ (i \in O <=> ss[i].wallet = w)
  BY <1>1, AdsNumber DEF Own
<1>9. AdsOf(ss, w) = Sum(f, O) /\ AdsOf(more, w) = Sum(g, O)
  BY <1>7 DEF AdsOf
<1>10. \A j \in O : f[j] \in Int /\ g[j] \in Int /\ (j # i => g[j] = f[j]) /\ (j = i => g[j] = f[j] + 1)
  <2>1. \A j \in O : ss[j].ads \in Nat
    BY AdsNumber
  <2>2. \A j \in O : f[j] = ss[j].ads /\ g[j] = more[j].ads
    OBVIOUS
  <2>3. more[i].ads = ss[i].ads + 1 /\ \A j \in O : j # i => more[j].ads = ss[j].ads
    BY <1>2, <1>4, <1>8
  <2> HIDE DEF O, f, g
  <2> QED BY <2>1, <2>2, <2>3 DEF O
<1> HIDE DEF O, f, g
<1>11. CASE i \in O
  <2>1. Sum(g, O) = Sum(f, O) + g[i] - f[i] /\ Sum(f, O) \in Int
    <3>1. \A j \in O : f[j] \in Int /\ g[j] \in Int /\ (j # i => g[j] = f[j])
      BY <1>10
    <3>2. IsFiniteSet(O)
      BY <1>8
    <3>3. \A a \in O : (\A j \in O : f[j] \in Int /\ g[j] \in Int /\ (j # a => g[j] = f[j]))
                        => Sum(g, O) = Sum(f, O) + g[a] - f[a] /\ Sum(f, O) \in Int
      BY <3>2, SumChange
    <3> QED BY <1>11, <3>1, <3>3
  <2>2. g[i] = f[i] + 1 /\ f[i] \in Int
    BY <1>10, <1>11
  <2>3. Sum(g, O) = Sum(f, O) + 1
    BY <2>1, <2>2
  <2> QED BY <2>3, <1>4, <1>5, <1>8, <1>9, <1>11 DEF more
<1>12. CASE i \notin O
  <2>1. \A j \in O : f[j] = g[j] /\ f[j] \in Int
    BY <1>10, <1>12
  <2>2. Sum(f, O) = Sum(g, O) /\ Sum(f, O) \in Int
    BY <1>8, <2>1, SumSame, SumType
  <2>3. Sum(g, O) = Sum(f, O) + 0
    BY <2>2
  <2> QED BY <2>3, <1>4, <1>5, <1>8, <1>9, <1>12 DEF more
<1> QED BY <1>11, <1>12

\* A first ad in a new session.
LEMMA AdsAppend ==
  ASSUME NEW ss \in Seq(Session), NEW v \in Wallet, NEW w
  PROVE  LET more == Append(ss, [wallet |-> v, ads |-> 1])
         IN /\ more \in Seq(Session) /\ Len(more) = Len(ss) + 1
            /\ \A j \in 1 .. Len(ss) : more[j] = ss[j]
            /\ AdsOf(more, w) = AdsOf(ss, w) + (IF v = w THEN 1 ELSE 0)
<1> DEFINE x == [wallet |-> v, ads |-> 1]
           more == Append(ss, x)
           n == Len(ss) + 1
<1>1. Len(ss) \in Nat /\ DOMAIN ss = 1 .. Len(ss) /\ \A j \in 1 .. Len(ss) : ss[j] \in Session
  BY LenProperties, ElementOfSeq
<1>2. x \in Session /\ x.wallet = v /\ x.ads = 1
  BY DEF Session
<1> HIDE DEF x
<1>3. /\ more \in Seq(Session) /\ Len(more) = n /\ more[n] = x
      /\ \A j \in 1 .. Len(ss) : more[j] = ss[j]
  BY <1>2, AppendProperties
<1>4. DOMAIN more = 1 .. n
  BY <1>3, LenProperties
<1> HIDE DEF more
<1>5. Own(more, w) = (IF v = w THEN Own(ss, w) \cup {n} ELSE Own(ss, w)) /\ n \notin Own(ss, w)
  BY <1>1, <1>2, <1>3, <1>4 DEF Own
<1> DEFINE O == Own(ss, w)
           P == Own(more, w)
           f == [j \in O |-> ss[j].ads]
           g == [j \in P |-> more[j].ads]
<1>6. /\ IsFiniteSet(O) /\ O \subseteq 1 .. Len(ss) /\ O \subseteq P
      /\ \A j \in O : f[j] \in Int /\ f[j] = g[j]
      /\ n \in P => g[n] = 1
  <2>1. IsFiniteSet(O) /\ \A j \in O : ss[j].ads \in Nat
    BY AdsNumber
  <2>2. O \subseteq 1 .. Len(ss) /\ O \subseteq P
    BY <1>1, <1>5 DEF Own
  <2>3. n \in P => g[n] = 1
    BY <1>2, <1>3
  <2>4. \A j \in O : f[j] = ss[j].ads /\ g[j] = ss[j].ads
    BY <1>3, <2>2
  <2> HIDE DEF O, P, f, g
  <2>5. \A j \in O : f[j] \in Int /\ f[j] = g[j]
    BY <2>1, <2>4 DEF O
  <2> QED BY <2>1, <2>2, <2>3, <2>5 DEF O
<1>7. AdsOf(ss, w) = Sum(f, O) /\ AdsOf(more, w) = Sum(g, P)
  BY DEF AdsOf
<1> HIDE DEF O, P, f, g
<1>8. Sum(f, O) = Sum(g, O) /\ Sum(g, O) \in Int /\ \A j \in O : g[j] \in Int
  BY <1>6, SumSame, SumType
<1>9. CASE v = w
  <2>1. P = O \cup {n} /\ n \notin O /\ g[n] = 1 /\ g[n] \in Int
    BY <1>5, <1>6, <1>9 DEF O, P
  <2>2. Sum(g, O \cup {n}) = g[n] + Sum(g, O)
    BY <1>6, <1>8, <2>1, SumAdd
  <2>3. Sum(g, P) = Sum(f, O) + 1
    BY <1>8, <2>1, <2>2
  <2> QED BY <2>3, <1>3, <1>7, <1>9 DEF more, x
<1>10. CASE v # w
  <2>1. P = O
    BY <1>5, <1>10 DEF O, P
  <2>2. Sum(g, P) = Sum(f, O) + 0
    BY <1>8, <2>1
  <2> QED BY <2>2, <1>3, <1>7, <1>10 DEF more, x
<1> QED BY <1>9, <1>10

LEMMA OwedNumber ==
  ASSUME NEW cl \in [Wallet -> [view : Nat, referral : Nat]],
         NEW more \in [Wallet -> [view : Nat, referral : Nat]],
         \A w \in Wallet : cl[w].view <= more[w].view /\ cl[w].referral <= more[w].referral
  PROVE  OwedBy(cl) \in Nat /\ OwedBy(more) \in Nat /\ OwedBy(cl) <= OwedBy(more)
<1> DEFINE f == [w \in Wallet |-> 2 * cl[w].view + cl[w].referral]
           g == [w \in Wallet |-> 2 * more[w].view + more[w].referral]
<1>1. \A w \in Wallet : f[w] \in Nat /\ g[w] \in Nat /\ f[w] <= g[w]
  <2>1. \A w \in Wallet : cl[w].view \in Nat /\ cl[w].referral \in Nat /\ more[w].view \in Nat /\ more[w].referral \in Nat
    OBVIOUS
  <2> QED BY <2>1
<1> HIDE DEF f, g
<1>2. \A w \in Wallet : f[w] \in Int /\ g[w] \in Int /\ f[w] <= g[w]
  BY <1>1
<1>3. Sum(f, Wallet) <= Sum(g, Wallet)
  BY <1>2, SiteAssumption, SumGrows
<1>4. Sum(f, Wallet) \in Nat /\ Sum(g, Wallet) \in Nat
  BY <1>1, SiteAssumption, SumNatural
<1> QED BY <1>3, <1>4 DEF OwedBy, f, g

\* The wallets that are owed nothing add nothing.
LEMMA OwedByThoseOwed ==
  ASSUME NEW cl \in [Wallet -> [view : Nat, referral : Nat]],
         NEW f, \A w \in Wallet : f[w] = 2 * cl[w].view + cl[w].referral,
         NEW T \in SUBSET Wallet, \A w \in Wallet \ T : f[w] <= 0
  PROVE  Sum(f, T) = OwedBy(cl)
<1> DEFINE g == [w \in Wallet |-> 2 * cl[w].view + cl[w].referral]
<1>1. \A w \in Wallet : f[w] \in Nat /\ f[w] \in Int /\ g[w] = f[w]
  <2>1. \A w \in Wallet : cl[w].view \in Nat /\ cl[w].referral \in Nat
    OBVIOUS
  <2> QED BY <2>1
<1>2. OwedBy(cl) = Sum(g, Wallet)
  BY DEF OwedBy
<1> HIDE DEF g
<1>3. Sum(g, Wallet) = Sum(f, Wallet)
  BY <1>1, SiteAssumption, SumSame
<1>4. \A w \in Wallet \ T : f[w] = 0
  BY <1>1
<1>5. Sum(f, Wallet) = Sum(f, T)
  BY <1>1, <1>4, SiteAssumption, SumZeros
<1> QED BY <1>2, <1>3, <1>5

\* A sum over the wallets when one of them changes.
LEMMA WalletsChange ==
  ASSUME NEW f, NEW g, NEW w \in Wallet,
         \A v \in Wallet : f[v] \in Int /\ g[v] \in Int /\ (v # w => g[v] = f[v])
  PROVE  Sum(g, Wallet) = Sum(f, Wallet) + g[w] - f[w] /\ Sum(f, Wallet) \in Int
<1>1. IsFiniteSet(Wallet)
  BY SiteAssumption
<1> QED BY <1>1, SumChange

LEMMA ViewsNumber ==
  ASSUME NEW v \in [Wallet -> Nat]
  PROVE  /\ Sum(v, Wallet) \in Nat
         /\ \A w \in Wallet : Sum([v EXCEPT ![w] = @ + 1], Wallet) = Sum(v, Wallet) + 1
<1>1. \A w \in Wallet : v[w] \in Nat /\ v[w] \in Int
  OBVIOUS
<1>2. Sum(v, Wallet) \in Nat
  BY <1>1, SiteAssumption, SumNatural
<1>3. ASSUME NEW w \in Wallet PROVE Sum([v EXCEPT ![w] = @ + 1], Wallet) = Sum(v, Wallet) + 1
  <2> DEFINE g == [v EXCEPT ![w] = @ + 1]
  <2>1. g[w] = v[w] + 1 /\ \A x \in Wallet : g[x] \in Int /\ (x # w => g[x] = v[x])
    OBVIOUS
  <2> HIDE DEF g
  <2>2. Sum(g, Wallet) = Sum(v, Wallet) + g[w] - v[w]
    BY <1>1, <2>1, WalletsChange
  <2>3. Sum(g, Wallet) = Sum(v, Wallet) + 1
    BY <1>1, <1>2, <2>1, <2>2
  <2> QED BY <2>3 DEF g
<1> QED BY <1>2, <1>3

LEMMA ShownType ==
  ASSUME NEW cs \in [Campaign -> [live : BOOLEAN, shown : Nat]]
  PROVE  Shown(cs) \in Nat
<1> DEFINE f == [d \in Campaign |-> cs[d].shown]
<1>1. \A d \in Campaign : f[d] \in Nat
  OBVIOUS
<1>2. Shown(cs) = Sum(f, Campaign)
  BY DEF Shown
<1> HIDE DEF f
<1> QED BY <1>1, <1>2, SiteAssumption, SumNatural

\* A sum over the campaigns when one of them changes.
LEMMA CampaignsChange ==
  ASSUME NEW f, NEW g, NEW c \in Campaign,
         \A d \in Campaign : f[d] \in Int /\ g[d] \in Int /\ (d # c => g[d] = f[d])
  PROVE  Sum(g, Campaign) = Sum(f, Campaign) + g[c] - f[c] /\ Sum(f, Campaign) \in Int
<1>1. IsFiniteSet(Campaign)
  BY SiteAssumption
<1> QED BY <1>1, SumChange

\* Impressions of the campaigns when one of them changes.
LEMMA ShownNumber ==
  ASSUME NEW cs \in [Campaign -> [live : BOOLEAN, shown : Nat]], NEW c \in Campaign,
         NEW x \in [live : BOOLEAN, shown : Nat]
  PROVE  /\ Shown(cs) \in Nat
         /\ Shown([cs EXCEPT ![c] = x]) = Shown(cs) + x.shown - cs[c].shown
<1> DEFINE m == [cs EXCEPT ![c] = x]
           f == [d \in Campaign |-> cs[d].shown]
           g == [d \in Campaign |-> m[d].shown]
<1>1. /\ \A d \in Campaign : f[d] \in Nat /\ f[d] \in Int /\ g[d] \in Int /\ (d # c => g[d] = f[d])
      /\ f[c] = cs[c].shown /\ g[c] = x.shown
  OBVIOUS
<1>2. Shown(cs) = Sum(f, Campaign) /\ Shown(m) = Sum(g, Campaign)
  BY DEF Shown
<1> HIDE DEF f, g
<1>3. Sum(f, Campaign) \in Nat
  BY <1>1, SiteAssumption, SumNatural
<1>4. Sum(g, Campaign) = Sum(f, Campaign) + g[c] - f[c] /\ Sum(f, Campaign) \in Int
  <2>1. \A d \in Campaign : f[d] \in Int /\ g[d] \in Int /\ (d # c => g[d] = f[d])
    BY <1>1
  <2> QED BY <2>1, CampaignsChange
<1> HIDE DEF m
<1>5. Shown(cs) \in Nat
  BY <1>2, <1>3
<1>6. Shown(m) = Shown(cs) + x.shown - cs[c].shown
  BY <1>1, <1>2, <1>4
<1>7. m = [cs EXCEPT ![c] = x]
  BY DEF m
<1> QED BY <1>5, <1>6, <1>7

\* The live ones have no more than all.
LEMMA ShownLive ==
  ASSUME NEW cs \in [Campaign -> [live : BOOLEAN, shown : Nat]], NEW T \in SUBSET Campaign,
         NEW f, \A c \in T : f[c] = cs[c].shown
  PROVE  Sum(f, T) \in Nat /\ Shown(cs) \in Nat /\ Sum(f, T) <= Shown(cs)
<1> DEFINE g == [c \in Campaign |-> cs[c].shown]
           h == [c \in Campaign |-> IF c \in T THEN g[c] ELSE 0]
<1>1. \A c \in Campaign : /\ g[c] \in Nat /\ h[c] \in Nat /\ g[c] \in Int /\ h[c] \in Int /\ h[c] <= g[c]
                          /\ c \in T => h[c] = f[c] /\ f[c] \in Nat
                          /\ c \notin T => h[c] = 0
  OBVIOUS
<1>2. Shown(cs) = Sum(g, Campaign)
  BY DEF Shown
<1> HIDE DEF g, h
<1>3. Sum(h, Campaign) <= Sum(g, Campaign)
  BY <1>1, SiteAssumption, SumGrows
<1>4. Sum(g, Campaign) \in Nat
  BY <1>1, SiteAssumption, SumNatural
<1>5. Sum(h, Campaign) = Sum(h, T)
  BY <1>1, SiteAssumption, SumZeros
<1>6. IsFiniteSet(T) /\ \A c \in T : h[c] \in Int /\ h[c] = f[c] /\ f[c] \in Nat
  BY <1>1, SiteAssumption, FS_Subset
<1>7. Sum(h, T) = Sum(f, T)
  BY <1>6, SumSame
<1>8. Sum(f, T) \in Nat
  BY <1>6, SumNatural
<1> QED BY <1>2, <1>3, <1>4, <1>5, <1>7, <1>8

LEMMA ActiveFits ==
  ASSUME sessions \in Seq(Session), NEW w, NEW i, i = ActiveSession(w)
  PROVE  i \in Nat /\ (i # 0 => i \in 1 .. Len(sessions) /\ sessions[i].wallet = w)
<1> DEFINE mine == {j \in DOMAIN sessions : sessions[j].wallet = w}
<1>1. Len(sessions) \in Nat /\ DOMAIN sessions = 1 .. Len(sessions)
  BY LenProperties
<1>2. mine \subseteq 1 .. Len(sessions) /\ mine \in SUBSET Int
  BY <1>1
<1>3. IsFiniteSet(mine)
  <2>1. IsFiniteSet(1 .. Len(sessions))
    BY <1>1, FS_Interval
  <2> HIDE DEF mine
  <2> QED BY <1>2, <2>1, FS_Subset
<1>4. CASE mine = {}
  BY <1>4 DEF ActiveSession
<1>5. CASE mine # {}
  <2>1. \E m \in mine : \A j \in mine : j <= m
    BY <1>2, <1>3, <1>5, Extremes
  <2>2. i = CHOOSE m \in mine : \A j \in mine : j <= m
    BY <1>5 DEF ActiveSession
  <2> HIDE DEF mine
  <2>3. i \in mine
    BY <2>1, <2>2
  <2> QED BY <1>1, <2>3 DEF mine
<1> QED BY <1>4, <1>5

\* What handlers went on without, when there is more of it.
LEMMA LossNumber ==
  ASSUME NEW l \in [Wallet -> [MoneyWrite -> Nat]], NEW q \in MoneyWrite
  PROVE  LossOf(l, q) \in Nat
<1> DEFINE f == [w \in Wallet |-> l[w][q]]
<1>1. \A w \in Wallet : f[w] \in Nat
  OBVIOUS
<1>2. LossOf(l, q) = Sum(f, Wallet)
  BY DEF LossOf
<1> HIDE DEF f
<1> QED BY <1>1, <1>2, SiteAssumption, SumNatural

LEMMA LossGrows ==
  ASSUME NEW l \in [Wallet -> [MoneyWrite -> Nat]], NEW m \in [Wallet -> [MoneyWrite -> Nat]],
         NEW q \in MoneyWrite, \A w \in Wallet : l[w][q] <= m[w][q]
  PROVE  LossOf(l, q) <= LossOf(m, q)
<1> DEFINE f == [w \in Wallet |-> l[w][q]]
           g == [w \in Wallet |-> m[w][q]]
<1>1. \A w \in Wallet : f[w] \in Int /\ g[w] \in Int /\ f[w] <= g[w]
  OBVIOUS
<1>2. LossOf(l, q) = Sum(f, Wallet) /\ LossOf(m, q) = Sum(g, Wallet)
  BY DEF LossOf
<1> HIDE DEF f, g
<1> QED BY <1>1, <1>2, SiteAssumption, SumGrows

LEMMA LossMore ==
  ASSUME NEW l \in [Wallet -> [MoneyWrite -> Nat]], NEW w \in Wallet, NEW q \in MoneyWrite
  PROVE  LossOf([l EXCEPT ![w][q] = @ + 1], q) = LossOf(l, q) + 1
<1> DEFINE m == [l EXCEPT ![w][q] = @ + 1]
           f == [v \in Wallet |-> l[v][q]]
           g == [v \in Wallet |-> m[v][q]]
<1>1. \A v \in Wallet : f[v] \in Int /\ g[v] \in Int /\ (v # w => g[v] = f[v])
  OBVIOUS
<1>2. g[w] = f[w] + 1 /\ f[w] \in Int
  OBVIOUS
<1>3. LossOf(l, q) = Sum(f, Wallet) /\ LossOf(m, q) = Sum(g, Wallet)
  BY DEF LossOf
<1> HIDE DEF f, g
<1>4. Sum(g, Wallet) = Sum(f, Wallet) + g[w] - f[w] /\ Sum(f, Wallet) \in Int
  BY <1>1, WalletsChange
<1>5. Sum(g, Wallet) = Sum(f, Wallet) + 1
  BY <1>2, <1>4
<1> QED BY <1>3, <1>5 DEF m

(* Which changes of the database no request in flight is hurt by. *)
RewardsGrow ==
  /\ \A i \in 1 .. Len(sessions) :
       i \in 1 .. Len(sessions') /\ sessions'[i].wallet = sessions[i].wallet
  /\ OwedBy(claims) <= OwedBy(claims') /\ Sum(views, Wallet) <= Sum(views', Wallet)
PeopleGrow ==
  /\ \A e \in Email : members[e].joined => members'[e].joined
  /\ actions \subseteq actions'
DigestsGrow ==
  /\ \A x \in rows' : x \in rows \/ x.at = second
  /\ mailed \subseteq mailed' /\ sentAt \subseteq sentAt' /\ second <= second'

\* What handlers went on without only grows.
GapsGrow ==
  /\ \A w \in Wallet, q \in MoneyWrite : lost[w][q] <= lost'[w][q]
  /\ dropped \subseteq dropped' /\ missed \subseteq missed'

LEMMA GapNumbers ==
  ASSUME SiteTypes
  PROVE  /\ LossOf(lost, "view") \in Nat /\ LossOf(lost, "claim") \in Nat
         /\ IsFiniteSet(dropped) /\ Cardinality(dropped) \in Nat
         /\ Sum(views, Wallet) \in Nat /\ AllViewed \in Nat
         /\ \A w \in Wallet, q \in MoneyWrite : lost[w][q] \in Nat
<1>1. lost \in [Wallet -> [MoneyWrite -> Nat]] /\ "view" \in MoneyWrite /\ "claim" \in MoneyWrite
  BY DEF SiteTypes, MoneyWrite
<1>2. LossOf(lost, "view") \in Nat /\ LossOf(lost, "claim") \in Nat
  BY <1>1, LossNumber
<1>3. IsFiniteSet(Email \X Action)
  BY SiteAssumption, FS_Product
<1>4. IsFiniteSet(dropped) /\ Cardinality(dropped) \in Nat
  BY <1>3, FS_Subset, FS_CardinalityType DEF SiteTypes
<1>5. Sum(views, Wallet) \in Nat
  BY ViewsNumber DEF SiteTypes
<1>6. AllViewed \in Nat
  BY <1>2, <1>5 DEF AllViewed
<1> QED BY <1>1, <1>2, <1>4, <1>5, <1>6

LEMMA GapNumbersNext ==
  ASSUME SiteTypes'
  PROVE  /\ LossOf(lost', "view") \in Nat /\ LossOf(lost', "claim") \in Nat
         /\ IsFiniteSet(dropped') /\ Cardinality(dropped') \in Nat
         /\ Sum(views', Wallet) \in Nat
<1>1. lost' \in [Wallet -> [MoneyWrite -> Nat]] /\ "view" \in MoneyWrite /\ "claim" \in MoneyWrite
  BY DEF SiteTypes, MoneyWrite
<1>2. LossOf(lost', "view") \in Nat /\ LossOf(lost', "claim") \in Nat
  BY <1>1, LossNumber
<1>3. IsFiniteSet(Email \X Action)
  BY SiteAssumption, FS_Product
<1>4. IsFiniteSet(dropped') /\ Cardinality(dropped') \in Nat
  BY <1>3, FS_Subset, FS_CardinalityType DEF SiteTypes
<1>5. Sum(views', Wallet) \in Nat
  BY ViewsNumber DEF SiteTypes
<1> QED BY <1>1, <1>2, <1>4, <1>5

LEMMA GapsMore ==
  ASSUME SiteTypes, SiteTypes', GapsGrow
  PROVE  /\ LossOf(lost, "view") <= LossOf(lost', "view")
         /\ LossOf(lost, "claim") <= LossOf(lost', "claim")
         /\ Cardinality(dropped) <= Cardinality(dropped')
<1>1. /\ lost \in [Wallet -> [MoneyWrite -> Nat]] /\ lost' \in [Wallet -> [MoneyWrite -> Nat]]
      /\ "view" \in MoneyWrite /\ "claim" \in MoneyWrite
  BY DEF SiteTypes, MoneyWrite
<1>2. LossOf(lost, "view") <= LossOf(lost', "view") /\ LossOf(lost, "claim") <= LossOf(lost', "claim")
  BY <1>1, LossGrows DEF GapsGrow
<1>3. Cardinality(dropped) <= Cardinality(dropped')
  BY GapNumbersNext, FS_Subset DEF GapsGrow
<1> QED BY <1>2, <1>3

LEMMA GapsStand == ASSUME SiteTypes, UNCHANGED losses PROVE GapsGrow
<1>1. \A w \in Wallet, q \in MoneyWrite : lost[w][q] \in Nat
  BY GapNumbers
<1> QED BY <1>1 DEF losses, GapsGrow

LEMMA Numbers ==
  ASSUME SiteTypes
  PROVE  /\ OwedBy(claims) \in Nat /\ Sum(views, Wallet) \in Nat
         /\ IsFiniteSet(actions) /\ Cardinality(actions) \in Nat
         /\ \A w : AdsOf(sessions, w) \in Nat
<1>1. OwedBy(claims) \in Nat
  <2>1. \A w \in Wallet : claims[w].view <= claims[w].view /\ claims[w].referral <= claims[w].referral
    BY DEF SiteTypes
  <2>2. claims \in [Wallet -> [view : Nat, referral : Nat]]
    BY DEF SiteTypes
  <2> QED BY <2>1, <2>2, OwedNumber
<1>2. Sum(views, Wallet) \in Nat
  BY ViewsNumber DEF SiteTypes
<1>3. IsFiniteSet(Email \X Action)
  BY SiteAssumption, FS_Product
<1>4. IsFiniteSet(actions) /\ Cardinality(actions) \in Nat
  BY <1>3, FS_Subset, FS_CardinalityType DEF SiteTypes
<1>5. sessions \in Seq(Session)
  BY DEF SiteTypes, Session
<1> QED BY <1>1, <1>2, <1>4, <1>5, AdsNumber

LEMMA NumbersNext ==
  ASSUME SiteTypes'
  PROVE  /\ OwedBy(claims') \in Nat /\ Sum(views', Wallet) \in Nat
         /\ IsFiniteSet(actions') /\ Cardinality(actions') \in Nat
<1>1. OwedBy(claims') \in Nat
  <2>1. \A w \in Wallet : claims'[w].view <= claims'[w].view /\ claims'[w].referral <= claims'[w].referral
    BY DEF SiteTypes
  <2>2. claims' \in [Wallet -> [view : Nat, referral : Nat]]
    BY DEF SiteTypes
  <2> QED BY <2>1, <2>2, OwedNumber
<1>2. Sum(views', Wallet) \in Nat
  BY ViewsNumber DEF SiteTypes
<1>3. IsFiniteSet(Email \X Action)
  BY SiteAssumption, FS_Product
<1>4. IsFiniteSet(actions') /\ Cardinality(actions') \in Nat
  BY <1>3, FS_Subset, FS_CardinalityType DEF SiteTypes
<1> QED BY <1>1, <1>2, <1>4

LEMMA RewardsStand == ASSUME SiteTypes, UNCHANGED rewards PROVE RewardsGrow
BY Numbers DEF rewards, RewardsGrow

LEMMA PeopleStand == ASSUME UNCHANGED people PROVE PeopleGrow
BY DEF people, PeopleGrow

LEMMA DigestsStand ==
  ASSUME SiteTypes, UNCHANGED <<rows, digests>>, second' = second \/ second' = second + 1
  PROVE  DigestsGrow
BY DEF digests, DigestsGrow, SiteTypes

\* A request that another one passes by.
LEMMA OthersFare ==
  ASSUME SiteTypes, SiteTypes', RewardsGrow, PeopleGrow, DigestsGrow, GapsGrow,
         NEW t \in Slot, req'[t] = req[t], RequestFits(req[t])
  PROVE  RequestFits(req[t])'
<1> DEFINE r == req[t]
<1>1. r \in RequestType /\ r = req'[t]
  BY DEF SiteTypes
<1>2. FormFits(r)
  BY DEF RequestFits
<1>3. FormFits(req[t])'
  BY <1>1, <1>2 DEF FormFits
<1>4. SessionFits(req[t])'
  BY <1>1 DEF RequestFits, SessionFits, RewardsGrow
<1>5. MemberFits(req[t])'
  <2>1. r.kind = "activate" => r.who \in Email
    BY <1>2 DEF FormFits
  <2>2. MemberFits(r)
    BY DEF RequestFits
  <2> HIDE DEF r
  <2>3. r.kind = "activate" => /\ r.step >= 2 => members'[r.who].joined
                               /\ r.step = 3 => <<r.who, r.arg>> \in (actions \cup dropped)'
    BY <2>1, <2>2 DEF MemberFits, PeopleGrow, GapsGrow
  <2> QED BY <1>1, <2>3 DEF MemberFits
<1>6. DigestFits(req[t])'
  <2>1. DigestFits(r)
    BY DEF RequestFits
  <2>2. r.seen \in Nat /\ r.since \in Nat /\ second \in Nat /\ second' \in Nat
    BY <1>1 DEF RequestType, SiteTypes
  <2> HIDE DEF r
  <2>3. ASSUME r.kind = "digest" /\ r.step >= 2
        PROVE  r.seen <= second' /\ r.since \in sentAt' \cup {0}
    BY <2>1, <2>2, <2>3 DEF DigestFits, DigestsGrow
  <2>4. ASSUME r.kind = "digest" /\ r.step >= 2, NEW x \in rows', r.since < x.at /\ x.at < r.seen
        PROVE  x \in rows
    <3>1. x.at = second => FALSE
      BY <2>1, <2>2, <2>4 DEF DigestFits
    <3> QED BY <2>4, <3>1 DEF DigestsGrow
  <2>5. ASSUME r.kind = "digest" /\ r.step >= 2, NEW x \in rows', r.since < x.at /\ x.at < r.seen
        PROVE  /\ x.table = "newsletter" /\ r.step \in {3, 4} => x \in r.found \cup missed'
               /\ r.step = 4 => x \in r.found \cup missed'
               /\ r.step = 5 => x \in (mailed \cup missed)'
    BY <2>1, <2>4, <2>5 DEF DigestFits, DigestsGrow, GapsGrow
  <2> QED BY <1>1, <2>3, <2>5 DEF DigestFits
<1>7. ReportFits(req[t])'
  <2>1. ReportFits(r)
    BY DEF RequestFits
  <2>2. Cardinality(actions) <= Cardinality(actions')
    BY NumbersNext, FS_Subset DEF PeopleGrow
  <2>3. /\ Cardinality(actions) \in Nat /\ Cardinality(actions') \in Nat
        /\ OwedBy(claims) \in Nat /\ OwedBy(claims') \in Nat /\ OwedBy(claims) <= OwedBy(claims')
    BY Numbers, NumbersNext DEF RewardsGrow
  <2>4. r.read \in Seq(Nat)
    BY <1>1 DEF RequestType
  <2>5. \A i \in 1 .. Len(r.read) : r.read[i] \in Nat
    BY <2>4, ElementOfSeq
  <2>9. r \in RequestType
    BY <1>1
  <2> HIDE DEF r
  <2>6. r.kind = "scoreboard" /\ r.step >= 2 =>
          /\ Len(r.read) = (IF r.step = 4 THEN 5 ELSE r.step)
          /\ r.read[2] <= r.read[1]
          /\ r.step = 2 => r.read[2] <= Cardinality(actions') + Cardinality(dropped')
          /\ r.step >= 3 /\ r.read[3] > 0 => r.read[2] <= r.read[3] + Cardinality(dropped')
    <3>1. r.kind = "scoreboard" /\ r.step = 2 =>
            r.read[2] \in Nat /\ r.read[2] <= Cardinality(actions) + Cardinality(dropped)
      BY <2>1, <2>5 DEF ReportFits
    <3>2. ASSUME r.kind = "scoreboard" /\ r.step >= 3
          PROVE  r.read[2] \in Nat /\ r.read[3] \in Nat
      <4>1. r.step \in Nat /\ Len(r.read) = (IF r.step = 4 THEN 5 ELSE r.step)
        BY <2>9, <2>1, <3>2 DEF RequestType, ReportFits
      <4>2. 2 \in 1 .. Len(r.read) /\ 3 \in 1 .. Len(r.read)
        BY <3>2, <4>1
      <4> QED BY <2>5, <4>2
    <3>3. /\ Cardinality(dropped) \in Nat /\ Cardinality(dropped') \in Nat
          /\ Cardinality(dropped) <= Cardinality(dropped')
      BY GapNumbers, GapNumbersNext, GapsMore
    <3>4. r.kind = "scoreboard" /\ r.step >= 3 /\ r.read[3] > 0 => r.read[2] <= r.read[3] + Cardinality(dropped')
      <4>1. ASSUME r.kind = "scoreboard" /\ r.step >= 3 /\ r.read[3] > 0
            PROVE  r.read[2] <= r.read[3] + Cardinality(dropped')
        <5>1. r.read[2] \in Nat /\ r.read[3] \in Nat
          BY <3>2, <4>1
        <5>2. r.step >= 2
          BY <2>9, <4>1 DEF RequestType
        <5>3. r.read[2] <= r.read[3] + Cardinality(dropped)
          BY <2>1, <4>1, <5>2 DEF ReportFits
        <5> QED BY <3>3, <5>1, <5>3
      <4> QED BY <4>1
    <3>5. r.kind = "scoreboard" /\ r.step = 2 => r.read[2] <= Cardinality(actions') + Cardinality(dropped')
      BY <2>2, <2>3, <3>1, <3>3
    <3> QED BY <2>1, <3>4, <3>5 DEF ReportFits
  <2>7. r.kind = "pending" /\ r.step = 2 => Len(r.read) = 1 /\ r.read[1] <= OwedBy(claims')
    <3>1. r.kind = "pending" /\ r.step = 2 => r.read[1] \in Nat /\ r.read[1] <= OwedBy(claims)
      BY <2>1, <2>5 DEF ReportFits
    <3> QED BY <2>1, <2>3, <3>1 DEF ReportFits
  <2>8. r.kind \in Report /\ r.step = 1 => r.read = << >>
    BY <2>1 DEF ReportFits
  <2> QED BY <1>1, <2>6, <2>7, <2>8 DEF ReportFits
<1> QED BY <1>3, <1>4, <1>5, <1>6, <1>7 DEF RequestFits


\* Only this request moves.
Only(s) == \A t \in Slot \ {s} : req'[t] = req[t]

LEMMA Together ==
  ASSUME SiteIInv, SiteTypes', RewardsGrow, PeopleGrow, DigestsGrow, GapsGrow,
         NEW s \in Slot, Only(s),
         RequestFits(req[s])', \A w \in Wallet : WalletBooks(w)', ViewsCover',
         ActivatedActed', SentCovers', AnswersLag'
  PROVE  SiteIInv'
<1>1. ASSUME NEW t \in Slot PROVE RequestFits(req[t])'
  <2>1. CASE t = s
    BY <2>1
  <2>2. CASE t # s
    <3>1. SiteTypes /\ req'[t] = req[t] /\ RequestFits(req[t])
      BY <2>2 DEF SiteIInv, Only
    <3> QED BY <3>1, OthersFare
  <2> QED BY <2>1, <2>2
<1> QED BY <1>1 DEF SiteIInv

LEMMA KeepSent ==
  ASSUME SiteIInv, DigestsGrow, GapsGrow, UNCHANGED <<lastSent, sentAt>>, second' \in Nat
  PROVE  SentCovers'
<1>1. second \in Nat /\ sentAt \subseteq Nat
  BY DEF SiteIInv, SiteTypes
<1>2. \A v \in sentAt : v <= second /\ v <= second'
  BY <1>1 DEF SiteIInv, SentCovers, DigestsGrow
<1>3. ASSUME NEW v \in sentAt, NEW x \in rows', x.at < v, x.at \notin sentAt
      PROVE  x \in (mailed \cup missed)'
  <2>1. x \in rows
    BY <1>1, <1>2, <1>3 DEF DigestsGrow
  <2> QED BY <1>3, <2>1 DEF SiteIInv, SentCovers, DigestsGrow, GapsGrow
<1> QED BY <1>2, <1>3 DEF SiteIInv, SentCovers

LEMMA KeepActed ==
  ASSUME SiteIInv, UNCHANGED members, actions \subseteq actions', GapsGrow
  PROVE  ActivatedActed'
BY DEF SiteIInv, ActivatedActed, GapsGrow

\* The numbers of an answer.
LEMMA Said ==
  ASSUME NEW a \in Seq(Nat)
  PROVE  a # << >> => a[1] \in Nat
BY EmptySeq, ElementOfSeq, LenProperties

LEMMA KeepAnswers ==
  ASSUME SiteIInv, SiteTypes', RewardsGrow, GapsGrow, UNCHANGED answers
  PROVE  AnswersLag'
<1>1. /\ OwedBy(claims) \in Nat /\ OwedBy(claims') \in Nat /\ OwedBy(claims) <= OwedBy(claims')
      /\ Sum(views, Wallet) \in Nat /\ Sum(views', Wallet) \in Nat /\ Sum(views, Wallet) <= Sum(views', Wallet)
  BY Numbers, NumbersNext DEF SiteIInv, RewardsGrow
<1>2. AnswersLag
  BY DEF SiteIInv
<1>3. \A k \in Report : answers[k] \in Seq(Nat)
  BY DEF SiteIInv, SiteTypes
<1>4. \A k \in Report : answers[k] # << >> => answers[k][1] \in Nat
  BY <1>3, Said
<1>5. answers["pending"] # << >> => answers["pending"][2] \in Nat
  <2>1. answers["pending"] \in Seq(Nat)
    BY <1>3 DEF Report
  <2> QED BY <1>2, <2>1, ElementOfSeq DEF AnswersLag
<1>7. /\ LossOf(lost, "view") \in Nat /\ LossOf(lost', "view") \in Nat
      /\ LossOf(lost, "view") <= LossOf(lost', "view")
      /\ LossOf(lost, "claim") \in Nat /\ LossOf(lost', "claim") \in Nat
      /\ LossOf(lost, "claim") <= LossOf(lost', "claim")
      /\ Cardinality(dropped) \in Nat /\ Cardinality(dropped') \in Nat
      /\ Cardinality(dropped) <= Cardinality(dropped')
  BY GapNumbers, GapNumbersNext, GapsMore DEF SiteIInv
<1>8. AllViewed \in Nat /\ AllViewed' \in Nat /\ AllViewed <= AllViewed'
  BY <1>1, <1>7 DEF AllViewed
<1>6. /\ answers["campaigns"] # << >> => answers["campaigns"][1] <= AllViewed'
      /\ answers["pending"] # << >> => answers["pending"][2] <= OwedBy(claims')
      /\ answers["dispense"] # << >> => answers["dispense"][1] <= OwedBy(claims')
  <2>1. "campaigns" \in Report /\ "dispense" \in Report
    BY DEF Report
  <2>2. /\ answers["campaigns"] # << >> => answers["campaigns"][1] <= AllViewed
        /\ answers["pending"] # << >> => answers["pending"][2] <= OwedBy(claims)
        /\ answers["dispense"] # << >> => answers["dispense"][1] <= OwedBy(claims)
    BY <1>2 DEF AnswersLag
  <2> QED BY <1>1, <1>4, <1>5, <1>8, <2>1, <2>2
<1>9. answers["scoreboard"] # << >> /\ answers["scoreboard"][3] > 0 =>
        answers["scoreboard"][2] <= answers["scoreboard"][3] + Cardinality(dropped')
  <2>1. answers["scoreboard"] \in Seq(Nat)
    BY <1>3 DEF Report
  <2>2. answers["scoreboard"] # << >> =>
          answers["scoreboard"][2] \in Nat /\ answers["scoreboard"][3] \in Nat
    <3>1. ASSUME answers["scoreboard"] # << >>
          PROVE  2 \in 1 .. Len(answers["scoreboard"]) /\ 3 \in 1 .. Len(answers["scoreboard"])
      BY <1>2, <3>1 DEF AnswersLag
    <3> QED BY <2>1, <3>1, ElementOfSeq
  <2>3. answers["scoreboard"] # << >> /\ answers["scoreboard"][3] > 0 =>
          answers["scoreboard"][2] <= answers["scoreboard"][3] + Cardinality(dropped)
    BY <1>2 DEF AnswersLag
  <2> QED BY <1>7, <2>2, <2>3
<1>10. answers["user"] # << >> => answers["user"][1] <= answers["user"][2] + 2 * LossOf(lost', "claim")
  <2>1. answers["user"] \in Seq(Nat)
    BY <1>3 DEF Report
  <2>2. answers["user"] # << >> => answers["user"][1] \in Nat /\ answers["user"][2] \in Nat
    <3>1. ASSUME answers["user"] # << >>
          PROVE  1 \in 1 .. Len(answers["user"]) /\ 2 \in 1 .. Len(answers["user"])
      BY <1>2, <3>1 DEF AnswersLag
    <3> QED BY <2>1, <3>1, ElementOfSeq
  <2>3. answers["user"] # << >> =>
          answers["user"][1] <= answers["user"][2] + 2 * LossOf(lost, "claim")
    BY <1>2 DEF AnswersLag
  <2> QED BY <1>7, <2>2, <2>3
<1> QED BY <1>2, <1>6, <1>9, <1>10 DEF AnswersLag

LEMMA ColumnNumbers ==
  ASSUME SiteIInv, NEW w \in Wallet
  PROVE  /\ users[w].earned \in Nat /\ users[w].count \in Nat /\ users[w].reward \in Nat
         /\ claims[w].view \in Nat /\ claims[w].referral \in Nat /\ views[w] \in Nat
         /\ AdsOf(sessions, w) \in Nat /\ \A q \in MoneyWrite : lost[w][q] \in Nat
         /\ Noted(w) \in Nat /\ Displayed(w) \in Nat /\ Viewed(w) \in Nat
         /\ Claimed(w) \in Nat /\ Rewarded(w) \in Nat
<1>1. SiteTypes
  BY DEF SiteIInv
<1>2. /\ users[w].earned \in Nat /\ users[w].count \in Nat /\ users[w].reward \in Nat
      /\ claims[w].view \in Nat /\ claims[w].referral \in Nat /\ views[w] \in Nat
  BY <1>1 DEF SiteTypes
<1>3. AdsOf(sessions, w) \in Nat /\ \A q \in MoneyWrite : lost[w][q] \in Nat
  BY <1>1, Numbers, GapNumbers
<1>4. /\ lost[w]["count"] \in Nat /\ lost[w]["session"] \in Nat /\ lost[w]["view"] \in Nat
      /\ lost[w]["claim"] \in Nat /\ lost[w]["reward"] \in Nat
  BY <1>3 DEF MoneyWrite
<1> QED BY <1>2, <1>3, <1>4 DEF Noted, Displayed, Viewed, Claimed, Rewarded

\* A request that leaves the books of rewards alone: it becomes n, which has
\* nothing of them to do.
Calm(n) ==
  /\ n.kind = "ad-view" => n.step \in {1, 2}
  /\ n.kind = "referral" => n.step \in 1 .. 4

LEMMA KeepBooks ==
  ASSUME SiteIInv, NEW s \in Slot, Calm(req'[s]), Only(s),
         UNCHANGED <<sessions, views, claims, lost>>, NEW w \in Wallet,
         users'[w].earned = users[w].earned, users'[w].count = users[w].count,
         users'[w].reward = users[w].reward
  PROVE  WalletBooks(w)'
<1>1. \A k, v, K : /\ Marked(req, k, v, K) \in Nat /\ Marked(req', k, v, K) \in Nat
                    /\ Marked(req', k, v, K) = Marked(req, k, v, K) + By(req[s], req'[s], k, v, K)
  BY MarksMove DEF Only
<1> DEFINE P(k, K) == Marked(req, k, w, K) \in Nat /\ Marked(req', k, w, K) \in Nat
                       /\ Marked(req', k, w, K) <= Marked(req, k, w, K)
<1>2. /\ P("ad-view", {10}) /\ P("ad-view", {8, 9}) /\ P("ad-view", {6, 7})
      /\ P("ad-view", {3, 4, 5}) /\ P("referral", {5})
  <2>1. ASSUME NEW k, NEW K, ~Marks(req'[s], k, w, K) PROVE P(k, K)
    <3>1. By(req[s], req'[s], k, w, K) \in {0, 0 - 1}
      BY <2>1 DEF By
    <3>2. Marked(req, k, w, K) \in Nat /\ Marked(req', k, w, K) \in Nat
          /\ Marked(req', k, w, K) = Marked(req, k, w, K) + By(req[s], req'[s], k, w, K)
      BY <1>1
    <3> QED BY <3>1, <3>2
  <2>2. /\ ~Marks(req'[s], "ad-view", w, {10}) /\ ~Marks(req'[s], "ad-view", w, {8, 9})
        /\ ~Marks(req'[s], "ad-view", w, {6, 7}) /\ ~Marks(req'[s], "ad-view", w, {3, 4, 5})
        /\ ~Marks(req'[s], "referral", w, {5})
    BY DEF Calm, Marks
  <2> HIDE DEF P
  <2> QED BY <2>1, <2>2
<1>3. /\ Noted(w)' = Noted(w) /\ Displayed(w)' = Displayed(w) /\ Viewed(w)' = Viewed(w)
      /\ Claimed(w)' = Claimed(w) /\ Rewarded(w)' = Rewarded(w)
  BY DEF Noted, Displayed, Viewed, Claimed, Rewarded
<1>4. /\ users[w].earned \in Nat /\ claims[w].referral \in Nat
      /\ Noted(w) \in Nat /\ Displayed(w) \in Nat /\ Viewed(w) \in Nat
      /\ Claimed(w) \in Nat /\ Rewarded(w) \in Nat
  BY ColumnNumbers
<1>5. WalletBooks(w)
  BY DEF SiteIInv
<1> QED BY <1>2, <1>3, <1>4, <1>5 DEF WalletBooks

LEMMA KeepViews ==
  ASSUME SiteIInv, NEW s \in Slot, ~Shows(req'[s]), Only(s),
         UNCHANGED <<campaigns, views, lost>>
  PROVE  ViewsCover'
<1>1. AllViewed \in Nat /\ AllViewed' = AllViewed
  BY GapNumbers DEF SiteIInv, AllViewed
<1>2. /\ Showing(req) \in Nat /\ Showing(req') \in Nat
      /\ Showing(req') = Showing(req) + ShowsBy(req[s], req'[s])
  BY ShowsMove DEF Only
<1>3. ShowsBy(req[s], req'[s]) \in {0, 0 - 1}
  BY DEF ShowsBy
<1>4. Shown(campaigns) \in Nat
  BY ShownType DEF SiteIInv, SiteTypes
<1>5. Shown(campaigns) + Showing(req) <= AllViewed
  BY DEF SiteIInv, ViewsCover
<1>6. Shown(campaigns) + Showing(req') <= AllViewed
  BY <1>1, <1>2, <1>3, <1>4, <1>5
<1> QED BY <1>1, <1>6 DEF ViewsCover

(* How a request goes on. *)
Stepped(r) == [r EXCEPT !.step = @ + 1]

LEMMA SteppedFits ==
  ASSUME NEW r \in RequestType
  PROVE  LET n == Stepped(r)
         IN /\ n \in RequestType /\ n.kind = r.kind /\ n.step = r.step + 1 /\ n.who = r.who
            /\ n.arg = r.arg /\ n.seen = r.seen /\ n.since = r.since /\ n.found = r.found
            /\ n.read = r.read
BY DEF Stepped, RequestType

LEMMA IdleFits ==
  /\ IdleSlot \in RequestType /\ IdleSlot.kind = Null /\ Null \notin Kinds
  /\ Calm(IdleSlot) /\ ~Shows(IdleSlot)
<1>1. << >> \in Seq(Nat)
  BY EmptySeq
<1> QED BY <1>1 DEF IdleSlot, RequestType, Kinds, Null, Args, Calm, Shows

LEMMA Ending ==
  ASSUME SiteIInv, NEW s \in Slot, Done(s)
  PROVE  /\ Only(s) /\ req'[s] = IdleSlot /\ req' \in [Slot -> RequestType]
         /\ RequestFits(req[s])' /\ Calm(req'[s]) /\ ~Shows(req'[s])
<1>1. req \in [Slot -> RequestType]
  BY DEF SiteIInv, SiteTypes
<1>2. req'[s] = IdleSlot /\ req' \in [Slot -> RequestType] /\ Only(s)
  BY <1>1, IdleFits DEF Done, Only
<1>3. RequestFits(req[s])'
  BY <1>2, IdleFits DEF RequestFits, FormFits, SessionFits, MemberFits, DigestFits, ReportFits,
     Null, Report
<1> QED BY <1>2, <1>3, IdleFits

LEMMA Going ==
  ASSUME SiteIInv, NEW s \in Slot, NEW r \in RequestType, Proceed(s, r),
         r.step # Len(Queries(r.kind))
  PROVE  Only(s) /\ req'[s] = Stepped(r) /\ req' \in [Slot -> RequestType]
<1>1. req \in [Slot -> RequestType] /\ req' = [req EXCEPT ![s] = Stepped(r)]
  BY DEF SiteIInv, SiteTypes, Proceed, Stepped
<1>2. Stepped(r) \in RequestType
  BY SteppedFits
<1> QED BY <1>1, <1>2 DEF Only

\* Where a request is.
LEMMA Here ==
  ASSUME SiteIInv, NEW s \in Slot, NEW q, At(s, q)
  PROVE  /\ req[s] \in RequestType /\ FormFits(req[s]) /\ req[s].kind \in Kinds
         /\ req[s].step \in 1 .. Len(Queries(req[s].kind))
         /\ Home(req[s].kind, req[s].step, q)
<1>1. req[s] \in RequestType /\ FormFits(req[s]) /\ req[s].kind # Null
      /\ q = Queries(req[s].kind)[req[s].step]
  BY DEF SiteIInv, SiteTypes, RequestFits, At
<1>2. req[s].kind \in Kinds /\ req[s].step \in 1 .. Len(Queries(req[s].kind))
  BY <1>1 DEF RequestType, FormFits
<1>3. Home(req[s].kind, req[s].step, Queries(req[s].kind)[req[s].step])
  BY <1>2, Places
<1> QED BY <1>1, <1>2, <1>3

\* The database stays as it is, and nothing that was lost is found.
LEMMA Passing ==
  ASSUME SiteIInv, UNCHANGED <<db, second>>, NEW s \in Slot, Only(s),
         req' \in [Slot -> RequestType], RequestFits(req[s])',
         lost' \in [Wallet -> [MoneyWrite -> Nat]], dropped' \subseteq Email \X Action, GapsGrow,
         \A w \in Wallet : WalletBooks(w)', ViewsCover',
         answers' \in [Report -> Seq(Nat)], AnswersLag'
  PROVE  SiteIInv'
<1>1. UNCHANGED <<rewards, people, digests, rows, second>>
  BY DEF db, people
<1>2. SiteTypes /\ SiteTypes'
  BY DEF SiteIInv, SiteTypes, db, rewards, people, digests
<1>3. RewardsGrow /\ PeopleGrow /\ DigestsGrow
  BY <1>1, <1>2, RewardsStand, PeopleStand, DigestsStand
<1>6. ActivatedActed'
  BY <1>1, KeepActed DEF people
<1>7. SentCovers'
  BY <1>1, <1>2, <1>3, KeepSent DEF digests, SiteTypes
<1> QED BY <1>2, <1>3, <1>6, <1>7, Together

\* The database stays as it is and nothing is lost.
LEMMA Quietly ==
  ASSUME SiteIInv, UNCHANGED <<db, second, losses>>, NEW s \in Slot, Only(s),
         req' \in [Slot -> RequestType], RequestFits(req[s])', Calm(req'[s]), ~Shows(req'[s]),
         answers' \in [Report -> Seq(Nat)], AnswersLag'
  PROVE  SiteIInv'
<1>1. UNCHANGED <<users, sessions, views, claims, campaigns, lost, dropped>>
  BY DEF db, rewards, losses
<1>2. GapsGrow
  BY GapsStand DEF SiteIInv
<1>3. \A w \in Wallet : WalletBooks(w)'
  BY <1>1, KeepBooks
<1>4. ViewsCover'
  BY <1>1, KeepViews
<1>5. lost' \in [Wallet -> [MoneyWrite -> Nat]] /\ dropped' \subseteq Email \X Action
  BY <1>1 DEF SiteIInv, SiteTypes
<1> QED BY <1>2, <1>3, <1>4, <1>5, Passing

LEMMA AnswersStand ==
  ASSUME SiteIInv, UNCHANGED <<db, answers, losses>>
  PROVE  answers' \in [Report -> Seq(Nat)] /\ AnswersLag'
BY DEF SiteIInv, SiteTypes, AnswersLag, AllViewed, db, rewards, losses

LEMMA FailStep ==
  ASSUME SiteIInv, NEW s \in Slot, FailRequest(s)
  PROVE  SiteIInv'
<1>1. Done(s) /\ UNCHANGED <<db, second, answers, losses>>
  BY DEF FailRequest, swallowed, losses
<1>2. /\ Only(s) /\ req' \in [Slot -> RequestType]
      /\ RequestFits(req[s])' /\ Calm(req'[s]) /\ ~Shows(req'[s])
  BY <1>1, Ending
<1> QED BY <1>1, <1>2, AnswersStand, Quietly

LEMMA SecondStep ==
  ASSUME SiteIInv, SecondPasses
  PROVE  SiteIInv'
<1>1. UNCHANGED <<rewards, people, digests, rows, answers, req, losses>> /\ second' = second + 1
  BY DEF SecondPasses, db, people, swallowed, losses
<1>2. SiteTypes /\ SiteTypes'
  <2>1. second' \in Nat \ {0}
    BY <1>1 DEF SiteIInv, SiteTypes
  <2> QED BY <1>1, <2>1 DEF SiteIInv, SiteTypes, rewards, people, digests, losses
<1>3. RewardsGrow /\ PeopleGrow /\ DigestsGrow /\ GapsGrow
  BY <1>1, <1>2, RewardsStand, PeopleStand, DigestsStand, GapsStand
<1>4. \A t \in Slot : RequestFits(req[t])'
  BY <1>1, <1>2, <1>3, OthersFare DEF SiteIInv
<1>5. (\A w \in Wallet : WalletBooks(w)') /\ ViewsCover'
  BY <1>1 DEF SiteIInv, WalletBooks, ViewsCover, rewards, losses, AllViewed, Noted, Displayed, Viewed,
     Claimed, Rewarded
<1>6. ActivatedActed' /\ AnswersLag'
  BY <1>1 DEF SiteIInv, ActivatedActed, AnswersLag, AllViewed, people, rewards, losses
<1>7. SentCovers'
  BY <1>1, <1>2, <1>3, KeepSent DEF digests, SiteTypes
<1> QED BY <1>2, <1>4, <1>5, <1>6, <1>7 DEF SiteIInv

\* A new request.
Fresh(kind, who, arg) ==
  [IdleSlot EXCEPT !.kind = kind, !.step = 1, !.who = who, !.arg = arg]

LEMMA ServeStep ==
  ASSUME SiteIInv, NEW s \in Slot, NEW kind \in Kinds,
         NEW who \in Wallet \cup Email \cup {Null}, NEW arg \in Args,
         Serve(s, kind, who, arg), FormFits(Fresh(kind, who, arg))
  PROVE  SiteIInv'
<1> DEFINE n == Fresh(kind, who, arg)
<1>1. /\ n \in RequestType /\ n.kind = kind /\ n.step = 1 /\ n.read = << >> /\ n.seen = 0
  <2>1. IdleSlot \in RequestType
    BY IdleFits
  <2>2. << >> \in Seq(Nat)
    BY EmptySeq
  <2> QED BY <2>1, <2>2 DEF Fresh, RequestType, IdleSlot
<1>2. req \in [Slot -> RequestType] /\ req' = [req EXCEPT ![s] = n] /\ UNCHANGED <<db, answers, second, losses>>
  BY DEF SiteIInv, SiteTypes, Serve, Fresh, swallowed, losses
<1>3. FormFits(n)
  OBVIOUS
<1> HIDE DEF n
<1>4. req'[s] = n /\ req' \in [Slot -> RequestType] /\ Only(s)
  BY <1>1, <1>2 DEF Only
<1>5. RequestFits(req[s])'
  <2>1. FormFits(req[s])'
    BY <1>3, <1>4 DEF FormFits
  <2>2. SessionFits(req[s])' /\ MemberFits(req[s])' /\ DigestFits(req[s])'
    BY <1>1, <1>4 DEF SessionFits, MemberFits, DigestFits
  <2>3. ReportFits(req[s])'
    BY <1>1, <1>4 DEF ReportFits
  <2> QED BY <2>1, <2>2, <2>3 DEF RequestFits
<1>6. Calm(req'[s]) /\ ~Shows(req'[s])
  BY <1>1, <1>4 DEF Calm, Shows
<1>7. answers' \in [Report -> Seq(Nat)] /\ AnswersLag'
  BY <1>2, AnswersStand
<1> QED BY <1>2, <1>4, <1>5, <1>6, <1>7, Quietly

LEMMA ReceiveStep ==
  ASSUME SiteIInv, NEW s \in Slot, Receive(s)
  PROVE  SiteIInv'
<1>1. ASSUME NEW k \in Kinds, NEW w, NEW a
      PROVE  Fresh(k, w, a).kind = k /\ Fresh(k, w, a).step = 1 /\ Fresh(k, w, a).who = w
             /\ Fresh(k, w, a).arg = a
  BY DEF Fresh, IdleSlot
<1>2. \A k \in Kinds : 1 \in 1 .. Len(Queries(k))
  <2>1. ASSUME NEW k \in Kinds PROVE Len(Queries(k)) \in {1, 2, 3, 4, 5, 10}
    BY Lengths DEF Kinds
  <2> QED BY <2>1
<1>3. Null \in Args /\ Wallet \subseteq Args /\ Campaign \subseteq Args /\ Action \subseteq Args
      /\ Stage \subseteq Args /\ Week \subseteq Args
  BY DEF Args
<1>4. CASE \E w \in Wallet, c \in Campaign \cup {Null} : Serve(s, "ad-view", w, c)
  <2>1. PICK w \in Wallet, c \in Campaign \cup {Null} : Serve(s, "ad-view", w, c)
    BY <1>4
  <2>2. FormFits(Fresh("ad-view", w, c)) /\ "ad-view" \in Kinds /\ c \in Args
    <3>1. "ad-view" \in Kinds
      BY DEF Kinds
    <3>2. FormFits(Fresh("ad-view", w, c))
      BY <1>1, <1>2, <3>1 DEF FormFits
    <3> QED BY <1>3, <3>1, <3>2
  <2>3. w \in Wallet \cup Email \cup {Null}
    OBVIOUS
  <2> QED BY <2>1, <2>2, <2>3, ServeStep
<1>5. CASE \E w, r \in Wallet : w # r /\ Serve(s, "referral", w, r)
  <2>1. PICK w \in Wallet, r \in Wallet : Serve(s, "referral", w, r)
    BY <1>5
  <2>2. FormFits(Fresh("referral", w, r)) /\ "referral" \in Kinds /\ r \in Args
    <3>1. "referral" \in Kinds
      BY DEF Kinds
    <3>2. FormFits(Fresh("referral", w, r))
      BY <1>1, <1>2, <3>1 DEF FormFits
    <3> QED BY <1>3, <3>1, <3>2
  <2>3. w \in Wallet \cup Email \cup {Null}
    OBVIOUS
  <2> QED BY <2>1, <2>2, <2>3, ServeStep
<1>6. CASE \E e \in Email : Serve(s, "join", e, Null) \/ Serve(s, "subscribe", e, Null)
                            \/ Serve(s, "hire-lead", e, Null)
  <2>1. PICK e \in Email, k \in {"join", "subscribe", "hire-lead"} : Serve(s, k, e, Null)
    BY <1>6
  <2>2. k \in Kinds
    BY DEF Kinds
  <2>3. FormFits(Fresh(k, e, Null))
    BY <1>1, <1>2, <2>2 DEF FormFits
  <2>4. e \in Wallet \cup Email \cup {Null} /\ Null \in Args
    BY <1>3
  <2> QED BY <2>1, <2>2, <2>3, <2>4, ServeStep
<1>7. CASE \E e \in Email, a \in Action : Serve(s, "activate", e, a)
  <2>1. PICK e \in Email, a \in Action : Serve(s, "activate", e, a)
    BY <1>7
  <2>2. FormFits(Fresh("activate", e, a)) /\ "activate" \in Kinds /\ a \in Args
    <3>1. "activate" \in Kinds
      BY DEF Kinds
    <3>2. FormFits(Fresh("activate", e, a))
      BY <1>1, <1>2, <3>1 DEF FormFits
    <3> QED BY <1>3, <3>1, <3>2
  <2>3. e \in Wallet \cup Email \cup {Null}
    OBVIOUS
  <2> QED BY <2>1, <2>2, <2>3, ServeStep
<1>8. CASE \E c \in Campaign : Serve(s, "campaign", Null, c)
  <2>1. PICK c \in Campaign : Serve(s, "campaign", Null, c)
    BY <1>8
  <2>2. FormFits(Fresh("campaign", Null, c)) /\ "campaign" \in Kinds /\ c \in Args
    <3>1. "campaign" \in Kinds
      BY DEF Kinds
    <3>2. FormFits(Fresh("campaign", Null, c))
      BY <1>1, <1>2, <3>1 DEF FormFits
    <3> QED BY <1>3, <3>1, <3>2
  <2>3. Null \in Wallet \cup Email \cup {Null}
    OBVIOUS
  <2> QED BY <2>1, <2>2, <2>3, ServeStep
<1>9. CASE \E stage \in Stage : Serve(s, "funding", Null, stage)
  <2>1. PICK stage \in Stage : Serve(s, "funding", Null, stage)
    BY <1>9
  <2>2. FormFits(Fresh("funding", Null, stage)) /\ "funding" \in Kinds /\ stage \in Args
    <3>1. "funding" \in Kinds
      BY DEF Kinds
    <3>2. FormFits(Fresh("funding", Null, stage))
      BY <1>1, <1>2, <3>1 DEF FormFits
    <3> QED BY <1>3, <3>1, <3>2
  <2>3. Null \in Wallet \cup Email \cup {Null}
    OBVIOUS
  <2> QED BY <2>1, <2>2, <2>3, ServeStep
<1>10. CASE \E w \in Week : Serve(s, "weekly-metrics", Null, w)
  <2>1. PICK w \in Week : Serve(s, "weekly-metrics", Null, w)
    BY <1>10
  <2>2. FormFits(Fresh("weekly-metrics", Null, w)) /\ "weekly-metrics" \in Kinds /\ w \in Args
    <3>1. "weekly-metrics" \in Kinds
      BY DEF Kinds
    <3>2. FormFits(Fresh("weekly-metrics", Null, w))
      BY <1>1, <1>2, <3>1 DEF FormFits
    <3> QED BY <1>3, <3>1, <3>2
  <2>3. Null \in Wallet \cup Email \cup {Null}
    OBVIOUS
  <2> QED BY <2>1, <2>2, <2>3, ServeStep
<1>11. CASE \E w \in Wallet : Serve(s, "user", w, Null)
  <2>1. PICK w \in Wallet : Serve(s, "user", w, Null)
    BY <1>11
  <2>2. FormFits(Fresh("user", w, Null)) /\ "user" \in Kinds
    <3>1. "user" \in Kinds
      BY DEF Kinds
    <3>2. FormFits(Fresh("user", w, Null))
      BY <1>1, <1>2, <3>1 DEF FormFits
    <3> QED BY <3>1, <3>2
  <2>3. w \in Wallet \cup Email \cup {Null} /\ Null \in Args
    BY <1>3
  <2> QED BY <2>1, <2>2, <2>3, ServeStep
<1>12. CASE \E kind \in (Report \ {"user"}) \cup {"digest"} : Serve(s, kind, Null, Null)
  <2>1. PICK k \in (Report \ {"user"}) \cup {"digest"} : Serve(s, k, Null, Null)
    BY <1>12
  <2>2. k \in Kinds /\ k \in {"campaigns", "scoreboard", "pending", "dispense", "digest"}
    BY DEF Kinds, Report
  <2>3. FormFits(Fresh(k, Null, Null))
    BY <1>1, <1>2, <2>2 DEF FormFits
  <2>4. Null \in Wallet \cup Email \cup {Null} /\ Null \in Args
    BY <1>3
  <2> QED BY <2>1, <2>2, <2>3, <2>4, ServeStep
<1> QED BY <1>4, <1>5, <1>6, <1>7, <1>8, <1>9, <1>10, <1>11, <1>12 DEF Receive

(* Ad views and referrals. *)
User == [known : BOOLEAN, count : Nat, earned : Nat, referrer : Wallet \cup {Null}, reward : Nat]
Claims == [view : Nat, referral : Nat]
Ad == [live : BOOLEAN, shown : Nat]

RewardTypes ==
  /\ users \in [Wallet -> User] /\ sessions \in Seq(Session) /\ views \in [Wallet -> Nat]
  /\ claims \in [Wallet -> Claims] /\ campaigns \in [Campaign -> Ad]

LEMMA RewardsTyped == ASSUME SiteIInv PROVE RewardTypes /\ req \in [Slot -> RequestType]
BY DEF SiteIInv, SiteTypes, RewardTypes, User, Session, Claims, Ad

LEMMA RewardsMove ==
  ASSUME SiteIInv, RewardTypes', RewardsGrow, UNCHANGED <<people, digests, answers, second, losses>>,
         NEW s \in Slot, Only(s), req' \in [Slot -> RequestType], RequestFits(req[s])',
         \A v \in Wallet : WalletBooks(v)', ViewsCover'
  PROVE  SiteIInv'
<1>1. SiteTypes /\ SiteTypes'
  BY DEF SiteIInv, SiteTypes, RewardTypes, User, Session, Claims, Ad, people, digests, losses
<1>2. UNCHANGED <<people, digests, rows, second, answers>>
  BY DEF people
<1>3. PeopleGrow /\ DigestsGrow /\ GapsGrow
  BY <1>1, <1>2, PeopleStand, DigestsStand, GapsStand
<1>4. ActivatedActed'
  BY <1>2, <1>3, KeepActed DEF people
<1>5. SentCovers'
  BY <1>1, <1>2, <1>3, KeepSent DEF digests, SiteTypes
<1>6. AnswersLag'
  BY <1>1, <1>2, <1>3, KeepAnswers
<1> QED BY <1>1, <1>3, <1>4, <1>5, <1>6, Together

\* What changes in the books of a wallet.
Moves(v, e, c, rw, cl, cr, vw, a) ==
  /\ users'[v].earned = users[v].earned + e /\ users'[v].count = users[v].count + c
  /\ users'[v].reward = users[v].reward + rw /\ claims'[v].view = claims[v].view + cl
  /\ claims'[v].referral = claims[v].referral + cr /\ views'[v] = views[v] + vw
  /\ AdsOf(sessions', v) = AdsOf(sessions, v) + a

\* The same, with what is lost.
Turns(v, e, c, rw, cl, cr, vw, a) ==
  /\ users'[v].earned = users[v].earned + e /\ Noted(v)' = Noted(v) + c
  /\ Rewarded(v)' = Rewarded(v) + rw /\ Claimed(v)' = Claimed(v) + cl
  /\ claims'[v].referral = claims[v].referral + cr /\ Viewed(v)' = Viewed(v) + vw
  /\ Displayed(v)' = Displayed(v) + a

\* What changes in the counts of requests.
Counts(s, v, b10, b89, b67, b345, r5) ==
  /\ By(req[s], req'[s], "ad-view", v, {10}) = b10
  /\ By(req[s], req'[s], "ad-view", v, {8, 9}) = b89
  /\ By(req[s], req'[s], "ad-view", v, {6, 7}) = b67
  /\ By(req[s], req'[s], "ad-view", v, {3, 4, 5}) = b345
  /\ By(req[s], req'[s], "referral", v, {5}) = r5

LEMMA CountsMove ==
  ASSUME NEW s \in Slot, Only(s)
  PROVE  \A k, v, K :
           /\ Marked(req, k, v, K) \in Nat /\ Marked(req', k, v, K) \in Nat
           /\ Marked(req', k, v, K) = Marked(req, k, v, K) + By(req[s], req'[s], k, v, K)
           /\ By(req[s], req'[s], k, v, K) \in Int
<1>1. \A k, v, K : /\ Marked(req, k, v, K) \in Nat /\ Marked(req', k, v, K) \in Nat
                    /\ Marked(req', k, v, K) = Marked(req, k, v, K) + By(req[s], req'[s], k, v, K)
  BY MarksMove DEF Only
<1>2. \A k, v, K : By(req[s], req'[s], k, v, K) \in Int
  BY DEF By
<1> QED BY <1>1, <1>2

LEMMA BookNumbers ==
  ASSUME SiteIInv, NEW v \in Wallet
  PROVE  /\ users[v] \in User /\ claims[v] \in Claims
         /\ users[v].earned \in Nat /\ users[v].count \in Nat /\ users[v].reward \in Nat
         /\ claims[v].view \in Nat /\ claims[v].referral \in Nat /\ views[v] \in Nat
         /\ AdsOf(sessions, v) \in Nat
BY RewardsTyped, Numbers DEF RewardTypes, User, Claims, SiteIInv

LEMMA BooksTurn ==
  ASSUME SiteIInv, NEW s \in Slot, Only(s), NEW v \in Wallet,
         NEW e \in {0, 1}, NEW c \in {0, 1}, NEW rw \in {0, 1}, NEW cl \in {0, 1},
         NEW cr \in {0, 1}, NEW vw \in {0, 1}, NEW a \in {0, 1}, Turns(v, e, c, rw, cl, cr, vw, a),
         NEW b10, NEW b89, NEW b67, NEW b345, NEW r5, Counts(s, v, b10, b89, b67, b345, r5),
         e + b10 <= cl, cl + b89 <= vw, vw + b67 <= a, a + b345 <= c, cr + r5 <= rw
  PROVE  WalletBooks(v)'
<1>1. \A k, K : /\ Marked(req, k, v, K) \in Nat /\ Marked(req', k, v, K) \in Nat
                /\ Marked(req', k, v, K) = Marked(req, k, v, K) + By(req[s], req'[s], k, v, K)
                /\ By(req[s], req'[s], k, v, K) \in Int
  BY CountsMove
<1>2. b10 \in Int /\ b89 \in Int /\ b67 \in Int /\ b345 \in Int /\ r5 \in Int
  BY <1>1 DEF Counts
<1>3. /\ users[v].earned \in Nat /\ claims[v].referral \in Nat
      /\ Noted(v) \in Nat /\ Displayed(v) \in Nat /\ Viewed(v) \in Nat
      /\ Claimed(v) \in Nat /\ Rewarded(v) \in Nat
  BY ColumnNumbers
<1>4. /\ Marked(req', "ad-view", v, {10}) = Marked(req, "ad-view", v, {10}) + b10
      /\ Marked(req', "ad-view", v, {8, 9}) = Marked(req, "ad-view", v, {8, 9}) + b89
      /\ Marked(req', "ad-view", v, {6, 7}) = Marked(req, "ad-view", v, {6, 7}) + b67
      /\ Marked(req', "ad-view", v, {3, 4, 5}) = Marked(req, "ad-view", v, {3, 4, 5}) + b345
      /\ Marked(req', "referral", v, {5}) = Marked(req, "referral", v, {5}) + r5
  BY <1>1 DEF Counts
<1>5. WalletBooks(v)
  BY DEF SiteIInv
<1>6. /\ users'[v].earned + Marked(req', "ad-view", v, {10}) <= Claimed(v)'
      /\ Claimed(v)' + Marked(req', "ad-view", v, {8, 9}) <= Viewed(v)'
      /\ Viewed(v)' + Marked(req', "ad-view", v, {6, 7}) <= Displayed(v)'
      /\ Displayed(v)' + Marked(req', "ad-view", v, {3, 4, 5}) <= Noted(v)'
      /\ claims'[v].referral + Marked(req', "referral", v, {5}) <= Rewarded(v)'
  BY <1>1, <1>2, <1>3, <1>4, <1>5 DEF WalletBooks, Turns
<1> QED BY <1>6 DEF WalletBooks

LEMMA BooksMove ==
  ASSUME SiteIInv, NEW s \in Slot, Only(s), NEW v \in Wallet, UNCHANGED losses,
         NEW e \in {0, 1}, NEW c \in {0, 1}, NEW rw \in {0, 1}, NEW cl \in {0, 1},
         NEW cr \in {0, 1}, NEW vw \in {0, 1}, NEW a \in {0, 1}, Moves(v, e, c, rw, cl, cr, vw, a),
         NEW b10, NEW b89, NEW b67, NEW b345, NEW r5, Counts(s, v, b10, b89, b67, b345, r5),
         e + b10 <= cl, cl + b89 <= vw, vw + b67 <= a, a + b345 <= c, cr + r5 <= rw
  PROVE  WalletBooks(v)'
<1>1. lost' = lost
  BY DEF losses
<1>2. /\ users[v].earned \in Nat /\ users[v].count \in Nat /\ users[v].reward \in Nat
      /\ claims[v].view \in Nat /\ claims[v].referral \in Nat /\ views[v] \in Nat
      /\ AdsOf(sessions, v) \in Nat
      /\ lost[v]["count"] \in Nat /\ lost[v]["session"] \in Nat /\ lost[v]["view"] \in Nat
      /\ lost[v]["claim"] \in Nat /\ lost[v]["reward"] \in Nat
  BY ColumnNumbers DEF MoneyWrite
<1>3. Noted(v)' = Noted(v) + c /\ Rewarded(v)' = Rewarded(v) + rw
  BY <1>1, <1>2 DEF Moves, Noted, Rewarded
<1>4. Claimed(v)' = Claimed(v) + cl /\ Viewed(v)' = Viewed(v) + vw
  BY <1>1, <1>2 DEF Moves, Claimed, Viewed
<1>5. Displayed(v)' = Displayed(v) + a
  <2>1. Displayed(v)' = AdsOf(sessions', v) + lost[v]["session"]
    BY <1>1 DEF Displayed
  <2>2. AdsOf(sessions', v) = AdsOf(sessions, v) + a /\ a \in Nat
    BY DEF Moves
  <2>3. Displayed(v) = AdsOf(sessions, v) + lost[v]["session"]
    BY DEF Displayed
  <2> QED BY <1>2, <2>1, <2>2, <2>3
<1>6. Turns(v, e, c, rw, cl, cr, vw, a)
  BY <1>3, <1>4, <1>5 DEF Turns, Moves
<1> QED BY <1>6, BooksTurn

LEMMA UserMore ==
  ASSUME NEW u \in User, NEW f
  PROVE  /\ [u EXCEPT !.known = TRUE] \in User
         /\ f \in Wallet => [u EXCEPT !.referrer = f] \in User
         /\ [u EXCEPT !.count = u.count + 1] \in User
         /\ [u EXCEPT !.earned = u.earned + 1] \in User
         /\ [u EXCEPT !.reward = u.reward + 1] \in User
<1>1. u.count + 1 \in Nat /\ u.earned + 1 \in Nat /\ u.reward + 1 \in Nat
  BY DEF User
<1> QED BY <1>1 DEF User

LEMMA AdFits ==
  ASSUME NEW s \in Slot, req'[s].kind = "ad-view", req'[s].who \in Wallet,
         req'[s].step \in 1 .. 10, SessionFits(req[s])'
  PROVE  RequestFits(req[s])'
<1>1. FormFits(req[s])'
  BY Lengths DEF FormFits
<1>2. MemberFits(req[s])' /\ DigestFits(req[s])' /\ ReportFits(req[s])'
  BY DEF MemberFits, DigestFits, ReportFits, Report
<1> QED BY <1>1, <1>2 DEF RequestFits

LEMMA ReferralFits ==
  ASSUME NEW s \in Slot, req'[s].kind = "referral", req'[s].who \in Wallet,
         req'[s].arg \in Wallet, req'[s].step \in 1 .. 5
  PROVE  RequestFits(req[s])'
<1>1. FormFits(req[s])'
  BY Lengths DEF FormFits
<1>2. SessionFits(req[s])' /\ MemberFits(req[s])' /\ DigestFits(req[s])' /\ ReportFits(req[s])'
  BY DEF SessionFits, MemberFits, DigestFits, ReportFits, Report
<1> QED BY <1>1, <1>2 DEF RequestFits

\* An ad view at its k-th query goes on.
AdAt(s, k) == req[s].kind = "ad-view" /\ req[s].step = k /\ req[s].who \in Wallet
AdGoes(s, k) ==
  /\ Only(s) /\ req' \in [Slot -> RequestType]
  /\ req'[s].kind = "ad-view" /\ req'[s].step = k + 1 /\ req'[s].who = req[s].who

LEMMA AdHere ==
  ASSUME SiteIInv, NEW s \in Slot, NEW q, At(s, q)
  PROVE  /\ q = "user" => AdAt(s, 1)
         /\ q = "count" => AdAt(s, 2)
         /\ q = "id" => AdAt(s, 3)
         /\ q = "active" => AdAt(s, 4)
         /\ q = "session" => AdAt(s, 5)
         /\ q = "created" => AdAt(s, 6)
         /\ q = "view" => AdAt(s, 7)
         /\ q = "impression" => AdAt(s, 8)
         /\ q = "claim" => AdAt(s, 9)
         /\ q = "total" => AdAt(s, 10)
<1>1. req[s].kind = "ad-view" => req[s].who \in Wallet
  BY Here DEF FormFits
<1>2. Home(req[s].kind, req[s].step, q)
  BY Here
<1> QED BY <1>1, <1>2 DEF Home, AdAt

LEMMA AdGoesOn ==
  ASSUME SiteIInv, NEW s \in Slot, NEW k \in 1 .. 9, AdAt(s, k),
         NEW r \in RequestType, r.kind = "ad-view", r.step = k, r.who = req[s].who, Proceed(s, r)
  PROVE  AdGoes(s, k) /\ req'[s].seen = r.seen
<1>1. r.step # Len(Queries(r.kind))
  <2>1. Len(Queries(r.kind)) = 10
    BY Lengths
  <2>2. r.step # 10
    OBVIOUS
  <2> QED BY <2>1, <2>2
<1>2. Only(s) /\ req'[s] = Stepped(r) /\ req' \in [Slot -> RequestType]
  BY <1>1, Going
<1>3. Stepped(r).kind = "ad-view" /\ Stepped(r).step = k + 1 /\ Stepped(r).who = req[s].who
      /\ Stepped(r).seen = r.seen
  BY SteppedFits
<1> QED BY <1>2, <1>3 DEF AdGoes

LEMMA AdGoesSimply ==
  ASSUME SiteIInv, NEW s \in Slot, NEW k \in 1 .. 9, AdAt(s, k), GoOn(s)
  PROVE  AdGoes(s, k) /\ req'[s].seen = req[s].seen
<1>1. req[s] \in RequestType /\ Proceed(s, req[s])
  BY RewardsTyped DEF GoOn
<1> QED BY <1>1, AdGoesOn DEF AdAt

\* What it then does to the counts.
LEMMA AdCounts ==
  ASSUME NEW s \in Slot, NEW v, NEW d, d = (IF v = req[s].who THEN 1 ELSE 0)
  PROVE  /\ AdAt(s, 2) /\ AdGoes(s, 2) => Counts(s, v, 0, 0, 0, d, 0)
         /\ AdAt(s, 3) /\ AdGoes(s, 3) => Counts(s, v, 0, 0, 0, 0, 0)
         /\ AdAt(s, 4) /\ AdGoes(s, 4) => Counts(s, v, 0, 0, 0, 0, 0)
         /\ AdAt(s, 5) /\ AdGoes(s, 5) => Counts(s, v, 0, 0, d, 0 - d, 0)
         /\ AdAt(s, 6) /\ AdGoes(s, 6) => Counts(s, v, 0, 0, 0, 0, 0)
         /\ AdAt(s, 7) /\ AdGoes(s, 7) => Counts(s, v, 0, d, 0 - d, 0, 0)
         /\ AdAt(s, 8) /\ AdGoes(s, 8) => Counts(s, v, 0, 0, 0, 0, 0)
         /\ AdAt(s, 9) /\ AdGoes(s, 9) => Counts(s, v, d, 0 - d, 0, 0, 0)
         /\ AdAt(s, 10) /\ req'[s] = IdleSlot => Counts(s, v, 0 - d, 0, 0, 0, 0)
<1> USE DEF AdAt, AdGoes, By, Marks, Counts
<1>1. AdAt(s, 2) /\ AdGoes(s, 2) => Counts(s, v, 0, 0, 0, d, 0)
  OBVIOUS
<1>2. AdAt(s, 3) /\ AdGoes(s, 3) => Counts(s, v, 0, 0, 0, 0, 0)
  OBVIOUS
<1>3. AdAt(s, 4) /\ AdGoes(s, 4) => Counts(s, v, 0, 0, 0, 0, 0)
  OBVIOUS
<1>4. AdAt(s, 5) /\ AdGoes(s, 5) => Counts(s, v, 0, 0, d, 0 - d, 0)
  OBVIOUS
<1>5. AdAt(s, 6) /\ AdGoes(s, 6) => Counts(s, v, 0, 0, 0, 0, 0)
  OBVIOUS
<1>6. AdAt(s, 7) /\ AdGoes(s, 7) => Counts(s, v, 0, d, 0 - d, 0, 0)
  OBVIOUS
<1>7. AdAt(s, 8) /\ AdGoes(s, 8) => Counts(s, v, 0, 0, 0, 0, 0)
  OBVIOUS
<1>8. AdAt(s, 9) /\ AdGoes(s, 9) => Counts(s, v, d, 0 - d, 0, 0, 0)
  OBVIOUS
<1>9. AdAt(s, 10) /\ req'[s] = IdleSlot => Counts(s, v, 0 - d, 0, 0, 0, 0)
  <2>1. IdleSlot.kind = Null /\ Null # "ad-view" /\ Null # "referral"
    BY IdleFits DEF Kinds
  <2> QED BY <2>1
<1> HIDE DEF AdAt, AdGoes, By, Marks, Counts
<1> QED BY <1>1, <1>2, <1>3, <1>4, <1>5, <1>6, <1>7, <1>8, <1>9

LEMMA AdStands ==
  ASSUME SiteIInv, RewardsGrow, NEW s \in Slot, NEW k \in 1 .. 9, AdAt(s, k), AdGoes(s, k),
         req'[s].seen = req[s].seen
  PROVE  RequestFits(req[s])'
<1>1. SessionFits(req[s])
  BY DEF SiteIInv, RequestFits
<1>2. SessionFits(req[s])'
  BY <1>1 DEF AdAt, AdGoes, SessionFits, RewardsGrow
<1>3. req'[s].step \in 1 .. 10 /\ req'[s].kind = "ad-view" /\ req'[s].who \in Wallet
  BY DEF AdGoes, AdAt
<1> QED BY <1>2, <1>3, AdFits

LEMMA AdUser ==
  ASSUME SiteIInv, NEW s \in Slot, NEW w \in Wallet, w = req[s].who, AdAt(s, 1),
         users' = [users EXCEPT ![w].known = TRUE], GoOn(s), UNCHANGED <<sessions, views, claims, campaigns>>,
         UNCHANGED <<people, digests, answers, second, losses>>
  PROVE  SiteIInv'
<1>1. AdGoes(s, 1) /\ req'[s].seen = req[s].seen
  BY AdGoesSimply
<1>2. RewardTypes'
  <2>1. users \in [Wallet -> User] /\ users[w] \in User
    BY RewardsTyped DEF RewardTypes
  <2>2. [users[w] EXCEPT !.known = TRUE] \in User
    BY <2>1 DEF User
  <2>3. users' = [users EXCEPT ![w] = [users[w] EXCEPT !.known = TRUE]]
    BY <2>1
  <2>4. users' \in [Wallet -> User]
    BY <2>1, <2>2, <2>3
  <2> QED BY <2>4, RewardsTyped DEF RewardTypes
<1>3. RewardsGrow
  BY Numbers DEF SiteIInv, RewardsGrow
<1>4. RequestFits(req[s])'
  BY <1>1, <1>3, AdStands
<1>5. Calm(req'[s]) /\ ~Shows(req'[s]) /\ Only(s)
  BY <1>1 DEF AdGoes, Calm, Shows
<1>6. ASSUME NEW v \in Wallet PROVE WalletBooks(v)'
  <2>1. users'[v].earned = users[v].earned /\ users'[v].count = users[v].count
        /\ users'[v].reward = users[v].reward
    BY RewardsTyped DEF RewardTypes, User
  <2> QED BY <2>1, <1>5, KeepBooks DEF losses
<1>7. ViewsCover'
  BY <1>5, KeepViews DEF losses
<1> QED BY <1>1, <1>2, <1>3, <1>4, <1>6, <1>7, RewardsMove DEF AdGoes

LEMMA AdCount ==
  ASSUME SiteIInv, NEW s \in Slot, NEW w \in Wallet, w = req[s].who, AdAt(s, 2),
         users' = [users EXCEPT ![w].count = @ + 1], GoOn(s), UNCHANGED <<sessions, views, claims, campaigns>>,
         UNCHANGED <<people, digests, answers, second, losses>>
  PROVE  SiteIInv'
<1>1. AdGoes(s, 2) /\ Only(s) /\ req'[s].seen = req[s].seen
  BY AdGoesSimply DEF AdGoes
<1>2. RewardTypes' /\ \A v \in Wallet : users[v].count \in Nat
  <2>1. [users[w] EXCEPT !.count = users[w].count + 1] \in User
    BY RewardsTyped, UserMore DEF RewardTypes
  <2> QED BY <2>1, RewardsTyped DEF RewardTypes, User
<1>3. RewardsGrow
  BY Numbers DEF SiteIInv, RewardsGrow
<1>4. RequestFits(req[s])'
  BY <1>1, <1>3, AdStands
<1>5. ~Shows(req'[s])
  BY <1>1 DEF AdGoes, Shows
<1>6. ASSUME NEW v \in Wallet PROVE WalletBooks(v)'
  <2>0. PICK d \in {0, 1} : d = (IF v = w THEN 1 ELSE 0)
    OBVIOUS
  <2>1. Moves(v, 0, d, 0, 0, 0, 0, 0)
    <3>1. /\ users'[v].earned = users[v].earned /\ users'[v].reward = users[v].reward
          /\ users'[v].count = users[v].count + d
      BY <2>0, BookNumbers, RewardsTyped DEF RewardTypes, User
    <3> QED BY <2>0, <3>1, BookNumbers DEF Moves
  <2>2. Counts(s, v, 0, 0, 0, d, 0)
    BY <2>0, <1>1, AdCounts
  <2>3. d \in {0, 1} /\ 0 + 0 <= 0 /\ 0 + d <= d
    OBVIOUS
  <2> QED BY <1>1, <2>1, <2>2, <2>3, BooksMove
<1>7. ViewsCover'
  BY <1>1, <1>5, KeepViews DEF losses
<1> QED BY <1>1, <1>2, <1>3, <1>4, <1>6, <1>7, RewardsMove DEF AdGoes

LEMMA ShowsCount ==
  ASSUME SiteIInv, NEW s \in Slot, Only(s)
  PROVE  /\ Showing(req) \in Nat /\ Showing(req') \in Nat
         /\ Showing(req') = Showing(req) + ShowsBy(req[s], req'[s])
         /\ Shown(campaigns) \in Nat /\ AllViewed \in Nat
         /\ Shown(campaigns) + Showing(req) <= AllViewed
<1>1. /\ Showing(req) \in Nat /\ Showing(req') \in Nat
      /\ Showing(req') = Showing(req) + ShowsBy(req[s], req'[s])
  BY ShowsMove DEF Only
<1>2. Shown(campaigns) \in Nat /\ AllViewed \in Nat
  BY ShownType, GapNumbers DEF SiteIInv, SiteTypes
<1> QED BY <1>1, <1>2 DEF SiteIInv, ViewsCover

LEMMA AdActive ==
  ASSUME SiteIInv, NEW s \in Slot, NEW w \in Wallet, w = req[s].who, AdAt(s, 4),
         NEW i, i = ActiveSession(w), Proceed(s, [req[s] EXCEPT !.seen = i]),
         UNCHANGED rewards,
         UNCHANGED <<people, digests, answers, second, losses>>
  PROVE  SiteIInv'
<1>1. i \in Nat /\ (i # 0 => i \in 1 .. Len(sessions) /\ sessions[i].wallet = w)
  BY RewardsTyped, ActiveFits DEF RewardTypes
<1> DEFINE r == [req[s] EXCEPT !.seen = i]
<1>2. r \in RequestType /\ r.kind = "ad-view" /\ r.step = 4 /\ r.who = req[s].who /\ r.seen = i
  <2>1. req[s] \in RequestType
    BY RewardsTyped
  <2> QED BY <1>1, <2>1 DEF RequestType, AdAt
<1> HIDE DEF r
<1>3. AdGoes(s, 4) /\ req'[s].seen = i /\ Only(s)
  <2>1. Proceed(s, r)
    BY DEF r
  <2> QED BY <1>2, <2>1, AdGoesOn DEF AdGoes
<1>4. UNCHANGED <<users, sessions, views, claims, campaigns>>
  BY DEF rewards
<1>5. RewardTypes' /\ RewardsGrow
  BY <1>4, RewardsTyped, RewardsStand DEF RewardTypes, SiteIInv
<1>6. RequestFits(req[s])'
  <2>1. SessionFits(req[s])'
    BY <1>1, <1>3, <1>4 DEF SessionFits, AdGoes
  <2>2. req'[s].step \in 1 .. 10 /\ req'[s].kind = "ad-view" /\ req'[s].who \in Wallet
    BY <1>3 DEF AdGoes, AdAt
  <2> QED BY <2>1, <2>2, AdFits
<1>7. ASSUME NEW v \in Wallet PROVE WalletBooks(v)'
  <2>1. Moves(v, 0, 0, 0, 0, 0, 0, 0)
    BY <1>4, BookNumbers DEF Moves
  <2>2. Counts(s, v, 0, 0, 0, 0, 0)
    BY <1>1, <1>3, AdCounts
  <2> QED BY <1>3, <2>1, <2>2, BooksMove
<1>8. ~Shows(req'[s])
  BY <1>3 DEF AdGoes, Shows
<1>9. ViewsCover'
  BY <1>3, <1>4, <1>8, KeepViews DEF losses
<1> QED BY <1>3, <1>5, <1>6, <1>7, <1>9, RewardsMove DEF AdGoes

LEMMA AdId ==
  ASSUME SiteIInv, NEW s \in Slot, AdAt(s, 3), GoOn(s), UNCHANGED rewards,
         UNCHANGED <<people, digests, answers, second, losses>>
  PROVE  SiteIInv'
<1>1. AdGoes(s, 3) /\ Only(s) /\ req'[s].seen = req[s].seen
  BY AdGoesSimply DEF AdGoes
<1>2. UNCHANGED <<users, sessions, views, claims, campaigns>>
  BY DEF rewards
<1>3. RewardTypes' /\ RewardsGrow
  BY <1>2, RewardsTyped, RewardsStand DEF RewardTypes, SiteIInv
<1>4. RequestFits(req[s])'
  BY <1>1, <1>3, AdStands
<1>5. ASSUME NEW v \in Wallet PROVE WalletBooks(v)'
  <2>1. Moves(v, 0, 0, 0, 0, 0, 0, 0)
    BY <1>2, BookNumbers DEF Moves
  <2>2. Counts(s, v, 0, 0, 0, 0, 0)
    BY <1>1, AdCounts
  <2> QED BY <1>1, <2>1, <2>2, BooksMove
<1>6. ~Shows(req'[s])
  BY <1>1 DEF AdGoes, Shows
<1>7. ViewsCover'
  BY <1>1, <1>2, <1>6, KeepViews DEF losses
<1> QED BY <1>1, <1>3, <1>4, <1>5, <1>7, RewardsMove DEF AdGoes

LEMMA AdCreated ==
  ASSUME SiteIInv, NEW s \in Slot, NEW w \in Wallet, w = req[s].who, AdAt(s, 6),
         NEW i, i = (IF req[s].seen # 0 THEN req[s].seen ELSE ActiveSession(w)),
         Proceed(s, [req[s] EXCEPT !.seen = i]),
         UNCHANGED rewards,
         UNCHANGED <<people, digests, answers, second, losses>>
  PROVE  SiteIInv'
<1>1. i \in Nat /\ (i # 0 => i \in 1 .. Len(sessions) /\ sessions[i].wallet = w)
  <2>1. CASE req[s].seen # 0
    <3>1. req[s].seen \in Nat /\ SessionFits(req[s])
      BY RewardsTyped DEF SiteIInv, RequestFits, RequestType
    <3> QED BY <2>1, <3>1 DEF SessionFits, AdAt
  <2>2. CASE req[s].seen = 0
    BY <2>2, RewardsTyped, ActiveFits DEF RewardTypes
  <2> QED BY <2>1, <2>2
<1> DEFINE r == [req[s] EXCEPT !.seen = i]
<1>2. r \in RequestType /\ r.kind = "ad-view" /\ r.step = 6 /\ r.who = req[s].who /\ r.seen = i
  <2>1. req[s] \in RequestType
    BY RewardsTyped
  <2> QED BY <1>1, <2>1 DEF RequestType, AdAt
<1> HIDE DEF r
<1>3. AdGoes(s, 6) /\ req'[s].seen = i /\ Only(s)
  <2>1. Proceed(s, r)
    BY DEF r
  <2> QED BY <1>2, <2>1, AdGoesOn DEF AdGoes
<1>4. UNCHANGED <<users, sessions, views, claims, campaigns>>
  BY DEF rewards
<1>5. RewardTypes' /\ RewardsGrow
  BY <1>4, RewardsTyped, RewardsStand DEF RewardTypes, SiteIInv
<1>6. RequestFits(req[s])'
  <2>1. SessionFits(req[s])'
    BY <1>1, <1>3, <1>4 DEF SessionFits, AdGoes
  <2>2. req'[s].step \in 1 .. 10 /\ req'[s].kind = "ad-view" /\ req'[s].who \in Wallet
    BY <1>3 DEF AdGoes, AdAt
  <2> QED BY <2>1, <2>2, AdFits
<1>7. ASSUME NEW v \in Wallet PROVE WalletBooks(v)'
  <2>1. Moves(v, 0, 0, 0, 0, 0, 0, 0)
    BY <1>4, BookNumbers DEF Moves
  <2>2. Counts(s, v, 0, 0, 0, 0, 0)
    BY <1>1, <1>3, AdCounts
  <2> QED BY <1>3, <2>1, <2>2, BooksMove
<1>8. ~Shows(req'[s])
  BY <1>3 DEF AdGoes, Shows
<1>9. ViewsCover'
  BY <1>3, <1>4, <1>8, KeepViews DEF losses
<1> QED BY <1>3, <1>5, <1>6, <1>7, <1>9, RewardsMove DEF AdGoes

LEMMA AdSession ==
  ASSUME SiteIInv, NEW s \in Slot, NEW w \in Wallet, w = req[s].who, AdAt(s, 5),
         sessions' = IF req[s].seen # 0 THEN [sessions EXCEPT ![req[s].seen].ads = @ + 1]
                     ELSE Append(sessions, [wallet |-> w, ads |-> 1]),
         GoOn(s), UNCHANGED <<users, views, claims, campaigns>>,
         UNCHANGED <<people, digests, answers, second, losses>>
  PROVE  SiteIInv'
<1>1. AdGoes(s, 5) /\ Only(s) /\ req'[s].seen = req[s].seen
  BY AdGoesSimply DEF AdGoes
<1>2. sessions \in Seq(Session) /\ Len(sessions) \in Nat
  BY RewardsTyped, LenProperties DEF RewardTypes
<1>3. /\ sessions' \in Seq(Session)
      /\ \A i \in 1 .. Len(sessions) :
           i \in 1 .. Len(sessions') /\ sessions'[i].wallet = sessions[i].wallet
      /\ \A v : AdsOf(sessions', v) = AdsOf(sessions, v) + (IF v = w THEN 1 ELSE 0)
  <2>1. CASE req[s].seen # 0
    <3>1. SessionFits(req[s])
      BY DEF SiteIInv, RequestFits
    <3>2. PICK i \in 1 .. Len(sessions) : i = req[s].seen /\ sessions[i].wallet = w
      BY <2>1, <3>1 DEF SessionFits, AdAt
    <3> DEFINE more == [sessions EXCEPT ![i].ads = @ + 1]
    <3>3. \A v : /\ more \in Seq(Session) /\ Len(more) = Len(sessions)
                 /\ \A j \in 1 .. Len(sessions) : more[j].wallet = sessions[j].wallet
                 /\ AdsOf(more, v) = AdsOf(sessions, v) + (IF sessions[i].wallet = v THEN 1 ELSE 0)
      BY <1>2, AdsCount
    <3>4. sessions' = more
      BY <2>1, <3>2
    <3> HIDE DEF more
    <3> QED BY <1>2, <3>2, <3>3, <3>4
  <2>2. CASE req[s].seen = 0
    <3> DEFINE more == Append(sessions, [wallet |-> w, ads |-> 1])
    <3>1. \A v : /\ more \in Seq(Session) /\ Len(more) = Len(sessions) + 1
                 /\ \A j \in 1 .. Len(sessions) : more[j] = sessions[j]
                 /\ AdsOf(more, v) = AdsOf(sessions, v) + (IF w = v THEN 1 ELSE 0)
      BY <1>2, AdsAppend
    <3>2. sessions' = more
      BY <2>2
    <3> HIDE DEF more
    <3>3. sessions' \in Seq(Session) /\ Len(sessions') = Len(sessions) + 1
          /\ \A j \in 1 .. Len(sessions) : sessions'[j] = sessions[j]
      BY <3>1, <3>2
    <3>4. \A v : AdsOf(sessions', v) = AdsOf(sessions, v) + (IF v = w THEN 1 ELSE 0)
      BY <3>1, <3>2
    <3>5. \A j \in 1 .. Len(sessions) : j \in 1 .. Len(sessions')
      BY <1>2, <3>3
    <3> QED BY <3>3, <3>4, <3>5
  <2> QED BY <2>1, <2>2
<1> HIDE DEF AdAt
<1>4. UNCHANGED <<users, views, claims, campaigns>>
  OBVIOUS
<1>5. RewardTypes' /\ RewardsGrow
  BY <1>3, <1>4, RewardsTyped, Numbers DEF RewardTypes, RewardsGrow, SiteIInv
<1>6. RequestFits(req[s])'
  BY <1>1, <1>5, AdStands
<1>7. ASSUME NEW v \in Wallet PROVE WalletBooks(v)'
  <2>0. PICK d \in {0, 1} : d = (IF v = w THEN 1 ELSE 0)
    OBVIOUS
  <2>4. AdsOf(sessions', v) = AdsOf(sessions, v) + d
    BY <2>0, <1>3
  <2>1. Moves(v, 0, 0, 0, 0, 0, 0, d)
    <3>1. users'[v] = users[v] /\ claims'[v] = claims[v] /\ views'[v] = views[v]
      BY <1>4
    <3>2. /\ users'[v].earned = users[v].earned + 0 /\ users'[v].count = users[v].count + 0
          /\ users'[v].reward = users[v].reward + 0
      BY <3>1, BookNumbers
    <3>3. /\ claims'[v].view = claims[v].view + 0 /\ claims'[v].referral = claims[v].referral + 0
          /\ views'[v] = views[v] + 0
      BY <3>1, BookNumbers
    <3> QED BY <2>4, <3>2, <3>3 DEF Moves
  <2>2. Counts(s, v, 0, 0, d, 0 - d, 0)
    BY <2>0, <1>1, AdCounts
  <2>3. d \in {0, 1} /\ 0 + d <= d /\ d + (0 - d) <= 0
    OBVIOUS
  <2> QED BY <1>1, <2>1, <2>2, <2>3, BooksMove
<1>8. ~Shows(req'[s])
  BY <1>1 DEF AdGoes, Shows
<1>9. ViewsCover'
  BY <1>1, <1>4, <1>8, KeepViews DEF losses
<1> QED BY <1>1, <1>5, <1>6, <1>7, <1>9, RewardsMove DEF AdGoes

LEMMA AdViewed ==
  ASSUME SiteIInv, NEW s \in Slot, NEW w \in Wallet, w = req[s].who, AdAt(s, 7),
         views' = [views EXCEPT ![w] = @ + 1],
         GoOn(s), UNCHANGED <<users, sessions, claims, campaigns>>,
         UNCHANGED <<people, digests, answers, second, losses>>
  PROVE  SiteIInv'
<1>1. AdGoes(s, 7) /\ Only(s) /\ req'[s].seen = req[s].seen
  BY AdGoesSimply DEF AdGoes
<1>2. views \in [Wallet -> Nat] /\ views' \in [Wallet -> Nat]
      /\ \A v \in Wallet : views'[v] = views[v] + (IF v = w THEN 1 ELSE 0)
  BY RewardsTyped DEF RewardTypes
<1>3. Sum(views, Wallet) \in Nat /\ Sum(views', Wallet) = Sum(views, Wallet) + 1
  BY <1>2, ViewsNumber
<1>4. RewardTypes' /\ RewardsGrow
  BY <1>2, <1>3, RewardsTyped, Numbers DEF RewardTypes, RewardsGrow, SiteIInv
<1>5. RequestFits(req[s])'
  BY <1>1, <1>4, AdStands
<1>6. ASSUME NEW v \in Wallet PROVE WalletBooks(v)'
  <2>0. PICK d \in {0, 1} : d = (IF v = w THEN 1 ELSE 0)
    OBVIOUS
  <2>1. Moves(v, 0, 0, 0, 0, 0, d, 0)
    BY <2>0, <1>2, BookNumbers DEF Moves
  <2>2. Counts(s, v, 0, d, 0 - d, 0, 0)
    BY <2>0, <1>1, AdCounts
  <2>3. d \in {0, 1} /\ 0 + d <= d /\ d + (0 - d) <= 0
    OBVIOUS
  <2> QED BY <1>1, <2>1, <2>2, <2>3, BooksMove
<1>7. ViewsCover'
  <2>1. ShowsBy(req[s], req'[s]) = 1
    BY <1>1 DEF ShowsBy, Shows, AdAt, AdGoes
  <2>2. AllViewed' = AllViewed + 1
    <3>1. LossOf(lost, "view") \in Nat /\ lost' = lost
      BY GapNumbers DEF SiteIInv, losses
    <3> QED BY <1>3, <3>1 DEF AllViewed
  <2>3. Shown(campaigns) + Showing(req') <= AllViewed'
    BY <1>1, <2>1, <2>2, ShowsCount
  <2> QED BY <2>3 DEF ViewsCover
<1> QED BY <1>1, <1>4, <1>5, <1>6, <1>7, RewardsMove DEF AdGoes

LEMMA AdImpression ==
  ASSUME SiteIInv, NEW s \in Slot, NEW w \in Wallet, w = req[s].who, AdAt(s, 8),
         NEW c, c = req[s].arg,
         campaigns' = IF c \in Campaign /\ campaigns[c].live
                      THEN [campaigns EXCEPT ![c].shown = @ + 1] ELSE campaigns,
         GoOn(s), UNCHANGED <<users, sessions, views, claims>>,
         UNCHANGED <<people, digests, answers, second, losses>>
  PROVE  SiteIInv'
<1>1. AdGoes(s, 8) /\ Only(s) /\ req'[s].seen = req[s].seen
  BY AdGoesSimply DEF AdGoes
<1>2. campaigns' \in [Campaign -> Ad] /\ Shown(campaigns') <= Shown(campaigns) + 1
      /\ Shown(campaigns') \in Nat
  <2>1. campaigns \in [Campaign -> Ad] /\ Shown(campaigns) \in Nat
    BY RewardsTyped, ShownType DEF RewardTypes, Ad
  <2>2. CASE c \in Campaign /\ campaigns[c].live
    <3> DEFINE x == [campaigns[c] EXCEPT !.shown = campaigns[c].shown + 1]
    <3>1. campaigns[c] \in Ad /\ campaigns[c].shown \in Nat
      BY <2>1, <2>2 DEF Ad
    <3>2. x \in Ad /\ x.shown = campaigns[c].shown + 1
      BY <3>1 DEF Ad
    <3>3. campaigns' = [campaigns EXCEPT ![c] = x]
      BY <2>2
    <3> HIDE DEF x
    <3>4. Shown([campaigns EXCEPT ![c] = x]) = Shown(campaigns) + x.shown - campaigns[c].shown
      <4>1. /\ campaigns \in [Campaign -> [live : BOOLEAN, shown : Nat]]
            /\ x \in [live : BOOLEAN, shown : Nat] /\ c \in Campaign
        BY <2>1, <2>2, <3>2 DEF Ad
      <4> QED BY <4>1, ShownNumber
    <3>5. campaigns' \in [Campaign -> Ad]
      BY <2>1, <2>2, <3>2, <3>3
    <3>6. Shown(campaigns') = Shown(campaigns) + x.shown - campaigns[c].shown
      BY <3>3, <3>4
    <3>7. Shown(campaigns') = Shown(campaigns) + 1
      BY <2>1, <3>1, <3>2, <3>6
    <3> QED BY <2>1, <3>5, <3>7
  <2>3. CASE ~(c \in Campaign /\ campaigns[c].live)
    <3>1. campaigns' = campaigns
      BY <2>3
    <3>2. Shown(campaigns') = Shown(campaigns) /\ campaigns' \in [Campaign -> Ad]
      BY <2>1, <3>1
    <3> QED BY <2>1, <3>2
  <2> QED BY <2>2, <2>3
<1>3. UNCHANGED <<users, sessions, views, claims>>
  OBVIOUS
<1>4. RewardTypes' /\ RewardsGrow
  BY <1>2, <1>3, RewardsTyped, Numbers DEF RewardTypes, RewardsGrow, SiteIInv
<1>5. RequestFits(req[s])'
  BY <1>1, <1>4, AdStands
<1>6. ASSUME NEW v \in Wallet PROVE WalletBooks(v)'
  <2>1. Moves(v, 0, 0, 0, 0, 0, 0, 0)
    BY <1>3, BookNumbers DEF Moves
  <2>2. Counts(s, v, 0, 0, 0, 0, 0)
    BY <1>1, AdCounts
  <2> QED BY <1>1, <2>1, <2>2, BooksMove
<1>7. ViewsCover'
  <2>1. ShowsBy(req[s], req'[s]) = 0 - 1
    BY <1>1 DEF ShowsBy, Shows, AdAt, AdGoes
  <2>2. Shown(campaigns') + Showing(req') <= AllViewed
    BY <1>1, <1>2, <2>1, ShowsCount
  <2>3. AllViewed' = AllViewed
    BY <1>3 DEF AllViewed, losses
  <2> QED BY <2>2, <2>3 DEF ViewsCover
<1> QED BY <1>1, <1>4, <1>5, <1>6, <1>7, RewardsMove DEF AdGoes

LEMMA AdClaim ==
  ASSUME SiteIInv, NEW s \in Slot, NEW w \in Wallet, w = req[s].who, AdAt(s, 9),
         claims' = [claims EXCEPT ![w].view = @ + 1],
         GoOn(s), UNCHANGED <<users, sessions, views, campaigns>>,
         UNCHANGED <<people, digests, answers, second, losses>>
  PROVE  SiteIInv'
<1>1. AdGoes(s, 9) /\ Only(s) /\ req'[s].seen = req[s].seen
  BY AdGoesSimply DEF AdGoes
<1>2. /\ claims' \in [Wallet -> Claims] /\ OwedBy(claims) <= OwedBy(claims')
      /\ \A v \in Wallet : /\ claims'[v].view = claims[v].view + (IF v = w THEN 1 ELSE 0)
                           /\ claims'[v].referral = claims[v].referral + 0
  <2>1. claims \in [Wallet -> Claims] /\ \A v \in Wallet : claims[v].view \in Nat /\ claims[v].referral \in Nat
    BY RewardsTyped DEF RewardTypes, Claims
  <2>2. PICK x : x = [claims[w] EXCEPT !.view = claims[w].view + 1]
    OBVIOUS
  <2>3. x \in Claims /\ x.view = claims[w].view + 1 /\ x.referral = claims[w].referral
    BY <2>1, <2>2 DEF Claims
  <2>4. claims' = [claims EXCEPT ![w] = x]
    BY <2>2
  <2>5. claims' \in [Wallet -> Claims] /\ \A v \in Wallet : claims'[v] = IF v = w THEN x ELSE claims[v]
    BY <2>1, <2>3, <2>4
  <2>6. \A v \in Wallet : claims[v].view <= claims'[v].view /\ claims[v].referral <= claims'[v].referral
    BY <2>1, <2>3, <2>5
  <2>7. OwedBy(claims) <= OwedBy(claims')
    BY <2>1, <2>5, <2>6, OwedNumber DEF Claims
  <2> QED BY <2>1, <2>3, <2>5, <2>7
<1>3. UNCHANGED <<users, sessions, views, campaigns>>
  OBVIOUS
<1>4. RewardTypes' /\ RewardsGrow
  BY <1>2, <1>3, RewardsTyped, Numbers DEF RewardTypes, RewardsGrow, SiteIInv
<1>5. RequestFits(req[s])'
  BY <1>1, <1>4, AdStands
<1>6. ASSUME NEW v \in Wallet PROVE WalletBooks(v)'
  <2>0. PICK d \in {0, 1} : d = (IF v = w THEN 1 ELSE 0)
    OBVIOUS
  <2>1. Moves(v, 0, 0, 0, d, 0, 0, 0)
    BY <2>0, <1>2, <1>3, BookNumbers DEF Moves
  <2>2. Counts(s, v, d, 0 - d, 0, 0, 0)
    BY <2>0, <1>1, AdCounts
  <2>3. d \in {0, 1} /\ 0 + d <= d /\ d + (0 - d) <= 0
    OBVIOUS
  <2> QED BY <1>1, <2>1, <2>2, <2>3, BooksMove
<1>7. ~Shows(req'[s])
  BY <1>1 DEF AdGoes, Shows
<1>8. ViewsCover'
  BY <1>1, <1>3, <1>7, KeepViews DEF losses
<1> QED BY <1>1, <1>4, <1>5, <1>6, <1>8, RewardsMove DEF AdGoes

LEMMA AdTotal ==
  ASSUME SiteIInv, NEW s \in Slot, NEW w \in Wallet, w = req[s].who, AdAt(s, 10),
         users' = [users EXCEPT ![w].earned = @ + 1],
         GoOn(s), UNCHANGED <<sessions, views, claims, campaigns>>,
         UNCHANGED <<people, digests, answers, second, losses>>
  PROVE  SiteIInv'
<1>1. /\ Only(s) /\ req'[s] = IdleSlot /\ req' \in [Slot -> RequestType]
      /\ RequestFits(req[s])' /\ ~Shows(req'[s])
  <2>1. Len(Queries(req[s].kind)) = 10 /\ req[s].step = 10
    BY Lengths DEF AdAt
  <2>2. Done(s)
    BY <2>1 DEF GoOn, Proceed
  <2> QED BY <2>2, Ending
<1>2. RewardTypes'
  <2>1. [users[w] EXCEPT !.earned = users[w].earned + 1] \in User
    BY BookNumbers, UserMore
  <2> QED BY <2>1, RewardsTyped DEF RewardTypes, User
<1>3. RewardsGrow
  BY Numbers DEF SiteIInv, RewardsGrow
<1>4. ASSUME NEW v \in Wallet PROVE WalletBooks(v)'
  <2>0. PICK d \in {0, 1} : d = (IF v = w THEN 1 ELSE 0)
    OBVIOUS
  <2>1. Moves(v, d, 0, 0, 0, 0, 0, 0)
    <3>1. /\ users'[v].count = users[v].count /\ users'[v].reward = users[v].reward
          /\ users'[v].earned = users[v].earned + d
      BY <2>0, BookNumbers, RewardsTyped DEF RewardTypes, User
    <3> QED BY <2>0, <3>1, BookNumbers DEF Moves
  <2>2. Counts(s, v, 0 - d, 0, 0, 0, 0)
    BY <1>1, <2>0, AdCounts
  <2>3. d \in {0, 1} /\ d + (0 - d) <= 0
    OBVIOUS
  <2> QED BY <1>1, <2>1, <2>2, <2>3, BooksMove
<1>5. ViewsCover'
  BY <1>1, KeepViews DEF losses
<1> QED BY <1>1, <1>2, <1>3, <1>4, <1>5, RewardsMove

LEMMA AdStep ==
  ASSUME SiteIInv, NEW s \in Slot, AdView(s)
  PROVE  SiteIInv'
<1>1. UNCHANGED <<people, digests, answers, second, losses>>
  BY DEF AdView, swallowed, losses
<1>2. /\ At(s, "user") => AdAt(s, 1)
      /\ At(s, "count") => AdAt(s, 2)
      /\ At(s, "id") => AdAt(s, 3)
      /\ At(s, "active") => AdAt(s, 4)
      /\ At(s, "session") => AdAt(s, 5)
      /\ At(s, "created") => AdAt(s, 6)
      /\ At(s, "view") => AdAt(s, 7)
      /\ At(s, "impression") => AdAt(s, 8)
      /\ At(s, "claim") => AdAt(s, 9)
      /\ At(s, "total") => AdAt(s, 10)
  BY AdHere
<1> DEFINE w == req[s].who
<1>3. \/ At(s, "user") /\ users' = [users EXCEPT ![w].known = TRUE] /\ GoOn(s)
         /\ UNCHANGED <<sessions, views, claims, campaigns>>
      \/ At(s, "count") /\ users' = [users EXCEPT ![w].count = @ + 1] /\ GoOn(s)
         /\ UNCHANGED <<sessions, views, claims, campaigns>>
      \/ /\ At(s, "id") /\ (IF users[w].known THEN GoOn(s) ELSE Done(s))
         /\ UNCHANGED <<users, sessions, views, claims, campaigns>>
      \/ /\ At(s, "created")
         /\ Proceed(s, [req[s] EXCEPT !.seen = IF @ # 0 THEN @ ELSE ActiveSession(w)])
         /\ UNCHANGED <<users, sessions, views, claims, campaigns>>
      \/ At(s, "active") /\ Proceed(s, [req[s] EXCEPT !.seen = ActiveSession(w)])
         /\ UNCHANGED <<users, sessions, views, claims, campaigns>>
      \/ /\ At(s, "session")
         /\ sessions' = IF req[s].seen # 0 THEN [sessions EXCEPT ![req[s].seen].ads = @ + 1]
                        ELSE Append(sessions, [wallet |-> w, ads |-> 1])
         /\ GoOn(s) /\ UNCHANGED <<users, views, claims, campaigns>>
      \/ At(s, "view") /\ views' = [views EXCEPT ![w] = @ + 1] /\ GoOn(s)
         /\ UNCHANGED <<users, sessions, claims, campaigns>>
      \/ /\ At(s, "impression")
         /\ campaigns' = IF req[s].arg \in Campaign /\ campaigns[req[s].arg].live
                         THEN [campaigns EXCEPT ![req[s].arg].shown = @ + 1] ELSE campaigns
         /\ GoOn(s) /\ UNCHANGED <<users, sessions, views, claims>>
      \/ At(s, "claim") /\ claims' = [claims EXCEPT ![w].view = @ + 1] /\ GoOn(s)
         /\ UNCHANGED <<users, sessions, views, campaigns>>
      \/ At(s, "total") /\ users' = [users EXCEPT ![w].earned = @ + 1] /\ GoOn(s)
         /\ UNCHANGED <<sessions, views, claims, campaigns>>
  BY DEF AdView
<1>4. \A k : AdAt(s, k) => w \in Wallet
  BY DEF AdAt
<1> HIDE DEF w
<1>6. CASE At(s, "user") /\ users' = [users EXCEPT ![w].known = TRUE] /\ GoOn(s)
           /\ UNCHANGED <<sessions, views, claims, campaigns>>
  BY <1>1, <1>2, <1>4, <1>6, AdUser DEF w
<1>7. CASE At(s, "count") /\ users' = [users EXCEPT ![w].count = @ + 1] /\ GoOn(s)
           /\ UNCHANGED <<sessions, views, claims, campaigns>>
  BY <1>1, <1>2, <1>4, <1>7, AdCount DEF w
<1>8. CASE At(s, "active") /\ Proceed(s, [req[s] EXCEPT !.seen = ActiveSession(w)])
           /\ UNCHANGED <<users, sessions, views, claims, campaigns>>
  BY <1>1, <1>2, <1>4, <1>8, AdActive DEF w, rewards
<1>9. CASE /\ At(s, "session")
           /\ sessions' = IF req[s].seen # 0 THEN [sessions EXCEPT ![req[s].seen].ads = @ + 1]
                          ELSE Append(sessions, [wallet |-> w, ads |-> 1])
           /\ GoOn(s) /\ UNCHANGED <<users, views, claims, campaigns>>
  BY <1>1, <1>2, <1>4, <1>9, AdSession DEF w
<1>10. CASE At(s, "view") /\ views' = [views EXCEPT ![w] = @ + 1] /\ GoOn(s)
            /\ UNCHANGED <<users, sessions, claims, campaigns>>
  BY <1>1, <1>2, <1>4, <1>10, AdViewed DEF w
<1>11. CASE /\ At(s, "impression")
            /\ campaigns' = IF req[s].arg \in Campaign /\ campaigns[req[s].arg].live
                            THEN [campaigns EXCEPT ![req[s].arg].shown = @ + 1] ELSE campaigns
            /\ GoOn(s) /\ UNCHANGED <<users, sessions, views, claims>>
  BY <1>1, <1>2, <1>4, <1>11, AdImpression DEF w
<1>12. CASE At(s, "claim") /\ claims' = [claims EXCEPT ![w].view = @ + 1] /\ GoOn(s)
            /\ UNCHANGED <<users, sessions, views, campaigns>>
  BY <1>1, <1>2, <1>4, <1>12, AdClaim DEF w
<1>13. CASE At(s, "total") /\ users' = [users EXCEPT ![w].earned = @ + 1] /\ GoOn(s)
            /\ UNCHANGED <<sessions, views, claims, campaigns>>
  BY <1>1, <1>2, <1>4, <1>13, AdTotal DEF w
<1>14. CASE /\ At(s, "id") /\ (IF users[w].known THEN GoOn(s) ELSE Done(s))
            /\ UNCHANGED <<users, sessions, views, claims, campaigns>>
  <2>1. UNCHANGED rewards
    BY <1>14 DEF rewards
  <2>2. CASE users[w].known
    BY <1>1, <1>2, <1>14, <2>1, <2>2, AdId
  <2>3. CASE ~users[w].known
    <3>1. Done(s) /\ UNCHANGED db
      BY <1>1, <1>14, <2>1, <2>3 DEF db
    <3>2. /\ Only(s) /\ req' \in [Slot -> RequestType]
          /\ RequestFits(req[s])' /\ Calm(req'[s]) /\ ~Shows(req'[s])
      BY <3>1, Ending
    <3> QED BY <1>1, <3>1, <3>2, AnswersStand, Quietly
  <2> QED BY <2>2, <2>3
<1>15. CASE /\ At(s, "created")
            /\ Proceed(s, [req[s] EXCEPT !.seen = IF @ # 0 THEN @ ELSE ActiveSession(w)])
            /\ UNCHANGED <<users, sessions, views, claims, campaigns>>
  <2>1. PICK i : i = (IF req[s].seen # 0 THEN req[s].seen ELSE ActiveSession(w))
    OBVIOUS
  <2>2. Proceed(s, [req[s] EXCEPT !.seen = i]) /\ UNCHANGED rewards
    BY <1>15, <2>1 DEF rewards
  <2> QED BY <1>1, <1>2, <1>4, <1>15, <2>1, <2>2, AdCreated DEF w
<1> QED BY <1>14, <1>15, <1>3, <1>6, <1>7, <1>8, <1>9, <1>10, <1>11, <1>12, <1>13

\* A referral at its k-th query goes on.
ReferralAt(s, k) ==
  req[s].kind = "referral" /\ req[s].step = k /\ req[s].who \in Wallet /\ req[s].arg \in Wallet
ReferralGoes(s, k) ==
  /\ Only(s) /\ req' \in [Slot -> RequestType]
  /\ req'[s].kind = "referral" /\ req'[s].step = k + 1
  /\ req'[s].who = req[s].who /\ req'[s].arg = req[s].arg

LEMMA ReferralHere ==
  ASSUME SiteIInv, NEW s \in Slot, NEW q, At(s, q)
  PROVE  /\ q = "referrer" => ReferralAt(s, 1)
         /\ q = "code" => ReferralAt(s, 2)
         /\ q = "set" => ReferralAt(s, 3)
         /\ q = "reward" => ReferralAt(s, 4)
         /\ q = "credit" => ReferralAt(s, 5)
<1>1. req[s].kind = "referral" => req[s].who \in Wallet /\ req[s].arg \in Wallet
  BY Here DEF FormFits
<1>2. Home(req[s].kind, req[s].step, q)
  BY Here
<1> QED BY <1>1, <1>2 DEF Home, ReferralAt

LEMMA ReferralGoesOn ==
  ASSUME SiteIInv, NEW s \in Slot, NEW k \in 1 .. 4, ReferralAt(s, k), GoOn(s)
  PROVE  /\ ReferralGoes(s, k) /\ Only(s) /\ req' \in [Slot -> RequestType]
         /\ RequestFits(req[s])' /\ ~Shows(req'[s]) /\ (k # 4 => Calm(req'[s]))
<1> DEFINE r == req[s]
<1>1. r \in RequestType /\ r.kind = "referral" /\ r.step = k /\ r.who \in Wallet /\ r.arg \in Wallet
      /\ Proceed(s, r)
  BY RewardsTyped DEF GoOn, ReferralAt
<1>2. r.step # Len(Queries(r.kind))
  <2>1. Len(Queries(r.kind)) = 5
    BY <1>1, Lengths
  <2>2. r.step # 5
    BY <1>1
  <2> QED BY <2>1, <2>2
<1>3. Only(s) /\ req'[s] = Stepped(r) /\ req' \in [Slot -> RequestType]
  BY <1>1, <1>2, Going
<1>4. Stepped(r).kind = "referral" /\ Stepped(r).step = k + 1 /\ Stepped(r).who = r.who
      /\ Stepped(r).arg = r.arg
  BY <1>1, SteppedFits
<1>5. ReferralGoes(s, k)
  BY <1>3, <1>4 DEF ReferralGoes
<1>6. req'[s].kind = "referral" /\ req'[s].step \in 1 .. 5 /\ req'[s].who \in Wallet /\ req'[s].arg \in Wallet
      /\ (k # 4 => req'[s].step \in 1 .. 4)
  BY <1>1, <1>3, <1>4
<1>7. RequestFits(req[s])'
  BY <1>6, ReferralFits
<1> QED BY <1>3, <1>5, <1>6, <1>7 DEF Calm, Shows

LEMMA ReferralCounts ==
  ASSUME NEW s \in Slot, NEW v, NEW d, d = (IF v = req[s].arg THEN 1 ELSE 0)
  PROVE  /\ ReferralAt(s, 4) /\ ReferralGoes(s, 4) => Counts(s, v, 0, 0, 0, 0, d)
         /\ ReferralAt(s, 5) /\ req'[s] = IdleSlot => Counts(s, v, 0, 0, 0, 0, 0 - d)
<1>1. ReferralAt(s, 4) /\ ReferralGoes(s, 4) => Counts(s, v, 0, 0, 0, 0, d)
  BY DEF ReferralAt, ReferralGoes, By, Marks, Counts
<1>2. ReferralAt(s, 5) /\ req'[s] = IdleSlot => Counts(s, v, 0, 0, 0, 0, 0 - d)
  <2>1. IdleSlot.kind = Null /\ Null # "ad-view" /\ Null # "referral"
    BY IdleFits DEF Kinds
  <2> QED BY <2>1 DEF ReferralAt, By, Marks, Counts
<1> QED BY <1>1, <1>2

\* It looks, and writes nothing.
LEMMA ReferralLooks ==
  ASSUME SiteIInv, NEW s \in Slot, NEW k \in {1, 2}, ReferralAt(s, k), Done(s) \/ GoOn(s),
         UNCHANGED <<users, claims, sessions, views, campaigns, people, digests, answers, second, losses>>
  PROVE  SiteIInv'
<1>1. UNCHANGED <<db, answers, second, losses>>
  BY DEF db, rewards
<1>2. /\ Only(s) /\ req' \in [Slot -> RequestType]
      /\ RequestFits(req[s])' /\ Calm(req'[s]) /\ ~Shows(req'[s])
  <2>1. CASE Done(s)
    BY <2>1, Ending
  <2>2. CASE GoOn(s)
    <3>1. k \in 1 .. 4 /\ k # 4
      OBVIOUS
    <3> QED BY <2>2, <3>1, ReferralGoesOn
  <2> QED BY <2>1, <2>2
<1> QED BY <1>1, <1>2, AnswersStand, Quietly

LEMMA ReferralSet ==
  ASSUME SiteIInv, NEW s \in Slot, NEW w \in Wallet, NEW r \in Wallet, ReferralAt(s, 3), GoOn(s),
         users' = IF users[w].known THEN [users EXCEPT ![w].referrer = r] ELSE users,
         UNCHANGED <<claims, sessions, views, campaigns, people, digests, answers, second, losses>>
  PROVE  SiteIInv'
<1>1. /\ Only(s) /\ req' \in [Slot -> RequestType]
      /\ RequestFits(req[s])' /\ Calm(req'[s]) /\ ~Shows(req'[s])
  BY ReferralGoesOn
<1>2. users \in [Wallet -> User] /\ RewardTypes
  BY RewardsTyped DEF RewardTypes
<1>3. users' \in [Wallet -> User] /\ \A v \in Wallet :
        users'[v].earned = users[v].earned /\ users'[v].count = users[v].count
        /\ users'[v].reward = users[v].reward
  <2>1. [users[w] EXCEPT !.referrer = r] \in User
    BY <1>2, UserMore
  <2> QED BY <1>2, <2>1 DEF User
<1>4. RewardTypes' /\ RewardsGrow
  BY <1>2, <1>3, Numbers DEF SiteIInv, RewardsGrow, RewardTypes
<1>5. ASSUME NEW v \in Wallet PROVE WalletBooks(v)'
  BY <1>1, <1>3, KeepBooks DEF losses
<1>6. ViewsCover'
  BY <1>1, KeepViews DEF losses
<1> QED BY <1>1, <1>4, <1>5, <1>6, RewardsMove

LEMMA ReferralReward ==
  ASSUME SiteIInv, NEW s \in Slot, NEW r \in Wallet, r = req[s].arg, ReferralAt(s, 4), GoOn(s),
         users' = [users EXCEPT ![r].reward = @ + 1],
         UNCHANGED <<claims, sessions, views, campaigns, people, digests, answers, second, losses>>
  PROVE  SiteIInv'
<1>1. /\ ReferralGoes(s, 4) /\ Only(s) /\ req' \in [Slot -> RequestType]
      /\ RequestFits(req[s])' /\ ~Shows(req'[s])
  BY ReferralGoesOn
<1>2. users \in [Wallet -> User] /\ RewardTypes
  BY RewardsTyped DEF RewardTypes
<1>3. users' \in [Wallet -> User] /\ \A v \in Wallet :
        users'[v].earned = users[v].earned /\ users'[v].count = users[v].count
        /\ users'[v].reward = users[v].reward + (IF v = r THEN 1 ELSE 0)
  <2>1. [users[r] EXCEPT !.reward = users[r].reward + 1] \in User
    BY <1>2, UserMore
  <2> QED BY <1>2, <2>1 DEF User
<1>4. RewardTypes' /\ RewardsGrow
  BY <1>2, <1>3, Numbers DEF SiteIInv, RewardsGrow, RewardTypes
<1>5. ASSUME NEW v \in Wallet PROVE WalletBooks(v)'
  <2>0. PICK d \in {0, 1} : d = (IF v = r THEN 1 ELSE 0)
    OBVIOUS
  <2>1. Moves(v, 0, 0, d, 0, 0, 0, 0)
    BY <2>0, <1>3, BookNumbers DEF Moves
  <2>2. Counts(s, v, 0, 0, 0, 0, d)
    BY <2>0, <1>1, ReferralCounts
  <2>3. d \in {0, 1} /\ 0 + d <= d
    OBVIOUS
  <2> QED BY <1>1, <2>1, <2>2, <2>3, BooksMove
<1>6. ViewsCover'
  BY <1>1, KeepViews DEF losses
<1> QED BY <1>1, <1>4, <1>5, <1>6, RewardsMove

LEMMA ReferralCredit ==
  ASSUME SiteIInv, NEW s \in Slot, NEW r \in Wallet, r = req[s].arg, ReferralAt(s, 5), GoOn(s),
         claims' = [claims EXCEPT ![r].referral = @ + 1],
         UNCHANGED <<users, sessions, views, campaigns, people, digests, answers, second, losses>>
  PROVE  SiteIInv'
<1>1. /\ Only(s) /\ req'[s] = IdleSlot /\ req' \in [Slot -> RequestType]
      /\ RequestFits(req[s])' /\ ~Shows(req'[s])
  <2>1. Len(Queries(req[s].kind)) = 5 /\ req[s].step = 5
    BY Lengths DEF ReferralAt
  <2>2. Done(s)
    BY <2>1 DEF GoOn, Proceed
  <2> QED BY <2>2, Ending
<1>2. /\ claims' \in [Wallet -> Claims] /\ OwedBy(claims) <= OwedBy(claims')
      /\ \A v \in Wallet : /\ claims'[v].referral = claims[v].referral + (IF v = r THEN 1 ELSE 0)
                           /\ claims'[v].view = claims[v].view
  <2>1. claims \in [Wallet -> Claims] /\ \A v \in Wallet : claims[v].view \in Nat /\ claims[v].referral \in Nat
    BY RewardsTyped DEF RewardTypes, Claims
  <2>2. PICK x : x = [claims[r] EXCEPT !.referral = claims[r].referral + 1]
    OBVIOUS
  <2>3. x \in Claims /\ x.referral = claims[r].referral + 1 /\ x.view = claims[r].view
    BY <2>1, <2>2 DEF Claims
  <2>4. claims' = [claims EXCEPT ![r] = x]
    BY <2>2
  <2>5. claims' \in [Wallet -> Claims] /\ \A v \in Wallet : claims'[v] = IF v = r THEN x ELSE claims[v]
    BY <2>1, <2>3, <2>4
  <2>6. \A v \in Wallet : claims[v].view <= claims'[v].view /\ claims[v].referral <= claims'[v].referral
    BY <2>1, <2>3, <2>5
  <2>7. OwedBy(claims) <= OwedBy(claims')
    BY <2>1, <2>5, <2>6, OwedNumber DEF Claims
  <2> QED BY <2>1, <2>3, <2>5, <2>7
<1>3. UNCHANGED <<users, sessions, views, campaigns>>
  OBVIOUS
<1>4. RewardTypes' /\ RewardsGrow
  BY <1>2, <1>3, RewardsTyped, Numbers DEF RewardTypes, RewardsGrow, SiteIInv
<1>5. ASSUME NEW v \in Wallet PROVE WalletBooks(v)'
  <2>0. PICK d \in {0, 1} : d = (IF v = r THEN 1 ELSE 0)
    OBVIOUS
  <2>1. Moves(v, 0, 0, 0, 0, d, 0, 0)
    BY <2>0, <1>2, <1>3, BookNumbers DEF Moves
  <2>2. Counts(s, v, 0, 0, 0, 0, 0 - d)
    BY <2>0, <1>1, ReferralCounts
  <2>3. d \in {0, 1} /\ d + (0 - d) <= 0
    OBVIOUS
  <2> QED BY <1>1, <2>1, <2>2, <2>3, BooksMove
<1>6. ViewsCover'
  BY <1>1, <1>3, KeepViews DEF losses
<1> QED BY <1>1, <1>4, <1>5, <1>6, RewardsMove

LEMMA ReferralStep ==
  ASSUME SiteIInv, NEW s \in Slot, ClaimReferral(s)
  PROVE  SiteIInv'
<1>1. UNCHANGED <<sessions, views, campaigns, people, digests, answers, second, losses>>
  BY DEF ClaimReferral, swallowed, losses
<1>2. /\ At(s, "referrer") => ReferralAt(s, 1)
      /\ At(s, "code") => ReferralAt(s, 2)
      /\ At(s, "set") => ReferralAt(s, 3)
      /\ At(s, "reward") => ReferralAt(s, 4)
      /\ At(s, "credit") => ReferralAt(s, 5)
  BY ReferralHere
<1>3. \A k : ReferralAt(s, k) => req[s].who \in Wallet /\ req[s].arg \in Wallet
  BY DEF ReferralAt
<1>4. CASE At(s, "referrer") /\ (Done(s) \/ GoOn(s)) /\ UNCHANGED <<users, claims>>
  BY <1>1, <1>2, <1>4, ReferralLooks
<1>5. CASE At(s, "code") /\ (Done(s) \/ GoOn(s)) /\ UNCHANGED <<users, claims>>
  BY <1>1, <1>2, <1>5, ReferralLooks
<1>6. CASE At(s, "set") /\ users' = (IF users[req[s].who].known THEN [users EXCEPT ![req[s].who].referrer = req[s].arg] ELSE users)
           /\ GoOn(s) /\ UNCHANGED claims
  BY <1>1, <1>2, <1>3, <1>6, ReferralSet
<1>7. CASE At(s, "reward") /\ users' = [users EXCEPT ![req[s].arg].reward = @ + 1] /\ GoOn(s) /\ UNCHANGED claims
  BY <1>1, <1>2, <1>3, <1>7, ReferralReward
<1>8. CASE At(s, "credit") /\ claims' = [claims EXCEPT ![req[s].arg].referral = @ + 1] /\ GoOn(s) /\ UNCHANGED users
  BY <1>1, <1>2, <1>3, <1>8, ReferralCredit
<1> QED BY <1>4, <1>5, <1>6, <1>7, <1>8 DEF ClaimReferral

(* Signups, members and what the owner books. *)
Member == [joined : BOOLEAN, activated : BOOLEAN, first : Action \cup {Null}]

LEMMA PeopleMove ==
  ASSUME SiteIInv, UNCHANGED <<rewards, digests, answers, second, losses>>,
         members' \in [Email -> Member], actions' \subseteq Email \X Action, rows' \subseteq Rows,
         funds' \in [Stage -> Nat], PeopleGrow, \A x \in rows' : x \in rows \/ x.at = second,
         NEW s \in Slot, Only(s), req' \in [Slot -> RequestType],
         RequestFits(req[s])', Calm(req'[s]), ~Shows(req'[s]), ActivatedActed'
  PROVE  SiteIInv'
<1>1. SiteTypes
  BY DEF SiteIInv
<1>2. SiteTypes'
  BY <1>1 DEF SiteTypes, rewards, digests, Member, losses
<1>3. RewardsGrow /\ GapsGrow
  BY <1>1, RewardsStand, GapsStand
<1>4. DigestsGrow
  BY <1>1 DEF DigestsGrow, digests, SiteTypes
<1>5. \A w \in Wallet : WalletBooks(w)'
  BY KeepBooks DEF rewards, losses
<1>6. ViewsCover'
  BY KeepViews DEF rewards, losses
<1>7. SentCovers'
  BY <1>1, <1>3, <1>4, KeepSent DEF digests, SiteTypes
<1>8. AnswersLag'
  BY <1>2, <1>3, KeepAnswers
<1> QED BY <1>2, <1>3, <1>4, <1>5, <1>6, <1>7, <1>8, Together

LEMMA PeopleTyped ==
  ASSUME SiteIInv
  PROVE  /\ members \in [Email -> Member] /\ actions \subseteq Email \X Action /\ rows \subseteq Rows
         /\ funds \in [Stage -> Nat] /\ ActivatedActed /\ second \in Nat \ {0}
         /\ req \in [Slot -> RequestType]
BY DEF SiteIInv, SiteTypes, Member

\* The last query of a request.
LEMMA EndsHere ==
  ASSUME SiteIInv, NEW s \in Slot, GoOn(s), req[s].step = Len(Queries(req[s].kind))
  PROVE  /\ Only(s) /\ req' \in [Slot -> RequestType]
         /\ RequestFits(req[s])' /\ Calm(req'[s]) /\ ~Shows(req'[s])
<1>1. Done(s)
  BY DEF GoOn, Proceed
<1> QED BY <1>1, Ending

LEMMA JoinGoesOn ==
  ASSUME SiteIInv, NEW s \in Slot, GoOn(s), req[s].kind = "join", req[s].step = 1, req[s].who \in Email
  PROVE  /\ Only(s) /\ req' \in [Slot -> RequestType]
         /\ RequestFits(req[s])' /\ Calm(req'[s]) /\ ~Shows(req'[s])
<1> DEFINE r == req[s]
<1>1. r \in RequestType /\ Proceed(s, r)
  BY PeopleTyped DEF GoOn
<1>2. Len(Queries("join")) = 2
  BY Lengths
<1>3. Only(s) /\ req'[s] = Stepped(r) /\ req' \in [Slot -> RequestType]
  BY <1>1, <1>2, Going
<1>4. req'[s].kind = "join" /\ req'[s].step = 2 /\ req'[s].who \in Email
  BY <1>1, <1>3, SteppedFits
<1>5. FormFits(req[s])'
  <2>1. req'[s].step \in 1 .. 2
    BY <1>4
  <2> QED BY <1>2, <1>4, <2>1 DEF FormFits
<1>6. SessionFits(req[s])' /\ MemberFits(req[s])' /\ DigestFits(req[s])' /\ ReportFits(req[s])'
  BY <1>4 DEF SessionFits, MemberFits, DigestFits, ReportFits, Report
<1> QED BY <1>3, <1>4, <1>5, <1>6 DEF RequestFits, Calm, Shows

LEMMA ActivateGoesOn ==
  ASSUME SiteIInv, NEW s \in Slot, NEW k \in {1, 2}, NEW r \in RequestType, Proceed(s, r),
         r.kind = "activate", r.step = k, r.who \in Email, r.arg \in Action,
         members'[r.who].joined, k = 2 => <<r.who, r.arg>> \in (actions \cup dropped)'
  PROVE  /\ Only(s) /\ req' \in [Slot -> RequestType]
         /\ RequestFits(req[s])' /\ Calm(req'[s]) /\ ~Shows(req'[s])
<1>1. Len(Queries("activate")) = 3
  BY Lengths
<1>2. Only(s) /\ req'[s] = Stepped(r) /\ req' \in [Slot -> RequestType]
  <2>1. r.step # Len(Queries(r.kind))
    <3>1. Len(Queries(r.kind)) = 3
      BY <1>1
    <3>2. r.step # 3
      OBVIOUS
    <3> QED BY <3>1, <3>2
  <2> QED BY <2>1, Going
<1>3. /\ req'[s].kind = "activate" /\ req'[s].step = k + 1
      /\ req'[s].who = r.who /\ req'[s].arg = r.arg
  BY <1>2, SteppedFits
<1>4. FormFits(req[s])'
  <2>1. req'[s].step \in 1 .. 3
    BY <1>3
  <2> QED BY <1>1, <1>3, <2>1 DEF FormFits
<1>5. MemberFits(req[s])'
  BY <1>3 DEF MemberFits
<1>6. SessionFits(req[s])' /\ DigestFits(req[s])' /\ ReportFits(req[s])'
  BY <1>3 DEF SessionFits, DigestFits, ReportFits, Report
<1> QED BY <1>2, <1>3, <1>4, <1>5, <1>6 DEF RequestFits, Calm, Shows

\* A row that is put on a list now.
LEMMA RowFits ==
  ASSUME SiteIInv, NEW table \in {"newsletter", "lead"}, NEW e \in Email
  PROVE  Row(table, e) \in Rows /\ Row(table, e).at = second
BY PeopleTyped DEF Row, Rows

LEMMA CommunityMember ==
  ASSUME SiteIInv, NEW s \in Slot, NEW e \in Email, e = req[s].who,
         req[s].kind = "join", req[s].step = 1,
         members' = [members EXCEPT ![e].joined = TRUE], GoOn(s), UNCHANGED <<actions, rows, funds>>,
         UNCHANGED <<rewards, digests, answers, second, losses>>
  PROVE  SiteIInv'
<1>1. /\ Only(s) /\ req' \in [Slot -> RequestType]
      /\ RequestFits(req[s])' /\ Calm(req'[s]) /\ ~Shows(req'[s])
  BY JoinGoesOn
<1>2. /\ members \in [Email -> Member] /\ members' \in [Email -> Member]
      /\ \A x \in Email : /\ members[x].joined => members'[x].joined
                          /\ members'[x].activated = members[x].activated
                          /\ members'[x].first = members[x].first
  <2>1. members \in [Email -> Member]
    BY PeopleTyped
  <2>2. [members[e] EXCEPT !.joined = TRUE] \in Member
    BY <2>1 DEF Member
  <2> QED BY <2>1, <2>2 DEF Member
<1>3. PeopleGrow /\ ActivatedActed'
  BY <1>2, PeopleTyped DEF PeopleGrow, ActivatedActed, losses
<1>4. actions' \subseteq Email \X Action /\ rows' \subseteq Rows /\ funds' \in [Stage -> Nat]
      /\ \A x \in rows' : x \in rows \/ x.at = second
  BY PeopleTyped
<1> QED BY <1>1, <1>2, <1>3, <1>4, PeopleMove

LEMMA CommunityRow ==
  ASSUME SiteIInv, NEW s \in Slot, NEW e \in Email, NEW table \in {"newsletter", "lead"},
         req[s].step = Len(Queries(req[s].kind)),
         rows' = rows \/ rows' = rows \cup {Row(table, e)}, GoOn(s),
         UNCHANGED <<members, actions, funds>>,
         UNCHANGED <<rewards, digests, answers, second, losses>>
  PROVE  SiteIInv'
<1>1. /\ Only(s) /\ req' \in [Slot -> RequestType]
      /\ RequestFits(req[s])' /\ Calm(req'[s]) /\ ~Shows(req'[s])
  BY EndsHere
<1>2. rows' \subseteq Rows /\ \A x \in rows' : x \in rows \/ x.at = second
  BY PeopleTyped, RowFits
<1>3. PeopleGrow /\ ActivatedActed'
  BY PeopleTyped DEF PeopleGrow, ActivatedActed, losses
<1>4. members' \in [Email -> Member] /\ actions' \subseteq Email \X Action /\ funds' \in [Stage -> Nat]
  BY PeopleTyped
<1> QED BY <1>1, <1>2, <1>3, <1>4, PeopleMove

LEMMA CommunityJoined ==
  ASSUME SiteIInv, NEW s \in Slot, NEW e \in Email, e = req[s].who, req[s].arg \in Action,
         req[s].kind = "activate", req[s].step = 1, NEW i \in {0, 1},
         IF members[e].joined THEN Proceed(s, [req[s] EXCEPT !.seen = i]) ELSE Done(s),
         UNCHANGED <<db, answers, second, losses>>
  PROVE  SiteIInv'
<1>1. /\ Only(s) /\ req' \in [Slot -> RequestType]
      /\ RequestFits(req[s])' /\ Calm(req'[s]) /\ ~Shows(req'[s])
  <2>1. CASE members[e].joined
    <3> DEFINE r == [req[s] EXCEPT !.seen = i]
    <3>1. req[s] \in RequestType /\ Proceed(s, r) /\ members' = members
      BY <2>1, PeopleTyped DEF db, people
    <3>2. /\ r \in RequestType /\ r.kind = "activate" /\ r.step = 1 /\ r.who = e
          /\ r.arg = req[s].arg
      BY <3>1 DEF RequestType
    <3> HIDE DEF r
    <3>3. 1 # 2 /\ members'[r.who].joined
      BY <2>1, <3>1, <3>2
    <3> QED BY <3>1, <3>2, <3>3, ActivateGoesOn
  <2>2. CASE ~members[e].joined
    BY <2>2, Ending
  <2> QED BY <2>1, <2>2
<1> QED BY <1>1, AnswersStand, Quietly

LEMMA CommunityAction ==
  ASSUME SiteIInv, NEW s \in Slot, NEW e \in Email, e = req[s].who,
         NEW a \in Action, a = req[s].arg,
         req[s].kind = "activate", req[s].step = 2,
         actions' = actions \cup {<<e, a>>},
         Done(s) \/ GoOn(s),
         UNCHANGED <<members, rows, funds>>, UNCHANGED <<rewards, digests, answers, second, losses>>
  PROVE  SiteIInv'
<1>1. /\ Only(s) /\ req' \in [Slot -> RequestType]
      /\ RequestFits(req[s])' /\ Calm(req'[s]) /\ ~Shows(req'[s])
  <2>1. CASE GoOn(s)
    <3> DEFINE r == req[s]
    <3>1. r \in RequestType /\ Proceed(s, r) /\ members'[r.who].joined /\ <<r.who, r.arg>> \in (actions \cup dropped)'
      <4>1. RequestFits(r)
        BY DEF SiteIInv
      <4>2. members[r.who].joined
        BY <4>1 DEF RequestFits, MemberFits
      <4> QED BY <2>1, <4>2, PeopleTyped DEF GoOn
    <3>2. r.kind = "activate" /\ r.step = 2 /\ r.who \in Email /\ r.arg \in Action
      OBVIOUS
    <3> HIDE DEF r
    <3> QED BY <3>1, <3>2, ActivateGoesOn
  <2>2. CASE Done(s)
    BY <2>2, Ending
  <2> QED BY <2>1, <2>2
<1>2. actions' \subseteq Email \X Action
  BY PeopleTyped
<1>3. PeopleGrow /\ ActivatedActed'
  BY PeopleTyped DEF PeopleGrow, ActivatedActed, losses
<1>4. members' \in [Email -> Member] /\ rows' \subseteq Rows /\ funds' \in [Stage -> Nat]
      /\ \A x \in rows' : x \in rows \/ x.at = second
  BY PeopleTyped
<1> QED BY <1>1, <1>2, <1>3, <1>4, PeopleMove

LEMMA CommunityActivate ==
  ASSUME SiteIInv, NEW s \in Slot, NEW e \in Email, e = req[s].who,
         NEW a \in Action, a = req[s].arg,
         req[s].kind = "activate", req[s].step = 3,
         members' = [members EXCEPT ![e].activated = TRUE, ![e].first = a], GoOn(s),
         UNCHANGED <<actions, rows, funds>>, UNCHANGED <<rewards, digests, answers, second, losses>>
  PROVE  SiteIInv'
<1>1. /\ Only(s) /\ req' \in [Slot -> RequestType]
      /\ RequestFits(req[s])' /\ Calm(req'[s]) /\ ~Shows(req'[s])
  <2>1. req[s].step = Len(Queries(req[s].kind))
    BY Lengths
  <2> QED BY <2>1, EndsHere
<1>2. members[e].joined /\ <<e, a>> \in actions \cup dropped
  <2>1. RequestFits(req[s])
    BY DEF SiteIInv
  <2> QED BY <2>1 DEF RequestFits, MemberFits
<1>3. /\ members \in [Email -> Member] /\ members' \in [Email -> Member]
      /\ \A x \in Email : x # e => members'[x] = members[x]
      /\ members'[e].joined = members[e].joined /\ members'[e].first = a
  <2>1. members \in [Email -> Member]
    BY PeopleTyped
  <2>2. PICK n : n = [members[e] EXCEPT !.activated = TRUE, !.first = a]
    OBVIOUS
  <2>3. n \in Member /\ n.joined = members[e].joined /\ n.first = a
    BY <2>1, <2>2 DEF Member
  <2>4. members' = [members EXCEPT ![e] = n]
    BY <2>1, <2>2 DEF Member
  <2> QED BY <2>1, <2>3, <2>4
<1>4. PeopleGrow /\ ActivatedActed'
  <2>1. \A x \in Email : /\ members[x].joined => members'[x].joined
                         /\ members'[x].activated => members'[x].joined /\ <<x, members'[x].first>> \in actions \cup dropped
    <3>1. \A x \in Email : x # e => members'[x] = members[x]
      BY <1>3
    <3>2. \A x \in Email : members[x].activated => members[x].joined /\ <<x, members[x].first>> \in actions \cup dropped
      BY PeopleTyped DEF ActivatedActed
    <3> QED BY <1>2, <1>3, <3>1, <3>2
  <2> QED BY <2>1 DEF PeopleGrow, ActivatedActed, losses
<1>5. actions' \subseteq Email \X Action /\ rows' \subseteq Rows /\ funds' \in [Stage -> Nat]
      /\ \A x \in rows' : x \in rows \/ x.at = second
  BY PeopleTyped
<1> QED BY <1>1, <1>3, <1>4, <1>5, PeopleMove

\* Where a request of the community is.
LEMMA CommunityHere ==
  ASSUME SiteIInv, NEW s \in Slot, NEW q, At(s, q)
  PROVE  /\ q = "member" => req[s].kind = "join" /\ req[s].step = 1 /\ req[s].who \in Email
         /\ q \in {"subscriber", "lead"} => req[s].step = Len(Queries(req[s].kind)) /\ req[s].who \in Email
         /\ q \in {"joined", "action", "activate"} =>
              req[s].kind = "activate" /\ req[s].who \in Email /\ req[s].arg \in Action
         /\ q = "joined" => req[s].step = 1
         /\ q = "action" => req[s].step = 2
         /\ q = "activate" => req[s].step = 3
<1>1. FormFits(req[s]) /\ Home(req[s].kind, req[s].step, q)
  BY Here
<1>2. q = "subscriber" => \/ req[s].kind = "join" /\ req[s].step = 2
                          \/ req[s].kind = "subscribe" /\ req[s].step = 1
  BY <1>1 DEF Home
<1>3. q = "lead" => req[s].kind = "hire-lead" /\ req[s].step = 1
  BY <1>1 DEF Home
<1>4. q \in {"subscriber", "lead"} => req[s].step = Len(Queries(req[s].kind)) /\ req[s].who \in Email
  BY <1>1, <1>2, <1>3, Lengths DEF FormFits
<1> QED BY <1>1, <1>4 DEF Home, FormFits

LEMMA CommunityStep ==
  ASSUME SiteIInv, NEW s \in Slot, Community(s)
  PROVE  SiteIInv'
<1>1. UNCHANGED <<rewards, funds, weeks, digests, answers, second, losses>>
  BY DEF Community, swallowed, losses
<1> DEFINE e == req[s].who
           a == req[s].arg
<1>2. CASE At(s, "member") /\ members' = [members EXCEPT ![e].joined = TRUE] /\ GoOn(s)
           /\ UNCHANGED <<actions, rows>>
  BY <1>1, <1>2, CommunityHere, CommunityMember
<1>3. CASE At(s, "subscriber") /\ rows' = (IF Listed(e) THEN rows ELSE rows \cup {Row("newsletter", e)})
           /\ GoOn(s) /\ UNCHANGED <<members, actions>>
  <2>1. rows' = rows \/ rows' = rows \cup {Row("newsletter", e)}
    BY <1>3
  <2> QED BY <1>1, <1>3, <2>1, CommunityHere, CommunityRow
<1>4. CASE At(s, "lead") /\ rows' = rows \cup {Row("lead", e)} /\ GoOn(s) /\ UNCHANGED <<members, actions>>
  BY <1>1, <1>4, CommunityHere, CommunityRow
<1>5. CASE /\ At(s, "joined")
           /\ IF members[e].joined
              THEN Proceed(s, [req[s] EXCEPT !.seen = IF members[e].activated THEN 1 ELSE 0])
              ELSE Done(s)
           /\ UNCHANGED <<members, actions, rows>>
  <2>1. PICK i \in {0, 1} : i = (IF members[e].activated THEN 1 ELSE 0)
    OBVIOUS
  <2>2. UNCHANGED <<db, answers, second, losses>>
    BY <1>1, <1>5 DEF db, people
  <2> QED BY <1>5, <2>1, <2>2, CommunityHere, CommunityJoined
<1>6. CASE /\ At(s, "action") /\ actions' = actions \cup {<<e, a>>}
           /\ IF req[s].seen = 1 THEN Done(s) ELSE GoOn(s)
           /\ UNCHANGED <<members, rows>>
  BY <1>1, <1>6, CommunityHere, CommunityAction
<1>7. CASE /\ At(s, "activate") /\ members' = [members EXCEPT ![e].activated = TRUE, ![e].first = a]
           /\ GoOn(s) /\ UNCHANGED <<actions, rows>>
  BY <1>1, <1>7, CommunityHere, CommunityActivate
<1> QED BY <1>2, <1>3, <1>4, <1>5, <1>6, <1>7 DEF Community

(* The digest. *)
LEMMA DigestsMove ==
  ASSUME SiteIInv, UNCHANGED <<rewards, people, answers, second, losses>>,
         lastSent' \in Nat, sentAt' \subseteq Nat, sentAt \subseteq sentAt', mailed \subseteq mailed',
         NEW s \in Slot, Only(s), req' \in [Slot -> RequestType],
         RequestFits(req[s])', Calm(req'[s]), ~Shows(req'[s]), SentCovers'
  PROVE  SiteIInv'
<1>1. SiteTypes
  BY DEF SiteIInv
<1>2. SiteTypes'
  BY <1>1 DEF SiteTypes, rewards, people, losses
<1>3. RewardsGrow /\ PeopleGrow /\ GapsGrow
  BY <1>1, RewardsStand, PeopleStand, GapsStand
<1>4. DigestsGrow
  BY <1>1 DEF DigestsGrow, people, SiteTypes
<1>5. \A w \in Wallet : WalletBooks(w)'
  BY KeepBooks DEF rewards, losses
<1>6. ViewsCover'
  BY KeepViews DEF rewards, losses
<1>7. ActivatedActed'
  BY <1>3, KeepActed DEF people
<1>8. AnswersLag'
  BY <1>2, <1>3, KeepAnswers
<1> QED BY <1>2, <1>3, <1>4, <1>5, <1>6, <1>7, <1>8, Together

LEMMA DigestTyped ==
  ASSUME SiteIInv, NEW s \in Slot
  PROVE  /\ lastSent \in Nat /\ sentAt \subseteq Nat /\ second \in Nat \ {0} /\ rows \subseteq Rows
         /\ SentCovers /\ req[s] \in RequestType /\ DigestFits(req[s])
BY DEF SiteIInv, SiteTypes, RequestFits

LEMMA DigestGoesOn ==
  ASSUME SiteIInv, NEW s \in Slot, NEW k \in 1 .. 4, NEW r \in RequestType, Proceed(s, r),
         r.kind = "digest", r.step = k
  PROVE  /\ Only(s) /\ req' \in [Slot -> RequestType] /\ Calm(req'[s]) /\ ~Shows(req'[s])
         /\ req'[s].kind = "digest" /\ req'[s].step = k + 1
         /\ req'[s].seen = r.seen /\ req'[s].since = r.since /\ req'[s].found = r.found
         /\ DigestFits(req[s])' => RequestFits(req[s])'
<1>1. Len(Queries("digest")) = 5
  BY Lengths
<1>2. Only(s) /\ req'[s] = Stepped(r) /\ req' \in [Slot -> RequestType]
  <2>1. Len(Queries(r.kind)) = 5
    BY <1>1
  <2>2. r.step # 5
    OBVIOUS
  <2> QED BY <2>1, <2>2, Going
<1>3. /\ req'[s].kind = "digest" /\ req'[s].step = k + 1
      /\ req'[s].seen = r.seen /\ req'[s].since = r.since /\ req'[s].found = r.found
  BY <1>2, SteppedFits
<1>4. FormFits(req[s])'
  <2>1. req'[s].step \in 1 .. 5
    BY <1>3
  <2> QED BY <1>1, <1>3, <2>1 DEF FormFits
<1>5. SessionFits(req[s])' /\ MemberFits(req[s])' /\ ReportFits(req[s])'
  BY <1>3 DEF SessionFits, MemberFits, ReportFits, Report
<1>6. Calm(req'[s]) /\ ~Shows(req'[s])
  BY <1>3 DEF Calm, Shows
<1> QED BY <1>2, <1>3, <1>4, <1>5, <1>6 DEF RequestFits

\* A digest that has read the state, a table, and what a table of two is, or
\* went on without.
LEMMA DigestLooks ==
  ASSUME SiteIInv, NEW s \in Slot, NEW k \in 1 .. 3, NEW r \in RequestType, Proceed(s, r),
         r.kind = "digest", r.step = k, UNCHANGED <<rows, sentAt, second>>,
         r.seen <= second, r.since \in sentAt \cup {0},
         k >= 2 => \A x \in rows : r.since < x.at /\ x.at < r.seen /\ (x.table = "newsletter" \/ k = 3) =>
                     x \in r.found \cup missed'
  PROVE  /\ Only(s) /\ req' \in [Slot -> RequestType] /\ Calm(req'[s]) /\ ~Shows(req'[s])
         /\ RequestFits(req[s])'
<1>1. /\ Only(s) /\ req' \in [Slot -> RequestType] /\ Calm(req'[s]) /\ ~Shows(req'[s])
      /\ req'[s].kind = "digest" /\ req'[s].step = k + 1
      /\ req'[s].seen = r.seen /\ req'[s].since = r.since /\ req'[s].found = r.found
      /\ DigestFits(req[s])' => RequestFits(req[s])'
  <2>1. k \in 1 .. 4
    OBVIOUS
  <2> QED BY <2>1, DigestGoesOn
<1>2. DigestFits(req[s])'
  <2>1. /\ k + 1 # 5 /\ (k + 1 \in {3, 4} => k >= 2) /\ (k + 1 = 4 => k = 3)
    OBVIOUS
  <2> QED BY <1>1, <2>1 DEF DigestFits
<1> QED BY <1>1, <1>2

LEMMA DigestReads ==
  ASSUME SiteIInv, NEW s \in Slot, NEW k \in 1 .. 3, NEW r \in RequestType, Proceed(s, r),
         r.kind = "digest", r.step = k, UNCHANGED <<db, answers, second, losses>>,
         r.seen <= second, r.since \in sentAt \cup {0},
         k >= 2 => \A x \in rows : r.since < x.at /\ x.at < r.seen /\ (x.table = "newsletter" \/ k = 3) =>
                     x \in r.found \cup missed
  PROVE  SiteIInv'
<1>1. UNCHANGED <<rows, sentAt, second, missed>>
  BY DEF db, people, digests, losses
<1>2. /\ Only(s) /\ req' \in [Slot -> RequestType] /\ Calm(req'[s]) /\ ~Shows(req'[s])
      /\ RequestFits(req[s])'
  BY <1>1, DigestLooks
<1> QED BY <1>2, AnswersStand, Quietly

LEMMA DigestState ==
  ASSUME SiteIInv, NEW s \in Slot, req[s].kind = "digest", req[s].step = 1,
         Proceed(s, [req[s] EXCEPT !.seen = second, !.since = lastSent]),
         UNCHANGED <<db, answers, second, losses>>
  PROVE  SiteIInv'
<1> DEFINE r == [req[s] EXCEPT !.seen = second, !.since = lastSent]
<1>1. /\ r \in RequestType /\ r.kind = "digest" /\ r.step = 1
      /\ r.seen = second /\ r.since = lastSent /\ Proceed(s, r)
  BY DigestTyped DEF RequestType
<1> HIDE DEF r
<1>2. r.seen <= second /\ r.since \in sentAt \cup {0}
  BY <1>1, DigestTyped DEF SentCovers
<1>3. ~(1 >= 2) /\ 1 \in 1 .. 3
  OBVIOUS
<1> QED BY <1>1, <1>2, <1>3, DigestReads

LEMMA DigestNews ==
  ASSUME SiteIInv, NEW s \in Slot, req[s].kind = "digest", req[s].step = 2,
         Proceed(s, [req[s] EXCEPT !.found = Later("newsletter", req[s].since)]),
         UNCHANGED <<db, answers, second, losses>>
  PROVE  SiteIInv'
<1> DEFINE r == [req[s] EXCEPT !.found = Later("newsletter", req[s].since)]
<1>0. Later("newsletter", req[s].since) \subseteq Rows
  BY DigestTyped DEF Later
<1>1. /\ r \in RequestType /\ r.kind = "digest" /\ r.step = 2
      /\ r.seen = req[s].seen /\ r.since = req[s].since
      /\ r.found = Later("newsletter", req[s].since) /\ Proceed(s, r)
  BY <1>0, DigestTyped DEF RequestType
<1> HIDE DEF r
<1>2. r.seen <= second /\ r.since \in sentAt \cup {0}
  BY <1>1, DigestTyped DEF DigestFits
<1>3. \A x \in rows : r.since < x.at /\ x.table = "newsletter" => x \in r.found
  <2>1. \A x \in rows : x.at \in Nat
    BY DigestTyped DEF Rows
  <2>2. r.since \in Nat
    BY <1>1 DEF RequestType
  <2> QED BY <1>1, <2>1, <2>2 DEF Later
<1>4. 2 \in 1 .. 3 /\ 2 # 3
  OBVIOUS
<1> QED BY <1>1, <1>2, <1>3, <1>4, DigestReads

LEMMA DigestLeads ==
  ASSUME SiteIInv, NEW s \in Slot, req[s].kind = "digest", req[s].step = 3,
         Proceed(s, [req[s] EXCEPT !.found = @ \cup Later("lead", req[s].since)]),
         UNCHANGED <<db, answers, second, losses>>
  PROVE  SiteIInv'
<1> DEFINE r == [req[s] EXCEPT !.found = @ \cup Later("lead", req[s].since)]
<1>0. Later("lead", req[s].since) \subseteq Rows
  BY DigestTyped DEF Later
<1>1. /\ r \in RequestType /\ r.kind = "digest" /\ r.step = 3
      /\ r.seen = req[s].seen /\ r.since = req[s].since
      /\ r.found = req[s].found \cup Later("lead", req[s].since) /\ Proceed(s, r)
  BY <1>0, DigestTyped DEF RequestType
<1> HIDE DEF r
<1>2. r.seen <= second /\ r.since \in sentAt \cup {0}
  BY <1>1, DigestTyped DEF DigestFits
<1>3. \A x \in rows : r.since < x.at /\ x.at < r.seen => x \in r.found \cup missed
  <2>1. \A x \in rows : x.at \in Nat /\ x.table \in {"newsletter", "lead"}
    BY DigestTyped DEF Rows
  <2>2. r.since \in Nat
    BY <1>1 DEF RequestType
  <2>3. \A x \in rows : r.since < x.at /\ x.table = "lead" => x \in r.found
    BY <1>1, <2>1, <2>2 DEF Later
  <2>4. \A x \in rows : r.since < x.at /\ x.at < r.seen /\ x.table = "newsletter" =>
                         x \in r.found \cup missed
    BY <1>1, DigestTyped DEF DigestFits
  <2> QED BY <2>1, <2>3, <2>4
<1>4. 3 \in 1 .. 3
  OBVIOUS
<1> QED BY <1>1, <1>2, <1>3, <1>4, DigestReads

LEMMA DigestMail ==
  ASSUME SiteIInv, NEW s \in Slot, req[s].kind = "digest", req[s].step = 4,
         mailed' = mailed \cup req[s].found, GoOn(s),
         UNCHANGED <<rewards, people, answers, second, losses, lastSent, sentAt>>
  PROVE  SiteIInv'
<1> DEFINE r == req[s]
<1>1. r \in RequestType /\ r.kind = "digest" /\ r.step = 4 /\ Proceed(s, r) /\ DigestFits(r)
  BY DigestTyped DEF GoOn
<1>2. r.seen \in Nat /\ r.since \in Nat /\ r.found \subseteq Rows
  BY <1>1 DEF RequestType
<1> HIDE DEF r
<1>3. /\ Only(s) /\ req' \in [Slot -> RequestType] /\ Calm(req'[s]) /\ ~Shows(req'[s])
      /\ req'[s].kind = "digest" /\ req'[s].step = 5
      /\ req'[s].seen = r.seen /\ req'[s].since = r.since /\ req'[s].found = r.found
      /\ DigestFits(req[s])' => RequestFits(req[s])'
  <2>1. 4 \in 1 .. 4 /\ 4 + 1 = 5
    OBVIOUS
  <2> QED BY <1>1, <2>1, DigestGoesOn
<1>4. UNCHANGED rows
  BY DEF people
<1>5. DigestFits(req[s])'
  <2>1. r.seen <= second /\ r.since \in sentAt \cup {0}
    BY <1>1 DEF DigestFits
  <2>2. \A x \in rows : r.since < x.at /\ x.at < r.seen => x \in (mailed \cup missed)'
    BY <1>1 DEF DigestFits, r, losses
  <2> QED BY <1>3, <1>4, <2>1, <2>2 DEF DigestFits
<1>6. SentCovers'
  BY <1>4, DigestTyped DEF SentCovers, losses
<1>7. lastSent' \in Nat /\ sentAt' \subseteq Nat /\ sentAt \subseteq sentAt' /\ mailed \subseteq mailed'
  BY DigestTyped
<1> QED BY <1>3, <1>5, <1>6, <1>7, DigestsMove

LEMMA DigestSent ==
  ASSUME SiteIInv, NEW s \in Slot, req[s].kind = "digest", req[s].step = 5,
         lastSent' = req[s].seen, sentAt' = sentAt \cup {req[s].seen}, GoOn(s),
         UNCHANGED <<rewards, people, answers, second, losses, mailed>>
  PROVE  SiteIInv'
<1>1. /\ Only(s) /\ req' \in [Slot -> RequestType]
      /\ RequestFits(req[s])' /\ Calm(req'[s]) /\ ~Shows(req'[s])
  <2>1. req[s].step = Len(Queries(req[s].kind))
    BY Lengths
  <2> QED BY <2>1, EndsHere
<1> DEFINE r == req[s]
<1>2. r.seen \in Nat /\ r.since \in Nat /\ DigestFits(r) /\ SentCovers
  BY DigestTyped DEF RequestType
<1>3. /\ r.seen <= second /\ r.since \in sentAt \cup {0}
      /\ \A x \in rows : r.since < x.at /\ x.at < r.seen => x \in mailed \cup missed
  BY <1>2 DEF DigestFits
<1>4. UNCHANGED <<rows, missed>>
  BY DEF people, losses
<1>5. lastSent' \in Nat /\ sentAt' \subseteq Nat /\ sentAt \subseteq sentAt' /\ mailed \subseteq mailed'
  BY <1>2, DigestTyped
<1>6. SentCovers'
  <2>1. \A x \in rows : x.at \in Nat \ {0}
    BY DigestTyped DEF Rows
  <2>2. ASSUME NEW x \in rows, x.at < r.seen, x.at \notin sentAt PROVE x \in mailed \cup missed
    <3>1. CASE r.since < x.at
      BY <1>3, <2>2, <3>1
    <3>2. CASE x.at <= r.since
      <4>1. x.at # r.since /\ r.since # 0
        BY <1>3, <2>1, <2>2, <3>2
      <4>2. r.since \in sentAt /\ x.at < r.since
        BY <1>2, <1>3, <2>1, <3>2, <4>1
      <4> QED BY <1>2, <2>2, <4>2 DEF SentCovers
    <3> QED BY <1>2, <2>1, <3>1, <3>2
  <2>3. \A v \in sentAt' : v <= second
    BY <1>2, <1>3 DEF SentCovers
  <2>4. \A v \in sentAt', x \in rows : x.at < v /\ x.at \notin sentAt' => x \in mailed \cup missed
    BY <1>2, <2>2 DEF SentCovers
  <2> QED BY <1>4, <2>3, <2>4 DEF SentCovers
<1> QED BY <1>1, <1>5, <1>6, DigestsMove

LEMMA DigestHere ==
  ASSUME SiteIInv, NEW s \in Slot, NEW q, At(s, q)
  PROVE  /\ q = "state" => req[s].kind = "digest" /\ req[s].step = 1
         /\ q = "news" => req[s].kind = "digest" /\ req[s].step = 2
         /\ q = "leads" => req[s].kind = "digest" /\ req[s].step = 3
         /\ q = "mail" => req[s].kind = "digest" /\ req[s].step = 4
         /\ q = "sent" => req[s].kind = "digest" /\ req[s].step = 5
<1>1. Home(req[s].kind, req[s].step, q)
  BY Here
<1> QED BY <1>1 DEF Home

LEMMA DigestStep ==
  ASSUME SiteIInv, MailBound, NEW s \in Slot, Digest(s)
  PROVE  SiteIInv'
<1>1. UNCHANGED <<rewards, people, answers, second, losses>>
  BY DEF Digest, swallowed, losses
<1>2. CASE At(s, "state") /\ Proceed(s, [req[s] EXCEPT !.seen = second, !.since = lastSent])
           /\ UNCHANGED <<lastSent, mailed, sentAt>>
  <2>1. UNCHANGED <<db, answers, second, losses>>
    BY <1>1, <1>2 DEF db, digests
  <2> QED BY <1>2, <2>1, DigestHere, DigestState
<1>3. CASE At(s, "news") /\ Proceed(s, [req[s] EXCEPT !.found = Later("newsletter", req[s].since)])
           /\ UNCHANGED <<lastSent, mailed, sentAt>>
  <2>1. UNCHANGED <<db, answers, second, losses>>
    BY <1>1, <1>3 DEF db, digests
  <2> QED BY <1>3, <2>1, DigestHere, DigestNews
<1>4. CASE At(s, "leads") /\ Proceed(s, [req[s] EXCEPT !.found = @ \cup Later("lead", req[s].since)])
           /\ UNCHANGED <<lastSent, mailed, sentAt>>
  <2>1. UNCHANGED <<db, answers, second, losses>>
    BY <1>1, <1>4 DEF db, digests
  <2> QED BY <1>4, <2>1, DigestHere, DigestLeads
<1>5. CASE At(s, "mail") /\ mailed' = (IF MailBound THEN mailed \cup req[s].found ELSE mailed)
           /\ GoOn(s) /\ UNCHANGED <<lastSent, sentAt>>
  <2>1. mailed' = mailed \cup req[s].found
    BY <1>5
  <2> QED BY <1>1, <1>5, <2>1, DigestHere, DigestMail
<1>6. CASE At(s, "sent") /\ lastSent' = req[s].seen /\ sentAt' = sentAt \cup {req[s].seen}
           /\ GoOn(s) /\ UNCHANGED mailed
  BY <1>1, <1>6, DigestHere, DigestSent
<1> QED BY <1>2, <1>3, <1>4, <1>5, <1>6 DEF Digest

(* Records and reports. *)
LEMMA RecordHere ==
  ASSUME SiteIInv, NEW s \in Slot, NEW q \in {"funding", "metrics", "campaign"}, At(s, q)
  PROVE  /\ req[s].step = Len(Queries(req[s].kind))
         /\ q = "funding" => req[s].arg \in Stage
         /\ q = "campaign" => req[s].arg \in Campaign
<1>1. FormFits(req[s]) /\ Home(req[s].kind, req[s].step, q)
  BY Here
<1>2. req[s].step = Len(Queries(req[s].kind))
  BY <1>1, Lengths DEF Home
<1> QED BY <1>1, <1>2 DEF Home, FormFits

LEMMA RecordCampaign ==
  ASSUME SiteIInv, NEW s \in Slot, NEW c \in Campaign,
         campaigns' = [campaigns EXCEPT ![c] = [live |-> TRUE, shown |-> 0]], GoOn(s),
         req[s].step = Len(Queries(req[s].kind)),
         UNCHANGED <<users, sessions, views, claims, people, digests, answers, second, losses>>
  PROVE  SiteIInv'
<1>1. /\ Only(s) /\ req' \in [Slot -> RequestType]
      /\ RequestFits(req[s])' /\ Calm(req'[s]) /\ ~Shows(req'[s])
  BY EndsHere
<1> DEFINE x == [live |-> TRUE, shown |-> 0]
<1>2. x \in Ad /\ x.shown = 0
  BY DEF Ad
<1>3. campaigns' = [campaigns EXCEPT ![c] = x]
  OBVIOUS
<1> HIDE DEF x
<1>4. campaigns \in [Campaign -> Ad] /\ campaigns[c].shown \in Nat
  BY RewardsTyped DEF RewardTypes, Ad
<1>5. campaigns' \in [Campaign -> Ad]
  BY <1>2, <1>3, <1>4
<1>6. Shown(campaigns) \in Nat /\ Shown(campaigns') = Shown(campaigns) + x.shown - campaigns[c].shown
  <2>1. /\ Shown(campaigns) \in Nat
        /\ Shown([campaigns EXCEPT ![c] = x]) = Shown(campaigns) + x.shown - campaigns[c].shown
    BY <1>2, <1>4, ShownNumber DEF Ad
  <2> QED BY <1>3, <2>1
<1>7. UNCHANGED <<users, sessions, views, claims>>
  OBVIOUS
<1>8. RewardTypes' /\ RewardsGrow
  BY <1>5, <1>7, RewardsTyped, Numbers DEF RewardTypes, RewardsGrow, SiteIInv
<1>9. ASSUME NEW v \in Wallet PROVE WalletBooks(v)'
  BY <1>1, <1>7, KeepBooks DEF losses
<1>10. ViewsCover'
  <2>1. /\ Showing(req) \in Nat /\ Showing(req') \in Nat
        /\ Showing(req') = Showing(req) + ShowsBy(req[s], req'[s])
        /\ AllViewed \in Nat
        /\ Shown(campaigns) + Showing(req) <= AllViewed
    BY <1>1, ShowsCount
  <2>2. ShowsBy(req[s], req'[s]) \in {0, 0 - 1}
    BY <1>1 DEF ShowsBy
  <2>3. Shown(campaigns') = Shown(campaigns) - campaigns[c].shown
    BY <1>2, <1>4, <1>6
  <2>4. Shown(campaigns') + Showing(req') <= AllViewed
    BY <1>4, <1>6, <2>1, <2>2, <2>3
  <2>5. AllViewed' = AllViewed
    BY <1>7 DEF AllViewed, losses
  <2> QED BY <2>4, <2>5 DEF ViewsCover
<1> QED BY <1>1, <1>8, <1>9, <1>10, RewardsMove

LEMMA RecordRow ==
  ASSUME SiteIInv, NEW s \in Slot, GoOn(s), req[s].step = Len(Queries(req[s].kind)),
         UNCHANGED <<rewards, members, actions, rows, digests, answers, second, losses>>,
         funds' \in [Stage -> Nat]
  PROVE  SiteIInv'
<1>1. /\ Only(s) /\ req' \in [Slot -> RequestType]
      /\ RequestFits(req[s])' /\ Calm(req'[s]) /\ ~Shows(req'[s])
  BY EndsHere
<1>2. members' \in [Email -> Member] /\ actions' \subseteq Email \X Action /\ rows' \subseteq Rows
      /\ \A x \in rows' : x \in rows \/ x.at = second
  BY PeopleTyped
<1>3. PeopleGrow /\ ActivatedActed'
  BY PeopleTyped DEF PeopleGrow, ActivatedActed, losses
<1> QED BY <1>1, <1>2, <1>3, PeopleMove

LEMMA RecordStep ==
  ASSUME SiteIInv, NEW s \in Slot, Record(s)
  PROVE  SiteIInv'
<1> DEFINE x == req[s].arg
<1>1. /\ GoOn(s)
      /\ UNCHANGED <<users, sessions, views, claims, members, actions, rows, digests, answers, second, losses>>
  BY DEF Record, swallowed, losses
<1>2. CASE At(s, "funding") /\ funds' = [funds EXCEPT ![x] = @ + 1] /\ UNCHANGED <<weeks, campaigns>>
  <2>1. x \in Stage /\ req[s].step = Len(Queries(req[s].kind))
    BY <1>2, RecordHere
  <2>2. funds' \in [Stage -> Nat]
    <3>1. funds[x] + 1 \in Nat
      BY <2>1, PeopleTyped
    <3> QED BY <1>2, <3>1, PeopleTyped
  <2>3. UNCHANGED rewards
    BY <1>1, <1>2 DEF rewards
  <2> QED BY <1>1, <2>1, <2>2, <2>3, RecordRow
<1>3. CASE At(s, "metrics") /\ UNCHANGED <<funds, campaigns>>
  <2>1. req[s].step = Len(Queries(req[s].kind))
    BY <1>3, RecordHere
  <2>2. funds' \in [Stage -> Nat] /\ UNCHANGED rewards
    BY <1>1, <1>3, PeopleTyped DEF rewards
  <2> QED BY <1>1, <2>1, <2>2, RecordRow
<1>4. CASE /\ At(s, "campaign") /\ campaigns' = [campaigns EXCEPT ![x] = [live |-> TRUE, shown |-> 0]]
           /\ UNCHANGED <<funds, weeks>>
  <2>1. req[s].step = Len(Queries(req[s].kind)) /\ x \in Campaign
    BY <1>4, RecordHere
  <2>2. UNCHANGED people
    BY <1>1, <1>4 DEF people
  <2> QED BY <1>1, <1>4, <2>1, <2>2, RecordCampaign
<1> QED BY <1>2, <1>3, <1>4 DEF Record

\* What is told in one answer.
AnswerFits(kind, a) ==
  /\ kind = "campaigns" => a[1] <= AllViewed
  /\ kind = "scoreboard" =>
       /\ Len(a) = 6 /\ a[2] <= a[1]
       /\ a[3] > 0 => a[2] <= a[3] + Cardinality(dropped)
  /\ kind = "pending" => /\ Len(a) = 2 /\ a[2] <= OwedBy(claims)
                         /\ a[2] > 0 => a[1] <= a[2]
  /\ kind = "dispense" => a[1] <= OwedBy(claims)
  /\ kind = "user" => Len(a) = 2 /\ a[1] <= a[2] + 2 * LossOf(lost, "claim")

LEMMA Answered ==
  ASSUME SiteIInv, NEW s \in Slot, req[s].kind \in Report, req[s].step = Len(Queries(req[s].kind)),
         NEW values \in Seq(Nat), Answers(s, values), AnswerFits(req[s].kind, req[s].read \o values),
         UNCHANGED <<db, second, losses>>
  PROVE  SiteIInv'
<1> DEFINE a == req[s].read \o values
           kind == req[s].kind
<1>1. req[s].read \in Seq(Nat)
  BY PeopleTyped DEF RequestType
<1>2. a \in Seq(Nat)
  BY <1>1, ConcatProperties
<1>3. answers \in [Report -> Seq(Nat)] /\ AnswersLag
  BY DEF SiteIInv, SiteTypes
<1>4. GoOn(s) /\ answers' = [answers EXCEPT ![kind] = a]
  BY DEF Answers
<1>5. /\ Only(s) /\ req' \in [Slot -> RequestType]
      /\ RequestFits(req[s])' /\ Calm(req'[s]) /\ ~Shows(req'[s])
  BY <1>4, EndsHere
<1>6. UNCHANGED <<views, claims, lost, dropped, AllViewed>>
  BY DEF db, rewards, losses, AllViewed
<1> HIDE DEF a, kind
<1>7. kind \in Report /\ AnswerFits(kind, a)
  BY DEF a, kind
<1>8. /\ answers' \in [Report -> Seq(Nat)]
      /\ \A k \in Report : answers'[k] = IF k = kind THEN a ELSE answers[k]
  BY <1>2, <1>3, <1>4, <1>7
<1>9. AnswersLag'
  <2>1. \A k \in Report : AnswerFits(k, answers'[k]) \/ answers'[k] = << >>
    <3>1. \A k \in Report : answers[k] # << >> => AnswerFits(k, answers[k])
      BY <1>3 DEF AnswersLag, AnswerFits, Report
    <3> QED BY <1>7, <1>8, <3>1
  <2> QED BY <1>6, <2>1 DEF AnswersLag, AnswerFits, Report
<1> QED BY <1>5, <1>8, <1>9, Quietly

\* A report that goes on with what it has read.
LEMMA ReportGoesOn ==
  ASSUME SiteIInv, NEW s \in Slot, req[s].kind \in {"scoreboard", "pending"},
         req[s].step # Len(Queries(req[s].kind)), req[s].step \in 1 .. Len(Queries(req[s].kind)),
         NEW values \in Seq(Nat), Reads(s, values), UNCHANGED <<db, second, losses>>
  PROVE  /\ req'[s].kind = req[s].kind /\ req'[s].step = req[s].step + 1
         /\ req'[s].read = req[s].read \o values
         /\ ReportFits(req[s])' => SiteIInv'
<1> DEFINE r == [req[s] EXCEPT !.read = req[s].read \o values]
<1>1. req[s] \in RequestType /\ req[s].read \in Seq(Nat)
  BY PeopleTyped DEF RequestType
<1>2. req[s].read \o values \in Seq(Nat)
  BY <1>1, ConcatProperties
<1>3. /\ r \in RequestType /\ r.kind = req[s].kind /\ r.step = req[s].step
      /\ r.read = req[s].read \o values
  BY <1>1, <1>2 DEF RequestType
<1>4. Proceed(s, r) /\ UNCHANGED answers
  BY DEF Reads
<1> HIDE DEF r
<1>5. Only(s) /\ req'[s] = Stepped(r) /\ req' \in [Slot -> RequestType]
  BY <1>3, <1>4, Going
<1>6. req'[s].kind = req[s].kind /\ req'[s].step = req[s].step + 1
      /\ req'[s].read = req[s].read \o values
  BY <1>3, <1>5, SteppedFits
<1>7. FormFits(req[s])'
  <2>1. Len(Queries(req[s].kind)) \in Nat /\ req[s].step \in Nat
    BY <1>1, Lengths DEF RequestType
  <2>2. req[s].step + 1 \in 1 .. Len(Queries(req[s].kind))
    BY <2>1
  <2> QED BY <1>6, <2>2 DEF FormFits
<1>8. SessionFits(req[s])' /\ MemberFits(req[s])' /\ DigestFits(req[s])'
  BY <1>6 DEF SessionFits, MemberFits, DigestFits
<1>9. Calm(req'[s]) /\ ~Shows(req'[s])
  BY <1>6 DEF Calm, Shows
<1>10. UNCHANGED <<db, answers, second, losses>>
  BY <1>4
<1>11. ASSUME ReportFits(req[s])' PROVE SiteIInv'
  <2>1. RequestFits(req[s])'
    BY <1>7, <1>8, <1>11 DEF RequestFits
  <2>2. answers' \in [Report -> Seq(Nat)] /\ AnswersLag'
    BY <1>10, AnswersStand
  <2> QED BY <1>5, <1>9, <1>10, <2>1, <2>2, Quietly
<1> QED BY <1>6, <1>11

LEMMA ReportHere ==
  ASSUME SiteIInv, NEW s \in Slot, NEW q, At(s, q)
  PROVE  /\ q = "totals" => req[s].kind = "scoreboard" /\ req[s].step = 1
         /\ q = "contributions" => req[s].kind = "scoreboard" /\ req[s].step = 2
         /\ q = "raised" => req[s].kind = "scoreboard" /\ req[s].step = 3
         /\ q = "week" => req[s].kind = "scoreboard" /\ req[s].step = 4
         /\ q = "recipients" => req[s].kind = "pending" /\ req[s].step = 1
         /\ q = "summary" => req[s].kind = "pending" /\ req[s].step = 2
         /\ q = "account" => req[s].kind = "user" /\ req[s].step = 1 /\ req[s].who \in Wallet
         /\ q = "list" => req[s].kind = "campaigns" /\ req[s].step = 1
         /\ q = "preview" => req[s].kind = "dispense" /\ req[s].step = 1
         /\ ReportFits(req[s]) /\ req[s].read \in Seq(Nat)
         /\ req[s].step \in 1 .. Len(Queries(req[s].kind))
         /\ q \in {"totals", "contributions", "raised", "recipients"} =>
              req[s].step # Len(Queries(req[s].kind))
<1>1. /\ Home(req[s].kind, req[s].step, q) /\ FormFits(req[s]) /\ req[s] \in RequestType
      /\ req[s].step \in 1 .. Len(Queries(req[s].kind))
  BY Here
<1>2. ReportFits(req[s])
  BY DEF SiteIInv, RequestFits
<1>3. ASSUME q \in {"totals", "contributions", "raised", "recipients"}
      PROVE  req[s].step # Len(Queries(req[s].kind))
  <2>1. \/ req[s].kind = "scoreboard" /\ req[s].step \in {1, 2, 3}
        \/ req[s].kind = "pending" /\ req[s].step = 1
    BY <1>1, <1>3 DEF Home
  <2>2. CASE req[s].kind = "scoreboard" /\ req[s].step \in {1, 2, 3}
    <3>1. Len(Queries(req[s].kind)) = 4
      BY <2>2, Lengths
    <3>2. req[s].step # 4
      BY <2>2
    <3> QED BY <3>1, <3>2
  <2>3. CASE req[s].kind = "pending" /\ req[s].step = 1
    <3>1. Len(Queries(req[s].kind)) = 2
      BY <2>3, Lengths
    <3> QED BY <2>3, <3>1
  <2> QED BY <2>1, <2>2, <2>3
<1> QED BY <1>1, <1>2, <1>3 DEF Home, FormFits, RequestType

\* A list with one or two more numbers.
LEMMA OneMore ==
  ASSUME NEW a \in Seq(Nat), NEW x \in Nat
  PROVE  /\ <<x>> \in Seq(Nat) /\ a \o <<x>> \in Seq(Nat) /\ Len(a \o <<x>>) = Len(a) + 1
         /\ \A i \in 1 .. Len(a) : (a \o <<x>>)[i] = a[i]
         /\ (a \o <<x>>)[Len(a) + 1] = x
<1>1. <<x>> \in Seq(Nat) /\ Len(<<x>>) = 1 /\ <<x>>[1] = x
  OBVIOUS
<1>2. Len(a) \in Nat
  BY LenProperties
<1>3. /\ a \o <<x>> \in Seq(Nat) /\ Len(a \o <<x>>) = Len(a) + 1
      /\ \A i \in 1 .. Len(a) + 1 : (a \o <<x>>)[i] = IF i <= Len(a) THEN a[i] ELSE <<x>>[i - Len(a)]
  BY <1>1, ConcatProperties
<1>4. Len(a) + 1 \in 1 .. Len(a) + 1 /\ ~(Len(a) + 1 <= Len(a)) /\ Len(a) + 1 - Len(a) = 1
  BY <1>2
<1>5. \A i \in 1 .. Len(a) : i \in 1 .. Len(a) + 1 /\ i <= Len(a)
  BY <1>2
<1> QED BY <1>1, <1>3, <1>4, <1>5

LEMMA TwoMore ==
  ASSUME NEW a \in Seq(Nat), NEW x \in Nat, NEW y \in Nat
  PROVE  /\ <<x, y>> \in Seq(Nat) /\ a \o <<x, y>> \in Seq(Nat) /\ Len(a \o <<x, y>>) = Len(a) + 2
         /\ \A i \in 1 .. Len(a) : (a \o <<x, y>>)[i] = a[i]
         /\ (a \o <<x, y>>)[Len(a) + 1] = x /\ (a \o <<x, y>>)[Len(a) + 2] = y
<1>1. <<x, y>> \in Seq(Nat) /\ Len(<<x, y>>) = 2 /\ <<x, y>>[1] = x /\ <<x, y>>[2] = y
  OBVIOUS
<1>2. Len(a) \in Nat
  BY LenProperties
<1>3. /\ a \o <<x, y>> \in Seq(Nat) /\ Len(a \o <<x, y>>) = Len(a) + 2
      /\ \A i \in 1 .. Len(a) + 2 : (a \o <<x, y>>)[i] = IF i <= Len(a) THEN a[i] ELSE <<x, y>>[i - Len(a)]
  BY <1>1, ConcatProperties
<1>4. /\ Len(a) + 1 \in 1 .. Len(a) + 2 /\ ~(Len(a) + 1 <= Len(a)) /\ Len(a) + 1 - Len(a) = 1
      /\ Len(a) + 2 \in 1 .. Len(a) + 2 /\ ~(Len(a) + 2 <= Len(a)) /\ Len(a) + 2 - Len(a) = 2
  BY <1>2
<1>5. \A i \in 1 .. Len(a) : i \in 1 .. Len(a) + 2 /\ i <= Len(a)
  BY <1>2
<1> QED BY <1>1, <1>3, <1>4, <1>5

LEMMA OwedIs ==
  /\ AllOwed = OwedBy(claims)
  /\ \A w : Owed(w) = 2 * claims[w].view + claims[w].referral
<1> DEFINE f == [w \in Wallet |-> Owed(w)]
<1>1. f = [w \in Wallet |-> 2 * claims[w].view + claims[w].referral] /\ DOMAIN f = Wallet
  BY DEF Owed
<1>2. SumFunction(f) = Sum(f, Wallet)
  BY <1>1, SumIs
<1> QED BY <1>1, <1>2 DEF AllOwed, OwedBy, Owed

\* The members that the scoreboard counts.
LEMMA MembersCount ==
  ASSUME SiteIInv
  PROVE  /\ Cardinality(Joined) \in Nat /\ Cardinality(Activated) \in Nat /\ Cardinality(actions) \in Nat
         /\ Cardinality(Activated) <= Cardinality(Joined)
         /\ Cardinality(dropped) \in Nat
         /\ Cardinality(Activated) <= Cardinality(actions) + Cardinality(dropped)
<1>1. IsFiniteSet(Joined) /\ IsFiniteSet(Activated)
  BY SiteAssumption, FS_Subset DEF Joined, Activated
<1>2. Activated \subseteq Joined
  BY PeopleTyped DEF ActivatedActed, Activated, Joined
<1>3. /\ IsFiniteSet(actions) /\ Cardinality(actions) \in Nat
      /\ IsFiniteSet(dropped) /\ Cardinality(dropped) \in Nat
  BY Numbers, GapNumbers DEF SiteIInv
<1> DEFINE f == [e \in Activated |-> <<e, members[e].first>>]
<1>4. f \in Injection(Activated, actions \cup dropped)
  <2>1. \A e \in Activated : f[e] \in actions \cup dropped
    BY PeopleTyped DEF ActivatedActed, Activated
  <2>2. \A a, b \in Activated : f[a] = f[b] => a = b
    OBVIOUS
  <2> QED BY <2>1, <2>2 DEF Injection, IsInjective
<1>5. Cardinality(Activated) <= Cardinality(actions) + Cardinality(dropped)
  <2> HIDE DEF f
  <2>1. /\ IsFiniteSet(actions \cup dropped) /\ IsFiniteSet(actions \cap dropped)
        /\ Cardinality(actions \cup dropped) =
             Cardinality(actions) + Cardinality(dropped) - Cardinality(actions \cap dropped)
    BY <1>3, FS_Union, FS_Intersection
  <2>2. Cardinality(actions \cap dropped) \in Nat
    BY <2>1, FS_CardinalityType
  <2>3. Cardinality(Activated) <= Cardinality(actions \cup dropped)
    BY <1>4, <2>1, FS_Injection
  <2>4. Cardinality(Activated) \in Nat
    BY <1>1, FS_CardinalityType
  <2> QED BY <1>3, <2>1, <2>2, <2>3, <2>4
<1>6. Cardinality(Activated) <= Cardinality(Joined)
  BY <1>1, <1>2, FS_Subset
<1> QED BY <1>1, <1>3, <1>5, <1>6, FS_CardinalityType

LEMMA ScoreTotals ==
  ASSUME SiteIInv, NEW s \in Slot, At(s, "totals"), NEW x \in Nat, NEW y \in Nat, y <= x,
         y <= Cardinality(actions) + Cardinality(dropped),
         Reads(s, <<x, y>>), UNCHANGED <<db, second, losses>>
  PROVE  SiteIInv'
<1> DEFINE r == req[s].read
<1>1. x \in Nat /\ y \in Nat /\ y <= x /\ y <= Cardinality(actions) + Cardinality(dropped)
  OBVIOUS
<1>2. req[s].kind = "scoreboard" /\ req[s].step = 1 /\ ReportFits(req[s]) /\ r \in Seq(Nat)
  BY ReportHere
<1>3. r = << >> /\ Len(r) = 0
  BY <1>2 DEF ReportFits, Report
<1> HIDE DEF r
<1>4. /\ <<x, y>> \in Seq(Nat) /\ Len(r \o <<x, y>>) = 2
      /\ (r \o <<x, y>>)[1] = x /\ (r \o <<x, y>>)[2] = y
  <2>1. /\ <<x, y>> \in Seq(Nat) /\ Len(r \o <<x, y>>) = Len(r) + 2
        /\ (r \o <<x, y>>)[Len(r) + 1] = x /\ (r \o <<x, y>>)[Len(r) + 2] = y
    BY <1>1, <1>2, TwoMore
  <2> QED BY <1>3, <2>1
<1>5. Reads(s, <<x, y>>) /\ Len(Queries("scoreboard")) = 4
  BY Lengths
<1>6. /\ req'[s].kind = "scoreboard" /\ req'[s].step = 2 /\ req'[s].read = r \o <<x, y>>
      /\ ReportFits(req[s])' => SiteIInv'
  <2>1. /\ req[s].kind \in {"scoreboard", "pending"} /\ req[s].step # Len(Queries(req[s].kind))
        /\ req[s].step \in 1 .. Len(Queries(req[s].kind))
    BY <1>2, ReportHere
  <2>2. /\ req'[s].kind = req[s].kind /\ req'[s].step = req[s].step + 1
        /\ req'[s].read = req[s].read \o <<x, y>>
        /\ ReportFits(req[s])' => SiteIInv'
    BY <2>1, <1>4, <1>5, ReportGoesOn
  <2> QED BY <1>2, <2>2 DEF r
<1>7. actions' = actions /\ dropped' = dropped
  BY DEF db, people, losses
<1>8. ReportFits(req[s])'
  BY <1>1, <1>4, <1>6, <1>7 DEF ReportFits, Report
<1> QED BY <1>6, <1>8

LEMMA ScoreContributions ==
  ASSUME SiteIInv, NEW s \in Slot, At(s, "contributions"),
         NEW x \in Nat, x > 0 => x = Cardinality(actions),
         Reads(s, <<x>>), UNCHANGED <<db, second, losses>>
  PROVE  SiteIInv'
<1> DEFINE r == req[s].read
<1>1. x \in Nat /\ dropped' = dropped
  BY DEF losses
<1>2. req[s].kind = "scoreboard" /\ req[s].step = 2 /\ ReportFits(req[s]) /\ r \in Seq(Nat)
  BY ReportHere
<1>3. Len(r) = 2 /\ r[2] <= r[1] /\ (x > 0 => r[2] <= x + Cardinality(dropped))
  BY <1>2 DEF ReportFits
<1> HIDE DEF r
<1>4. /\ <<x>> \in Seq(Nat) /\ Len(r \o <<x>>) = 3
      /\ (r \o <<x>>)[1] = r[1] /\ (r \o <<x>>)[2] = r[2] /\ (r \o <<x>>)[3] = x
  <2>1. /\ <<x>> \in Seq(Nat) /\ Len(r \o <<x>>) = Len(r) + 1
        /\ \A i \in 1 .. Len(r) : (r \o <<x>>)[i] = r[i]
        /\ (r \o <<x>>)[Len(r) + 1] = x
    BY <1>1, <1>2, OneMore
  <2> QED BY <1>3, <2>1
<1>5. Reads(s, <<x>>) /\ Len(Queries("scoreboard")) = 4
  BY Lengths
<1>6. /\ req'[s].kind = "scoreboard" /\ req'[s].step = 3 /\ req'[s].read = r \o <<x>>
      /\ ReportFits(req[s])' => SiteIInv'
  <2>1. /\ req[s].kind \in {"scoreboard", "pending"} /\ req[s].step # Len(Queries(req[s].kind))
        /\ req[s].step \in 1 .. Len(Queries(req[s].kind))
    BY <1>2, ReportHere
  <2>2. /\ req'[s].kind = req[s].kind /\ req'[s].step = req[s].step + 1
        /\ req'[s].read = req[s].read \o <<x>>
        /\ ReportFits(req[s])' => SiteIInv'
    BY <2>1, <1>4, <1>5, ReportGoesOn
  <2> QED BY <1>2, <2>2 DEF r
<1>7. ReportFits(req[s])'
  BY <1>1, <1>3, <1>4, <1>6 DEF ReportFits, Report
<1> QED BY <1>6, <1>7

LEMMA ScoreRaised ==
  ASSUME SiteIInv, NEW s \in Slot, At(s, "raised"), NEW x \in Nat, NEW y \in Nat,
         Reads(s, <<x, y>>), UNCHANGED <<db, second, losses>>
  PROVE  SiteIInv'
<1> DEFINE r == req[s].read
<1>1. dropped' = dropped
  BY DEF losses
<1>2. req[s].kind = "scoreboard" /\ req[s].step = 3 /\ ReportFits(req[s]) /\ r \in Seq(Nat)
  BY ReportHere
<1>3. Len(r) = 3 /\ r[2] <= r[1] /\ (r[3] > 0 => r[2] <= r[3] + Cardinality(dropped))
  BY <1>2 DEF ReportFits
<1> HIDE DEF r
<1>4. /\ <<x, y>> \in Seq(Nat) /\ Len(r \o <<x, y>>) = 5
      /\ (r \o <<x, y>>)[1] = r[1] /\ (r \o <<x, y>>)[2] = r[2] /\ (r \o <<x, y>>)[3] = r[3]
  <2>1. /\ <<x, y>> \in Seq(Nat) /\ Len(r \o <<x, y>>) = Len(r) + 2
        /\ \A i \in 1 .. Len(r) : (r \o <<x, y>>)[i] = r[i]
    BY <1>1, <1>2, TwoMore
  <2> QED BY <1>3, <2>1
<1>5. Reads(s, <<x, y>>) /\ Len(Queries("scoreboard")) = 4
  BY Lengths
<1>6. /\ req'[s].kind = "scoreboard" /\ req'[s].step = 4 /\ req'[s].read = r \o <<x, y>>
      /\ ReportFits(req[s])' => SiteIInv'
  <2>1. /\ req[s].kind \in {"scoreboard", "pending"} /\ req[s].step # Len(Queries(req[s].kind))
        /\ req[s].step \in 1 .. Len(Queries(req[s].kind))
    BY <1>2, ReportHere
  <2>2. /\ req'[s].kind = req[s].kind /\ req'[s].step = req[s].step + 1
        /\ req'[s].read = req[s].read \o <<x, y>>
        /\ ReportFits(req[s])' => SiteIInv'
    BY <2>1, <1>4, <1>5, ReportGoesOn
  <2> QED BY <1>2, <2>2 DEF r
<1>7. ReportFits(req[s])'
  BY <1>1, <1>3, <1>4, <1>6 DEF ReportFits, Report
<1> QED BY <1>6, <1>7

LEMMA LatestWeekIs == LatestWeek \in Nat
<1> DEFINE W == {0} \cup {w \in Week : weeks[w]}
<1>1. W \in SUBSET Int /\ IsFiniteSet(W) /\ W # {} /\ W \subseteq Nat
  <2>1. IsFiniteSet({w \in Week : weeks[w]}) /\ IsFiniteSet({0})
    BY SiteAssumption, FS_Subset, FS_Singleton
  <2>2. IsFiniteSet(W)
    BY <2>1, FS_Union
  <2>3. W \subseteq Nat
    <3>1. 0 \in Nat /\ Week \subseteq Nat
      BY SiteAssumption
    <3> QED BY <3>1, Zenon
  <2> QED BY <2>2, <2>3
<1>2. \E m \in W : \A x \in W : x <= m
  <2> HIDE DEF W
  <2> QED BY <1>1, Extremes
<1>3. \E m \in W : \A x \in W : m >= x
  BY <1>1, <1>2
<1>4. Max(W) \in W
  <2> HIDE DEF W
  <2> QED BY <1>3 DEF Max
<1> QED BY <1>1, <1>4 DEF LatestWeek

LEMMA ScoreWeek ==
  ASSUME SiteIInv, NEW s \in Slot, At(s, "week"), NEW x \in Nat, Answers(s, <<x>>),
         UNCHANGED <<db, second, losses>>
  PROVE  SiteIInv'
<1> DEFINE r == req[s].read
<1>1. x \in Nat
  OBVIOUS
<1>2. req[s].kind = "scoreboard" /\ req[s].step = 4 /\ ReportFits(req[s]) /\ r \in Seq(Nat)
  BY ReportHere
<1>3. Len(r) = 5 /\ r[2] <= r[1] /\ (r[3] > 0 => r[2] <= r[3] + Cardinality(dropped))
  BY <1>2 DEF ReportFits
<1>4. Answers(s, <<x>>) /\ Len(Queries("scoreboard")) = 4
  BY Lengths
<1> HIDE DEF r
<1>5. /\ <<x>> \in Seq(Nat) /\ Len(r \o <<x>>) = 6
      /\ (r \o <<x>>)[1] = r[1] /\ (r \o <<x>>)[2] = r[2] /\ (r \o <<x>>)[3] = r[3]
  <2>1. /\ <<x>> \in Seq(Nat) /\ Len(r \o <<x>>) = Len(r) + 1
        /\ \A i \in 1 .. Len(r) : (r \o <<x>>)[i] = r[i]
    BY <1>1, <1>2, OneMore
  <2>2. 1 \in 1 .. Len(r) /\ 2 \in 1 .. Len(r) /\ 3 \in 1 .. Len(r)
    BY <1>3
  <2> QED BY <1>3, <2>1, <2>2
<1>6. AnswerFits("scoreboard", r \o <<x>>) /\ "scoreboard" \in Report
  BY <1>3, <1>5 DEF AnswerFits, Report
<1> QED BY <1>2, <1>4, <1>5, <1>6, Answered DEF r

LEMMA PendingRecipients ==
  ASSUME SiteIInv, NEW s \in Slot, At(s, "recipients"), NEW x \in Nat, x <= OwedBy(claims),
         Reads(s, <<x>>), UNCHANGED <<db, second, losses>>
  PROVE  SiteIInv'
<1> DEFINE r == req[s].read
<1>1. x \in Nat
  OBVIOUS
<1>2. req[s].kind = "pending" /\ req[s].step = 1 /\ ReportFits(req[s]) /\ r \in Seq(Nat)
  BY ReportHere
<1>3. r = << >> /\ Len(r) = 0
  BY <1>2 DEF ReportFits, Report
<1>4. Reads(s, <<x>>) /\ Len(Queries("pending")) = 2
  BY Lengths
<1>5. x <= OwedBy(claims')
  BY DEF db, rewards
<1> HIDE DEF r
<1>6. <<x>> \in Seq(Nat) /\ Len(r \o <<x>>) = 1 /\ (r \o <<x>>)[1] = x
  <2>1. /\ <<x>> \in Seq(Nat) /\ Len(r \o <<x>>) = Len(r) + 1
        /\ (r \o <<x>>)[Len(r) + 1] = x
    BY <1>1, <1>2, OneMore
  <2> QED BY <1>3, <2>1
<1>7. /\ req'[s].kind = "pending" /\ req'[s].step = 2 /\ req'[s].read = r \o <<x>>
      /\ ReportFits(req[s])' => SiteIInv'
  <2>1. /\ req[s].kind \in {"scoreboard", "pending"} /\ req[s].step # Len(Queries(req[s].kind))
        /\ req[s].step \in 1 .. Len(Queries(req[s].kind))
    BY <1>2, ReportHere
  <2>2. /\ req'[s].kind = req[s].kind /\ req'[s].step = req[s].step + 1
        /\ req'[s].read = req[s].read \o <<x>>
        /\ ReportFits(req[s])' => SiteIInv'
    BY <2>1, <1>4, <1>6, ReportGoesOn
  <2> QED BY <1>2, <2>2 DEF r
<1>8. ReportFits(req[s])'
  BY <1>1, <1>5, <1>6, <1>7 DEF ReportFits, Report
<1> QED BY <1>7, <1>8

LEMMA PendingSummary ==
  ASSUME SiteIInv, NEW s \in Slot, At(s, "summary"), NEW x \in Nat, x <= OwedBy(claims),
         x > 0 => x = OwedBy(claims), Answers(s, <<x>>), UNCHANGED <<db, second, losses>>
  PROVE  SiteIInv'
<1> DEFINE r == req[s].read
<1>1. x \in Nat
  OBVIOUS
<1>2. req[s].kind = "pending" /\ req[s].step = 2 /\ ReportFits(req[s]) /\ r \in Seq(Nat)
  BY ReportHere
<1>3. Len(r) = 1 /\ r[1] <= OwedBy(claims)
  BY <1>2 DEF ReportFits
<1>4. Answers(s, <<x>>) /\ Len(Queries("pending")) = 2
  BY Lengths
<1> HIDE DEF r
<1>5. /\ <<x>> \in Seq(Nat) /\ Len(r \o <<x>>) = 2
      /\ (r \o <<x>>)[1] = r[1] /\ (r \o <<x>>)[2] = x
  <2>1. /\ <<x>> \in Seq(Nat) /\ Len(r \o <<x>>) = Len(r) + 1
        /\ \A i \in 1 .. Len(r) : (r \o <<x>>)[i] = r[i]
        /\ (r \o <<x>>)[Len(r) + 1] = x
    BY <1>1, <1>2, OneMore
  <2> QED BY <1>3, <2>1
<1>6. AnswerFits("pending", r \o <<x>>) /\ "pending" \in Report
  BY <1>1, <1>3, <1>5 DEF AnswerFits, Report
<1> QED BY <1>2, <1>4, <1>5, <1>6, Answered DEF r

\* A report of one query.
LEMMA OneAnswer ==
  ASSUME SiteIInv, NEW s \in Slot, req[s].kind \in {"campaigns", "dispense"}, req[s].step = 1,
         NEW x \in Nat, Answers(s, <<x>>), UNCHANGED <<db, second, losses>>,
         req[s].kind = "campaigns" => x <= AllViewed,
         req[s].kind = "dispense" => x <= OwedBy(claims)
  PROVE  SiteIInv'
<1> DEFINE r == req[s].read
<1>1. r \in Seq(Nat) /\ ReportFits(req[s])
  BY PeopleTyped DEF RequestType, SiteIInv, RequestFits
<1>2. r = << >> /\ Len(r) = 0
  BY <1>1 DEF ReportFits, Report
<1>3. req[s].step = Len(Queries(req[s].kind)) /\ req[s].kind \in Report
  BY Lengths DEF Report
<1> HIDE DEF r
<1>4. <<x>> \in Seq(Nat) /\ (r \o <<x>>)[1] = x
  <2>1. <<x>> \in Seq(Nat) /\ (r \o <<x>>)[Len(r) + 1] = x
    BY <1>1, OneMore
  <2> QED BY <1>2, <2>1
<1>5. AnswerFits(req[s].kind, r \o <<x>>)
  BY <1>4 DEF AnswerFits
<1> QED BY <1>3, <1>4, <1>5, Answered DEF r

LEMMA DispenseStep ==
  ASSUME SiteIInv, NEW s \in Slot, Dispense(s), UNCHANGED <<db, second, losses>>
  PROVE  SiteIInv'
<1> DEFINE T == {v \in Wallet : Owed(v) > 0}
           f == [w \in T |-> Owed(w)]
           g == [w \in Wallet |-> Owed(w)]
           x == SumFunction(f)
<1>1. At(s, "preview") /\ Answers(s, <<x>>)
  BY DEF Dispense
<1>2. req[s].kind = "dispense" /\ req[s].step = 1
  BY <1>1, ReportHere
<1>3. claims \in [Wallet -> [view : Nat, referral : Nat]]
  BY DEF SiteIInv, SiteTypes
<1>4. /\ T \in SUBSET Wallet /\ \A w \in Wallet : g[w] = 2 * claims[w].view + claims[w].referral
      /\ \A w \in Wallet \ T : g[w] <= 0
  <2>1. \A w \in Wallet : Owed(w) \in Nat
    BY <1>3 DEF Owed
  <2> QED BY <2>1 DEF Owed
<1>5. Sum(g, T) = OwedBy(claims)
  <2> HIDE DEF T, g
  <2> QED BY <1>3, <1>4, OwedByThoseOwed
<1>6. x = Sum(f, T)
  <2>1. DOMAIN f = T
    OBVIOUS
  <2> HIDE DEF f
  <2> QED BY <2>1, SumIs
<1>7. Sum(f, T) = Sum(g, T)
  <2>1. \A w \in T : f[w] = g[w]
    OBVIOUS
  <2>2. IsFiniteSet(T)
    BY SiteAssumption, FS_Subset
  <2>3. \A w \in T : f[w] \in Int
    BY <1>3 DEF Owed
  <2> HIDE DEF f, g, T
  <2> QED BY <2>1, <2>2, <2>3, SumSame
<1>8. OwedBy(claims) \in Nat
  BY Numbers DEF SiteIInv
<1>9. x \in Nat /\ x <= OwedBy(claims)
  <2> HIDE DEF x, f, g, T
  <2> QED BY <1>5, <1>6, <1>7, <1>8
<1> HIDE DEF x
<1> QED BY <1>1, <1>2, <1>9, OneAnswer

LEMMA CampaignsStep ==
  ASSUME SiteIInv, NEW s \in Slot, GetCampaigns(s), UNCHANGED <<db, second, losses>>
  PROVE  SiteIInv'
<1> DEFINE T == {d \in Campaign : campaigns[d].live}
           f == [c \in T |-> campaigns[c].shown]
           x == SumFunction(f)
<1>1. At(s, "list") /\ Answers(s, <<x>>)
  BY DEF GetCampaigns
<1>2. req[s].kind = "campaigns" /\ req[s].step = 1
  BY <1>1, ReportHere
<1>3. campaigns \in [Campaign -> [live : BOOLEAN, shown : Nat]]
  BY DEF SiteIInv, SiteTypes
<1>4. T \in SUBSET Campaign /\ DOMAIN f = T /\ \A c \in T : f[c] = campaigns[c].shown
  OBVIOUS
<1>5. x = Sum(f, T)
  <2> HIDE DEF f
  <2> QED BY <1>4, SumIs
<1>6. Sum(f, T) \in Nat /\ Shown(campaigns) \in Nat /\ Sum(f, T) <= Shown(campaigns)
  <2> HIDE DEF f, T
  <2> QED BY <1>3, <1>4, ShownLive
<1>7. Showing(req) \in Nat /\ AllViewed \in Nat /\ Shown(campaigns) + Showing(req) <= AllViewed
  <2>1. AllViewed \in Nat
    BY GapNumbers DEF SiteIInv
  <2>2. \A t \in Slot : (IF Shows(req[t]) THEN 1 ELSE 0) \in Nat
    OBVIOUS
  <2> DEFINE h == [t \in Slot |-> IF Shows(req[t]) THEN 1 ELSE 0]
  <2>3. \A t \in Slot : h[t] \in Nat
    OBVIOUS
  <2>4. Sum(h, Slot) \in Nat
    <3> HIDE DEF h
    <3> QED BY <2>3, SiteAssumption, SumNatural
  <2> QED BY <2>1, <2>4 DEF Showing, SiteIInv, ViewsCover
<1>8. x \in Nat /\ x <= AllViewed
  <2> HIDE DEF x, f, T
  <2> QED BY <1>5, <1>6, <1>7
<1> HIDE DEF x
<1> QED BY <1>1, <1>2, <1>8, OneAnswer

\* What one wallet lost is part of what all did.
LEMMA LostByOne ==
  ASSUME SiteTypes, NEW w \in Wallet
  PROVE  /\ lost[w]["claim"] \in Nat /\ LossOf(lost, "claim") \in Nat
         /\ lost[w]["claim"] <= LossOf(lost, "claim")
<1> DEFINE f == [v \in Wallet |-> lost[v]["claim"]]
<1>1. \A v \in Wallet : f[v] \in Nat
  BY DEF SiteTypes, MoneyWrite
<1>2. f[w] = lost[w]["claim"] /\ LossOf(lost, "claim") = Sum(f, Wallet)
  BY DEF LossOf
<1> HIDE DEF f
<1>3. Sum(f, Wallet) \in Nat /\ \A v \in Wallet : f[v] <= Sum(f, Wallet)
  BY <1>1, SiteAssumption, SumNatural
<1> QED BY <1>1, <1>2, <1>3

LEMMA UserStep ==
  ASSUME SiteIInv, NEW s \in Slot, GetUser(s), UNCHANGED <<db, second, losses>>
  PROVE  SiteIInv'
<1> DEFINE w == req[s].who
           x == 2 * users[w].earned
           y == Owed(w)
           r == req[s].read
<1>1. /\ req[s].kind = "user" /\ req[s].step = 1 /\ w \in Wallet
      /\ ReportFits(req[s]) /\ r \in Seq(Nat)
  BY ReportHere DEF GetUser
<1>2. CASE users[w].known
  <2>1. Answers(s, <<x, y>>)
    BY <1>2 DEF GetUser
  <2>2. /\ users[w].earned \in Nat /\ claims[w].view \in Nat /\ claims[w].referral \in Nat
        /\ WalletBooks(w) /\ Claimed(w) = claims[w].view + lost[w]["claim"]
    BY <1>1, BookNumbers DEF SiteIInv, Claimed
  <2>3. Marked(req, "ad-view", w, {10}) \in Nat
    <3> DEFINE h == [t \in Slot |-> IF Marks(req[t], "ad-view", w, {10}) THEN 1 ELSE 0]
    <3>1. \A t \in Slot : h[t] \in Nat
      OBVIOUS
    <3>2. Sum(h, Slot) \in Nat
      <4> HIDE DEF h
      <4> QED BY <3>1, SiteAssumption, SumNatural
    <3> QED BY <3>2 DEF Marked
  <2>4. /\ lost[w]["claim"] \in Nat /\ LossOf(lost, "claim") \in Nat
        /\ lost[w]["claim"] <= LossOf(lost, "claim")
    BY <1>1, LostByOne DEF SiteIInv
  <2>5. x \in Nat /\ y \in Nat /\ x <= y + 2 * LossOf(lost, "claim")
    <3>1. users[w].earned <= claims[w].view + lost[w]["claim"]
      BY <2>2, <2>3, <2>4 DEF WalletBooks
    <3> QED BY <2>2, <2>4, <3>1 DEF Owed
  <2>6. r = << >> /\ Len(r) = 0
    BY <1>1 DEF ReportFits, Report
  <2>7. req[s].step = Len(Queries(req[s].kind)) /\ req[s].kind \in Report
    BY <1>1, Lengths DEF Report
  <2> HIDE DEF w, x, y, r
  <2>8. /\ <<x, y>> \in Seq(Nat) /\ Len(r \o <<x, y>>) = 2
        /\ (r \o <<x, y>>)[1] = x /\ (r \o <<x, y>>)[2] = y
    <3>1. /\ <<x, y>> \in Seq(Nat) /\ Len(r \o <<x, y>>) = Len(r) + 2
          /\ (r \o <<x, y>>)[Len(r) + 1] = x /\ (r \o <<x, y>>)[Len(r) + 2] = y
      BY <1>1, <2>5, TwoMore
    <3> QED BY <2>6, <3>1
  <2>9. AnswerFits(req[s].kind, r \o <<x, y>>)
    BY <1>1, <2>5, <2>8 DEF AnswerFits
  <2> QED BY <2>1, <2>7, <2>8, <2>9, Answered DEF r
<1>3. CASE ~users[w].known
  <2>1. Done(s) /\ UNCHANGED <<db, answers, second, losses>>
    BY <1>3 DEF GetUser
  <2> QED BY <2>1, Ending, AnswersStand, Quietly
<1> QED BY <1>2, <1>3

LEMMA InformStep ==
  ASSUME SiteIInv, NEW s \in Slot, Inform(s)
  PROVE  SiteIInv'
<1>1. UNCHANGED <<db, second, losses>>
  BY DEF Inform, swallowed, losses
<1>2. CASE Scoreboard(s)
  <2>1. \/ At(s, "totals") /\ Reads(s, <<Cardinality(Joined), Cardinality(Activated)>>)
        \/ At(s, "contributions") /\ Reads(s, <<Cardinality(actions)>>)
        \/ At(s, "raised") /\ Reads(s, <<funds["received"], funds["committed"]>>)
        \/ At(s, "week") /\ Answers(s, <<LatestWeek>>)
    BY <1>2 DEF Scoreboard, Joined, Activated
  <2>2. /\ funds["received"] \in Nat /\ funds["committed"] \in Nat
    BY PeopleTyped DEF Stage
  <2>3. CASE At(s, "totals") /\ Reads(s, <<Cardinality(Joined), Cardinality(Activated)>>)
    BY <1>1, <2>3, MembersCount, ScoreTotals
  <2>4. CASE At(s, "contributions") /\ Reads(s, <<Cardinality(actions)>>)
    BY <1>1, <2>4, MembersCount, ScoreContributions
  <2>5. CASE At(s, "raised") /\ Reads(s, <<funds["received"], funds["committed"]>>)
    BY <1>1, <2>2, <2>5, ScoreRaised
  <2>6. CASE At(s, "week") /\ Answers(s, <<LatestWeek>>)
    BY <1>1, <2>6, LatestWeekIs, ScoreWeek
  <2> QED BY <2>1, <2>3, <2>4, <2>5, <2>6
<1>3. CASE PendingRewards(s)
  <2>1. \/ At(s, "recipients") /\ Reads(s, <<AllOwed>>)
        \/ At(s, "summary") /\ Answers(s, <<AllOwed>>)
    BY <1>3 DEF PendingRewards
  <2>2. AllOwed \in Nat /\ AllOwed <= OwedBy(claims) /\ AllOwed = OwedBy(claims)
    BY Numbers, OwedIs DEF SiteIInv
  <2> QED BY <1>1, <2>1, <2>2, PendingRecipients, PendingSummary
<1>4. CASE Dispense(s)
  BY <1>1, <1>4, DispenseStep
<1>5. CASE GetUser(s)
  BY <1>1, <1>5, UserStep
<1>6. CASE GetCampaigns(s)
  BY <1>1, <1>6, CampaignsStep
<1> QED BY <1>2, <1>3, <1>4, <1>5, <1>6 DEF Inform

(* A statement that failed in a reply that says 200. *)

\* Nothing is written and nothing lost: the request is over, or calm.
LEMMA Ends ==
  ASSUME SiteIInv, NEW s \in Slot, UNCHANGED <<db, second, answers, losses>>,
         Done(s) \/ (GoOn(s) /\ req[s].step = Len(Queries(req[s].kind)))
  PROVE  SiteIInv'
<1>1. Done(s)
  BY DEF GoOn, Proceed
<1>2. /\ Only(s) /\ req' \in [Slot -> RequestType]
      /\ RequestFits(req[s])' /\ Calm(req'[s]) /\ ~Shows(req'[s])
  BY <1>1, Ending
<1> QED BY <1>2, AnswersStand, Quietly

\* The database and what was told stay as they are.
LEMMA Unanswered ==
  ASSUME SiteIInv, UNCHANGED <<db, second, answers>>, NEW s \in Slot, Only(s),
         req' \in [Slot -> RequestType], RequestFits(req[s])',
         lost' \in [Wallet -> [MoneyWrite -> Nat]], dropped' \subseteq Email \X Action, GapsGrow,
         \A w \in Wallet : WalletBooks(w)', ViewsCover'
  PROVE  SiteIInv'
<1>1. SiteTypes /\ SiteTypes' /\ UNCHANGED rewards
  BY DEF SiteIInv, SiteTypes, db, rewards, people, digests
<1>2. RewardsGrow
  BY <1>1, RewardsStand
<1>3. AnswersLag'
  BY <1>1, <1>2, KeepAnswers
<1>4. answers' \in [Report -> Seq(Nat)]
  BY <1>1 DEF SiteTypes
<1> QED BY <1>3, <1>4, Passing

\* One more write that a handler went on without, in the books.
LEMMA LossTurns ==
  ASSUME SiteIInv, NEW w \in Wallet, NEW q \in MoneyWrite, lost' = [lost EXCEPT ![w][q] = @ + 1],
         UNCHANGED <<db, dropped, missed>>
  PROVE  /\ lost' \in [Wallet -> [MoneyWrite -> Nat]] /\ GapsGrow
         /\ AllViewed' = AllViewed + (IF q = "view" THEN 1 ELSE 0)
         /\ \A v \in Wallet :
              LET lose(x) == IF v = w /\ q = x THEN 1 ELSE 0
              IN Turns(v, 0, lose("count"), lose("reward"), lose("claim"), 0, lose("view"), lose("session"))
<1>1. lost \in [Wallet -> [MoneyWrite -> Nat]] /\ UNCHANGED <<users, sessions, views, claims>>
  BY DEF SiteIInv, SiteTypes, db, rewards
<1>2. /\ lost' \in [Wallet -> [MoneyWrite -> Nat]]
      /\ \A v \in Wallet, x \in MoneyWrite :
           lost[v][x] \in Nat /\ lost'[v][x] = lost[v][x] + (IF v = w /\ q = x THEN 1 ELSE 0)
  BY <1>1
<1>3. GapsGrow
  BY <1>2 DEF GapsGrow
<1>4. AllViewed' = AllViewed + (IF q = "view" THEN 1 ELSE 0)
  <2>1. Sum(views, Wallet) \in Nat /\ LossOf(lost, "view") \in Nat
    BY GapNumbers DEF SiteIInv
  <2>2. LossOf(lost', "view") = LossOf(lost, "view") + (IF q = "view" THEN 1 ELSE 0)
    <3>1. CASE q = "view"
      BY <1>1, <3>1, LossMore
    <3>2. CASE q # "view"
      <4>1. \A v \in Wallet : lost'[v]["view"] = lost[v]["view"]
        BY <1>2, <3>2 DEF MoneyWrite
      <4>2. [v \in Wallet |-> lost'[v]["view"]] = [v \in Wallet |-> lost[v]["view"]]
        BY <4>1
      <4> QED BY <2>1, <3>2, <4>2 DEF LossOf
    <3> QED BY <3>1, <3>2
  <2> QED BY <1>1, <2>1, <2>2 DEF AllViewed
<1>5. ASSUME NEW v \in Wallet
      PROVE  LET lose(x) == IF v = w /\ q = x THEN 1 ELSE 0
             IN Turns(v, 0, lose("count"), lose("reward"), lose("claim"), 0, lose("view"), lose("session"))
  <2> DEFINE lose(x) == IF v = w /\ q = x THEN 1 ELSE 0
  <2>1. /\ users[v].earned \in Nat /\ users[v].count \in Nat /\ users[v].reward \in Nat
        /\ claims[v].view \in Nat /\ claims[v].referral \in Nat /\ views[v] \in Nat
        /\ AdsOf(sessions, v) \in Nat
    BY ColumnNumbers
  <2>2. \A x \in MoneyWrite : lost[v][x] \in Nat /\ lost'[v][x] = lost[v][x] + lose(x) /\ lose(x) \in Nat
    BY <1>2
  <2> HIDE DEF lose
  <2>3. /\ lost'[v]["count"] = lost[v]["count"] + lose("count")
        /\ lost'[v]["session"] = lost[v]["session"] + lose("session")
        /\ lost'[v]["view"] = lost[v]["view"] + lose("view")
        /\ lost'[v]["claim"] = lost[v]["claim"] + lose("claim")
        /\ lost'[v]["reward"] = lost[v]["reward"] + lose("reward")
    BY <2>2 DEF MoneyWrite
  <2>4. /\ lost[v]["count"] \in Nat /\ lost[v]["session"] \in Nat /\ lost[v]["view"] \in Nat
        /\ lost[v]["claim"] \in Nat /\ lost[v]["reward"] \in Nat
        /\ lose("count") \in Nat /\ lose("session") \in Nat /\ lose("view") \in Nat
        /\ lose("claim") \in Nat /\ lose("reward") \in Nat
    BY <2>2 DEF MoneyWrite
  <2>5. Noted(v)' = Noted(v) + lose("count") /\ Displayed(v)' = Displayed(v) + lose("session")
    BY <1>1, <2>1, <2>3, <2>4 DEF Noted, Displayed
  <2>6. Viewed(v)' = Viewed(v) + lose("view") /\ Claimed(v)' = Claimed(v) + lose("claim")
    <3>1. views[v] + (lost[v]["view"] + lose("view")) = views[v] + lost[v]["view"] + lose("view")
      BY <2>1, <2>4
    <3>2. Viewed(v)' = views[v] + lost'[v]["view"]
      BY <1>1 DEF Viewed
    <3>3. Viewed(v)' = Viewed(v) + lose("view")
      BY <2>3, <3>1, <3>2 DEF Viewed
    <3>4. claims[v].view + (lost[v]["claim"] + lose("claim")) = claims[v].view + lost[v]["claim"] + lose("claim")
      BY <2>1, <2>4
    <3>5. Claimed(v)' = claims[v].view + lost'[v]["claim"]
      BY <1>1 DEF Claimed
    <3>6. Claimed(v)' = Claimed(v) + lose("claim")
      BY <2>3, <3>4, <3>5 DEF Claimed
    <3> QED BY <3>3, <3>6
  <2>7. Rewarded(v)' = Rewarded(v) + lose("reward")
    <3>1. users[v].reward + (lost[v]["reward"] + lose("reward")) = users[v].reward + lost[v]["reward"] + lose("reward")
      BY <2>1, <2>4
    <3>2. Rewarded(v)' = users[v].reward + lost'[v]["reward"]
      BY <1>1 DEF Rewarded
    <3> QED BY <2>3, <3>1, <3>2 DEF Rewarded
  <2>8. users'[v].earned = users[v].earned + 0 /\ claims'[v].referral = claims[v].referral + 0
    BY <1>1, <2>1
  <2>9. Turns(v, 0, lose("count"), lose("reward"), lose("claim"), 0, lose("view"), lose("session"))
    BY <2>5, <2>6, <2>7, <2>8 DEF Turns
  <2> QED BY <2>9 DEF lose
<1> QED BY <1>2, <1>3, <1>4, <1>5

\* An ad view whose write failed goes on as if it were written.
LEMMA AdUnwritten ==
  ASSUME SiteIInv, NEW s \in Slot, NEW k \in {2, 5, 7, 9}, AdAt(s, k), GoOn(s),
         NEW q \in MoneyWrite, k = 2 <=> q = "count", k = 5 <=> q = "session", k = 7 <=> q = "view",
         k = 9 <=> q = "claim", lost' = [lost EXCEPT ![req[s].who][q] = @ + 1],
         UNCHANGED <<db, second, answers, dropped, missed>>
  PROVE  SiteIInv'
<1> DEFINE w == req[s].who
<1>1. w \in Wallet /\ UNCHANGED <<campaigns, rewards>>
  BY DEF AdAt, db, rewards
<1>2. AdGoes(s, k) /\ Only(s) /\ req'[s].seen = req[s].seen /\ req' \in [Slot -> RequestType]
  <2>1. k \in 1 .. 9
    OBVIOUS
  <2> QED BY <2>1, AdGoesSimply DEF AdGoes
<1>3. RequestFits(req[s])'
  <2>1. RewardsGrow /\ k \in 1 .. 9
    BY <1>1, RewardsStand DEF SiteIInv
  <2> QED BY <1>2, <2>1, AdStands
<1>4. /\ lost' \in [Wallet -> [MoneyWrite -> Nat]] /\ GapsGrow
      /\ AllViewed' = AllViewed + (IF q = "view" THEN 1 ELSE 0)
      /\ \A v \in Wallet :
           LET lose(x) == IF v = w /\ q = x THEN 1 ELSE 0
           IN Turns(v, 0, lose("count"), lose("reward"), lose("claim"), 0, lose("view"), lose("session"))
  BY <1>1, LossTurns
<1>5. ASSUME NEW v \in Wallet PROVE WalletBooks(v)'
  <2>0. PICK d \in {0, 1} : d = (IF v = w THEN 1 ELSE 0)
    OBVIOUS
  <2>1. CASE k = 2
    <3>1. Turns(v, 0, d, 0, 0, 0, 0, 0)
      BY <1>4, <2>0, <2>1
    <3>2. Counts(s, v, 0, 0, 0, d, 0)
      BY <1>2, <2>0, <2>1, AdCounts
    <3>3. 0 + d <= d
      OBVIOUS
    <3> QED BY <1>2, <3>1, <3>2, <3>3, BooksTurn
  <2>2. CASE k = 5
    <3>1. Turns(v, 0, 0, 0, 0, 0, 0, d)
      BY <1>4, <2>0, <2>2
    <3>2. Counts(s, v, 0, 0, d, 0 - d, 0)
      BY <1>2, <2>0, <2>2, AdCounts
    <3>3. 0 + d <= d /\ d + (0 - d) <= 0
      OBVIOUS
    <3> QED BY <1>2, <3>1, <3>2, <3>3, BooksTurn
  <2>3. CASE k = 7
    <3>1. Turns(v, 0, 0, 0, 0, 0, d, 0)
      BY <1>4, <2>0, <2>3
    <3>2. Counts(s, v, 0, d, 0 - d, 0, 0)
      BY <1>2, <2>0, <2>3, AdCounts
    <3>3. 0 + d <= d /\ d + (0 - d) <= 0
      OBVIOUS
    <3> QED BY <1>2, <3>1, <3>2, <3>3, BooksTurn
  <2>4. CASE k = 9
    <3>1. Turns(v, 0, 0, 0, d, 0, 0, 0)
      BY <1>4, <2>0, <2>4
    <3>2. Counts(s, v, d, 0 - d, 0, 0, 0)
      BY <1>2, <2>0, <2>4, AdCounts
    <3>3. 0 + d <= d /\ d + (0 - d) <= 0
      OBVIOUS
    <3> QED BY <1>2, <3>1, <3>2, <3>3, BooksTurn
  <2> QED BY <2>1, <2>2, <2>3, <2>4
<1>6. ViewsCover'
  <2>1. ShowsBy(req[s], req'[s]) = IF q = "view" THEN 1 ELSE 0
    BY <1>2 DEF ShowsBy, Shows, AdAt, AdGoes
  <2>2. Shown(campaigns) + Showing(req') <= AllViewed'
    BY <1>2, <1>4, <2>1, ShowsCount
  <2> QED BY <1>1, <2>2 DEF ViewsCover
<1>7. dropped' \subseteq Email \X Action
  BY DEF SiteIInv, SiteTypes
<1> QED BY <1>2, <1>3, <1>4, <1>5, <1>6, <1>7, Unanswered

\* An ad view goes on without what it looked up, or without the impression.
LEMMA AdUnread ==
  ASSUME SiteIInv, NEW s \in Slot, NEW k \in {1, 4, 6, 8}, AdAt(s, k), GoOn(s),
         UNCHANGED <<db, second, answers, losses>>
  PROVE  SiteIInv'
<1>1. AdGoes(s, k) /\ Only(s) /\ req'[s].seen = req[s].seen /\ req' \in [Slot -> RequestType]
  <2>1. k \in 1 .. 9
    OBVIOUS
  <2> QED BY <2>1, AdGoesSimply DEF AdGoes
<1>2. UNCHANGED <<users, sessions, views, claims, campaigns, rewards, lost, dropped>>
  BY DEF db, rewards, losses
<1>3. RequestFits(req[s])'
  <2>1. RewardsGrow /\ k \in 1 .. 9
    BY <1>2, RewardsStand DEF SiteIInv
  <2> QED BY <1>1, <2>1, AdStands
<1>4. CASE k = 1
  <2>1. Calm(req'[s]) /\ ~Shows(req'[s])
    BY <1>1, <1>4 DEF AdGoes, Calm, Shows
  <2> QED BY <1>1, <1>3, <2>1, AnswersStand, Quietly
<1>5. CASE k # 1
  <2>1. ASSUME NEW v \in Wallet PROVE WalletBooks(v)'
    <3>1. Moves(v, 0, 0, 0, 0, 0, 0, 0)
      BY <1>2, BookNumbers DEF Moves
    <3>2. Counts(s, v, 0, 0, 0, 0, 0)
      BY <1>1, <1>5, AdCounts
    <3> QED BY <1>1, <3>1, <3>2, BooksMove
  <2>2. ViewsCover'
    <3>1. ShowsBy(req[s], req'[s]) \in {0, 0 - 1}
      BY <1>1, <1>5 DEF ShowsBy, Shows, AdAt, AdGoes
    <3>2. Shown(campaigns) + Showing(req') <= AllViewed
      BY <1>1, <3>1, ShowsCount
    <3> QED BY <1>2, <3>2 DEF ViewsCover, AllViewed
  <2>3. GapsGrow /\ lost' \in [Wallet -> [MoneyWrite -> Nat]] /\ dropped' \subseteq Email \X Action
    BY <1>2, GapsStand DEF SiteIInv, SiteTypes
  <2> QED BY <1>1, <1>3, <2>1, <2>2, <2>3, Unanswered
<1> QED BY <1>4, <1>5

\* A referral whose reward was not counted is credited all the same.
LEMMA ReferralUnwritten ==
  ASSUME SiteIInv, NEW s \in Slot, ReferralAt(s, 4), GoOn(s),
         lost' = [lost EXCEPT ![req[s].arg]["reward"] = @ + 1],
         UNCHANGED <<db, second, answers, dropped, missed>>
  PROVE  SiteIInv'
<1> DEFINE w == req[s].arg
<1>1. w \in Wallet /\ "reward" \in MoneyWrite /\ UNCHANGED <<campaigns, rewards>>
  BY DEF ReferralAt, db, rewards, MoneyWrite
<1>2. /\ ReferralGoes(s, 4) /\ Only(s) /\ req' \in [Slot -> RequestType]
      /\ RequestFits(req[s])' /\ ~Shows(req'[s])
  <2>1. 4 \in 1 .. 4
    OBVIOUS
  <2> QED BY <2>1, ReferralGoesOn
<1>4. /\ lost' \in [Wallet -> [MoneyWrite -> Nat]] /\ GapsGrow
      /\ AllViewed' = AllViewed + 0
      /\ \A v \in Wallet : Turns(v, 0, 0, IF v = w THEN 1 ELSE 0, 0, 0, 0, 0)
  <2>1. /\ lost' \in [Wallet -> [MoneyWrite -> Nat]] /\ GapsGrow
        /\ AllViewed' = AllViewed + (IF "reward" = "view" THEN 1 ELSE 0)
        /\ \A v \in Wallet :
             LET lose(x) == IF v = w /\ "reward" = x THEN 1 ELSE 0
             IN Turns(v, 0, lose("count"), lose("reward"), lose("claim"), 0, lose("view"), lose("session"))
    BY <1>1, LossTurns
  <2> QED BY <2>1
<1>5. ASSUME NEW v \in Wallet PROVE WalletBooks(v)'
  <2>0. PICK d \in {0, 1} : d = (IF v = w THEN 1 ELSE 0)
    OBVIOUS
  <2>1. Turns(v, 0, 0, d, 0, 0, 0, 0)
    BY <1>4, <2>0
  <2>2. Counts(s, v, 0, 0, 0, 0, d)
    BY <1>2, <2>0, ReferralCounts
  <2>3. 0 + d <= d
    OBVIOUS
  <2> QED BY <1>2, <2>1, <2>2, <2>3, BooksTurn
<1>6. ViewsCover'
  <2>1. ShowsBy(req[s], req'[s]) = 0
    BY <1>2 DEF ShowsBy, Shows, ReferralAt, ReferralGoes
  <2>2. Shown(campaigns) + Showing(req') <= AllViewed'
    BY <1>2, <1>4, <2>1, ShowsCount
  <2> QED BY <1>1, <2>2 DEF ViewsCover
<1>7. dropped' \subseteq Email \X Action
  BY DEF SiteIInv, SiteTypes
<1> QED BY <1>2, <1>4, <1>5, <1>6, <1>7, Unanswered

\* A member is activated by an action that is not on record.
LEMMA ActionDropped ==
  ASSUME SiteIInv, NEW s \in Slot, req[s].kind = "activate", req[s].step = 2,
         req[s].who \in Email, req[s].arg \in Action,
         dropped' = dropped \cup {<<req[s].who, req[s].arg>>}, Done(s) \/ GoOn(s),
         UNCHANGED <<db, second, answers, lost, missed>>
  PROVE  SiteIInv'
<1>1. /\ Only(s) /\ req' \in [Slot -> RequestType]
      /\ RequestFits(req[s])' /\ Calm(req'[s]) /\ ~Shows(req'[s])
  <2>1. CASE GoOn(s)
    <3> DEFINE r == req[s]
    <3>1. r \in RequestType /\ Proceed(s, r) /\ members'[r.who].joined /\ <<r.who, r.arg>> \in (actions \cup dropped)'
      <4>1. RequestFits(r) /\ members' = members
        BY DEF SiteIInv, db, people
      <4>2. members[r.who].joined
        BY <4>1 DEF RequestFits, MemberFits
      <4> QED BY <2>1, <4>1, <4>2, PeopleTyped DEF GoOn
    <3>2. r.kind = "activate" /\ r.step = 2 /\ r.who \in Email /\ r.arg \in Action
      OBVIOUS
    <3> HIDE DEF r
    <3> QED BY <3>1, <3>2, ActivateGoesOn
  <2>2. CASE Done(s)
    BY <2>2, Ending
  <2> QED BY <2>1, <2>2
<1>2. UNCHANGED <<users, sessions, views, claims, campaigns>>
  BY DEF db, rewards
<1>3. (\A w \in Wallet : WalletBooks(w)') /\ ViewsCover'
  BY <1>1, <1>2, KeepBooks, KeepViews
<1>4. /\ lost' \in [Wallet -> [MoneyWrite -> Nat]] /\ dropped' \subseteq Email \X Action
      /\ \A w \in Wallet, q \in MoneyWrite : lost[w][q] \in Nat
  BY GapNumbers DEF SiteIInv, SiteTypes
<1>5. GapsGrow
  BY <1>4 DEF GapsGrow
<1> QED BY <1>1, <1>3, <1>4, <1>5, Unanswered

\* A digest goes on without a table it could not read.
LEMMA DigestMisses ==
  ASSUME SiteIInv, NEW s \in Slot, NEW k \in {2, 3}, req[s].kind = "digest", req[s].step = k, GoOn(s),
         missed' = missed \cup Later(IF k = 2 THEN "newsletter" ELSE "lead", req[s].since),
         UNCHANGED <<db, second, answers, lost, dropped>>
  PROVE  SiteIInv'
<1> DEFINE r == req[s]
<1>1. /\ r \in RequestType /\ r.kind = "digest" /\ r.step = k /\ Proceed(s, r)
      /\ r.seen <= second /\ r.since \in sentAt \cup {0} /\ r.since \in Nat
  BY DigestTyped DEF RequestType, GoOn, DigestFits
<1>2. \A x \in rows : x.at \in Nat /\ x.table \in {"newsletter", "lead"}
  BY DigestTyped DEF Rows
<1>3. \A x \in rows : r.since < x.at /\ x.table = (IF k = 2 THEN "newsletter" ELSE "lead") => x \in missed'
  BY <1>1, <1>2 DEF Later
<1>4. k = 3 => \A x \in rows : r.since < x.at /\ x.at < r.seen /\ x.table = "newsletter" =>
                                 x \in r.found \cup missed
  BY <1>1, DigestTyped DEF DigestFits
<1>5. missed \subseteq missed' /\ k \in 1 .. 3
  OBVIOUS
<1> HIDE DEF r
<1>6. \A x \in rows : r.since < x.at /\ x.at < r.seen /\ (x.table = "newsletter" \/ k = 3) =>
                        x \in r.found \cup missed'
  BY <1>2, <1>3, <1>4, <1>5
<1>7. UNCHANGED <<rows, sentAt, users, sessions, views, claims, campaigns>>
  BY DEF db, people, digests, rewards
<1>8. /\ Only(s) /\ req' \in [Slot -> RequestType] /\ Calm(req'[s]) /\ ~Shows(req'[s])
      /\ RequestFits(req[s])'
  BY <1>1, <1>5, <1>6, <1>7, DigestLooks
<1>9. (\A w \in Wallet : WalletBooks(w)') /\ ViewsCover'
  BY <1>7, <1>8, KeepBooks, KeepViews
<1>10. /\ lost' \in [Wallet -> [MoneyWrite -> Nat]] /\ dropped' \subseteq Email \X Action
       /\ \A w \in Wallet, q \in MoneyWrite : lost[w][q] \in Nat
  BY GapNumbers DEF SiteIInv, SiteTypes
<1>11. GapsGrow
  BY <1>5, <1>10 DEF GapsGrow
<1> QED BY <1>8, <1>9, <1>10, <1>11, Unanswered

\* A digest that could not read its state starts from the beginning.
LEMMA DigestFromZero ==
  ASSUME SiteIInv, NEW s \in Slot, req[s].kind = "digest", req[s].step = 1,
         Proceed(s, [req[s] EXCEPT !.seen = second, !.since = 0]),
         UNCHANGED <<db, answers, second, losses>>
  PROVE  SiteIInv'
<1> DEFINE r == [req[s] EXCEPT !.seen = second, !.since = 0]
<1>1. /\ r \in RequestType /\ r.kind = "digest" /\ r.step = 1
      /\ r.seen = second /\ r.since = 0 /\ Proceed(s, r)
  BY DigestTyped DEF RequestType
<1> HIDE DEF r
<1>2. r.seen <= second /\ r.since \in sentAt \cup {0}
  BY <1>1, DigestTyped
<1>3. ~(1 >= 2) /\ 1 \in 1 .. 3
  OBVIOUS
<1> QED BY <1>1, <1>2, <1>3, DigestReads

\* The query at which a request is, when it is one of those that say nothing more.
LEMMA LastOfAll ==
  ASSUME SiteIInv, NEW s \in Slot, NEW q, At(s, q),
         q \in {"total", "credit", "subscriber", "lead", "activate", "funding", "metrics", "campaign", "sent"}
  PROVE  req[s].step = Len(Queries(req[s].kind))
<1>1. Home(req[s].kind, req[s].step, q)
  BY Here
<1>2. \/ req[s].kind = "ad-view" /\ req[s].step = 10
      \/ req[s].kind = "referral" /\ req[s].step = 5
      \/ req[s].kind = "join" /\ req[s].step = 2
      \/ req[s].kind = "subscribe" /\ req[s].step = 1
      \/ req[s].kind = "hire-lead" /\ req[s].step = 1
      \/ req[s].kind = "activate" /\ req[s].step = 3
      \/ req[s].kind = "funding" /\ req[s].step = 1
      \/ req[s].kind = "weekly-metrics" /\ req[s].step = 1
      \/ req[s].kind = "campaign" /\ req[s].step = 1
      \/ req[s].kind = "digest" /\ req[s].step = 5
  BY <1>1 DEF Home
<1> QED BY <1>2, Lengths

LEMMA SwallowRead ==
  ASSUME SiteIInv, NEW s \in Slot, NEW q, At(s, q), Disregard(s, q), q # "action",
         q \notin MoneyWrite, q \notin {"news", "leads"}, UNCHANGED <<db, second, losses>>
  PROVE  SiteIInv'
<1>1. CASE UNCHANGED answers /\ Done(s)
  BY <1>1, Ends
<1>2. CASE q = "state" /\ Proceed(s, [req[s] EXCEPT !.seen = second, !.since = 0]) /\ UNCHANGED answers
  <2>1. req[s].kind = "digest" /\ req[s].step = 1
    BY <1>2, DigestHere
  <2> QED BY <1>2, <2>1, DigestFromZero
<1>3. CASE GoOn(s) /\ UNCHANGED answers
           /\ q \in {"total", "credit", "subscriber", "lead", "activate", "funding", "metrics", "campaign", "sent"}
  BY <1>3, LastOfAll, Ends
<1>4. CASE GoOn(s) /\ UNCHANGED answers /\ q \in {"user", "active", "created", "impression"}
  <2>1. PICK k \in {1, 4, 6, 8} : AdAt(s, k)
    BY <1>4, AdHere
  <2> QED BY <1>4, <2>1, AdUnread
<1>5. CASE GoOn(s) /\ UNCHANGED answers /\ q \in {"referrer", "set"}
  <2>1. PICK k \in {1, 3} : ReferralAt(s, k)
    BY <1>5, ReferralHere
  <2>2. k \in 1 .. 4 /\ k # 4
    OBVIOUS
  <2>3. /\ Only(s) /\ req' \in [Slot -> RequestType]
        /\ RequestFits(req[s])' /\ Calm(req'[s]) /\ ~Shows(req'[s])
    BY <1>5, <2>1, <2>2, ReferralGoesOn
  <2> QED BY <1>5, <2>3, AnswersStand, Quietly
<1>6. CASE GoOn(s) /\ UNCHANGED answers /\ q = "member"
  <2>1. req[s].kind = "join" /\ req[s].step = 1 /\ req[s].who \in Email
    BY <1>6, CommunityHere
  <2>2. /\ Only(s) /\ req' \in [Slot -> RequestType]
        /\ RequestFits(req[s])' /\ Calm(req'[s]) /\ ~Shows(req'[s])
    BY <1>6, <2>1, JoinGoesOn
  <2> QED BY <1>6, <2>2, AnswersStand, Quietly
<1>7. 0 \in Nat /\ 0 <= OwedBy(claims) /\ 0 <= AllViewed /\ 0 <= Cardinality(actions) + Cardinality(dropped)
  BY Numbers, GapNumbers DEF SiteIInv
<1>8. CASE q \in {"totals", "raised"} /\ Reads(s, <<0, 0>>)
  BY <1>7, <1>8, ScoreTotals, ScoreRaised
<1>9. CASE q = "contributions" /\ Reads(s, <<0>>)
  BY <1>7, <1>9, ScoreContributions
<1>10. CASE q = "recipients" /\ Reads(s, <<0>>)
  BY <1>7, <1>10, PendingRecipients
<1>11. CASE q = "week" /\ Answers(s, <<0>>)
  BY <1>7, <1>11, ScoreWeek
<1>12. CASE q = "summary" /\ Answers(s, <<0>>)
  BY <1>7, <1>12, PendingSummary
<1>13. CASE q \in {"preview", "list"} /\ Answers(s, <<0>>)
  <2>1. req[s].kind \in {"campaigns", "dispense"} /\ req[s].step = 1
    BY <1>13, ReportHere
  <2> QED BY <1>7, <1>13, <2>1, OneAnswer
<1>14. \/ UNCHANGED answers /\ Done(s)
       \/ q = "state" /\ Proceed(s, [req[s] EXCEPT !.seen = second, !.since = 0]) /\ UNCHANGED answers
       \/ GoOn(s) /\ UNCHANGED answers
          /\ q \in {"total", "credit", "subscriber", "lead", "activate", "funding", "metrics", "campaign", "sent"}
       \/ GoOn(s) /\ UNCHANGED answers /\ q \in {"user", "active", "created", "impression"}
       \/ GoOn(s) /\ UNCHANGED answers /\ q \in {"referrer", "set"}
       \/ GoOn(s) /\ UNCHANGED answers /\ q = "member"
       \/ q \in {"totals", "raised"} /\ Reads(s, <<0, 0>>)
       \/ q = "contributions" /\ Reads(s, <<0>>)
       \/ q = "recipients" /\ Reads(s, <<0>>)
       \/ q = "week" /\ Answers(s, <<0>>)
       \/ q = "summary" /\ Answers(s, <<0>>)
       \/ q \in {"preview", "list"} /\ Answers(s, <<0>>)
  BY DEF Disregard, MoneyWrite
<1> QED BY <1>1, <1>2, <1>3, <1>4, <1>5, <1>6, <1>8, <1>9, <1>10, <1>11, <1>12, <1>13, <1>14

LEMMA SwallowStep ==
  ASSUME SiteIInv, NEW s \in Slot, Swallow(s)
  PROVE  SiteIInv'
<1>1. PICK q : q = Queries(req[s].kind)[req[s].step]
  OBVIOUS
<1>2. /\ At(s, q) /\ Disregard(s, q) /\ UNCHANGED <<db, second>>
      /\ lost' = IF q \in MoneyWrite THEN [lost EXCEPT ![IF q = "reward" THEN req[s].arg ELSE req[s].who][q] = @ + 1]
                 ELSE lost
      /\ dropped' = IF q = "action" THEN dropped \cup {<<req[s].who, req[s].arg>>} ELSE dropped
      /\ missed' = IF q = "news" THEN missed \cup Later("newsletter", req[s].since)
                   ELSE IF q = "leads" THEN missed \cup Later("lead", req[s].since)
                   ELSE missed
  BY <1>1 DEF Swallow, At
<1>3. CASE q \in {"count", "session", "view", "claim"}
  <2>1. GoOn(s) /\ UNCHANGED answers
    BY <1>2, <1>3 DEF Disregard
  <2>2. PICK k \in {2, 5, 7, 9} : /\ AdAt(s, k) /\ (k = 2 <=> q = "count") /\ (k = 5 <=> q = "session")
                                  /\ (k = 7 <=> q = "view") /\ (k = 9 <=> q = "claim")
    <3>1. \/ q = "count" /\ AdAt(s, 2)
          \/ q = "session" /\ AdAt(s, 5)
          \/ q = "view" /\ AdAt(s, 7)
          \/ q = "claim" /\ AdAt(s, 9)
      BY <1>2, <1>3, AdHere
    <3> QED BY <3>1
  <2>3. /\ q \in MoneyWrite /\ lost' = [lost EXCEPT ![req[s].who][q] = @ + 1]
        /\ UNCHANGED <<db, second, answers, dropped, missed>>
    BY <1>2, <1>3, <2>1 DEF MoneyWrite
  <2> QED BY <2>1, <2>2, <2>3, AdUnwritten
<1>4. CASE q = "reward"
  <2>1. GoOn(s) /\ UNCHANGED answers /\ ReferralAt(s, 4)
    BY <1>2, <1>4, ReferralHere DEF Disregard
  <2>2. /\ lost' = [lost EXCEPT ![req[s].arg]["reward"] = @ + 1]
        /\ UNCHANGED <<db, second, answers, dropped, missed>>
    BY <1>2, <1>4, <2>1 DEF MoneyWrite
  <2> QED BY <2>1, <2>2, ReferralUnwritten
<1>5. CASE q = "action"
  <2>1. (Done(s) \/ GoOn(s)) /\ UNCHANGED answers
    BY <1>2, <1>5 DEF Disregard
  <2>2. req[s].kind = "activate" /\ req[s].step = 2 /\ req[s].who \in Email /\ req[s].arg \in Action
    BY <1>2, <1>5, CommunityHere
  <2>3. /\ dropped' = dropped \cup {<<req[s].who, req[s].arg>>}
        /\ UNCHANGED <<db, second, answers, lost, missed>>
    BY <1>2, <1>5, <2>1 DEF MoneyWrite
  <2> QED BY <2>1, <2>2, <2>3, ActionDropped
<1>6. CASE q \in {"news", "leads"}
  <2>1. GoOn(s) /\ UNCHANGED answers
    BY <1>2, <1>6 DEF Disregard
  <2>2. PICK k \in {2, 3} : req[s].kind = "digest" /\ req[s].step = k /\ (k = 2 <=> q = "news")
    <3>1. \/ q = "news" /\ req[s].kind = "digest" /\ req[s].step = 2
          \/ q = "leads" /\ req[s].kind = "digest" /\ req[s].step = 3
      BY <1>2, <1>6, DigestHere
    <3> QED BY <3>1
  <2>3. /\ missed' = missed \cup Later(IF k = 2 THEN "newsletter" ELSE "lead", req[s].since)
        /\ UNCHANGED <<db, second, answers, lost, dropped>>
    BY <1>2, <1>6, <2>1, <2>2 DEF MoneyWrite
  <2> QED BY <2>1, <2>2, <2>3, DigestMisses
<1>7. CASE q # "action" /\ q \notin MoneyWrite /\ q \notin {"news", "leads"}
  <2>1. UNCHANGED <<db, second, losses>>
    BY <1>2, <1>7 DEF losses
  <2> QED BY <1>2, <1>7, <2>1, SwallowRead
<1> QED BY <1>3, <1>4, <1>5, <1>6, <1>7 DEF MoneyWrite

LEMMA SiteStepInv ==
  ASSUME MailBound, SiteIInv, [SiteNext]_siteVars
  PROVE  SiteIInv'
<1>1. ASSUME NEW s \in Slot, Receive(s) PROVE SiteIInv'
  BY <1>1, ReceiveStep
<1>2. ASSUME NEW s \in Slot, AdView(s) PROVE SiteIInv'
  BY <1>2, AdStep
<1>3. ASSUME NEW s \in Slot, ClaimReferral(s) PROVE SiteIInv'
  BY <1>3, ReferralStep
<1>4. ASSUME NEW s \in Slot, Community(s) PROVE SiteIInv'
  BY <1>4, CommunityStep
<1>5. ASSUME NEW s \in Slot, Digest(s) PROVE SiteIInv'
  BY <1>5, DigestStep
<1>6. ASSUME NEW s \in Slot, Record(s) PROVE SiteIInv'
  BY <1>6, RecordStep
<1>7. ASSUME NEW s \in Slot, Inform(s) PROVE SiteIInv'
  BY <1>7, InformStep
<1>8. ASSUME NEW s \in Slot, FailRequest(s) PROVE SiteIInv'
  BY <1>8, FailStep
<1>11. ASSUME NEW s \in Slot, Swallow(s) PROVE SiteIInv'
  BY <1>11, SwallowStep
<1>9. CASE SecondPasses
  BY <1>9, SecondStep
<1>10. CASE UNCHANGED siteVars
  <2>1. UNCHANGED <<users, sessions, views, claims, members, actions, rows, lastSent, mailed,
                    sentAt, campaigns, funds, answers, second, req, lost, dropped, missed>>
    BY <1>10 DEF siteVars, db, rewards, people, digests, swallowed
  <2>2. SiteTypes'
    BY <2>1 DEF SiteIInv, SiteTypes
  <2>3. \A s \in Slot : RequestFits(req[s])'
    BY <2>1 DEF SiteIInv, RequestFits, FormFits, SessionFits, MemberFits, DigestFits, ReportFits
  <2>4. (\A w \in Wallet : WalletBooks(w)') /\ ViewsCover'
    BY <2>1 DEF SiteIInv, WalletBooks, ViewsCover, Noted, Displayed, Viewed, Claimed, Rewarded, AllViewed
  <2>5. ActivatedActed' /\ SentCovers' /\ AnswersLag'
    BY <2>1 DEF SiteIInv, ActivatedActed, SentCovers, AnswersLag, AllViewed
  <2> QED BY <2>2, <2>3, <2>4, <2>5 DEF SiteIInv
<1> QED BY <1>1, <1>2, <1>3, <1>4, <1>5, <1>6, <1>7, <1>8, <1>9, <1>10, <1>11 DEF SiteNext

LEMMA AllZero ==
  ASSUME NEW S, IsFiniteSet(S), NEW f, \A x \in S : f[x] = 0
  PROVE  Sum(f, S) = 0
<1>1. /\ {} \in SUBSET S /\ \A x \in S : f[x] \in Int
      /\ \A x \in S \ {} : f[x] = 0
  OBVIOUS
<1>2. Sum(f, S) = Sum(f, {})
  BY <1>1, SumZeros
<1> QED BY <1>2, SumEmpty

LEMMA SiteStarts ==
  ASSUME SiteInit PROVE SiteIInv
<1>1. SiteTypes
  <2>1. << >> \in Seq(Nat) /\ << >> \in Seq([wallet : Wallet, ads : Nat])
    BY EmptySeq
  <2>2. req \in [Slot -> RequestType]
    BY IdleFits DEF SiteInit
  <2>3. /\ members \in [Email -> [joined : BOOLEAN, activated : BOOLEAN, first : Action \cup {Null}]]
        /\ users \in [Wallet -> [known : BOOLEAN, count : Nat, earned : Nat,
                                 referrer : Wallet \cup {Null}, reward : Nat]]
        /\ claims \in [Wallet -> [view : Nat, referral : Nat]]
        /\ campaigns \in [Campaign -> [live : BOOLEAN, shown : Nat]]
    BY DEF SiteInit
  <2>4. views \in [Wallet -> Nat] /\ funds \in [Stage -> Nat] /\ answers \in [Report -> Seq(Nat)]
    BY <2>1 DEF SiteInit
  <2>5. /\ sessions \in Seq([wallet : Wallet, ads : Nat]) /\ actions \subseteq Email \X Action
        /\ rows \subseteq Rows /\ lastSent \in Nat /\ sentAt \subseteq Nat /\ second \in Nat \ {0}
    BY <2>1 DEF SiteInit
  <2>6. lost \in [Wallet -> [MoneyWrite -> Nat]] /\ dropped \subseteq Email \X Action
    BY DEF SiteInit
  <2> QED BY <2>2, <2>3, <2>4, <2>5, <2>6 DEF SiteTypes
<1>2. \A s \in Slot : req[s].kind = Null /\ Null \notin Kinds
  BY IdleFits DEF SiteInit
<1>3. \A s \in Slot : RequestFits(req[s])
  BY <1>2 DEF RequestFits, FormFits, SessionFits, MemberFits, DigestFits, ReportFits, Null, Report
<1>4. \A k, w, K : k # Null => Marked(req, k, w, K) = 0
  <2> TAKE k, w, K
  <2> HAVE k # Null
  <2> DEFINE h == [s \in Slot |-> IF Marks(req[s], k, w, K) THEN 1 ELSE 0]
  <2>1. \A s \in Slot : h[s] = 0
    BY <1>2 DEF Marks
  <2>2. Sum(h, Slot) = 0
    <3> HIDE DEF h
    <3> QED BY <2>1, SiteAssumption, AllZero
  <2> QED BY <2>2 DEF Marked
<1>5. Showing(req) = 0
  <2> DEFINE h == [s \in Slot |-> IF Shows(req[s]) THEN 1 ELSE 0]
  <2>1. \A s \in Slot : h[s] = 0
    BY <1>2 DEF Shows, Null
  <2>2. Sum(h, Slot) = 0
    <3> HIDE DEF h
    <3> QED BY <2>1, SiteAssumption, AllZero
  <2> QED BY <2>2 DEF Showing
<1>6. Shown(campaigns) = 0
  <2> DEFINE h == [c \in Campaign |-> campaigns[c].shown]
  <2>1. \A c \in Campaign : h[c] = 0
    BY DEF SiteInit
  <2>2. Sum(h, Campaign) = 0
    <3> HIDE DEF h
    <3> QED BY <2>1, SiteAssumption, AllZero
  <2> QED BY <2>2 DEF Shown
<1>7. AllViewed \in Nat
  BY <1>1, GapNumbers
<1>8. \A w : AdsOf(sessions, w) = 0
  <2> TAKE w
  <2>1. Own(sessions, w) = {}
    BY DEF SiteInit, Own
  <2> QED BY <2>1, SumEmpty DEF AdsOf
<1>9. ASSUME NEW w \in Wallet PROVE WalletBooks(w)
  <2>1. users[w].earned = 0 /\ users[w].count = 0 /\ users[w].reward = 0
        /\ claims[w].view = 0 /\ claims[w].referral = 0 /\ views[w] = 0
        /\ \A q \in MoneyWrite : lost[w][q] = 0
    BY DEF SiteInit
  <2>2. "ad-view" # Null /\ "referral" # Null
    BY DEF Null
  <2>3. /\ Noted(w) = 0 /\ Displayed(w) = 0 /\ Viewed(w) = 0 /\ Claimed(w) = 0 /\ Rewarded(w) = 0
    BY <1>8, <2>1 DEF Noted, Displayed, Viewed, Claimed, Rewarded, MoneyWrite
  <2> QED BY <1>4, <2>1, <2>2, <2>3 DEF WalletBooks
<1>10. ViewsCover
  BY <1>5, <1>6, <1>7 DEF ViewsCover
<1>11. ActivatedActed /\ SentCovers /\ AnswersLag
  BY DEF SiteInit, ActivatedActed, SentCovers, AnswersLag, Report
<1> QED BY <1>1, <1>3, <1>9, <1>10, <1>11 DEF SiteIInv

LEMMA SiteImplies ==
  ASSUME SiteIInv PROVE WorkerInv
<1>1. BooksLean
  <2> SUFFICES ASSUME NEW w \in Wallet
               PROVE  /\ users[w].earned <= claims[w].view + lost[w]["claim"]
                      /\ claims[w].view <= views[w] + lost[w]["view"]
                      /\ views[w] <= Ads(w) + lost[w]["session"]
                      /\ Ads(w) <= users[w].count + lost[w]["count"]
                      /\ claims[w].referral <= users[w].reward + lost[w]["reward"]
    BY DEF BooksLean
  <2>1. Ads(w) = AdsOf(sessions, w)
    <3> DEFINE f == [i \in Own(sessions, w) |-> sessions[i].ads]
    <3>1. Ads(w) = SumFunction(f) /\ DOMAIN f = Own(sessions, w) /\ AdsOf(sessions, w) = Sum(f, Own(sessions, w))
      BY DEF Ads, AdsOf, Own
    <3> HIDE DEF f
    <3> QED BY <3>1, SumIs
  <2>2. \A k, K : Marked(req, k, w, K) \in Nat
    <3> TAKE k, K
    <3> DEFINE h == [s \in Slot |-> IF Marks(req[s], k, w, K) THEN 1 ELSE 0]
    <3>1. \A s \in Slot : h[s] \in Nat
      OBVIOUS
    <3>2. Sum(h, Slot) \in Nat
      <4> HIDE DEF h
      <4> QED BY <3>1, SiteAssumption, SumNatural
    <3> QED BY <3>2 DEF Marked
  <2>3. /\ users[w].earned \in Nat /\ users[w].count \in Nat /\ users[w].reward \in Nat
        /\ claims[w].view \in Nat /\ claims[w].referral \in Nat /\ views[w] \in Nat
        /\ AdsOf(sessions, w) \in Nat
    BY BookNumbers
  <2>4. WalletBooks(w)
    BY DEF SiteIInv
  <2>5. \A q \in MoneyWrite : lost[w][q] \in Nat
    BY GapNumbers DEF SiteIInv
  <2>6. /\ users[w].earned <= Claimed(w) /\ Claimed(w) <= Viewed(w) /\ Viewed(w) <= Displayed(w)
        /\ Displayed(w) <= Noted(w) /\ claims[w].referral <= Rewarded(w)
    <3>1. /\ Noted(w) \in Nat /\ Displayed(w) \in Nat /\ Viewed(w) \in Nat /\ Claimed(w) \in Nat
          /\ Rewarded(w) \in Nat
      BY <2>3, <2>5 DEF Noted, Displayed, Viewed, Claimed, Rewarded, MoneyWrite
    <3> QED BY <2>2, <2>3, <2>4, <3>1 DEF WalletBooks
  <2>7. /\ lost[w]["claim"] \in Nat /\ lost[w]["view"] \in Nat /\ lost[w]["session"] \in Nat
        /\ lost[w]["count"] \in Nat
    BY <2>5 DEF MoneyWrite
  <2> QED BY <2>1, <2>3, <2>6, <2>7 DEF Noted, Displayed, Viewed, Claimed, Rewarded
<1>2. DigestCovers
  <2>1. lastSent \in sentAt \/ lastSent = 0
    BY DEF SiteIInv, SentCovers
  <2>2. \A x \in rows : x.at \in Nat \ {0}
    BY DEF SiteIInv, SiteTypes, Rows
  <2> QED BY <2>1, <2>2 DEF SiteIInv, SentCovers, DigestCovers
<1>3. ReportsLag
  <2>1. AllOwed = OwedBy(claims) /\ AnswersLag
    BY OwedIs DEF SiteIInv
  <2>2. SumFunction(views) = Sum(views, Wallet)
    <3>1. DOMAIN views = Wallet
      BY DEF SiteIInv, SiteTypes
    <3> QED BY <3>1, SumIs
  <2>3. Lost("view") = LossOf(lost, "view") /\ Lost("claim") = LossOf(lost, "claim")
    <3> SUFFICES ASSUME NEW q PROVE Lost(q) = LossOf(lost, q)
      OBVIOUS
    <3> DEFINE f == [w \in Wallet |-> lost[w][q]]
    <3>1. Lost(q) = SumFunction(f) /\ DOMAIN f = Wallet /\ LossOf(lost, q) = Sum(f, Wallet)
      BY DEF Lost, LossOf
    <3> HIDE DEF f
    <3> QED BY <3>1, SumIs
  <2> QED BY <2>1, <2>2, <2>3 DEF ReportsLag, AnswersLag, AllViewed
<1> QED BY <1>1, <1>2, <1>3 DEF WorkerInv, SiteIInv

\* With the mail binding configured, for any wallets, members, campaigns, weeks and
\* requests in flight, each of which may end at a query that fails or go on as if it
\* had found no rows: but for the writes that handlers went on without, the books lean
\* one way, a report is never ahead of what it was read from, an activated member has
\* acted, and a signup older than the last digest was mailed (worker.js).
THEOREM BooksLeanOneWay ==
  ASSUME MailBound
  PROVE  SiteSpec => []WorkerInv
<1>1. SiteInit => SiteIInv
  BY SiteStarts
<1>2. SiteIInv /\ [SiteNext]_siteVars => SiteIInv'
  BY SiteStepInv
<1>3. SiteIInv => WorkerInv
  BY SiteImplies
<1> QED BY <1>1, <1>2, <1>3, PTL DEF SiteSpec
===============================================================================
