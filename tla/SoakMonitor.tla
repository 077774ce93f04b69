---------------------------- MODULE SoakMonitor ----------------------------
(***************************************************************************)
(* The hosted soak monitor (ops/hosted-soak-monitor.ts, soak-evidence.ts,   *)
(* deploy/monitor/server.mjs) that watches a public test network for one    *)
(* fixed window and says whether three whole epochs were observed.          *)
(*                                                                          *)
(* A block is the sequence of the bodies from genesis to it, so that equal  *)
(* blocks are equal hashes and Front is the previous hash; genesis is << >>.*)
(* The window's state is one stored object with a generation: every write   *)
(* names the generation it replaces.  Ticks are HTTP requests of the        *)
(* scheduler and may overlap; each is read, put, reread, put again.         *)
(***************************************************************************)
EXTENDS Integers, FiniteSets, Sequences

CONSTANTS Participant,  \* the two addresses whose contributions are awaited
          Body,         \* what a block may contain
          Attends,      \* the participants whose receipts a body carries
          Seed,         \* the public endpoints probed
          Request,         \* requests that may be in flight
          EpochLength,  \* 144
          Recent,       \* the blocks an explorer answer shows, 12
          Interval, MaxGap, StallLimit, MinWindow, MaxWindow,
          Threshold,    \* consecutive failed probes that fail the window
          Deadline,     \* MONITOR_DEADLINE_UTC
          MaxInstant, MaxHeight, MaxTroubles   \* bounds of the model

ASSUME SoakAssumption ==
  /\ Attends \in [Body -> SUBSET Participant]
  /\ EpochLength \in Nat \ {0} /\ Recent \in Nat
  /\ MaxGap \in Nat /\ Threshold \in Nat \ {0}
  /\ Interval \in Nat /\ StallLimit \in Nat
  /\ MinWindow \in Nat /\ MaxWindow \in Nat /\ Deadline \in Nat

VARIABLES instant,
          chain,        \* the active chain of the node that serves /explorer
          saved,        \* state.json, or Missing
          generation,   \* of state.json
          ticks,        \* the requests in flight
          paused,       \* the scheduler job is paused
          troubles,     \* faults, reorganisations and blocks that lack a participant
          history       \* what the stored observations showed (not code state)

soakVars == <<instant, chain, saved, generation, ticks, paused, troubles, history>>

Missing == [absent |-> TRUE]
Free == [at |-> "idle"]
Greater(a, b) == IF a > b THEN a ELSE b

-----------------------------------------------------------------------------
(* explorerSnapshot and evaluateExplorerEvidence *)

RecentBlocks(c) == {SubSeq(c, 1, h) : h \in Greater(0, Len(c) - Recent + 1)..Len(c)}

Linked(blocks, tip) ==
  /\ tip \in blocks
  /\ \A b \in blocks : \/ \A o \in blocks : Len(o) >= Len(b)
                       \/ SubSeq(b, 1, Len(b) - 1) \in blocks

EvidencePasses(snapshot) == snapshot.sound /\ Linked(snapshot.blocks, snapshot.tip)

Snapshot(sound) == [tip |-> chain, blocks |-> RecentBlocks(chain), sound |-> sound]

-----------------------------------------------------------------------------
(* observationFindings: the failures one sample shows, the probes apart.  A *)
(* recorder that is away is a failure at the baseline, later a warning.     *)

ObservationFails(o, strict) ==
  \/ o.explorer = Missing
  \/ o.explorer # Missing /\ ~EvidencePasses(o.explorer)
  \/ \E p \in Participant : o.recorder[p] = "wrong"
  \/ strict /\ \E p \in Participant : o.recorder[p] = "away"

FirstHeight(height) == (height \div EpochLength + 1) * EpochLength
LastHeight(first) == first + 3 * EpochLength - 1

Targets(s, o) ==
  IF o.explorer = Missing THEN {}
  ELSE {b \in o.explorer.blocks : Len(b) \in s.first..LastHeight(s.first)}

Absent(b) == Participant \ Attends[b[Len(b)]]

(* The failures of advanceMonitor's own comparisons with the saved state. *)
GapFails(s, o) == o.at - s.lastAt > MaxGap

Advanced(s, o) == o.explorer # Missing /\ Len(o.explorer.tip) > s.lastHeight

ChainFails(s, o) ==
  /\ o.explorer # Missing
  /\ \/ Len(o.explorer.tip) < s.lastHeight
     \/ ~Advanced(s, o) /\ o.at - s.lastAdvance > StallLimit

\* Mutant: the last tip is not yet held to what was seen.
ChangedBelow(s, b) == \E old \in s.blocks : Len(old) < s.lastHeight /\ Len(old) = Len(b) /\ old # b

Changed(s, b) == \E old \in s.blocks : Len(old) = Len(b) /\ old # b

BlocksFail(s, o) ==
  \E b \in Targets(s, o) : Changed(s, b) \/ (Absent(b) # {} /\ b \notin s.blocks)

Kept(s, o) ==
  {b \in s.blocks : \A n \in Targets(s, o) : Len(n) # Len(b)} \cup Targets(s, o)

(* classifyFindings: a probe that fails counts up, one that passes resets. *)
Down(s, o) == [e \in Seed |-> IF e \in o.up THEN 0 ELSE s.down[e] + 1]

EpochComplete(first, blocks, k) ==
  \A h \in (first + k * EpochLength)..(first + (k + 1) * EpochLength - 1) :
    \E b \in blocks : /\ Len(b) = h
                      /\ Absent(b) = {}
                      /\ h > first => SubSeq(b, 1, h - 1) \in blocks

Complete(first, blocks) == \A k \in 0..2 : EpochComplete(first, blocks, k)

Verdict(s) ==
  IF Complete(s.first, s.blocks) /\ s.gaps = 0 /\ ~s.failed
  THEN "completed" ELSE "incomplete"

Advance(s, o) ==
  LET down == Down(s, o)
      next == [s EXCEPT
        !.lastAt = o.at,
        !.lastHeight = IF o.explorer = Missing THEN s.lastHeight ELSE Len(o.explorer.tip),
        !.lastAdvance = IF Advanced(s, o) THEN o.at ELSE s.lastAdvance,
        !.blocks = Kept(s, o),
        !.down = down,
        !.gaps = s.gaps + (IF GapFails(s, o) THEN 1 ELSE 0),
        !.failed = \/ s.failed \/ ObservationFails(o, FALSE) \/ GapFails(s, o)
                   \/ ChainFails(s, o) \/ BlocksFail(s, o)
                   \/ \E e \in Seed : down[e] >= Threshold,
        !.observations = s.observations + 1]
      ends == \/ o.at >= s.hardEnd
              \/ o.at >= s.minimumEnd /\ next.lastHeight >= LastHeight(s.first)
  IN  IF ends THEN [next EXCEPT !.phase = Verdict(next)] ELSE next

(* startMonitor: the strict baseline the clock starts from.  The tick cuts   *)
(* the window at its own deadline.                                           *)
BaselinePasses(o) == ~ObservationFails(o, TRUE) /\ o.up = Seed /\ o.visible

Started(o) ==
  [phase |-> "observing", evidence |-> 0, observations |-> 0,
   first |-> FirstHeight(Len(o.explorer.tip)),
   minimumEnd |-> o.at + MinWindow,
   hardEnd |-> IF o.at + MaxWindow < Deadline THEN o.at + MaxWindow ELSE Deadline,
   lastAt |-> o.at, lastHeight |-> Len(o.explorer.tip), lastAdvance |-> o.at,
   blocks |-> {}, down |-> [e \in Seed |-> 0], gaps |-> 0, failed |-> FALSE]

-----------------------------------------------------------------------------
(* What collect may return now.  A fault is an explorer that does not       *)
(* answer, or answers what does not parse, or is degraded; a probe that     *)
(* fails; a recorder that is away (or uploads what does not validate) or is *)
(* not who it should be; participants not yet visible.                      *)
Good == [at |-> instant, explorer |-> Snapshot(TRUE), up |-> Seed, visible |-> TRUE,
         recorder |-> [p \in Participant |-> "ok"]]

NoAnswer == [Good EXCEPT !.explorer = Missing, !.visible = FALSE]

RecorderFaults == {[Good EXCEPT !.recorder[p] = r] : p \in Participant, r \in {"away", "wrong"}}

Faulty ==
     {NoAnswer,
      [Good EXCEPT !.explorer = Snapshot(FALSE)], [Good EXCEPT !.visible = FALSE]}
  \cup {[Good EXCEPT !.up = Seed \ {e}] : e \in Seed}
  \cup RecorderFaults

SoakInit ==
  /\ instant = 0 /\ chain = << >> /\ saved = Missing /\ generation = 0
  /\ ticks = [t \in Request |-> Free]
  /\ paused = FALSE /\ troubles = 0
  /\ history = [seen |-> {}, last |-> 0, gap |-> 0, worst |-> [e \in Seed |-> 0],
                run |-> [e \in Seed |-> 0], wrong |-> FALSE, count |-> 0]

Remember(o, fresh) ==
  LET run == [e \in Seed |-> IF e \in o.up THEN 0 ELSE history.run[e] + 1]
  IN  history' = [seen |-> history.seen \cup (IF o.explorer = Missing THEN {} ELSE o.explorer.blocks),
                  last |-> o.at,
                  gap |-> IF fresh THEN 0 ELSE Greater(history.gap, o.at - history.last),
                  run |-> run,
                  worst |-> [e \in Seed |-> Greater(history.worst[e], run[e])],
                  wrong |-> history.wrong \/ \E p \in Participant : o.recorder[p] = "wrong",
                  count |-> history.count + 1]

(* The world: with every sample interval the served chain stays, grows by a *)
(* block, or is reorganised: its last block, or the last two, give way to a *)
(* block of another branch (a heavier branch may be shorter).               *)
Branches ==
  {Append(SubSeq(chain, 1, Len(chain) - k), b) : k \in 1..2 \cap 1..Len(chain), b \in Body}
    \ {chain, SubSeq(chain, 1, Len(chain) - 1)}

Pass ==
  /\ instant < MaxInstant /\ instant' = instant + 1
  /\ \/ UNCHANGED <<chain, troubles>>
     \/ \E b \in Body : /\ Len(chain) < MaxHeight
                        /\ chain' = Append(chain, b)
                        /\ troubles' = troubles + (IF Attends[b] = Participant THEN 0 ELSE 1)
                        /\ troubles' <= MaxTroubles
     \/ /\ troubles < MaxTroubles /\ troubles' = troubles + 1
        /\ chain' \in Branches
  /\ UNCHANGED <<saved, generation, ticks, paused, history>>

(* tick: at or after the deadline the scheduler is paused before anything   *)
(* is read.  A window already closed only pauses the scheduler again; a     *)
(* second request in the same slot ends.                                    *)
OutOfTime == instant >= Deadline
Closed == saved # Missing /\ saved.phase # "observing"

TickRead(t) ==
  /\ ticks[t] = Free /\ ~paused
  /\ paused' = (OutOfTime \/ Closed)
  /\ ticks' = [ticks EXCEPT ![t] =
       IF OutOfTime /\ saved # Missing /\ ~Closed
       THEN [at |-> "closing", generation |-> generation]
       ELSE IF OutOfTime \/ Closed \/ (saved # Missing /\ instant - saved.lastAt < Interval)
       THEN Free
       ELSE [at |-> "read", state |-> saved, generation |-> generation]]
  /\ UNCHANGED <<instant, chain, saved, generation, troubles, history>>

(* putJson: the write is refused when the object changed since it was read. *)
Put(t, value) ==
  /\ ticks[t].generation = generation
  /\ saved' = value /\ generation' = generation + 1

TickClose(t) ==
  /\ ticks[t].at = "closing"
  /\ Put(t, [saved EXCEPT !.phase = "incomplete"])
  /\ ticks' = [ticks EXCEPT ![t] = Free]
  /\ UNCHANGED <<instant, chain, paused, troubles, history>>

(* collect, then the first put.  Evidence is named by the generation of the *)
(* put that stored it: no two observations are ever stored under one.       *)
TickAdvance(t, o) ==
  /\ ticks[t].at = "read"
  /\ IF o = Good THEN UNCHANGED troubles ELSE troubles < MaxTroubles /\ troubles' = troubles + 1
  /\ LET fresh == ticks[t].state = Missing
         base  == IF fresh THEN Started(o) ELSE ticks[t].state
         state == [Advance(base, o) EXCEPT !.evidence = generation + 1]
     IN  IF fresh /\ ~BaselinePasses(o)
         THEN ticks' = [ticks EXCEPT ![t] = Free] /\ UNCHANGED <<saved, generation, history>>
         ELSE /\ Put(t, state)
              /\ Remember(o, fresh)
              /\ ticks' = [ticks EXCEPT ![t] = [at |-> "reviewing", state |-> state]]
  /\ UNCHANGED <<instant, chain, paused>>

(* After the review the state is read again, and the state of this tick is  *)
(* put back with its review counted if it still holds the same evidence.    *)
(* At its end a tick that closed the window pauses the scheduler, which may  *)
(* fail.                                                                     *)
TickEnds(t) ==
  /\ paused' \in {paused, paused \/ ticks[t].state.phase # "observing"}
  /\ ticks' = [ticks EXCEPT ![t] = Free]

\* Mutant: any window still observed is taken for this tick's own.
SameEvidenceObserving(t) == saved.phase = "observing"

SameEvidence(t) == saved.evidence = ticks[t].state.evidence

TickReread(t) ==
  /\ ticks[t].at = "reviewing"
  /\ IF SameEvidence(t)
     THEN /\ ticks' = [ticks EXCEPT ![t] =
               [at |-> "reviewed", state |-> ticks[t].state, generation |-> generation]]
          /\ UNCHANGED paused
     ELSE TickEnds(t)
  /\ UNCHANGED <<instant, chain, saved, generation, troubles, history>>

TickReviewed(t) ==
  /\ ticks[t].at = "reviewed"
  /\ Put(t, ticks[t].state)
  /\ TickEnds(t)
  /\ UNCHANGED <<instant, chain, troubles, history>>

(* A refused precondition, a failed request or the end of the container:    *)
(* the tick answers 503 and what it stored remains.                         *)
TickFails(t) ==
  /\ ticks[t] # Free
  /\ ticks' = [ticks EXCEPT ![t] = Free]
  /\ UNCHANGED <<instant, chain, saved, generation, paused, troubles, history>>

SoakNext ==
  \/ Pass
  \/ \E t \in Request : \/ TickRead(t) \/ TickClose(t) \/ TickReread(t)
                     \/ TickReviewed(t) \/ TickFails(t)
                     \/ \E o \in {Good} \cup Faulty : TickAdvance(t, o)

SoakSpec == SoakInit /\ [][SoakNext]_soakVars

-----------------------------------------------------------------------------
(* A window reported as completed was witnessed: at every height of the     *)
(* three epochs the stored observations showed exactly one block, these     *)
(* blocks form one chain that both participants contributed to, no two      *)
(* observations were further apart than the limit, no endpoint failed       *)
(* Threshold probes in a row and no recorder was someone else.              *)
CompletedIsWitnessed ==
  (saved # Missing /\ saved.phase = "completed") =>
    /\ \A h \in saved.first..LastHeight(saved.first) :
         \E b \in history.seen :
           /\ {o \in history.seen : Len(o) = h} = {b}
           /\ Absent(b) = {}
           /\ h > saved.first => SubSeq(b, 1, h - 1) \in history.seen
    /\ history.gap <= MaxGap
    /\ \A e \in Seed : history.worst[e] < Threshold
    /\ ~history.wrong

(* No stored observation is ever lost, whatever the overlap of the ticks:   *)
(* the state that is kept has counted every one of them.                    *)
NoObservationLost ==
  saved # Missing => saved.observations = history.count

MonitorInv == CompletedIsWitnessed /\ NoObservationLost

(* hosted-soak-monitor.ts says a closed window cannot be extended: once the  *)
(* stored phase is no longer observing it never changes again.              *)
ClosedStaysClosed ==
  [][(saved # Missing /\ saved.phase # "observing") => saved'.phase = saved.phase]_soakVars
=============================================================================
