----------------------------- MODULE AssignedWork -----------------------------
(***************************************************************************)
(* The assigned-work journal (broker/assigned-work.ts): a directory of     *)
(* numbered files, one per event, to which several processes append.       *)
(* Every operation reads and replays the whole directory, checks its       *)
(* event, and creates the next file exclusively; a process may die, or its *)
(* write fail, at any step.                                                *)
(***************************************************************************)
EXTENDS WorkLedger

CONSTANT MaxEvents   \* MAX_EVENTS

ASSUME JournalAssumption == MaxEvents \in Nat

VARIABLES
  files,   \* the directory: [whole, previous, event] per number
  call,    \* per process, the operation it is in
  clock

vars == <<files, call, clock>>

\* The checksum chain of an entry is named by the events it commits to.
File == [whole : BOOLEAN, previous : Seq(Event), event : Event]
Idle == [step |-> "idle"]
Calls ==
  {Idle} \cup [step : {"called"}, event : Event]
    \cup [step : {"opening", "writing"}, event : Event, base : Seq(Event)]

TypeOK ==
  /\ files \in Seq(File)
  /\ call \in [Process -> Calls]
  /\ clock \in Time

Init ==
  /\ files = <<>>
  /\ call = [p \in Process |-> Idle]
  /\ clock = 0
------------------------------------------------------------------------------
(* The directory *)

EventsOf(fs) == [i \in 1 .. Len(fs) |-> fs[i].event]
Recorded == EventsOf(IF files # <<>> /\ ~files[Len(files)].whole
                       THEN Front(files) ELSE files)

\* A file continues those before it with an event they accept.
Continues(fs, i) ==
  LET before == SubSeq(EventsOf(fs), 1, i - 1) IN
  fs[i].previous = before /\ Follows(before, fs[i].event)

\* read: every file parses and continues the journal.
Loads(fs) == \A i \in 1 .. Len(fs) : fs[i].whole /\ Continues(fs, i)
------------------------------------------------------------------------------
(* One operation: its event carries the time at which it was called *)

Leases == {e \in ToSet(Recorded) : e.kind = "lease"}

Inputs(p) ==
  {e \in Event :
     CASE e.kind = "credit" -> TRUE
       [] e.kind = "create" ->
            e.now = clock /\ \A f \in e.funding : f.expiresAt - clock \in Duration
       [] e.kind = "refund" -> e.now = clock
       [] e.kind = "lease" ->
            /\ e.now = clock /\ e.lease = <<p, clock>>
            /\ e.deadline - clock \in Duration
       [] e.kind = "complete" ->
            e.now = clock /\ \E l \in Leases : l.lease = e.lease}

Call(p) ==
  /\ call[p] = Idle
  /\ \E e \in Inputs(p) : call' = [call EXCEPT ![p] = [step |-> "called", event |-> e]]
  /\ UNCHANGED <<files, clock>>

\* Mutant: the event is only checked when the journal is next replayed.
AcceptableUnchecked(e) == Loads(files) /\ Len(files) < MaxEvents

Acceptable(e) ==
  /\ Loads(files)
  /\ Len(files) < MaxEvents
  /\ Follows(EventsOf(files), e)

\* append: read and transition.  A file made between the listing of the
\* directory and its reading has the effect of one made after both.
Read(p) ==
  /\ call[p].step = "called"
  /\ Acceptable(call[p].event)
  /\ call' = [call EXCEPT ![p] =
                [step |-> "opening", event |-> @.event, base |-> EventsOf(files)]]
  /\ UNCHANGED <<files, clock>>

Refuse(p) ==
  /\ call[p].step = "called"
  /\ ~Acceptable(call[p].event)
  /\ call' = [call EXCEPT ![p] = Idle]
  /\ UNCHANGED <<files, clock>>

\* Mutants: the file is created or truncated; it gets the next free number.
OpenTruncating(p) ==
  /\ call[p].step = "opening"
  /\ LET n == Len(call[p].base) + 1
         file == [whole |-> FALSE, previous |-> call[p].base, event |-> call[p].event]
     IN files' = [i \in 1 .. Len(files) \cup {n} |-> IF i = n THEN file ELSE files[i]]
  /\ call' = [call EXCEPT ![p].step = "writing"]
  /\ UNCHANGED clock
OpenNext(p) ==
  /\ call[p].step = "opening"
  /\ files' = Append(files, [whole |-> FALSE, previous |-> call[p].base,
                             event |-> call[p].event])
  /\ call' = [call EXCEPT ![p].step = "writing"]
  /\ UNCHANGED clock

\* append: exclusive creation of the file after those that were read.
Open(p) ==
  /\ call[p].step = "opening"
  /\ Len(files) = Len(call[p].base)
  /\ files' = Append(files, [whole |-> FALSE, previous |-> call[p].base,
                             event |-> call[p].event])
  /\ call' = [call EXCEPT ![p].step = "writing"]
  /\ UNCHANGED clock

Conflict(p) ==
  /\ call[p].step = "opening"
  /\ Len(files) # Len(call[p].base)
  /\ call' = [call EXCEPT ![p] = Idle]
  /\ UNCHANGED <<files, clock>>

\* append: write, sync and return.
Write(p) ==
  /\ call[p].step = "writing"
  /\ files' = [files EXCEPT ![Len(call[p].base) + 1].whole = TRUE]
  /\ call' = [call EXCEPT ![p] = Idle]
  /\ UNCHANGED clock

\* The process dies (the machine does not) or the write throws: nobody removes
\* an unfinished file.
Abandon(p) ==
  /\ call[p] # Idle
  /\ call' = [call EXCEPT ![p] = Idle]
  /\ UNCHANGED <<files, clock>>

Tick ==
  /\ clock < MaxTime
  /\ clock' = clock + 1
  /\ UNCHANGED <<files, call>>
------------------------------------------------------------------------------
Next ==
  \/ \E p \in Process :
       \/ Call(p) \/ Read(p) \/ Refuse(p)
       \/ Open(p) \/ Conflict(p) \/ Write(p) \/ Abandon(p)
  \/ Tick

Spec == Init /\ [][Next]_vars
------------------------------------------------------------------------------
(* Properties *)

\* "Competing writers cannot overwrite the same revision": apart from a file
\* that is being written, or was left unfinished, the directory always loads.
JournalLoads ==
  \A i \in 1 .. Len(files) :
    Continues(files, i) /\ (i < Len(files) => files[i].whole)

\* What an operation found acceptable is acceptable in the state it read, which
\* is still how the directory begins; a file is written by the one that made it.
CallsFollow ==
  /\ \A p \in Process :
       call[p].step \in {"opening", "writing"} =>
         /\ Len(call[p].base) <= Len(files)
         /\ call[p].base = SubSeq(EventsOf(files), 1, Len(call[p].base))
         /\ \A i \in 1 .. Len(call[p].base) : files[i].whole
         /\ Follows(call[p].base, call[p].event)
  /\ \A p \in Process :
       call[p].step = "writing" =>
         /\ Len(files) = Len(call[p].base) + 1
         /\ ~files[Len(files)].whole
         /\ \A q \in Process \ {p} : call[q].step # "writing"

\* The inductive invariant: what is on disk is sound, and so is what the
\* operations under way have read of it.
JournalInv == TypeOK /\ JournalLoads /\ CallsFollow

\* The whole files are one log of acceptable events that only grows: what an
\* operation returned as done stays done, for every process.
OneLog == INSTANCE WorkLog WITH Entry <- Event, Admits <- Follows, log <- Recorded
ImplementsWorkLog == OneLog!Spec

\* "A torn record blocks all further access until operator recovery": once the
\* writer of an unfinished file is gone, no process changes the directory.
FailsClosed ==
  [][(/\ files # <<>> /\ ~files[Len(files)].whole
      /\ \A p \in Process : call[p] # Idle => call[p].step # "writing")
     => UNCHANGED files]_vars

State == Replay(Recorded)
Reserved == {j \in DOMAIN State.jobs : State.jobs[j].status = "open"}

\* "At-most-once credit effects": what the accounts and the open reservations
\* hold is what was credited, whoever raced to complete, lease or refund.
CreditsConserved ==
  SumFunction(State.balance)
    + SumFunction([j \in Reserved |-> Held(State.jobs[j].funding)])
  = SumFunction([i \in DOMAIN Recorded |->
                   IF Recorded[i].kind = "credit" THEN Recorded[i].amount ELSE 0])

\* No reservation is locked for ever: when its lease is over, its buyer can
\* have it back.
FundsRecoverable ==
  \A j \in Reserved : \A f \in State.jobs[j].funding :
    Accepts(State, [kind |-> "refund", job |-> j, buyer |-> f.buyer,
                    now |-> MaxTime + MaxLease])

\* "An active lease cannot be cancelled out from under a worker": from its entry
\* on, only the worker's completion, called in time, or a refund or new lease
\* called after the deadline touches the job, although every call was timed
\* before its process read the others.
LeaseHonoured ==
  \A i \in DOMAIN Recorded : Recorded[i].kind = "lease" =>
    LET l == Recorded[i]
        later == {k \in i + 1 .. Len(Recorded) :
                    Recorded[k].kind # "credit" /\ Recorded[k].job = l.job}
    IN  \A k \in later :
          \/ Recorded[k].kind \in {"lease", "refund"} /\ Recorded[k].now >= l.deadline
          \/ /\ Recorded[k].kind = "complete"
             /\ Recorded[k].lease = l.lease =>
                  Recorded[k].miner = l.miner /\ Recorded[k].now < l.deadline
             /\ Recorded[k].lease # l.lease =>
                  \E n \in later : n < k /\ Recorded[n].kind = "lease"

\* Nobody who takes part is cheated by a race: credits are conserved, no
\* reservation is lost, and a lease is what it says.
FundsInv == CreditsConserved /\ FundsRecoverable /\ LeaseHonoured
==============================================================================
