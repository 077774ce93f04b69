------------------------------ MODULE WorkLedger ------------------------------
(***************************************************************************)
(* The events of the assigned-work journal and what they add up to         *)
(* (transition in broker/assigned-work.ts): synthetic credits, jobs with a *)
(* reservation, leases and completions.  Outputs are computed correctly    *)
(* and signed by the leaseholder's key: what fails those tests changes     *)
(* nothing.                                                                *)
(***************************************************************************)
EXTENDS Integers, SequencesExt

CONSTANTS
  Process,    \* processes that open the journal's directory
  CreditId, Job,
  Buyer, Miner,
  WorkerKey,  \* miners named by a worker key
  Amount,     \* credits and reservations
  Duration,   \* what a lease or a reservation may last
  MaxLease,   \* 3600 seconds
  MaxTime     \* bound: how long the clock runs

Account == Buyer \cup Miner
Time == 0 .. MaxTime
Expiry == {t + d : t \in Time, d \in Duration}

ASSUME WorkAssumption ==
  /\ IsFiniteSet(Buyer) /\ IsFiniteSet(Miner) /\ WorkerKey \subseteq Miner
  /\ Amount \subseteq Nat \ {0}
  /\ Duration \subseteq Nat /\ MaxLease \in Nat
  /\ MaxTime \in Nat

\* A lease's random id is the call that made it.
LeaseId == Process \X Time
Funding == [buyer : Buyer, amount : Amount, expiresAt : Expiry]

\* No funding is an empty set, and so is no lease.
Event ==
  [kind : {"credit"}, id : CreditId, buyer : Buyer, amount : Amount]
    \cup [kind : {"create"}, job : Job, now : Time,
          funding : {{}} \cup {{f} : f \in Funding}]
    \cup [kind : {"refund"}, job : Job, now : Time, buyer : Buyer]
    \cup [kind : {"lease"}, job : Job, now : Time, lease : LeaseId, miner : Miner,
          deadline : Expiry]
    \cup [kind : {"complete"}, job : Job, now : Time, lease : LeaseId, miner : Miner]

NoJobs == [j \in {} |-> 0]
Start == [jobs |-> NoJobs, balance |-> [a \in Account |-> 0], credits |-> {}]
------------------------------------------------------------------------------
(* Which events a state accepts *)

CanCredit(st, e) == e.id \notin st.credits

CanCreate(st, e) ==
  /\ e.job \notin DOMAIN st.jobs
  /\ \A f \in e.funding : f.expiresAt > e.now /\ st.balance[f.buyer] >= f.amount

\* Mutant: a refunded job can still be worked on.
UnfinishedOnly(st, e) == e.job \in DOMAIN st.jobs /\ st.jobs[e.job].status # "done"

\* The job is neither completed nor refunded.
Unfinished(st, e) == e.job \in DOMAIN st.jobs /\ st.jobs[e.job].status = "open"

\* Mutant: an expired reservation is locked for its buyer too.
CanRefundUnexpired(st, e) ==
  /\ Unfinished(st, e)
  /\ \E f \in st.jobs[e.job].funding : f.buyer = e.buyer /\ e.now < f.expiresAt
  /\ \A l \in st.jobs[e.job].lease : e.now >= l.deadline

\* Mutant: the lease is not looked at.
CanRefundLeased(st, e) ==
  Unfinished(st, e) /\ \E f \in st.jobs[e.job].funding : f.buyer = e.buyer

CanRefund(st, e) ==
  /\ Unfinished(st, e)
  /\ \E f \in st.jobs[e.job].funding : f.buyer = e.buyer
  /\ \A l \in st.jobs[e.job].lease : e.now >= l.deadline

CanLease(st, e) ==
  /\ Unfinished(st, e)
  /\ \A f \in st.jobs[e.job].funding :
       e.now < f.expiresAt /\ e.deadline <= f.expiresAt /\ e.miner \in WorkerKey
  /\ e.now < e.deadline /\ e.deadline - e.now <= MaxLease
  /\ \A l \in st.jobs[e.job].lease : e.now >= l.deadline /\ l.id # e.lease

CanComplete(st, e) ==
  /\ Unfinished(st, e)
  /\ \A f \in st.jobs[e.job].funding : e.now < f.expiresAt
  /\ \E l \in st.jobs[e.job].lease :
       /\ l.id = e.lease /\ l.miner = e.miner
       /\ l.startedAt <= e.now /\ e.now < l.deadline

Accepts(st, e) ==
  \/ e.kind = "credit" /\ CanCredit(st, e)
  \/ e.kind = "create" /\ CanCreate(st, e)
  \/ e.kind = "refund" /\ CanRefund(st, e)
  \/ e.kind = "lease" /\ CanLease(st, e)
  \/ e.kind = "complete" /\ CanComplete(st, e)
------------------------------------------------------------------------------
(* What they do *)

Pay(balance, account, amount) == [balance EXCEPT ![account] = @ + amount]
Held(funding) == SumFunction([f \in funding |-> f.amount])

Created(st, e) ==
  [st EXCEPT
     !.jobs = [j \in DOMAIN @ \cup {e.job} |->
                 IF j = e.job
                   THEN [funding |-> e.funding, lease |-> {}, status |-> "open"]
                   ELSE @[j]],
     !.balance = [a \in Account |->
                    @[a] - Held({f \in e.funding : f.buyer = a})]]

Finished(st, e, status, payee) ==
  [st EXCEPT !.jobs[e.job].status = status,
             !.balance = Pay(@, payee, Held(st.jobs[e.job].funding))]

\* transition, for an accepted event.
Transition(st, e) ==
  CASE e.kind = "credit" ->
         [st EXCEPT !.credits = @ \cup {e.id},
                    !.balance = Pay(@, e.buyer, e.amount)]
    [] e.kind = "create" -> Created(st, e)
    [] e.kind = "refund" -> Finished(st, e, "refunded", e.buyer)
    [] e.kind = "lease" ->
         [st EXCEPT !.jobs[e.job].lease =
            {[id |-> e.lease, miner |-> e.miner, startedAt |-> e.now,
              deadline |-> e.deadline]}]
    [] e.kind = "complete" -> Finished(st, e, "done", e.miner)

\* The state after each number of the events.
States(events) ==
  LET s[n \in 0 .. Len(events)] == IF n = 0 THEN Start ELSE Transition(s[n - 1], events[n])
  IN  s

Replay(events) == States(events)[Len(events)]

\* The event is acceptable after these.
Follows(events, e) == Accepts(Replay(events), e)
==============================================================================
