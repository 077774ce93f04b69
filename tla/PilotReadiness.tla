--------------------------- MODULE PilotReadiness ---------------------------
(***************************************************************************)
(* The pilot's readiness report (ops/pilot-evidence.ts, pilot-readiness.ts).*)
(* Eight collectors read two seeds while the seeds change, and any of them  *)
(* may fail: Google's commands wait for each other, the rest run side by    *)
(* side.  What they returned is joined with the operator's attestations and *)
(* judged.  Ages and lifetimes are counted in whole units of the clock.     *)
(***************************************************************************)
EXTENDS Integers, FiniteSets

CONSTANTS WarnDisk, FailDisk,       \* 85 and 95 percent
          WarnAge, FailAge,         \* of the newest snapshot, 30 and 48 hours
          WarnLife, FailLife,       \* of the certificate, 14 and 3 days
          Disk,                     \* the usages a disk can show
          MaxHour, MaxGrowth, MaxFaults   \* bounds of the model

ASSUME PilotAssumption ==
  /\ WarnDisk \in Nat /\ FailDisk \in Nat /\ WarnAge \in Nat /\ FailAge \in Nat
  /\ WarnLife \in Nat /\ FailLife \in Nat /\ MaxHour \in Nat
  /\ Disk \subseteq Nat /\ Disk # {} /\ IsFiniteSet(Disk)

VARIABLES hour, seeds,
          attested,    \* the seeds whose manual attestations are all in order
          runner,      \* externalRunnerConnected is attested
          phase,       \* "idle", "collecting", "judged"
          evidence,    \* what the collectors returned so far
          report,      \* capturedAt, the expected outage and the severity
          faults,    \* changes of the seeds and timeouts of the collectors, counted
          witnessed    \* the facts that held since the collection began (not code state)

pilotVars == <<hour, seeds, attested, runner, phase, evidence, report, faults, witnessed>>

Seeds == {"seed-a", "seed-b"}
Other(s) == IF s = "seed-a" THEN "seed-b" ELSE "seed-a"
Collector == {"status", "disk", "snapshot", "certificate"}
Pending == [settled |-> FALSE, ok |-> FALSE]
Failed == [settled |-> TRUE, ok |-> FALSE]
Returned(v) == [settled |-> TRUE, ok |-> TRUE, value |-> v]

-----------------------------------------------------------------------------
(* The collectors.  A provider lists its snapshots, the unfinished ones too;*)
(* only a completed one counts, and none at all is an error.                *)
Completed(s) == {p.at : p \in {q \in seeds[s].snapshots : q.done}}

\* Mutant: a snapshot counts from the moment it was requested.
CompletedOrNot(s) == {p.at : p \in seeds[s].snapshots}

SnapshotTimes(s) == Completed(s)

Answer(s, c) ==
  CASE c = "status" /\ seeds[s].up ->
         Returned([height |-> seeds[s].height, peers |-> seeds[s].peers,
                   producer |-> seeds[s].producer])
    [] c = "disk" /\ seeds[s].up -> Returned(seeds[s].disk)
    [] c = "certificate" /\ seeds[s].up -> Returned(seeds[s].expires)
    [] c = "snapshot" /\ SnapshotTimes(s) # {} ->
         Returned(CHOOSE t \in SnapshotTimes(s) : \A u \in SnapshotTimes(s) : u <= t)
    [] OTHER -> Failed

(* seed-a's commands share one tunnel and wait for each other. *)
MayStart(s, c) ==
  s = "seed-a" => /\ c = "disk" => evidence[s]["status"].settled
                  /\ c = "snapshot" => evidence[s]["disk"].settled

-----------------------------------------------------------------------------
(* The judgement: each check gives a severity.                              *)
Got(s, c) == evidence[s][c].ok
Value(s, c) == evidence[s][c].value
Grade(warn, fail) == IF fail THEN "fail" ELSE IF warn THEN "warn" ELSE "pass"
Must(condition) == Grade(FALSE, ~condition)

Freshness(s) ==
  {IF Got(s, "snapshot")
   THEN Grade(hour - Value(s, "snapshot") > WarnAge, hour - Value(s, "snapshot") > FailAge)
   ELSE "fail",
   IF Got(s, "certificate")
   THEN Grade(Value(s, "certificate") - hour < WarnLife, Value(s, "certificate") - hour < FailLife)
   ELSE "fail"}

DiskCheck(s) ==
  IF Got(s, "disk") THEN Grade(Value(s, "disk") >= WarnDisk, Value(s, "disk") >= FailDisk) ELSE "fail"

\* An unreachable seed has the one complaint; a good attestation may still warn.
SeedChecks(s, outage) ==
  IF outage = s THEN {IF Got(s, "status") THEN "warn" ELSE "pass"}
  ELSE IF ~Got(s, "status") THEN {"fail"}
  ELSE {Must(Value(s, "status").peers >= 1), Must(Value(s, "status").producer = (s = "seed-a")),
        DiskCheck(s), Must(s \in attested)} \cup Freshness(s)

PairCheck(outage) ==
  LET a == Value("seed-a", "status").height
      b == Value("seed-b", "status").height
  IN  IF \A s \in Seeds : s # outage /\ Got(s, "status") THEN {Must(a - b \in -1 .. 1)} ELSE {}

OutageCheck(outage) == IF outage = "none" THEN {} ELSE {Must(runner)}

Severity(outage) ==
  LET found == (UNION {SeedChecks(s, outage) : s \in Seeds}) \cup PairCheck(outage) \cup OutageCheck(outage)
  IN  Grade("warn" \in found, "fail" \in found)

-----------------------------------------------------------------------------
(* What the report claims of a seed, when it does not say "fail".           *)
Facts(w) ==
       {<<s, "serves", 0>> : s \in {r \in Seeds : w[r].up /\ w[r].peers >= 1}}
  \cup {<<s, "role", 0>> : s \in {r \in Seeds : w[r].producer = (r = "seed-a")}}
  \cup {<<s, "room", 0>> : s \in {r \in Seeds : w[r].disk < FailDisk}}
  \cup UNION {{<<s, "saved", p.at>> : p \in {q \in w[s].snapshots : q.done}} : s \in Seeds}

PilotInit ==
  /\ hour = 0 /\ faults = 0
  /\ \E life \in {FailLife, WarnLife + MaxHour} :
       seeds = [s \in Seeds |->
         [up |-> TRUE, height |-> 0, peers |-> 1, producer |-> s = "seed-a",
          disk |-> CHOOSE d \in Disk : \A e \in Disk : d <= e, expires |-> life,
          snapshots |-> {[at |-> -1, done |-> TRUE]}]]
  /\ \E good \in BOOLEAN : attested = (IF good THEN Seeds ELSE {"seed-a"}) /\ runner = good
  /\ phase = "idle"
  /\ evidence = [s \in Seeds |-> [c \in Collector |-> Pending]]
  /\ report = [at |-> 0, outage |-> "none", severity |-> "fail"]
  /\ witnessed = {}

\* A change of the seeds, and the facts it makes true.  (The model stops at the report.)
Becomes(s, seed) ==
  /\ phase # "judged"
  /\ seeds' = [seeds EXCEPT ![s] = seed]
  /\ witnessed' = IF phase = "collecting" THEN witnessed \cup Facts(seeds') ELSE witnessed
  /\ UNCHANGED <<hour, attested, runner, phase, evidence, report>>

Grow(s) ==
  /\ seeds[s].up
  /\ \E h \in {seeds[s].height + 1, seeds[Other(s)].height} :
       /\ h > seeds[s].height /\ h <= MaxGrowth
       /\ h = seeds[s].height + 1 => seeds[s].producer
       /\ Becomes(s, [seeds[s] EXCEPT !.height = h])
  /\ UNCHANGED faults

Switch(s) ==
  /\ faults < MaxFaults /\ faults' = faults + 1
  /\ \/ Becomes(s, [seeds[s] EXCEPT !.up = ~seeds[s].up])
     \/ Becomes(s, [seeds[s] EXCEPT !.producer = ~seeds[s].producer])
     \/ Becomes(s, [seeds[s] EXCEPT !.peers = 1 - seeds[s].peers])
     \/ \E d \in Disk : Becomes(s, [seeds[s] EXCEPT !.disk = d])
     \/ \E p \in seeds[s].snapshots : Becomes(s, [seeds[s] EXCEPT !.snapshots = @ \ {p}])

\* The provider's snapshots begin and complete on their own schedule.
SnapshotMoves(s) ==
  /\ LET open == {p \in seeds[s].snapshots : ~p.done}
     IN  \/ open = {} /\ Becomes(s, [seeds[s] EXCEPT !.snapshots = @ \cup {[at |-> hour, done |-> FALSE]}])
         \/ \E p \in open :
              Becomes(s, [seeds[s] EXCEPT !.snapshots = (@ \ {p}) \cup {[at |-> p.at, done |-> TRUE]}])
  /\ Cardinality(seeds'[s].snapshots) <= 2
  /\ UNCHANGED faults

HourPasses == phase # "judged" /\ hour < MaxHour /\ hour' = hour + 1
        /\ UNCHANGED <<seeds, attested, runner, phase, evidence, report, faults, witnessed>>

Begin ==
  /\ phase = "idle" /\ phase' = "collecting" /\ witnessed' = Facts(seeds)
  /\ UNCHANGED <<hour, seeds, attested, runner, evidence, report, faults>>

Collect(s, c) ==
  /\ phase = "collecting" /\ ~evidence[s][c].settled /\ MayStart(s, c)
  /\ \/ evidence' = [evidence EXCEPT ![s][c] = Answer(s, c)] /\ UNCHANGED faults
     \/ /\ faults < MaxFaults /\ faults' = faults + 1
        /\ evidence' = [evidence EXCEPT ![s][c] = Failed]
  /\ UNCHANGED <<hour, seeds, attested, runner, phase, report, witnessed>>

Judge ==
  /\ phase = "collecting" /\ \A s \in Seeds, c \in Collector : evidence[s][c].settled
  /\ phase' = "judged"
  /\ \E outage \in Seeds \cup {"none"} :
       report' = [at |-> hour, outage |-> outage, severity |-> Severity(outage)]
  /\ UNCHANGED <<hour, seeds, attested, runner, evidence, faults, witnessed>>

PilotNext ==
  \/ HourPasses \/ Begin \/ Judge
  \/ \E s \in Seeds : Grow(s) \/ Switch(s) \/ SnapshotMoves(s) \/ \E c \in Collector : Collect(s, c)

PilotSpec == PilotInit /\ [][PilotNext]_pilotVars

-----------------------------------------------------------------------------
(* A report that does not say "fail" says of every seed not in a drill only *)
(* what was so: at some moment of the collection it served a peer, had its  *)
(* role and had room, and had a completed snapshot of the FailAge before the*)
(* report; it was attested, and its certificate outlives the report by      *)
(* FailLife.  During a drill the external runner held on.                   *)
ReadyIsTrue ==
  phase = "judged" /\ report.severity # "fail" =>
    /\ \A s \in Seeds \ {report.outage} :
         /\ {<<s, "serves", 0>>, <<s, "role", 0>>, <<s, "room", 0>>} \subseteq witnessed
         /\ s \in attested
         /\ seeds[s].expires - report.at >= FailLife
         /\ \E t \in report.at - FailAge .. report.at : <<s, "saved", t>> \in witnessed
    /\ report.outage # "none" => runner
=============================================================================
