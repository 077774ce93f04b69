----------------------------- MODULE MCServices -----------------------------
(***************************************************************************)
(* What runs beside the nodes, in one run: the assigned work journal, the  *)
(* launch control, the website's worker, the soak monitor and the pilot's  *)
(* readiness report.  They share no state, so each is explored by itself:  *)
(* the initial state chooses the part that moves.                          *)
(***************************************************************************)
EXTENDS AssignedWork, LaunchControl, SoakMonitor, PilotReadiness, SiteWorker, TLC

VARIABLE part

serviceVars == <<part, vars, launchVars, soakVars, pilotVars, siteVars>>

-----------------------------------------------------------------------------
\* One ceremony of two participants for one circuit, or for the same one twice.
LaunchKey == [circuit |-> "conv", inputs |-> 1, points |-> 2, least |-> 1, most |-> 2]
LaunchManifest == [participants |-> 2, reviewers |-> 2, keys |-> <<LaunchKey>>]

LaunchManifests == {LaunchManifest, [LaunchManifest EXCEPT !.keys = <<LaunchKey, LaunchKey>>]}
LaunchPolicies == {[threshold |-> 2, reviewers |-> 1, keys |-> {"a", "r"}],
                   [threshold |-> 2, reviewers |-> 1, keys |-> {"a"}]}

SoakBodies == {"all", "lacks"}
SoakAttends == [b \in SoakBodies |-> IF b = "all" THEN {"p"} ELSE {}]

-----------------------------------------------------------------------------
\* Rewards and community requests touch no common table: two parts.
SiteParts == {"rewards", "community"}
Parts == {"work", "launch", "soak", "report"} \cup SiteParts

ServicesInit ==
  /\ part \in Parts /\ Init /\ LaunchInit /\ SoakInit /\ PilotInit /\ SiteInit
  /\ part # "launch" => policy.keys = Key
  /\ part # "report" => runner /\ seeds["seed-a"].expires = FailLife

ServicesNext ==
  \/ part = "work" /\ Next /\ UNCHANGED <<part, launchVars, soakVars, pilotVars, siteVars>>
  \/ part = "launch" /\ LaunchNext /\ UNCHANGED <<part, vars, soakVars, pilotVars, siteVars>>
  \/ part = "soak" /\ SoakNext /\ UNCHANGED <<part, vars, launchVars, pilotVars, siteVars>>
  \/ part = "report" /\ PilotNext /\ UNCHANGED <<part, vars, launchVars, soakVars, siteVars>>
  \/ part \in SiteParts /\ SiteNext /\ UNCHANGED <<part, vars, launchVars, soakVars, pilotVars>>

ServicesSpec == ServicesInit /\ [][ServicesNext]_serviceVars

\* The monitor's ticks overlap only while nothing else goes wrong, and of two idle
\* ones the first starts; during a collection the chain stands, and seed-b keeps its
\* disk and its snapshots and answers in this order.
\* Rewards are not timed, and of two idle slots the first serves the next request.
\* Once a statement has failed in a reply that says 200, a third request runs alone.
RewardKinds == {"ad-view", "referral", "campaign", "campaigns", "pending", "dispense", "user"}
AskedOfB == <<"status", "disk", "snapshot", "certificate">>
Quiet ==
  /\ part = "rewards" => second' = second
  /\ part \in SiteParts =>
       /\ \A s \in Slot : req'[s].kind # Null =>
            (req'[s].kind \in RewardKinds <=> part = "rewards")
       /\ served = 0 /\ req' # req => req'[1].who # "v"
       /\ req[2] = IdleSlot /\ req'[2] # IdleSlot => req[1] # IdleSlot
       /\ errors' > 0 /\ served' > 2 => req'[2] = IdleSlot
  /\ part = "soak" =>
       /\ troubles' = 0 \/ \E t \in Request : ticks'[t] = Free
       /\ ticks[2] = Free /\ ticks'[2] # Free => ticks[1] # Free
  /\ part = "report" =>
       /\ seeds'["seed-b"].snapshots = seeds["seed-b"].snapshots
       /\ seeds'["seed-b"].disk = seeds["seed-b"].disk
       /\ \A i \in 2 .. 4 : evidence'["seed-b"][AskedOfB[i]].settled => evidence'["seed-b"][AskedOfB[i - 1]].settled
       /\ phase = "collecting" => \A s \in Seeds : seeds'[s].height = seeds[s].height
=============================================================================
