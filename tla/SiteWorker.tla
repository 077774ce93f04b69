----------------------------- MODULE SiteWorker ------------------------------
(***************************************************************************)
(* The website's API worker and its database (worker/worker.js).  A        *)
(* handler is a series of awaited queries with no transaction around them: *)
(* other requests run between any two.  A query can fail and end the       *)
(* request there, or its statement fails in a reply that says 200, and the *)
(* handler goes on as if it had found no rows.  A request is its kind, the *)
(* query it is about to issue and what its earlier queries returned.       *)
(* Money columns count rewards.                                            *)
(***************************************************************************)
EXTENDS Naturals, Sequences, FiniteSets, FiniteSetsExt, Functions

CONSTANTS
  Slot,         \* requests that can be in flight together
  Wallet,       \* wallet addresses
  Email,        \* e-mail addresses
  Action,       \* community actions
  Campaign,     \* advertising campaigns that can be created
  Week,         \* weeks that have metrics, numbered from 1
  MailBound,    \* the EMAIL_SENDER binding is configured
  MaxRequests,  \* bound: requests served
  MaxErrors,    \* bound: statements that fail in a reply that says 200
  MaxSecond     \* bound on the clock, in seconds

ASSUME SiteAssumption ==
  /\ IsFiniteSet(Slot) /\ IsFiniteSet(Wallet) /\ IsFiniteSet(Email) /\ IsFiniteSet(Action)
  /\ IsFiniteSet(Campaign) /\ Week \subseteq Nat \ {0} /\ IsFiniteSet(Week)
  /\ MailBound \in BOOLEAN /\ MaxRequests \in Nat /\ MaxErrors \in Nat /\ MaxSecond \in Nat

Null == "none"

VARIABLES
  users,     \* [Wallet -> [known, count, earned, referrer, reward]]
  sessions,  \* [wallet, ads], in order of creation
  views,     \* [Wallet -> ad_views rows]
  claims,    \* [Wallet -> [view, referral]], pending_claims rows by cause
  members,   \* [Email -> [joined, activated, first]]
  actions,   \* community_actions rows, <<email, action>>
  rows,      \* subscribers and leads, [table, email, at]
  lastSent,  \* digest_state.last_sent_at; a fresh database counts from 1
  mailed,    \* rows some digest has shown the owner (history)
  sentAt,    \* every value lastSent has had (history)
  campaigns, \* [Campaign -> [live, shown]], ad_campaigns rows and their impressions
  funds,     \* [stage -> amount], funding_records summed by stage
  weeks,     \* [Week -> TRUE when weekly_metrics has its row]
  answers,   \* per kind of report, the last one returned
  second,
  req,       \* [Slot -> request]
  served,
  errors,    \* statements that failed in a reply that says 200
  lost,      \* [Wallet -> [MoneyWrite -> writes a handler went on without]] (history)
  dropped,   \* actions a handler went on without recording (history)
  missed     \* rows a digest went on without having read (history)

rewards == <<users, sessions, views, claims, campaigns>>
people == <<members, actions, rows, funds, weeks>>
digests == <<lastSent, mailed, sentAt>>
db == <<rewards, people, digests>>
swallowed == <<errors, lost, dropped, missed>>
siteVars == <<db, answers, second, req, served, swallowed>>

Stage == {"pipeline", "committed", "received"}
Report == {"user", "campaigns", "scoreboard", "pending", "dispense"}
MoneyWrite == {"count", "session", "view", "claim", "reward"}

IdleSlot == [kind |-> Null, step |-> 0, who |-> Null, arg |-> Null, seen |-> 0, since |-> 0,
         found |-> {}, read |-> <<>>]

(* Kinds of request and the queries of each, in the order they are issued. *)
\* Mutant: the total is credited before the claim it stands for.
AdQueriesTotalFirst ==
  <<"user", "count", "id", "active", "session", "created", "view", "impression", "total", "claim">>
AdQueries ==
  <<"user", "count", "id", "active", "session", "created", "view", "impression", "claim", "total">>
ReferralQueries == <<"referrer", "code", "set", "reward", "credit">>
JoinQueries == <<"member", "subscriber">>
ActivateQueries == <<"joined", "action", "activate">>
SubscribeQueries == <<"subscriber">>
LeadQueries == <<"lead">>
FundingQueries == <<"funding">>
MetricsQueries == <<"metrics">>
CampaignQueries == <<"campaign">>
ScoreboardQueries == <<"totals", "contributions", "raised", "week">>
PendingQueries == <<"recipients", "summary">>
UserQueries == <<"account">>
ActiveQueries == <<"list">>
DispenseQueries == <<"preview">>
DigestQueries == <<"state", "news", "leads", "mail", "sent">>

Queries(kind) ==
  CASE kind = "ad-view" -> AdQueries
    [] kind = "referral" -> ReferralQueries
    [] kind = "join" -> JoinQueries
    [] kind = "activate" -> ActivateQueries
    [] kind = "subscribe" -> SubscribeQueries
    [] kind = "hire-lead" -> LeadQueries
    [] kind = "funding" -> FundingQueries
    [] kind = "weekly-metrics" -> MetricsQueries
    [] kind = "campaign" -> CampaignQueries
    [] kind = "scoreboard" -> ScoreboardQueries
    [] kind = "pending" -> PendingQueries
    [] kind = "user" -> UserQueries
    [] kind = "campaigns" -> ActiveQueries
    [] kind = "dispense" -> DispenseQueries
    [] kind = "digest" -> DigestQueries

At(s, query) == req[s].kind # Null /\ Queries(req[s].kind)[req[s].step] = query

Done(s) == req' = [req EXCEPT ![s] = IdleSlot]

(* The handler goes on to its next query, or is over. *)
Proceed(s, r) ==
  IF r.step = Len(Queries(r.kind)) THEN Done(s)
  ELSE req' = [req EXCEPT ![s] = [r EXCEPT !.step = @ + 1]]

GoOn(s) == Proceed(s, req[s])

ActiveSession(w) ==
  LET mine == {i \in DOMAIN sessions : sessions[i].wallet = w}
  IN IF mine = {} THEN 0 ELSE CHOOSE i \in mine : \A j \in mine : j <= i
------------------------------------------------------------------------------
SiteInit ==
  /\ users = [w \in Wallet |-> [known |-> FALSE, count |-> 0, earned |-> 0,
                                referrer |-> Null, reward |-> 0]]
  /\ sessions = <<>>
  /\ views = [w \in Wallet |-> 0]
  /\ claims = [w \in Wallet |-> [view |-> 0, referral |-> 0]]
  /\ members = [e \in Email |-> [joined |-> FALSE, activated |-> FALSE, first |-> Null]]
  /\ actions = {}
  /\ rows = {}
  /\ lastSent = 0
  /\ mailed = {}
  /\ sentAt = {}
  /\ campaigns = [c \in Campaign |-> [live |-> FALSE, shown |-> 0]]
  /\ funds = [stage \in Stage |-> 0]
  /\ weeks = [w \in Week |-> FALSE]
  /\ answers = [kind \in Report |-> <<>>]
  /\ second = 1
  /\ req = [s \in Slot |-> IdleSlot]
  /\ served = 0
  /\ errors = 0
  /\ lost = [w \in Wallet |-> [q \in MoneyWrite |-> 0]]
  /\ dropped = {}
  /\ missed = {}

(* A request that passed its rate limit, form check or bearer check and    *)
(* whose fields are valid; a wallet cannot refer itself.                   *)
Serve(s, kind, who, arg) ==
  /\ req[s] = IdleSlot
  /\ served < MaxRequests
  /\ served' = served + 1
  /\ req' = [req EXCEPT ![s] = [IdleSlot EXCEPT !.kind = kind, !.step = 1, !.who = who, !.arg = arg]]
  /\ UNCHANGED <<db, answers, second, swallowed>>

Receive(s) ==
  \/ \E w \in Wallet, c \in Campaign \cup {Null} : Serve(s, "ad-view", w, c)
  \/ \E w, r \in Wallet : w # r /\ Serve(s, "referral", w, r)
  \/ \E e \in Email : Serve(s, "join", e, Null) \/ Serve(s, "subscribe", e, Null)
                        \/ Serve(s, "hire-lead", e, Null)
  \/ \E e \in Email, a \in Action : Serve(s, "activate", e, a)
  \/ \E c \in Campaign : Serve(s, "campaign", Null, c)
  \/ \E stage \in Stage : Serve(s, "funding", Null, stage)
  \/ \E w \in Week : Serve(s, "weekly-metrics", Null, w)
  \/ \E w \in Wallet : Serve(s, "user", w, Null)
  \/ \E kind \in (Report \ {"user"}) \cup {"digest"} : Serve(s, kind, Null, Null)

(* handleAdView: the user and its counter, its id (without one the request *)
(* is over), the session, looked up again if it is new, the view, the      *)
(* campaign's impression if it names one, the claim, the total.  A view    *)
(* needs its session's id (db/schema.sql:36).                              *)
AdView(s) ==
  LET w == req[s].who
  IN /\ \/ /\ At(s, "user")
           /\ users' = [users EXCEPT ![w].known = TRUE]
           /\ GoOn(s)
           /\ UNCHANGED <<sessions, views, claims, campaigns>>
        \/ /\ At(s, "count") /\ users[w].known
           /\ users' = [users EXCEPT ![w].count = @ + 1]
           /\ GoOn(s)
           /\ UNCHANGED <<sessions, views, claims, campaigns>>
        \/ /\ At(s, "id")
           /\ IF users[w].known THEN GoOn(s) ELSE Done(s)
           /\ UNCHANGED <<users, sessions, views, claims, campaigns>>
        \/ /\ At(s, "active")
           /\ Proceed(s, [req[s] EXCEPT !.seen = ActiveSession(w)])
           /\ UNCHANGED <<users, sessions, views, claims, campaigns>>
        \/ /\ At(s, "session")
           /\ sessions' = IF req[s].seen # 0
                          THEN [sessions EXCEPT ![req[s].seen].ads = @ + 1]
                          ELSE Append(sessions, [wallet |-> w, ads |-> 1])
           /\ GoOn(s)
           /\ UNCHANGED <<users, views, claims, campaigns>>
        \/ /\ At(s, "created")
           /\ Proceed(s, [req[s] EXCEPT !.seen = IF @ # 0 THEN @ ELSE ActiveSession(w)])
           /\ UNCHANGED <<users, sessions, views, claims, campaigns>>
        \/ /\ At(s, "view") /\ req[s].seen # 0
           /\ views' = [views EXCEPT ![w] = @ + 1]
           /\ GoOn(s)
           /\ UNCHANGED <<users, sessions, claims, campaigns>>
        \/ /\ At(s, "impression")
           /\ campaigns' = IF req[s].arg \in Campaign /\ campaigns[req[s].arg].live
                           THEN [campaigns EXCEPT ![req[s].arg].shown = @ + 1]
                           ELSE campaigns
           /\ GoOn(s)
           /\ UNCHANGED <<users, sessions, views, claims>>
        \/ /\ At(s, "claim")
           /\ claims' = [claims EXCEPT ![w].view = @ + 1]
           /\ GoOn(s)
           /\ UNCHANGED <<users, sessions, views, campaigns>>
        \/ /\ At(s, "total")
           /\ users' = [users EXCEPT ![w].earned = @ + 1]
           /\ GoOn(s)
           /\ UNCHANGED <<sessions, views, claims, campaigns>>
     /\ UNCHANGED <<people, digests, answers, second, served, swallowed>>

(* handleClaimReferral: two checks, then three writes. *)
ClaimReferral(s) ==
  LET w == req[s].who
      r == req[s].arg
  IN /\ \/ /\ At(s, "referrer")
           /\ IF users[w].referrer # Null THEN Done(s) ELSE GoOn(s)
           /\ UNCHANGED <<users, claims>>
        \/ /\ At(s, "code")
           /\ IF users[r].known THEN GoOn(s) ELSE Done(s)
           /\ UNCHANGED <<users, claims>>
        \/ /\ At(s, "set")
           /\ users' = IF users[w].known THEN [users EXCEPT ![w].referrer = r] ELSE users
           /\ GoOn(s)
           /\ UNCHANGED claims
        \/ /\ At(s, "reward")
           /\ users' = [users EXCEPT ![r].reward = @ + 1]
           /\ GoOn(s)
           /\ UNCHANGED claims
        \/ /\ At(s, "credit")
           /\ claims' = [claims EXCEPT ![r].referral = @ + 1]
           /\ GoOn(s)
           /\ UNCHANGED users
     /\ UNCHANGED <<sessions, views, campaigns, people, digests, answers, second, served, swallowed>>

(* An e-mail is on the list once; it keeps the time it was first put there.*)
Listed(e) == \E x \in rows : x.table = "newsletter" /\ x.email = e

Row(table, e) == [table |-> table, email |-> e, at |-> second]

(* handleCommunityJoin, handleCommunityActivation, handleSubscribe,        *)
(* handleHireLead; the mail to the owner at once may fail unnoticed.       *)
Community(s) ==
  LET e == req[s].who
      a == req[s].arg
  IN /\ \/ /\ At(s, "member")
           /\ members' = [members EXCEPT ![e].joined = TRUE]
           /\ GoOn(s)
           /\ UNCHANGED <<actions, rows>>
        \/ /\ At(s, "subscriber")
           /\ rows' = IF Listed(e) THEN rows ELSE rows \cup {Row("newsletter", e)}
           /\ GoOn(s)
           /\ UNCHANGED <<members, actions>>
        \/ /\ At(s, "lead")
           /\ rows' = rows \cup {Row("lead", e)}
           /\ GoOn(s)
           /\ UNCHANGED <<members, actions>>
        \/ /\ At(s, "joined")
           /\ IF members[e].joined
              THEN Proceed(s, [req[s] EXCEPT !.seen = IF members[e].activated THEN 1 ELSE 0])
              ELSE Done(s)
           /\ UNCHANGED <<members, actions, rows>>
        \/ /\ At(s, "action")
           /\ actions' = actions \cup {<<e, a>>}
           /\ IF req[s].seen = 1 THEN Done(s) ELSE GoOn(s)
           /\ UNCHANGED <<members, rows>>
        \/ /\ At(s, "activate")
           /\ members' = [members EXCEPT ![e].activated = TRUE, ![e].first = a]
           /\ GoOn(s)
           /\ UNCHANGED <<actions, rows>>
     /\ UNCHANGED <<rewards, funds, weeks, digests, answers, second, served, swallowed>>

(* sendDailyDigest: the time is read with the state, before the tables.   *)
Later(table, since) == {x \in rows : x.table = table /\ x.at > since}

Digest(s) ==
  /\ \/ /\ At(s, "state")
        /\ Proceed(s, [req[s] EXCEPT !.seen = second, !.since = lastSent])
        /\ UNCHANGED <<lastSent, mailed, sentAt>>
     \/ /\ At(s, "news")
        /\ Proceed(s, [req[s] EXCEPT !.found = Later("newsletter", req[s].since)])
        /\ UNCHANGED <<lastSent, mailed, sentAt>>
     \/ /\ At(s, "leads")
        /\ Proceed(s, [req[s] EXCEPT !.found = @ \cup Later("lead", req[s].since)])
        /\ UNCHANGED <<lastSent, mailed, sentAt>>
     \/ /\ At(s, "mail")
        /\ mailed' = IF MailBound THEN mailed \cup req[s].found ELSE mailed
        /\ GoOn(s)
        /\ UNCHANGED <<lastSent, sentAt>>
     \/ /\ At(s, "sent")
        /\ lastSent' = req[s].seen
        /\ sentAt' = sentAt \cup {req[s].seen}
        /\ GoOn(s)
        /\ UNCHANGED mailed
  /\ UNCHANGED <<rewards, people, answers, second, served, swallowed>>

(* handleFundingRecord and handleWeeklyMetrics (one row per week), owner    *)
(* only; handleCreateCampaign, whose row has an id of its own.             *)
Record(s) ==
  LET x == req[s].arg
  IN /\ \/ /\ At(s, "funding")
           /\ funds' = [funds EXCEPT ![x] = @ + 1]
           /\ UNCHANGED <<weeks, campaigns>>
        \/ /\ At(s, "metrics")
           /\ weeks' = [weeks EXCEPT ![x] = TRUE]
           /\ UNCHANGED <<funds, campaigns>>
        \/ /\ At(s, "campaign") /\ ~campaigns[x].live
           /\ campaigns' = [campaigns EXCEPT ![x] = [live |-> TRUE, shown |-> 0]]
           /\ UNCHANGED <<funds, weeks>>
     /\ GoOn(s)
     /\ UNCHANGED <<users, sessions, views, claims, members, actions, rows, digests, answers,
                    second, served, swallowed>>

(* A report keeps what its queries return until it answers. *)
Reads(s, values) ==
  /\ Proceed(s, [req[s] EXCEPT !.read = @ \o values])
  /\ UNCHANGED answers

Answers(s, values) ==
  /\ answers' = [answers EXCEPT ![req[s].kind] = req[s].read \o values]
  /\ GoOn(s)

(* handleCommunityScoreboard: four queries, one after the other; the week  *)
(* is the last one that has metrics.                                       *)
LatestWeek == Max({0} \cup {w \in Week : weeks[w]})

Scoreboard(s) ==
  \/ At(s, "totals") /\ Reads(s, <<Cardinality({e \in Email : members[e].joined}),
                                  Cardinality({e \in Email : members[e].activated})>>)
  \/ At(s, "contributions") /\ Reads(s, <<Cardinality(actions)>>)
  \/ At(s, "raised") /\ Reads(s, <<funds["received"], funds["committed"]>>)
  \/ At(s, "week") /\ Answers(s, <<LatestWeek>>)

(* handlePendingRewards: the sum of each wallet's claims, then the sum of  *)
(* all.  handleDispense previews the same sums and pays nothing.           *)
(* handleGetUser joins a user with its claims.  A referral pays half of    *)
(* what a view does: amounts count halves.                                 *)
Owed(w) == 2 * claims[w].view + claims[w].referral
AllOwed == SumFunction([w \in Wallet |-> Owed(w)])

PendingRewards(s) ==
  \/ At(s, "recipients") /\ Reads(s, <<AllOwed>>)
  \/ At(s, "summary") /\ Answers(s, <<AllOwed>>)

Dispense(s) ==
  At(s, "preview") /\ Answers(s, <<SumFunction([w \in {v \in Wallet : Owed(v) > 0} |-> Owed(w)])>>)

GetUser(s) ==
  LET w == req[s].who IN
  /\ At(s, "account")
  /\ IF users[w].known THEN Answers(s, <<2 * users[w].earned, Owed(w)>>)
     ELSE Done(s) /\ UNCHANGED answers

(* handleGetCampaigns: the active campaigns and their impressions. *)
GetCampaigns(s) ==
  At(s, "list") /\ Answers(s, <<SumFunction([c \in {d \in Campaign : campaigns[d].live} |-> campaigns[c].shown])>>)

Inform(s) ==
  /\ Scoreboard(s) \/ PendingRewards(s) \/ Dispense(s) \/ GetUser(s) \/ GetCampaigns(s)
  /\ UNCHANGED <<db, second, served, swallowed>>

(* The database cannot be reached or does not say 2xx, or a mail fails:    *)
(* the request ends with what it has written.                              *)
FailRequest(s) ==
  /\ req[s] # IdleSlot
  /\ Done(s)
  /\ UNCHANGED <<db, answers, second, served, swallowed>>

(* A statement that can do nothing: no row to update, no session to name.  *)
Futile(s) ==
  \/ At(s, "count") /\ ~users[req[s].who].known
  \/ At(s, "view") /\ req[s].seen = 0

(* What a handler makes of a query that gives no rows: an id, a code or a  *)
(* member that is not found ends the request, a digest starts from the     *)
(* beginning, a report says zero; after a write nothing is looked at.      *)
Disregard(s, query) ==
  \/ /\ \/ query \in {"id", "code", "joined", "account"} /\ Done(s)
        \/ query = "action" /\ IF req[s].seen = 1 THEN Done(s) ELSE GoOn(s)
        \/ query = "state" /\ Proceed(s, [req[s] EXCEPT !.seen = second, !.since = 0])
        \/ query \in {"user", "count", "active", "session", "created", "view", "impression", "claim",
                      "total", "referrer", "set", "reward", "credit", "member", "subscriber",
                      "lead", "activate", "funding", "metrics", "campaign", "news", "leads", "sent"}
           /\ GoOn(s)
     /\ UNCHANGED answers
  \/ query \in {"totals", "raised"} /\ Reads(s, <<0, 0>>)
  \/ query \in {"contributions", "recipients"} /\ Reads(s, <<0>>)
  \/ query \in {"week", "summary", "preview", "list"} /\ Answers(s, <<0>>)

(* tursoQuery returns null for a statement that failed in a reply that     *)
(* says 200: nothing is written and the handler goes on.                   *)
Swallow(s) ==
  /\ req[s].kind # Null
  /\ Futile(s) \/ errors < MaxErrors
  /\ errors' = IF Futile(s) THEN errors ELSE errors + 1
  /\ LET query == Queries(req[s].kind)[req[s].step]
         payee == IF query = "reward" THEN req[s].arg ELSE req[s].who
     IN /\ Disregard(s, query)
        /\ lost' = IF query \in MoneyWrite THEN [lost EXCEPT ![payee][query] = @ + 1] ELSE lost
        /\ dropped' = IF query = "action" THEN dropped \cup {<<req[s].who, req[s].arg>>}
                      ELSE dropped
        /\ missed' = IF query = "news" THEN missed \cup Later("newsletter", req[s].since)
                     ELSE IF query = "leads" THEN missed \cup Later("lead", req[s].since)
                     ELSE missed
  /\ UNCHANGED <<db, second, served>>

SecondPasses ==
  /\ second < MaxSecond
  /\ second' = second + 1
  /\ UNCHANGED <<db, answers, req, served, swallowed>>

SiteNext ==
  \/ \E s \in Slot : \/ Receive(s) \/ AdView(s) \/ ClaimReferral(s)
                     \/ Community(s) \/ Digest(s) \/ Record(s)
                     \/ Inform(s) \/ FailRequest(s) \/ Swallow(s)
  \/ SecondPasses

SiteSpec == SiteInit /\ [][SiteNext]_siteVars
------------------------------------------------------------------------------
\* The views that the sessions of a wallet count.
Ads(w) ==
  SumFunction([i \in {j \in DOMAIN sessions : sessions[j].wallet = w} |-> sessions[i].ads])

(* Wherever requests interleave and fail, the books lean one way, but for   *)
(* the writes that handlers went on without: no wallet is credited with    *)
(* more than it has claims for, nor claims more than it has views, nor     *)
(* views more than its sessions count (worker.js:260, 219).                *)
BooksLean == \A w \in Wallet :
  /\ users[w].earned <= claims[w].view + lost[w]["claim"]
  /\ claims[w].view <= views[w] + lost[w]["view"]
  /\ views[w] <= Ads(w) + lost[w]["session"]
  /\ Ads(w) <= users[w].count + lost[w]["count"]
  /\ claims[w].referral <= users[w].reward + lost[w]["reward"]

(* An activated member has joined, and its first action is on record, or   *)
(* was dropped by the handler that activated it (worker.js:472).           *)
ActivatedActed == \A e \in Email :
  members[e].activated => members[e].joined /\ <<e, members[e].first>> \in actions \cup dropped

(* A signup older than the last digest has been mailed, unless a digest    *)
(* took its time in the very second of the signup or could not read the    *)
(* signup's table and went on, also when a scheduled and a manual digest   *)
(* overlap or one of them fails (worker.js:662).                           *)
DigestCovers == \A x \in rows :
  (x.at < lastSent /\ x.at \notin sentAt) => x \in mailed \cup missed

(* Writes of a kind that handlers went on without.                         *)
Lost(query) == SumFunction([w \in Wallet |-> lost[w][query]])

(* What is shown is never ahead of what it is made of, although reports    *)
(* are several queries apart, but for the writes handlers went on without: *)
(* no campaign is shown more often than ads were viewed (worker.js:302),   *)
(* the scoreboard never counts more activated members than joined ones, or *)
(* than contributions if it counts any (worker.js:503), the summary of     *)
(* pending rewards, if there is one, is at least what the recipients above *)
(* it add up to and at most what is owed (worker.js:634), and no wallet is *)
(* told of rewards it has no claim for (worker.js:323).                    *)
ReportsLag ==
  LET Told(kind) == answers[kind] # <<>>
      Said(kind, i) == answers[kind][i]
  IN /\ Told("campaigns") =>
          Said("campaigns", 1) <= SumFunction(views) + Lost("view")
     /\ Told("scoreboard") =>
          /\ Said("scoreboard", 2) <= Said("scoreboard", 1)
          /\ Said("scoreboard", 3) > 0 =>
               Said("scoreboard", 2) <= Said("scoreboard", 3) + Cardinality(dropped)
     /\ Told("pending") => /\ Said("pending", 2) > 0 => Said("pending", 1) <= Said("pending", 2)
                           /\ Said("pending", 2) <= AllOwed
     /\ Told("dispense") => Said("dispense", 1) <= AllOwed
     /\ Told("user") => Said("user", 1) <= Said("user", 2) + 2 * Lost("claim")

WorkerInv == ReportsLag /\ BooksLean /\ ActivatedActed /\ DigestCovers
==============================================================================
