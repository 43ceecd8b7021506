------------------------------- MODULE Sender -------------------------------
(***************************************************************************)
(* The delivery engine of apps/worker/src/sender.ts: worker processes that *)
(* share one SQLite file run send cycles over the deliveries table while   *)
(* the web panel cancels and retries campaigns and pauses domains.         *)
(*                                                                         *)
(* One SQL statement (or one transaction) is one atomic step, because      *)
(* better-sqlite3 is synchronous and SQLite serialises writers; between    *)
(* two statements of a cycle every other process may run.  Two merges: the *)
(* reads deliverOneInner makes about a row (its subscriber and settings)   *)
(* are one step with the row's guarded write, and the counts behind a      *)
(* verdict are one step, as is the reaper's verdict with its counts.       *)
(*                                                                         *)
(* Definitions with an underscore, such as IsStale_AnyAge, are mutants: a   *)
(* plausible bug of the definition they precede, used to show that the      *)
(* properties notice it.                                                    *)
(*                                                                         *)
(* A tick of the clock is a quarter of an hour: the longest cycle the      *)
(* concurrency clamp allows.  STALE_CLAIM_MS is two ticks; the five        *)
(* minutes of the reaper and the retry backoff fit into one.               *)
(***************************************************************************)
EXTENDS Integers, FiniteSets

CONSTANTS
  Workers,       \* worker processes sharing the database file
  Deliveries,    \* ids of the rows of table deliveries
  Campaigns,     \* push campaigns
  Domains,       \* sites the campaigns belong to
  Subscribers,   \* push subscriptions
  CampaignOf,    \* deliveries.campaign_id
  DomainOf,      \* deliveries.domain_id
  SubscriberOf,  \* deliveries.subscriber_id
  NULL,          \* SQL NULL
  MaxAttempts,   \* MAX_ATTEMPTS
  BatchSize,     \* BATCH_SIZE, the LIMIT of the candidate query
  Concurrency,   \* deliveries in flight at once in one cycle
  StaleClaim,    \* STALE_CLAIM_MS, in ticks of the clock
  Backoff,       \* delay before a retry, in ticks
  MaxCycle,      \* longest send cycle, in ticks
  SharedTokens,  \* may two live cycles have started in the same millisecond?
  MaxClock,      \* bound: last tick explored
  MaxFaults      \* bound: crashes, throwing statements and lost answers

ASSUME SenderAssumption ==
  /\ Deliveries \subseteq Nat
  /\ CampaignOf \in [Deliveries -> Campaigns]
  /\ DomainOf \in [Deliveries -> Domains]
  /\ SubscriberOf \in [Deliveries -> Subscribers]
  /\ NULL \notin Nat /\ NULL \notin Workers
  /\ MaxAttempts \in Nat \ {0}
  /\ BatchSize \in Nat \ {0}
  /\ Concurrency \in Nat \ {0}
  /\ StaleClaim \in Nat \ {0}
  /\ Backoff \in Nat
  /\ MaxCycle \in Nat
  /\ SharedTokens \in BOOLEAN
  /\ MaxClock \in Nat
  /\ MaxFaults \in Nat

VARIABLES
  campaign,           \* campaigns.status
  audience_complete,  \* campaigns.audience_complete
  domain,             \* domains.status
  subscribed,         \* subscribers.unsubscribed_at IS NULL
  status,             \* deliveries.status
  claimed_at,         \* deliveries.claimed_at
  attempts,           \* deliveries.attempts, saturating at MaxAttempts
  next_attempt_at,    \* deliveries.next_attempt_at, 0 for NULL
  phase,              \* the statement each worker's cycle executes next
  now,                \* the cycle's `now`, which is also its claim token
  terminated,         \* ids read by cancelTerminatedCampaignDeliveries
  candidates,         \* candidateIds
  task,               \* what became of each row of the batch
  halted,             \* campaigns whose cached status forbids sending
  paused,             \* domains whose cached status is not active
  toFinalize,         \* campaign ids finalizeCampaigns still has to visit
  verdict,            \* status decided by its counts and not yet written
  clock,              \* Date.now()
  faults,             \* faults injected so far
  accepted,           \* observer: times the push service took the message
  lost                \* observer: acceptances never recorded as `sent`

rows     == <<status, claimed_at, attempts, next_attempt_at>>
settings == <<campaign, audience_complete, domain>>
cycle    == <<phase, now, terminated, candidates, task, halted, paused,
              toFinalize, verdict>>
observer == <<accepted, lost>>
vars     == <<rows, settings, subscribed, cycle, clock, faults, observer>>

-----------------------------------------------------------------------------
DeliveryStatus == {"queued", "sending", "sent", "failed", "unsubscribed", "cancelled"}
CampaignStatus == {"sending", "done", "failed", "cancelled"}
DomainStatus   == {"active", "paused"}
Phase == {"idle", "revived", "terminating", "selecting", "claiming",
          "loading", "loadingDomains", "pool", "finalizing"}
\* todo: claimed, not started; pushing: provider.send awaited; accepted: the
\* push service took the message, the answer is not processed yet.
Task    == {"none", "todo", "pushing", "accepted", "finished"}
InPlay  == {"todo", "pushing", "accepted"}
Pending == {"queued", "sending"}
Halting_NoCancelled == {"failed"}
Halting == {"cancelled", "failed"}

RowsOf(c)  == {d \in Deliveries : CampaignOf[d] = c}
Drained(c) == \A d \in RowsOf(c) : status[d] \notin Pending
Live(w)    == phase[w] # "idle"
Owned(w, d) == claimed_at[d] = now[w]
Batch(w)    == {d \in Deliveries : task[w][d] # "none"}
InFlight(w) == {d \in Deliveries : task[w][d] \in {"pushing", "accepted"}}

TypeOK ==
  /\ campaign \in [Campaigns -> CampaignStatus]
  /\ audience_complete \in [Campaigns -> BOOLEAN]
  /\ domain \in [Domains -> DomainStatus]
  /\ subscribed \in [Subscribers -> BOOLEAN]
  /\ status \in [Deliveries -> DeliveryStatus]
  /\ claimed_at \in [Deliveries -> Nat \cup {NULL}]
  /\ attempts \in [Deliveries -> 0..MaxAttempts]
  /\ next_attempt_at \in [Deliveries -> Nat]
  /\ phase \in [Workers -> Phase]
  /\ now \in [Workers -> Nat]
  /\ terminated \in [Workers -> SUBSET Campaigns]
  /\ candidates \in [Workers -> SUBSET Deliveries]
  /\ task \in [Workers -> [Deliveries -> Task]]
  /\ halted \in [Workers -> SUBSET Campaigns]
  /\ paused \in [Workers -> SUBSET Domains]
  /\ toFinalize \in [Workers -> SUBSET Campaigns]
  /\ verdict \in [Workers -> {NULL} \cup (Campaigns \X {"done", "failed"})]
  /\ clock \in Nat
  /\ faults \in Nat
  /\ accepted \in [Deliveries -> Nat]
  /\ lost \in [Deliveries -> Nat]

\* Campaigns the scheduler has started: rows inserted, fan-out perhaps not
\* yet marked complete.
Init ==
  /\ campaign = [c \in Campaigns |-> "sending"]
  /\ audience_complete \in [Campaigns -> BOOLEAN]
  /\ domain = [g \in Domains |-> "active"]
  /\ subscribed = [s \in Subscribers |-> TRUE]
  /\ status = [d \in Deliveries |-> "queued"]
  /\ claimed_at = [d \in Deliveries |-> NULL]
  /\ attempts = [d \in Deliveries |-> 0]
  /\ next_attempt_at = [d \in Deliveries |-> 0]
  /\ phase = [w \in Workers |-> "idle"]
  /\ now = [w \in Workers |-> 0]
  /\ terminated = [w \in Workers |-> {}]
  /\ candidates = [w \in Workers |-> {}]
  /\ task = [w \in Workers |-> [d \in Deliveries |-> "none"]]
  /\ halted = [w \in Workers |-> {}]
  /\ paused = [w \in Workers |-> {}]
  /\ toFinalize = [w \in Workers |-> {}]
  /\ verdict = [w \in Workers |-> NULL]
  /\ clock = 0
  /\ faults = 0
  /\ accepted = [d \in Deliveries |-> 0]
  /\ lost = [d \in Deliveries |-> 0]

-----------------------------------------------------------------------------
(* The head of a cycle: revive, cancel, select, claim, load.               *)

\* Worker w enters phase p; what the finished phases remembered is dropped.
Enter(w, p) == phase' = [phase EXCEPT ![w] = p]

Forget(w) ==
  /\ phase' = [phase EXCEPT ![w] = "idle"]
  /\ now' = [now EXCEPT ![w] = 0]
  /\ terminated' = [terminated EXCEPT ![w] = {}]
  /\ candidates' = [candidates EXCEPT ![w] = {}]
  /\ task' = [task EXCEPT ![w] = [d \in Deliveries |-> "none"]]
  /\ halted' = [halted EXCEPT ![w] = {}]
  /\ paused' = [paused EXCEPT ![w] = {}]
  /\ toFinalize' = [toFinalize EXCEPT ![w] = {}]
  /\ verdict' = [verdict EXCEPT ![w] = NULL]

\* Put the rows of S back: status queued, claim released.
Requeue(S) ==
  /\ status' = [d \in Deliveries |-> IF d \in S THEN "queued" ELSE status[d]]
  /\ claimed_at' = [d \in Deliveries |-> IF d \in S THEN NULL ELSE claimed_at[d]]

IsStale(d, t) ==
  /\ status[d] = "sending"
  /\ claimed_at[d] = NULL \/ claimed_at[d] <= t - StaleClaim

\* The tick reads the clock and requeueStaleClaims revives dead claims.
BeginCycle(w) ==
  /\ phase[w] = "idle"
  /\ SharedTokens \/ \A v \in Workers : Live(v) => now[v] # clock
  /\ now' = [now EXCEPT ![w] = clock]
  /\ Requeue({d \in Deliveries : IsStale(d, clock)})
  /\ Enter(w, "revived")
  /\ UNCHANGED <<attempts, next_attempt_at, settings, subscribed, terminated, candidates,
                 task, halted, paused, toFinalize, verdict, clock, faults, observer>>

\* First statement of cancelTerminatedCampaignDeliveries: which campaigns?
ReadTerminated(w) ==
  /\ phase[w] = "revived"
  /\ terminated' = [terminated EXCEPT ![w] =
       {c \in Campaigns : campaign[c] \in Halting /\ ~Drained(c)}]
  /\ Enter(w, "terminating")
  /\ UNCHANGED <<rows, settings, subscribed, now, candidates, task, halted, paused,
                 toFinalize, verdict, clock, faults, observer>>

\* Its second statement: their pending rows become cancelled.  The claim
\* (claimed_at) stays, so a push already in flight still owns its row.
CancelTerminated(w) ==
  /\ phase[w] = "terminating"
  /\ status' = [d \in Deliveries |->
       IF CampaignOf[d] \in terminated[w] /\ status[d] \in Pending
         THEN "cancelled" ELSE status[d]]
  /\ terminated' = [terminated EXCEPT ![w] = {}]
  /\ Enter(w, "selecting")
  /\ UNCHANGED <<claimed_at, attempts, next_attempt_at, settings, subscribed, now,
                 candidates, task, halted, paused, toFinalize, verdict, clock, faults,
                 observer>>

\* Which rows may be claimed: due, site active, campaign started.
Eligible_NeverNull(d, t) ==
  /\ status[d] = "queued"
  /\ next_attempt_at[d] > 0 /\ next_attempt_at[d] <= t
  /\ domain[DomainOf[d]] = "active"
  /\ campaign[CampaignOf[d]] = "sending"
Eligible(d, t) ==
  /\ status[d] = "queued"
  /\ next_attempt_at[d] <= t
  /\ domain[DomainOf[d]] = "active"
  /\ campaign[CampaignOf[d]] = "sending"

\* The candidate query: the BatchSize eligible rows of lowest id.
SelectCandidates(w) ==
  /\ phase[w] = "selecting"
  /\ LET found == {d \in Deliveries : Eligible(d, now[w])}
         first == {d \in found : Cardinality({e \in found : e < d}) < BatchSize}
     IN  IF found = {}
           THEN Forget(w)
           ELSE /\ candidates' = [candidates EXCEPT ![w] = first]
                /\ Enter(w, "claiming")
                /\ UNCHANGED <<now, terminated, task, halted, paused, toFinalize, verdict>>
  /\ UNCHANGED <<rows, settings, subscribed, clock, faults, observer>>

\* UPDATE ... WHERE status = 'queued' RETURNING: the rows this cycle won.
Won_NoRecheck(w) == candidates[w]
Won(w) == {d \in candidates[w] : status[d] = "queued"}

Claim(w) ==
  /\ phase[w] = "claiming"
  /\ status' = [d \in Deliveries |-> IF d \in Won(w) THEN "sending" ELSE status[d]]
  /\ claimed_at' = [d \in Deliveries |-> IF d \in Won(w) THEN now[w] ELSE claimed_at[d]]
  /\ attempts' = [d \in Deliveries |->
       IF d \in Won(w) /\ attempts[d] < MaxAttempts THEN attempts[d] + 1 ELSE attempts[d]]
  /\ IF Won(w) = {}
       THEN Forget(w)
       ELSE /\ task' = [task EXCEPT ![w] =
                 [d \in Deliveries |-> IF d \in Won(w) THEN "todo" ELSE "none"]]
            /\ candidates' = [candidates EXCEPT ![w] = {}]
            /\ Enter(w, "loading")
            /\ UNCHANGED <<now, terminated, halted, paused, toFinalize, verdict>>
  /\ UNCHANGED <<next_attempt_at, settings, subscribed, clock, faults, observer>>

\* campaignCache, then domainStatusCache: read once per cycle, never again.
LoadCampaigns(w) ==
  /\ phase[w] = "loading"
  /\ halted' = [halted EXCEPT ![w] =
       {c \in Campaigns : campaign[c] \in Halting /\ \E d \in Batch(w) : CampaignOf[d] = c}]
  /\ Enter(w, "loadingDomains")
  /\ UNCHANGED <<rows, settings, subscribed, now, terminated, candidates, task, paused,
                 toFinalize, verdict, clock, faults, observer>>

LoadDomains(w) ==
  /\ phase[w] = "loadingDomains"
  /\ paused' = [paused EXCEPT ![w] =
       {g \in Domains : domain[g] # "active" /\ \E d \in Batch(w) : DomainOf[d] = g}]
  /\ Enter(w, "pool")
  /\ UNCHANGED <<rows, settings, subscribed, now, terminated, candidates, task, halted,
                 toFinalize, verdict, clock, faults, observer>>

-----------------------------------------------------------------------------
(* The pool: deliverOne for each row, Concurrency of them in flight.       *)

Finish(w, d) == task' = [task EXCEPT ![w][d] = "finished"]

\* A terminal write `SET status = s WHERE id = d AND claimed_at = now`.
Settle_Unowned(w, d, s) ==
  /\ status' = [status EXCEPT ![d] = s]
  /\ UNCHANGED <<claimed_at, attempts, next_attempt_at>>
Settle(w, d, s) ==
  /\ status' = [status EXCEPT ![d] = IF Owned(w, d) THEN s ELSE @]
  /\ UNCHANGED <<claimed_at, attempts, next_attempt_at>>

\* A row whose turn has come and for which the pool has a slot.
Turn(w, d) ==
  /\ phase[w] = "pool"
  /\ task[w][d] = "todo"
  /\ Cardinality(InFlight(w)) < Concurrency

Deliverable(w, d) ==
  /\ subscribed[SubscriberOf[d]]
  /\ CampaignOf[d] \notin halted[w]

\* Fails before any push: subscriber gone, unusable VAPID config or token,
\* fatigue cap reached (the last three are data, hence possible for any row
\* that gets as far).
FailUnsent(w, d) ==
  /\ Turn(w, d)
  /\ Settle(w, d, "failed")
  /\ Finish(w, d)
  /\ UNCHANGED <<settings, subscribed, phase, now, terminated, candidates, halted, paused,
                 toFinalize, verdict, clock, faults, observer>>

\* The cached campaign status forbids sending: the row is cancelled.
CancelUnsent(w, d) ==
  /\ Turn(w, d)
  /\ subscribed[SubscriberOf[d]]
  /\ CampaignOf[d] \in halted[w]
  /\ Settle(w, d, "cancelled")
  /\ Finish(w, d)
  /\ UNCHANGED <<settings, subscribed, phase, now, terminated, candidates, halted, paused,
                 toFinalize, verdict, clock, faults, observer>>

\* The cached domain status is not active: the row is parked as queued.
ParkUnsent(w, d) ==
  /\ Turn(w, d)
  /\ Deliverable(w, d)
  /\ DomainOf[d] \in paused[w]
  /\ Requeue({e \in {d} : Owned(w, e)})
  /\ Finish(w, d)
  /\ UNCHANGED <<attempts, next_attempt_at, settings, subscribed, phase, now, terminated,
                 candidates, halted, paused, toFinalize, verdict, clock, faults, observer>>

\* Every check passed: the message goes out and provider.send is awaited.
Push(w, d) ==
  /\ Turn(w, d)
  /\ Deliverable(w, d)
  /\ DomainOf[d] \notin paused[w]
  /\ task' = [task EXCEPT ![w][d] = "pushing"]
  /\ UNCHANGED <<rows, settings, subscribed, phase, now, terminated, candidates, halted,
                 paused, toFinalize, verdict, clock, faults, observer>>

\* The push service takes the message; the worker does not know it yet.
ProviderAccepts(w, d) ==
  /\ task[w][d] = "pushing"
  /\ task' = [task EXCEPT ![w][d] = "accepted"]
  /\ accepted' = [accepted EXCEPT ![d] = @ + 1]
  /\ UNCHANGED <<rows, settings, subscribed, phase, now, terminated, candidates, halted,
                 paused, toFinalize, verdict, clock, faults, lost>>

Lose(S) == lost' = [d \in Deliveries |-> IF d \in S THEN lost[d] + 1 ELSE lost[d]]

\* result.ok: persist `sent`, if the claim is still this cycle's.
SettleSent(w, d) ==
  /\ task[w][d] = "accepted"
  /\ Settle(w, d, "sent")
  /\ Lose({e \in {d} : ~Owned(w, e)})
  /\ Finish(w, d)
  /\ UNCHANGED <<settings, subscribed, phase, now, terminated, candidates, halted, paused,
                 toFinalize, verdict, clock, faults, accepted>>

\* 410, or 404 from a Google endpoint: the token is dead.  The subscriber is
\* unsubscribed only when the row was still this cycle's; that second
\* statement may throw after the first committed.
SettleGone(w, d) ==
  /\ task[w][d] = "pushing"
  /\ Settle(w, d, "unsubscribed")
  /\ \/ /\ Owned(w, d)
        /\ subscribed' = [subscribed EXCEPT ![SubscriberOf[d]] = FALSE]
        /\ UNCHANGED faults
     \/ ~Owned(w, d) /\ UNCHANGED <<subscribed, faults>>
     \/ Owned(w, d) /\ faults < MaxFaults /\ faults' = faults + 1 /\ UNCHANGED subscribed
  /\ Finish(w, d)
  /\ UNCHANGED <<settings, phase, now, terminated, candidates, halted, paused, toFinalize,
                 verdict, clock, observer>>

\* Permanent rejection (400, 401, 403, 404, 413), or send() threw.
SettleRejected(w, d) ==
  /\ task[w][d] = "pushing"
  /\ Settle(w, d, "failed")
  /\ Finish(w, d)
  /\ UNCHANGED <<settings, subscribed, phase, now, terminated, candidates, halted, paused,
                 toFinalize, verdict, clock, faults, observer>>

\* Bound: an instant past the last explored tick is taken for that tick.
WithinBound(t) == IF t <= MaxClock THEN t ELSE MaxClock

\* Any other answer: failed once the attempts are used up, else queued again
\* with a backoff.
RetryOrFail(w, d) ==
  IF attempts[d] >= MaxAttempts
    THEN Settle(w, d, "failed")
    ELSE /\ Requeue({e \in {d} : Owned(w, e)})
         /\ next_attempt_at' = [next_attempt_at EXCEPT ![d] =
              IF Owned(w, d) THEN WithinBound(now[w] + Backoff) ELSE @]
         /\ UNCHANGED attempts

SettleRetry(w, d) ==
  /\ task[w][d] = "pushing"
  /\ RetryOrFail(w, d)
  /\ Finish(w, d)
  /\ UNCHANGED <<settings, subscribed, phase, now, terminated, candidates, halted, paused,
                 toFinalize, verdict, clock, faults, observer>>

-----------------------------------------------------------------------------
(* Faults.  One that can leave a row `sending` comes early enough for the  *)
(* stale window to pass before MaxClock.                                   *)

CanFault == faults < MaxFaults /\ clock + StaleClaim <= MaxClock

\* The message was accepted but the answer timed out: handled as a retry.
AnswerLost(w, d) ==
  /\ task[w][d] = "accepted"
  /\ CanFault
  /\ faults' = faults + 1
  /\ RetryOrFail(w, d)
  /\ Lose({d})
  /\ Finish(w, d)
  /\ UNCHANGED <<settings, subscribed, phase, now, terminated, candidates, halted, paused,
                 toFinalize, verdict, clock, accepted>>

\* What requeueClaimedRows releases: rows still `sending` under this token.
Releasable_AnyStatus(w, S) == {d \in S : Owned(w, d)}
Releasable(w, S) == {d \in S : status[d] = "sending" /\ Owned(w, d)}

\* A statement of deliverOneInner throws; the wrapper releases the row, or
\* throws too and leaves it to the stale-claim reviver.
DeliveryThrows(w, d) ==
  /\ phase[w] = "pool"
  /\ task[w][d] \in InPlay
  /\ CanFault
  /\ faults' = faults + 1
  /\ \/ Requeue(Releasable(w, {d}))
     \/ UNCHANGED <<status, claimed_at>>
  /\ Lose({e \in {d} : task[w][e] = "accepted"})
  /\ Finish(w, d)
  /\ UNCHANGED <<attempts, next_attempt_at, settings, subscribed, phase, now, terminated,
                 candidates, halted, paused, toFinalize, verdict, clock, accepted>>

\* A read of runClaimedBatch or of finalizeCampaigns throws: the cycle ends
\* and its whole batch is released (or that throws as well).
BatchThrows(w) ==
  /\ phase[w] \in {"loading", "loadingDomains", "finalizing"}
  /\ CanFault
  /\ faults' = faults + 1
  /\ \/ Requeue(Releasable(w, Batch(w)))
     \/ UNCHANGED <<status, claimed_at>>
  /\ Forget(w)
  /\ UNCHANGED <<attempts, next_attempt_at, settings, subscribed, clock, observer>>

\* The worker process dies, or a statement before the claim throws.
Crash(w) ==
  /\ Live(w)
  /\ CanFault
  /\ faults' = faults + 1
  /\ Lose({d \in Deliveries : task[w][d] = "accepted"})
  /\ Forget(w)
  /\ UNCHANGED <<rows, settings, subscribed, clock, accepted>>

-----------------------------------------------------------------------------
(* The tail of a cycle: finalizeCampaigns over the campaigns of the batch. *)

\* Promise.all: every delivery of the batch has returned.
PoolDone_NotAwaited(w) == \A d \in Deliveries : task[w][d] # "todo"
PoolDone(w) == \A d \in Deliveries : task[w][d] \notin InPlay

FinishPool(w) ==
  /\ phase[w] = "pool"
  /\ PoolDone(w)
  /\ toFinalize' = [toFinalize EXCEPT ![w] = {CampaignOf[d] : d \in Batch(w)}]
  /\ Enter(w, "finalizing")
  /\ UNCHANGED <<rows, settings, subscribed, now, terminated, candidates, task, halted,
                 paused, verdict, clock, faults, observer>>

AnySent(c) == \E d \in RowsOf(c) : status[d] \in {"sent", "unsubscribed"}

\* May the campaign be given a verdict?
Countable(c) == audience_complete[c] /\ Drained(c)

\* The counts: an incomplete fan-out or a pending row defers the campaign.
CountOutcomes(w, c) ==
  /\ phase[w] = "finalizing"
  /\ verdict[w] = NULL
  /\ c \in toFinalize[w]
  /\ IF Countable(c)
       THEN /\ verdict' = [verdict EXCEPT ![w] = <<c, IF AnySent(c) THEN "done" ELSE "failed">>]
            /\ UNCHANGED toFinalize
       ELSE /\ toFinalize' = [toFinalize EXCEPT ![w] = @ \ {c}]
            /\ UNCHANGED verdict
  /\ UNCHANGED <<rows, settings, subscribed, phase, now, terminated, candidates, task, halted,
                 paused, clock, faults, observer>>

\* The guarded UPDATE: only a campaign still `sending` takes the verdict.
WriteVerdict(w) ==
  /\ phase[w] = "finalizing"
  /\ verdict[w] # NULL
  /\ campaign' = [campaign EXCEPT ![verdict[w][1]] =
       IF @ = "sending" THEN verdict[w][2] ELSE @]
  /\ toFinalize' = [toFinalize EXCEPT ![w] = @ \ {verdict[w][1]}]
  /\ verdict' = [verdict EXCEPT ![w] = NULL]
  /\ UNCHANGED <<rows, audience_complete, domain, subscribed, phase, now, terminated,
                 candidates, task, halted, paused, clock, faults, observer>>

EndCycle(w) ==
  /\ phase[w] = "finalizing"
  /\ verdict[w] = NULL
  /\ toFinalize[w] = {}
  /\ Forget(w)
  /\ UNCHANGED <<rows, settings, subscribed, clock, faults, observer>>

-----------------------------------------------------------------------------
(* The other writers of these tables.                                      *)

\* cancelCampaignAction, one transaction.
CancelCampaign(c) ==
  /\ campaign[c] = "sending"
  /\ campaign' = [campaign EXCEPT ![c] = "cancelled"]
  /\ status' = [d \in Deliveries |->
       IF d \in RowsOf(c) /\ status[d] \in Pending THEN "cancelled" ELSE status[d]]
  /\ UNCHANGED <<claimed_at, attempts, next_attempt_at, audience_complete, domain, subscribed,
                 cycle, clock, faults, observer>>

\* retryFailedDeliveriesAction, one transaction: the rows it takes up again.
FailedRows_OrCancelled(c) == {d \in RowsOf(c) : status[d] \in {"failed", "cancelled"}}
FailedRows(c) == {d \in RowsOf(c) : status[d] = "failed"}

RetryFailed(c) ==
  /\ campaign[c] \in {"done", "failed"}
  /\ FailedRows(c) # {}
  /\ campaign' = [campaign EXCEPT ![c] = "sending"]
  /\ Requeue(FailedRows(c))
  /\ attempts' = [d \in Deliveries |-> IF d \in FailedRows(c) THEN 0 ELSE attempts[d]]
  /\ next_attempt_at' = [d \in Deliveries |-> IF d \in FailedRows(c) THEN 0 ELSE next_attempt_at[d]]
  /\ UNCHANGED <<audience_complete, domain, subscribed, cycle, clock, faults, observer>>

\* setDomainStatusAction: pause or resume.
SetDomainStatus(g, s) ==
  /\ domain[g] # s
  /\ domain' = [domain EXCEPT ![g] = s]
  /\ UNCHANGED <<rows, campaign, audience_complete, subscribed, cycle, clock, faults, observer>>

\* The public unsubscribe route, or the panel's.
Unsubscribe(s) ==
  /\ subscribed[s]
  /\ subscribed' = [subscribed EXCEPT ![s] = FALSE]
  /\ UNCHANGED <<rows, settings, cycle, clock, faults, observer>>

\* The scheduler stage of a worker runs between its send cycles.
BetweenCycles == \E w \in Workers : ~Live(w)

\* startCampaign or the reaper commits the last chunk of the fan-out.
FanoutCompletes(c) ==
  /\ BetweenCycles
  /\ campaign[c] = "sending"
  /\ ~audience_complete[c]
  /\ audience_complete' = [audience_complete EXCEPT ![c] = TRUE]
  /\ UNCHANGED <<rows, campaign, domain, subscribed, cycle, clock, faults, observer>>

\* The fan-out throws.  The catch in runScheduler marks the campaign failed
\* whatever its status; markStuckFailed only a `sending` one, as complete.
FanoutFails(c) ==
  /\ BetweenCycles
  /\ ~audience_complete[c]
  /\ faults < MaxFaults
  /\ faults' = faults + 1
  /\ \/ /\ campaign[c] \in {"sending", "cancelled"}
        /\ UNCHANGED audience_complete
     \/ /\ campaign[c] = "sending"
        /\ audience_complete' = [audience_complete EXCEPT ![c] = TRUE]
  /\ campaign' = [campaign EXCEPT ![c] = "failed"]
  /\ UNCHANGED <<rows, domain, subscribed, cycle, clock, observer>>

\* reapStuckCampaigns: a campaign nothing touched for five minutes, complete
\* and drained but never finalized, because the cycle that settled its last
\* row died, threw or saw the fan-out incomplete.
ReapDrained(c) ==
  /\ BetweenCycles
  /\ campaign[c] = "sending"
  /\ audience_complete[c]
  /\ Drained(c)
  /\ \A d \in RowsOf(c) : domain[DomainOf[d]] = "active"
  /\ campaign' = [campaign EXCEPT ![c] = IF AnySent(c) THEN "done" ELSE "failed"]
  /\ UNCHANGED <<rows, audience_complete, domain, subscribed, cycle, clock, faults, observer>>

\* A live cycle lasts at most MaxCycle: the concurrency clamp and the
\* provider timeout bound it.
Tick ==
  /\ clock < MaxClock
  /\ \A w \in Workers : Live(w) => clock - now[w] < MaxCycle
  /\ clock' = clock + 1
  /\ UNCHANGED <<rows, settings, subscribed, cycle, faults, observer>>

-----------------------------------------------------------------------------
CycleStep(w) ==
  \/ BeginCycle(w) \/ ReadTerminated(w) \/ CancelTerminated(w)
  \/ SelectCandidates(w) \/ Claim(w)
  \/ LoadCampaigns(w) \/ LoadDomains(w)
  \/ \E d \in Deliveries :
       \/ FailUnsent(w, d) \/ CancelUnsent(w, d) \/ ParkUnsent(w, d) \/ Push(w, d)
       \/ ProviderAccepts(w, d) \/ SettleSent(w, d) \/ SettleGone(w, d)
       \/ SettleRejected(w, d) \/ SettleRetry(w, d)
  \/ FinishPool(w) \/ (\E c \in Campaigns : CountOutcomes(w, c))
  \/ WriteVerdict(w) \/ EndCycle(w)

Fault(w) ==
  \/ Crash(w) \/ BatchThrows(w)
  \/ \E d \in Deliveries : AnswerLost(w, d) \/ DeliveryThrows(w, d)

Environment ==
  \/ \E c \in Campaigns : 
       CancelCampaign(c) \/ RetryFailed(c) \/ FanoutCompletes(c) \/ FanoutFails(c) \/ ReapDrained(c)
  \/ \E g \in Domains, s \in DomainStatus : SetDomainStatus(g, s)
  \/ \E s \in Subscribers : Unsubscribe(s)
  \/ Tick

Next == (\E w \in Workers : CycleStep(w) \/ Fault(w)) \/ Environment

Spec == Init /\ [][Next]_vars

\* Each worker's loop keeps running and web-push answers or times out after
\* 30 s.  The scheduler stage precedes every send cycle of a worker's tick, so
\* what it can do again and again it eventually does: strong fairness.
Fairness ==
  /\ \A w \in Workers : WF_vars(CycleStep(w))
  /\ \A c \in Campaigns : SF_vars(FanoutCompletes(c)) /\ SF_vars(ReapDrained(c))
  /\ WF_vars(Tick)

FairSpec == Spec /\ Fairness

-----------------------------------------------------------------------------
(* What the engine promises.                                               *)

\* The assumption the stale window rests on (sender.ts:31-39): a live cycle
\* is shorter than it, and no two live cycles share a claim token.
Timely == MaxCycle < StaleClaim /\ ~SharedTokens

\* While a cycle still has to work on a row, the row carries that cycle's
\* token: nobody revived it, reclaimed it, retried it or released it.  Every
\* write of deliverOneInner relies on this (sender.ts:435-438).
ClaimHeld ==
  \A w \in Workers, d \in Deliveries :
    task[w][d] \in InPlay => Owned(w, d) /\ status[d] \in {"sending", "cancelled"}

\* Two cycles never work on the same row (sender.ts:65-68).
ExclusiveClaim ==
  \A w, v \in Workers, d \in Deliveries :
    task[w][d] \in InPlay /\ task[v][d] \in InPlay => w = v

\* "A delivery is never sent twice" (sender.ts:66), except after a crash, a
\* throwing write or a lost answer swallowed an earlier acceptance.
SentOnce == \A d \in Deliveries : accepted[d] <= 1 + lost[d]

\* Why these hold: a live cycle is young, its token is its own, a row is in
\* play only while its cycle loads or sends, and an acceptance is accounted
\* for by `sent`, by an answer still to be processed, or as lost.
CycleAge == \A w \in Workers : Live(w) => now[w] <= clock /\ clock - now[w] <= MaxCycle

DistinctTokens ==
  \A w, v \in Workers : Live(w) /\ Live(v) /\ now[w] = now[v] => w = v

PlayPhases ==
  \A w \in Workers, d \in Deliveries :
    /\ task[w][d] = "todo" => phase[w] \in {"loading", "loadingDomains", "pool"}
    /\ task[w][d] \in {"pushing", "accepted"} => phase[w] = "pool"

Accounted ==
  \A d \in Deliveries :
    \/ accepted[d] <= lost[d]
    \/ /\ accepted[d] = lost[d] + 1
       /\ status[d] = "sent" \/ \E w \in Workers : task[w][d] = "accepted"

\* The inductive invariant of a Timely engine, the reason for the promises
\* above: every write a cycle makes is to rows it alone still holds.
LeaseInvariant == TypeOK /\ CycleAge /\ DistinctTokens /\ PlayPhases /\ ClaimHeld /\ Accounted

\* A delivered row is final: no reviver, cancellation, retry or late result
\* of another attempt takes `sent` back.
SentIsFinal ==
  [][\A d \in Deliveries : status[d] = "sent" => status'[d] = "sent"]_vars

\* "If another worker revived + reclaimed the row while our send was in
\* flight, our late result must not clobber their state" (sender.ts:436-437),
\* also when a cycle outlives the stale window.
LateResultIgnored ==
  [][\A w, v \in Workers, d \in Deliveries :
       /\ w # v
       /\ task[w][d] \in InPlay /\ Owned(w, d)
       /\ task[v][d] \in InPlay /\ task'[v][d] = "finished"
       => status'[d] = status[d] /\ claimed_at'[d] = claimed_at[d]]_vars

\* A campaign reported `done` has its whole audience behind it: the fan-out
\* was complete and no row is pending, also after retries and late results.
\* With one worker: the counts and the UPDATE are two statements, and a second
\* worker's verdict and an operator's retry fit in between.
DoneIsDrained ==
  \A c \in Campaigns : campaign[c] = "done" => audience_complete[c] /\ Drained(c)

\* The deliveries table implements the lease discipline of DeliveryLease.
StageOf(s) ==
  CASE s = "queued"  -> "open"
    [] s = "sending" -> "taken"
    [] s = "sent"    -> "delivered"
    [] OTHER         -> "closed"

HolderOf(d) ==
  IF \E w \in Workers : task[w][d] \in InPlay
    THEN CHOOSE w \in Workers : task[w][d] \in InPlay
    ELSE NULL

Lease == INSTANCE DeliveryLease WITH
  stage  <- [d \in Deliveries |-> StageOf(status[d])],
  holder <- [d \in Deliveries |-> HolderOf(d)]

LeaseDiscipline == Lease!Spec

\* No claim is stuck: a row left `sending` by a crash, a throw or a failed
\* release leaves that status again (sender.ts:31-37).
ClaimRecovers ==
  \A d \in Deliveries : status[d] = "sending" ~> status[d] # "sending"

\* A started campaign is finalized, unless its site is paused meanwhile
\* ("campaign stays `sending`", sender.ts:92-95).
CampaignSettles ==
  \A c \in Campaigns : campaign[c] = "sending" ~>
    campaign[c] # "sending" \/ \E d \in RowsOf(c) : domain[DomainOf[d]] = "paused"

\* What an operator may rely on after crashes, throws and lost answers: no
\* claim is stuck, every campaign comes to its end, and an end shown as
\* `done` is a true one.
CampaignsSettle == []DoneIsDrained /\ ClaimRecovers /\ CampaignSettles

\* A cancelled campaign runs dry: no row waits, none is in flight ("an
\* operator pausing/cancelling a campaign must stop sends", sender.ts:80-81).
CancelDrains ==
  \A c \in Campaigns : campaign[c] = "cancelled" ~>
    \/ campaign[c] # "cancelled"
    \/ Drained(c) /\ \A w \in Workers, d \in RowsOf(c) : task[w][d] \notin InPlay
=============================================================================
