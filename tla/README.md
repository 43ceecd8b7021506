# PushPanel in TLA+

PushPanel is a self-hosted web-push panel: a Next.js application (**web**) and
a background process (**worker**) share one SQLite file in WAL mode. This
directory holds a TLA+ development of what happens where the two processes,
their operators, visitors' browsers, crashes and the clock meet: how campaigns
become deliveries and are sent, how automations fire, how subscribers come and
go, how the database is snapshotted and restored, and what the panel's requests
do to each other. TLC checks it on small instances; TLAPS proves its central
invariants for every instance.

All paths are relative to the repository root (`src/` here); `sender.ts`,
`scheduler.ts`, `automation.ts`, `journey.ts`, `email.ts`, `backup.ts` and
`cleanup.ts` are those of `apps/worker/src`, `settings/actions.ts` and the like
those of `apps/web/src/app/dashboard`, `index.ts` in a browser context that of
`packages/sdk-client/src`.

- [The system](#the-system)
- [Modules](#modules)
- [Sender: the delivery engine](#sender-the-delivery-engine)
- [Fanout: scheduler, reaper, immediate automations](#fanout-scheduler-reaper-immediate-automations)
- [Automations](#automations)
- [Timers: journeys and e-mail campaigns](#timers-journeys-and-e-mail-campaigns)
- [Subscribers and Browser](#subscribers-and-browser)
- [Backups](#backups)
- [The panel](#the-panel)
- [Runs](#runs)
- [Fairness](#fairness)
- [Proofs](#proofs)
- [Where code and words disagree](#where-code-and-words-disagree)
- [Not modelled](#not-modelled)
- [Plan](#plan)
- [Running it](#running-it)

## The system

Two processes, one database file. `better-sqlite3` is synchronous and SQLite
serialises writers, so one statement, or one `db.transaction`, is atomic; what
lies between two of them is not. A web handler is alone in its process between
two awaits, but the worker's statements come between its statements, and other
requests between its awaits. The worker is single-threaded: its tick
(`apps/worker/src/index.ts:128-174`) runs scheduler, automations, journeys,
email, send, cleanup, backup, retention one after another. `docker-compose.yml:8`
says that exactly one worker may poll the queue; the code nevertheless defends
itself against two (`sender.ts:65-66`, `scheduler.ts:103-106`, `237-239`,
`automation.ts:64-71`), which a rolling restart or a container next to the
embedded worker of `start.sh` produces. Both are modelled: one worker for what
needs it, two where the comments claim safety.

| Component | State | Operations | What is hard | What makes it correct |
|---|---|---|---|---|
| **send engine** `sender.ts` | `deliveries` (status, claimed_at, attempts, next_attempt_at), verdicts | revive stale claims, cancel rows of terminated campaigns, select, claim, push, settle or retry, finalize | two cycles at once, answers after the lease was lost, crash between claim and outcome | a row is worked on by one cycle, sent once unless an answer was lost; `sent` is final; nothing stays `sending` |
| **scheduler, reaper** `scheduler.ts` | `campaigns` (status, audience_complete, updated_at), new delivery rows | pick due, claim, resolve audience, insert in chunks, complete; resume or finalize stuck campaigns | crash between chunks, two workers resuming, cancellation in mid-fan-out, a throw | a complete campaign has a row for everybody it owes one; due campaigns end |
| **automation enqueue** `packages/db/src/services/automation.ts` | a campaign inserted directly as `sending` | campaign row, chunks | crash before or between chunks | its audience is whole, or it ends |
| **campaign and site actions** `campaigns/actions.ts`, `domains/actions.ts` | campaigns, sites | create, cancel, retry, resend; create, clone, pause, delete a site, test push | each meets deliveries, fan-outs and runs in flight | a cancelled campaign runs dry; nothing outlives its site or points into another workspace |
| **automations runner** `automation.ts`, trigger route, `automations/actions.ts` | status, next_run_at, config cursor, failures | claim with a five-minute sentinel, fetch, enqueue, save the cursor, re-arm; trigger, run now, pause, delete | triggers and pauses during a run, crash before the cursor is saved, a source that redirects or dies | nothing is sent twice, nothing due is forgotten, a pause holds, a dead source is given up |
| **journeys, email** `journey.ts`, `email.ts` | same claim pattern; email campaigns | claim, re-arm, back off; reap, claim, resolve, close | catch over a pause, a claim left by a crash | active journeys stay scheduled; a scheduled mail is closed |
| **subscriber routes** `app/api/v1/{subscribe,resubscribe,unsubscribe}`, list actions, cleanup | `subscribers`, `subscribers_count` | join, rotate, leave, clean, import, purge, recount | counter updated apart from the row by two processes; consent guard reading one of several rows | an opt-out stays one; the counter agrees with the rows |
| **browser SDK, service worker** `packages/sdk-client`, `public/sw.js` | page state, storage queue, push subscription | prompt, subscribe, unsubscribe, flush, sync, rotation, click beacon | lost requests and answers, gestures while one is in flight | a pending subscription arrives; who leaves is out in the end |
| **backups, restore** `backup.ts`, `settings/actions.ts`, `packages/db/src/index.ts` | files, `backups` rows, markers, the database file | snapshot, prune, delete; restore: check, swap, remove the log, reopen | crash between any two; connections to the replaced file | the live path leads to a whole database, both processes come to serve it, what is listed exists |
| **accounts** `auth.ts`, `team`, `workspaces`, `profile` | users, secrets, sessions, invites, workspaces | set up, sign in, enrol, confirm, disable, change password, invite, accept, switch | read, await a hash, write | nobody joins uninvited; an enrolled factor is lost only by whoever asks, or to one of two late writers |
| **settings** `settings/actions.ts` | key-value rows, sealed secrets | four forms, a statement per key | a crash in between; blank, cleared or kept | no secret is lost by saving something else |
| **templates, keys, links, channels, segments, campaign API** | rows of a workspace | create, edit, delete, visit, validate, compile to SQL | sites deleted without foreign keys, workspace changed under a request | tenancy; a link leads on; a segment resolves to whom its rules describe |
| **clicks, retention** `click/[deliveryId]`, `cleanup.ts` | events, tallies, old rows | deduplicate, tally; prune in two statements with a marker | a beacon retried while rows are pruned, two retention settings that nothing relates | a click is counted once as long as its event outlives its delivery; rows still to be sent are spared |
| **rate limiter** `lib/rate-limit.ts` | buckets in memory | count, sweep, evict | eviction, windows longer than the sweep's | the limit is kept from both sides, as far as the buckets remember |
| **worker loop** `apps/worker/src/index.ts` | tick | order of stages, reopening, exit | shutdown in mid-cycle | stages do not overlap within a process |
| not modelled | | core library, migrations, read-only routes, tags and tracking, AI and mail requests, pages, packaging | see [Not modelled](#not-modelled) | |

Most components meet in the database only. The exceptions: the worker learns of
a restore by a marker file, browsers and routes exchange requests that may be
lost, and the panel's parts share the session, whose user row every handler
reads at its first await and trusts until its end.

## Modules

| Module | Role |
|---|---|
| `DeliveryLease` | Abstract specification: a delivery row as a lease, taken by one worker, resolved by its holder, recovered when the holder is gone, delivered for good. |
| `Sender` | The send engine statement by statement; refines `DeliveryLease`. |
| `Fanout` | Scheduler, reaper and immediate campaigns statement by statement, send cycles by their answers. |
| `Automations` | The automation runner, the panel's actions on automations and the publish webhook. |
| `Timers` | Journeys and e-mail campaigns. |
| `Subscribers` | The subscriber table of a site and its counter, with every route, action and stage that writes them. |
| `Browser` | Extends `Subscribers` by the visitor: page, prompt, storage queue, service worker, push subscription and a network that loses things. |
| `Backups` | Snapshots, restore, markers and the connections of both processes. |
| `Accounts`, `Settings`, `Catalogue`, `Links`, `Segments` | The panel, each extending the one before: who acts, the vault, what a workspace owns, links and their visitors, segments. |
| `Panel` | Those five as one system: a database at rest, the steps of all parts, and what holds across them. |
| `Clicks`, `Limiter` | Clicks against pruning; the sliding window. |
| `MCSender`, `MCFanout`, `MCAutomations`, `MCTimers`, `MCPanel` | Instances for TLC. `MCPanel` states the scenes and puts `Clicks` and `Limiter` beside the panel. |
| `Sender_proofs`, `Fanout_proofs`, `Automations_proofs`, `Timers_proofs`, `Browser_proofs`, `Backups_proofs`, `Panel_proofs`, `Traffic_proofs` | The theorems; `Traffic_proofs` has those of `Clicks` and `Limiter`. |

`Sender` and `Fanout` look at the same tables from two sides. `Sender` starts
with rows already inserted and lets the scheduler appear by what it does to a
campaign (`FanoutCompletes`, `FanoutFails`, `ReapDrained`); `Fanout` starts
before the rows exist and lets the send engine appear as a stage that takes up
rows and gets answers, relying on the exclusiveness `Sender` proves.
`Automations` ends where a campaign is enqueued, which is where `Fanout` takes
over. Keeping all at full detail in one module would put every property out of
TLC's reach.

Definitions with an underscore, such as `IsStale_AnyAge`, are not part of the
model. Each is a plausible bug of the definition it precedes; put in its place,
it makes TLC report the property that `PROJECT.json` names beside it. That is
how we know that a property which holds depends on the code being right.
`PROJECT.json` also maps every definition to the lines it translates.

## Sender: the delivery engine

State: the columns of `deliveries` (`status`, `claimed_at`, `attempts`,
`next_attempt_at`), the statuses of campaigns and sites, whether a subscriber is
subscribed, and for every worker the local variables of its cycle: `now` (the
cycle's timestamp, which doubles as its claim token), the ids read by
`cancelTerminatedCampaignDeliveries`, the candidate ids, what became of each row
of the batch (`task`), the statuses cached for the batch (`halted`, `paused`),
the campaigns left to finalize and a verdict not yet written. `accepted` and
`lost` only observe.

| Action | Code |
|---|---|
| `BeginCycle` | tick reads the clock; `requeueStaleClaims` |
| `ReadTerminated`, `CancelTerminated` | the two statements of `cancelTerminatedCampaignDeliveries` |
| `SelectCandidates`, `Claim` | candidate query; `UPDATE ... RETURNING` |
| `LoadCampaigns`, `LoadDomains` | the caches of `runClaimedBatch` |
| `FailUnsent`, `CancelUnsent`, `ParkUnsent`, `Push` | the checks of `deliverOneInner` up to `provider.send` |
| `ProviderAccepts` | the push service takes the message; the worker does not know yet |
| `SettleSent`, `SettleGone`, `SettleRejected`, `SettleRetry`, `AnswerLost` | the branches after the await, each guarded by ownership |
| `DeliveryThrows`, `BatchThrows`, `Crash` | the two catch blocks with their releases, which may throw as well; process death |
| `FinishPool`, `CountOutcomes`, `WriteVerdict`, `EndCycle` | `Promise.all`; `finalizeCampaigns`: counts, then the guarded update |
| `CancelCampaign`, `RetryFailed`, `SetDomainStatus`, `Unsubscribe` | panel actions and the public route |
| `FanoutCompletes`, `FanoutFails`, `ReapDrained` | scheduler stage of a worker that is between cycles |
| `Tick` | time; a live cycle is at most `MaxCycle` old |

Abstractions, and why they are harmless:

- *Merged steps.* The reads `deliverOneInner` makes about a row happen together
  with its guarded write; the counts behind a verdict are one step; the reaper's
  verdict and its counts are one step; `Date.now()` and the stale-claim update
  are one step; the check a panel action makes before its transaction is part of
  it. The guarded write re-checks ownership in its `WHERE`, so what happens
  between such a read and the write cannot change what the write does to a row
  that is still owned.
- *Attempts* saturate at `MAX_ATTEMPTS`, the only value they are compared with.
  `RetryOrFail` reads the row's attempts instead of the snapshot `RETURNING`
  gave; the two agree as long as the claim is held, and the write is void
  otherwise.
- *Statuses.* Draft and scheduled campaigns have no rows, because rows are inserted
  only after the claim that sets `sending` (`UnclaimedUntouched` of
  `Fanout_proofs`: nobody fans out a campaign before), and nothing in the code sets a campaign to `paused`, so
  only `sending`, `done`, `failed` and `cancelled` occur. The query's
  `IN ('sending', 'scheduled')` is then `= 'sending'`.
- *Data* that can fail a row (VAPID keys, token, fatigue cap, permanent answers)
  is a nondeterministic `FailUnsent` or `SettleRejected`. Statistics, events and
  counters decide nothing and are left out.
- *Time.* A tick is 15 minutes, half of `STALE_CLAIM_MS`; the clamp in
  `sender.ts:176-183` raises the concurrency until the worst case of a batch
  takes at most that half. `MaxCycle = 1 < StaleClaim = 2` is what the code
  arranges; the runs about slow cycles use `MaxCycle = 3`.

## Fanout: scheduler, reaper, immediate automations

State: `campaign` and `audience_complete`, the `age` of `updated_at`, one row
status per campaign and subscriber, sites, who is subscribed, and for every
worker the stage it is in (`phase`, `job`, `target`, the `audience_complete` of
the row it selected, what is `todo`, how long it is `busy`, the reaper's
`verdict`). Two observers: `owed` is whom a campaign owes a delivery, namely
those listed who were subscribed when it was claimed and have not left since;
`gaveUp` remembers the campaigns `markStuckFailed` closed.

| Action | Code |
|---|---|
| `PickDue`, `CheckStart`, `ClaimCampaign` | due query with `LIMIT`, checks of site and retarget source, compare-and-set to `sending` |
| `FailSiteless`, `ResolveAudience`, `FinishEmpty` | early ends and the audience |
| `InsertChunk`, `MarkComplete` | `enqueueAudience`, one transaction per chunk; the guarded completion |
| `PickStuck`, `CheckStuck`, `AbandonSiteless`, `CountStuck`, `WriteStuck` | `reapStuckCampaigns` and `finalizeStuckCampaign` |
| `BeginAutomation`, `InsertCampaign` | `enqueueAutomationCampaign` without a delay |
| `Throw`, `Crash` | the three catch blocks, each of which may itself throw; process death |
| `BeginSend`, `Deliver`, `Postpone`, `Finalize`, `CancelTerminated` | a send cycle of the same worker, by its effects |
| `CancelCampaign`, `RetryFailed`, `ResendToNonClickers`, `SetSiteStatus` | panel |
| `Subscribe`, `Unsubscribe`, `Tick` | people and time |

Abstractions: ages instead of a clock, saturating at `ReapAfter` (five minutes,
two ticks), so that no bound on time is needed; `busy` bounds how long a worker
spends on one campaign (`MaxFanout`), a send cycle is not bounded. `pending`
stands for `queued` and `sending`, `sent` for `sent` and `unsubscribed`; a push
under way is a member of its worker's `todo`, so an answer may still arrive
after the row was cancelled. The checks before a push and its answer are one
step. A manual audience is read in chunks in the code, in one step here. Who
clicked is data: the audience of a retarget is any subset of those its source
reached. The due list is computed at every pick; a stale pick of the code ends
in the compare-and-set and changes nothing. A campaign without a site stands for
`domain_id` NULL and for a missing domain. Duplicating or resending creates a `scheduled` campaign. A row of a
subscriber is never reactivated by the code, a return is a new row.

## Automations

State: the row (`config`, `status`, `due` for next_run_at, `cursor`, `fails`,
`seen` for the last webhook's timestamp), what the source shows and whether it
answers, for every worker the statement it is at with its local variables
(`queue`, `snapshot`, `at`, `item`, `left`, `outcome`), and one web request
between its read and its write. `due` counts ticks left; a worker remembers of
the next_run_at it selected only whether somebody wrote another since. `pushed`,
`excused`, `rearmed` and `waiting` only observe.

| Action | Code |
|---|---|
| `Select`, `Claim`, `Finish` | due query with its limit; the compare-and-set on next_run_at that leaves the sentinel; parsing of config_json |
| `Handle` | `handleAutomation` up to the campaign: an automation without a site, welcome and publish types, feed, dynamic and static AutoMagic, drip, fetches with redirects |
| `Enqueue`, `EnqueueRefused` | `enqueueAutomationCampaign`, once per step of a drip |
| `Save` | `saveAutomationConfig`: the cursor, merged into the live row |
| `Book`, `BookFails`, `Crash` | next run, failures, auto-pause; a throw; process death |
| `CreateAutomation`, `DeleteAutomation`, `Read`, `Write` | the panel's actions and the webhook, read and write apart |
| `Publish`, `Tick` | the world |

The panel gives every automation a site and deletes it with the site, but the
column may be NULL: an automation that has none is a row from before, and fails
at every run until it is paused (`automation.ts:157`). `config` says which.

`NoRepeat` excuses a run only when its cursor was lost (crash or failing
statement between campaign and cursor) or two runs overlapped, `ExclusiveRun`
only an automation that somebody made due again while it ran: both exceptions
are what the code does and are kept by observers, so that every other way to
repeat or overlap would be found.

## Timers: journeys and e-mail campaigns

`Timers` has the claims of `journey.ts` and `email.ts`: select, compare-and-set,
re-arm or close, the catch with its doubling backoff, the reaper of stranded
e-mail campaigns, and the panel's create, pause, reschedule and delete. The
canvas of a journey is not executed by the code and e-mails are not sent: a
journey only comes round, a mail campaign resolves its audience (all, manual,
suppression list) and closes.

## Subscribers and Browser

`Subscribers` has one site. A row is an endpoint that is `active`, or `dead`
(unsubscribed) and perhaps `old` enough to purge; one active row per endpoint is
the unique index of the schema. A handler goes through its statements
(`SubscribeLookup`, `Save`, `CountOne`, ..., `Recount`, `StoreCount`), with the
worker's statements between them; either process may die or throw at each.
`torn` records that a recount of one process came between two statements of the
other, which is the one way the counter may drift.

`Browser` adds one visitor. A page that is open or not, the prompt (one of the
SDK's types), a gesture in progress (`doing`), the storage (`queue`, dismissal,
throttle), the subscription the browser holds and the endpoints the push service
may replace it by, and the requests on their way. The network delivers in any
order, loses a request or an answer; the service worker's rotation message may
not come at all.

## Backups

A database is an inode: a process that opened one keeps it when another is
renamed over its path. The table of snapshots is *in* the database, so a restore
brings back an older table. The owner's create, delete and restore are split at
every await, the worker's tick at every statement and file operation; either
process may die or fail there.

## The panel

`Accounts` to `Segments` are layers of one state machine. A request has a slot,
an operation and the place it is at; each handler is split at its awaits and,
where the process may die with half of it done, between statements (`Midway`).
`budget` grants each part a number of requests. `Panel` puts the layers together:
`PanelInit` is any database at rest that the handlers can have left (users
numbered from the founder on, rows numbered below the counter, templates,
segments and channels without a site, a link for every channel, valid rules in
every segment) with no request under way, `PanelNext` the steps of all parts.
`MCPanel` states thirteen *scenes*, initial states of that kind with grants of
their own: what meets in the code meets
in some scene, while the state space is the sum of the scenes and not their
product. `Clicks` and `Limiter` share no state with the others and have scenes of
their own. A segment's rules are interpreted as the SQL the code compiles
(`SegmentWhere`) and compared with what the rules mean (`RulesDescribe`).

The caps of the rules (groups, conditions, list values, parameters) are those of
the code; the instance stays far below them, so that only the theorem speaks of
rules near a cap.

`SecretsKept` says what interleaving requests may do to a secret. Two handlers
read the user, await a hash and then write what they had decided: a start of an
enrolment that found two factors off, and a login that encrypts the secret from
before encryption. `EnrolmentKept` names these two, and only these two, as the
writers that may replace or switch off an enrolment besides the user's own request
to disable it. What `tfa-actions.ts:32` says of the first, that it never clobbers an
active enrolment, is `NeverClobbered`; it is false, and the run `panel_clobber`
shows how.

`Clicks` has the two retention settings as the code has them: each pruning reads
both anew, nothing relates them, and 0 switches a part off. `early` counts, for each
delivery, the click events a pruning took while a click could still find the
delivery, and `ClickedOnce` allows one more count for each of them;
`EventsOutlive` says when such a thing happens at all: only if the settings of that
pruning keep deliveries longer than events, or its own statement on the deliveries
failed. `PruningSafe` has both, with the tallies and the rows still to be sent.

`Limiter` keeps a bucket as the set of its hits, those of one moment told apart
by a number, and the insertion order of the Map as ranks. `allowed` is what was
allowed in the whole window of a key, whatever became of its bucket; `losses` are the
buckets the key lost to an eviction or a restart within its window. `LimitHolds` says
the limit from both sides: never more allowed calls than `Limit`, and `Limit` more
for each lost bucket, within the window or, where it is longer, the 15 minutes a sweep
retains; and no call is refused before `Limit` calls of the same bucket were allowed
within the whole window, however long.

## Runs

Twelve runs, eleven that pass and one that does not. The bounds are small because the hazards are: two workers suffice
for every race (all are about one row, campaign or automation and whoever else
touches it), two rows or chunks for "some but not all", two faults for "again
while recovering".

| Run | Instance | Shows |
|---|---|---|
| `sender_race` | 2 workers, 1 row, 2 faults, 4 ticks | `LeaseInvariant`, `ExclusiveClaim`, `SentOnce`, and the refinement `LeaseDiscipline`. The clock reaches two stale windows: a crash, a revival, and a second crash. |
| `sender_slow` | cycles up to 3 ticks against a window of 2 | Late results are ignored even when the timing assumption fails: `LateResultIgnored`, `SentIsFinal`. |
| `sender_live` | 1 worker, 1 row, 2 faults, fairness | `CampaignsSettle`: stuck claims recover, campaigns are finalized, and one shown as done has its audience behind it; `CancelDrains`. |
| `fanout_race` | 2 workers, 2 subscribers, chunk of 1, 2 crashes, 1 throw; two scenes: a panel campaign, an automation's campaign with its retarget; 1.7 M states | `FullAudience`, `StarterAlone`, `CancelIsFinal`, `SettledStays`. |
| `fanout_live` | 1 worker, fan-outs of up to 2 ticks against the reaper's 2, 1 crash, 1 throw, fairness; three scenes: a panel campaign, an automation's, one without a site | `DoneIsDrained`, `CampaignEnds`, `CancelDrains`; `SendingEnds`: the reaper closes what nobody else would. |
| `automations_race` | 2 workers, 1 automation of any type or a feed without a site, feed of 3 entries, 2 requests, 1 change, 1 fault | `ScheduleInvariant`, `ExclusiveRun`, `NoRepeat`, `PauseHolds`. |
| `automations_live` | 1 worker, 2 changes, 1 fault, fairness | `DueRuns`: what is due is run, an accepted webhook is heard; `FeedFollowed`: the newest entry is sent, an automation that always fails is given up. |
| `timers` | 1 worker, a journey, a mail campaign, 3 acts, 2 faults, fairness | `JourneysKeepTime`, `JourneyComesRound`, `MailSettles`. |
| `browser` | 2 endpoints, room for 1 subscriber, 2 acts, 1 fault, fairness; 0.9 M states | `SiteInvariant`, `OnlySubscribeRevives`, `PendingArrives`, `OptOutLands`. |
| `backups` | 2 snapshot files, 3 acts, at most 2 restores, 2 faults, fairness; 0.5 M states | `DiskInvariant`, `RestoreSafe`, `MarkerHeals`, `DueSnapshotMade`. |
| `panel` | 13 scenes, 2 request slots, up to 6 requests a scene; deliveries kept for ever, 1 or 2 days, events 1 or 2; windows shorter, as long and longer than the sweep's; 0.9 M states | `PanelInvariant`, `SecretsKept`, `Tenancy`, `LinksLead`, `SegmentsResolve`, `PruningSafe`, `LimitHolds`. |
| `panel_clobber` | the same | `NeverClobbered` is violated: see [Where code and words disagree](#where-code-and-words-disagree). |

`CHECK_DEADLOCK FALSE` everywhere: bounded clocks, requests and faults, and
campaigns that are over, let an instance stop legitimately; that it does not
stop too early is what the liveness properties show.

`DoneIsDrained` is checked with one worker, because with two it is false:
`finalizeCampaigns` counts in some statements and updates in another, so one
worker finalizes, an operator retries the failed rows, and the other worker's
verdict is written over rows that wait again.

`MaxClock` bounds `Sender`; a fault that can leave a row `sending` is allowed
only when a stale window still fits before it (`CanFault`), so that liveness is
not lost to the bound. The other modules keep ages and times left, which need no
bound on time.

## Fairness

`Sender`: weak fairness of each worker's cycle (the tick loop is a plain loop,
`index.ts:192-204`, and `web-push` answers or times out after 30 s), of `Tick`,
and strong fairness of the scheduler's two effects: the scheduler stage precedes
every send cycle of the same tick, so a condition that holds again and again
when a worker is between cycles is met.

`Fanout`: weak fairness of a stage that has begun (synchronous code), strong
fairness of picking each due or stuck campaign (every tick runs both queries),
of taking up waiting rows and of the head and tail of a cycle, and of settling:
a row taken up again and again is settled one day, because `MAX_ATTEMPTS` bounds
the postponements, which `Sender` models. In `fanout_live` every scene has one
campaign that is not over and the others take no step of their own, so that
fairness of each campaign is that of any campaign: `SceneFairness` of `MCFanout` says
the same with fewer conjuncts.

`Automations`: weak fairness of each worker's next statement, of answering a
request already read, and of time. `Timers`: strong fairness of beginning each
stage, since every tick of the loop begins both, and of time.

`Browser`: both processes finish what they began, a request on its way is
delivered sooner or later, the site goes on sending pushes (which is how the
push service's 410 is ever seen), and the visitor opens and closes the page
again and again. `Backups`: the worker ticks and is restarted
(`restart: unless-stopped`), the hour after a failed attempt passes; nothing
makes the owner act.

Nothing is assumed anywhere of operators, publishers or faults: a paused site or
automation exempts what depends on it, and the properties say so.

## Proofs

All obligations are checked by TLAPS with Z3, Zenon and LS4. They hold for any
number of workers, rows, campaigns, subscribers, automations and faults and for
unbounded time.

### Sender

**`TypeCorrect`** is type correctness.

**`LeaseInvariance`**: under `ASSUME Timely`, `Spec => []LeaseInvariant`. `Timely`
is what the concurrency clamp and the comment in `sender.ts:31-39` promise:
cycles are shorter than the stale window and no two live cycles share a token.
The invariant is `CycleAge` (a live cycle is at most `MaxCycle` old),
`DistinctTokens`, `PlayPhases` (a row is in play only while its cycle loads or
sends), `ClaimHeld` (a row in play carries its cycle's token and is `sending` or
`cancelled`) and `Accounted` (an acceptance is matched by `sent`, by an answer
about to be processed, or by a loss). `ClaimHeld` alone is not inductive: that a
reviver spares a row in play follows from its age, that a release or a late
result of another worker spares it follows from the token. Conversely `SentOnce`
needs `ClaimHeld`: a row that is `sent` is in nobody's play. From it follow
`ClaimIsHeld`, `ClaimIsExclusive`, `DeliveredOnce`, `SentForever`.

**`LateResultsIgnored`** needs no assumption on the length of a cycle, only
distinct tokens: every write after the await is guarded by the token.

**`ImplementsLease`**: under `Timely`, every step of `Sender` is a step of
`DeliveryLease` or leaves it unchanged; `ClaimIsExclusive` makes the holder of a
row unique.

### Fanout

**`TypeCorrect`** strengthens the types by `Shape`: a stage that is busy has a
campaign, and a verdict before it writes one.

**`AudienceIsFull`**: `Spec => []FullAudience`, with no assumption about time.
The invariant adds `OwedSubscribed`, `UnclaimedUntouched`, `WholeIsComplete`,
`FanoutCovers` (what a fan-out has not inserted is in its hands) and
`CreatedAreImmediate`. Slow workers, two reapers and late answers do no harm
here: audiences are resolved after the claim, rows are never deleted, and `owed`
only shrinks.

**`StarterIsAlone`**: under `ASSUME Timely`, `Spec => []StarterAlone`. A starter's
campaign is no older than the starter has been busy, so no reaper finds it
stuck; the compare-and-set lets one starter in.

**`CancellationIsFinal`**, **`DeliveriesStaySettled`**: action properties, from
the types and the guards of every statement that writes a verdict or a row. The one
statement without a guard is the catch of a start that throws: `StartFailed(c)`, a
throw of the worker that starts this very campaign.

**`NothingLeftWaiting`**: with one worker (`ASSUME Alone`),
`Spec => []DoneIsDrained`. Inductive with it are `Open` (a stage never works on a
campaign that is over, so no row of one is inserted or postponed), `Unborn` and
`Fresh` (a campaign that resolves to nobody has no rows), and `Settling` (nothing
waits again between the reaper's counts and its verdict: a retry needs a campaign
that is over, and the one being reaped is not). `Open` is what a second worker
breaks.

### Automations

**`StaysInSchedule`**: `Spec => []ScheduleInvariant`; each writer of
`next_run_at` or of the status writes both so that an active automation that
comes round by itself stays armed. The types are strengthened by `Shape`: who is
past the claim has an automation, and who handles it could read its cursor; this
is where `TurnAssumption`, that a saved turn has a next one, is needed.

**`PausesHold`**: `Spec => PauseHolds`.

**`OneRunAtATime`**: `Spec => []ExclusiveRun`. Inductive is `Held`: an automation
that runs and that nobody made due again is in no other worker's hands, on no
list, and has no next run or one at least `ClaimWindow` after the run's
beginning. `ExclusiveRun` alone is not inductive, since a worker that only
selected the row would claim it next.

**`NothingTwice`**: `Spec => []NoRepeat`, with no assumption on how long a run
takes. Inductive are `SelectedActive` (only active automations are on a list)
and `Tracked`: while a cursor is not lost and runs do not overlap, the cursor is
what was sent last, except while the one run that sent something has still to
save it; that run's snapshot, and the snapshot of whoever selected the row while
nobody ran it, agree with it.

### Subscribers and Browser

**`CountIsExact`**, **`SiteIsCounted`**: the counter is the number of active rows
whenever nobody is between a row and the counter, unless the two processes tore
it. The invariant `Counted` says of each place of a handler by how much the
counter is off there; `Guarded` and `Imports` say which places exclude each
other.

**`ServerRevives`**, **`VisitorsStayOut`**: an endpoint whose rows are all dead
becomes active only by a subscribe or by the rotation of another active row
onto it. The theorems for `Browser` reuse those for
`Subscribers`, whose lemmas are about any set of posted requests: what the
visitor, the service worker and the network add are requests to post and
answers to take, which leave the table alone.

### Backups

**`LiveStaysWhole`**, **`RestoreIsSafe`**: `Spec => []LiveIsWhole` and
`Spec => RestoreSafe`, for any number of files, restores and faults. The inductive
invariant `Safe` has, beside the shape of the data, `RestoreShape` (past its check a
restore holds a whole image, and an inode is left for it), `PanelServes` (the panel
is on the live database but between the rename and the closing of its
connection) and `LogFits` (the log beside the path is that of the database it
leads to, but between the rename and the removal of the log, or when the panel died
there and has not opened a database since: `PanelDied`).
`ServesLive` alone is not inductive: a restore that is idle may have come from any
of its places.

**`DiskStaysSound`**: `Spec => []DiskInvariant`: types, a whole database under the
path, and until a first restore every snapshot listed as done on the disk and
whole. `Numbers` bounds the row numbers of every database, copy and image by the
files that were begun and have left their row, which keeps numbers and files apart;
`Listing` adds that no two rows share a number or a file, that a file with a row is
neither being copied nor about to be unlinked (`RowsApart`), and that a row on the
list of a request that prunes is still the row of its file (`ListFits`): that
request read its list before an await, while the other process prunes the same
table. `AbsentAssumption` says that `NULL`, which a missing file holds, is no content.

### Timers

**`JourneysStayOnTime`**: `Spec => JourneysKeepTime`: an active journey has a next
run, and only an operator makes a paused one active again, except the catch of a
re-arm that throws. Inductive are the types with `Shape` (what a stage has selected
or claimed are rows of that stage). That a backoff is a number rests on `PowerIsNat`.

### The panel

Five theorems about `PanelSpec`, for any people, slots, sites, rows, subscribers
and rules, and from any database at rest:

- **`PeopleAreInvited`**: `[]PanelInvariant`, the types of all parts and `Membership`.
- **`SecretsStay`**: `SecretsKept`, that is `[]EnrolledIsLast`, `EnrolmentKept` and
  `VaultKept`.
- **`WorkspacesStay`**: `Tenancy`, that is `[]NoStrays` and `WorkspaceWall`.
- **`LinksAlwaysLead`**: `[]LinksLead`. **`SegmentsAlwaysResolve`**: `[]SegmentsResolve`.

All follow from one invariant, `PanelInv` (`PanelInductive`). What a handler does
after its first await rests on what the session gave it and on what it read, so the
invariant must say that both still describe people there are:

- `RequestsOK`, for each operation: whoever is signed in is a user, in a workspace
  there is, and a founder's request is the founder's (`SignedOK`); an accepting
  request holds an invite that was minted, an enrolment past its check found two
  factors off, a login carries the old secret only as `Legacy` (`PeopleOK`); what is
  left of a settings form are statements of that form (`SaveOK`); arguments name
  kinds and forms their handlers can be asked for. It is stated of a row of users, a
  number of workspaces and a set of invites, and survives while these grow (`Grows`,
  `StaysOK`), which they do in every step.
- `Numbering`: invites are numbered as minted, and who came in by one is not the
  founder. Without it `SwitchWorkspace` and `EnterWorkspace`, which move the founder
  only, could take somebody away from the workspace of their invite.
- `RowsCoherent`, shared with `PanelInit`, and `ChannelMidway`: between the two
  statements of a channel's creation its link is there and nobody else's, and in its
  deletion the channel is gone before the link.
- `LinksInv`, `StoredInv`: a landing record for each link row, and valid rules with a
  row in each stored segment.

The proof goes layer by layer. For each part there is a lemma per thing its steps
must keep: requests and people (`AccountsKeep`, `SettingsKeep`, `CatalogueKeeps`,
`LinksKeep`, `SegmentsKeep`), rows and the wall (`CatalogueRowsStep`,
`LinksRowsStep`, `SegmentsRowsStep`), requests midway (the lemmas named `Midway`); then
`NextKeepsPanel` puts them together. `RulesAreDescribed` shows that the compiled
three-valued expression, least and greatest over its groups, holds of exactly those
who satisfy the rules, for any valid rules.

What the proof taught: a second handler may take the last row of the bound
`MaxRows` between the two statements that make a channel. The requests wait for
each other there, the worker's `Enqueue` does not; the second insert is therefore
guarded by the bound as well, else `CatalogueTypeOK` is not kept.

### Clicks and limiter

**`PruningStaysSafe`**: `PruningSafe`, for any deliveries and buttons and any sets of
retention settings; nothing relates the two. Inductive are `Shown` (what is
shown, pressed or clicked was sent), `Dated` (a click is no older than its row),
`RowsFirst` (when events are pruned, under settings that keep them at least as long
and after a statement on the deliveries that did not fail, the deliveries of the aged
ones are gone) and `CountedStays` (a delivery was counted no more often than its
events were pruned early, and once more only while it has its event or no row a
click could find).

**`LimitStays`**: `LimitHolds`, for any keys and windows. `Tracks` ties the two sides
together: what was allowed in the life of the present bucket is in the bucket as long
as a sweep retains it, and the hits of the bucket that count were allowed. `Numbered`
says that a bucket gives no number twice within that time, `Lives` that what an earlier
bucket allowed in it came before that bucket's loss, which is still among `losses`. The bound follows by counting:
`AtMostPerBucket` maps what was allowed one to one into pairs of a number up to
`Limit` and a bucket, the present one or a lost one.

### Assumptions

Each constant's assumption is named in the module that declares it and evaluated
by TLC in the runs that extend it. Sets of people, subscribers and deliveries are
finite, bounds are numbers, and markers such as `NULL` or `Gone` are not among the
data they stand apart from. `Timely` (of `Sender` and of `Fanout`), `Alone` and
`TurnAssumption` are described above. `SegmentsAssumption` says that drafts are
sequences of groups with sequences of conditions, and that a count of opens always
has a value, as it comes from a subquery.

### Model-checked only

Every safety property of the runs is a theorem. Liveness is not (fairness and
ENABLED are out of the prover's reach): `CampaignsSettle`, `CancelDrains`,
`CampaignEnds`, `SendingEnds`, `DueRuns`, `FeedFollowed`, `JourneyComesRound`,
`MailSettles`, `PendingArrives`, `OptOutLands`, `MarkerHeals`, `DueSnapshotMade`.
Induction theorems that take an operator as a parameter cannot be instantiated here
either. Where a proof needs a least element of a set of numbers it cites
`NatLessThanWellFounded` and `WFMin`, which speak of a relation; that a power of two
is a number follows from the number of subsets (`FS_SUBSET`).

## Where code and words disagree

The first is checked: the run `panel_clobber` finds it. The others were met while
modelling and are in the model as the code does it.

- "Never clobber an active enrollment silently" (`tfa-actions.ts:32`). The code reads
  `totp_enabled`, awaits the hash of the password and then overwrites the row by the
  user's id alone (49-53). `NeverClobbered` says what the comment says; the run's
  behaviour has two starts that both found two factors off, a confirmation of the
  first one's secret, and the write of the second, which switches two factors off.

Sending and fan-out:

- "If a slow cycle finds its claim superseded, it must not push"
  (`sender.ts:430-432`): the guard compares the snapshot `RETURNING` gave this
  very cycle, so it never fires. Harmless while cycles are `Timely`.
- `audience_complete` is "1 only after the full audience was enqueued"
  (`schema/marketing.ts:28`); `enqueueAutomationCampaign` inserts the campaign
  with 1 and then its deliveries.
- `audience_complete` makes an interrupted fan-out resumable "instead of
  finalizing a partial audience" (`docs/architecture.md:169-170`);
  `markStuckFailed` (`scheduler.ts:172`) sets it over a partial audience, and a
  retry of the failed rows then ends in `done`.
- The reaper "finalizes only once nothing is pending" (`scheduler.ts:42-44`);
  inserting rows does not touch `updated_at`, so two workers can resume one
  fan-out and one finalizes between the other's chunks.
- Statuses are cached for a batch, so pushes go on for up to a quarter of an hour
  after a cancel or pause. Two cycles that start in the same millisecond share a
  token. The source of a retarget is checked before the claim and read after it.
  `DUE_LIMIT` campaigns of paused sites starve all later ones.
- The comments in `index.ts:209` (a ten-minute stale window; it is thirty) and
  `automation.ts:136-138` ("would sit `sending` forever") are outdated.

Automations, journeys, mail:

- A webhook accepted while a run is in progress is lost: the bookkeeping
  (`automation.ts:126-135`) writes `next_run_at` over it.
- A crash between campaign and cursor, or campaign and bookkeeping, fires twice.
  A drip that fails half-way is retried whole (`263`).
- A feed key of more than 500 characters is saved although the schema refuses it
  on reading: the automation can then never be parsed and is auto-paused.
- The catch of a journey writes its status unguarded, over a pause
  (`journey.ts:89-96`). A manual e-mail audience whose ids are no array resolves
  to everybody (`email.ts:104`, `141`).

Subscribers and browser:

- A dead row, left by a 410, suppresses the visitor's own rotation; of several
  rows of an endpoint the guard reads one, in no order.
- The counter drifts when a recount of one process falls between insert and
  increment of the other, and is clamped at zero.
- A 4xx or a page closed at once loses a subscription without queueing it. A
  queued payload survives a block in the browser. "The page-load sync
  reconciles" a missed rotation (`sw.js:263-264`), but it runs only in state
  "subscribed" and a page starts "idle".

Backups:

- The audit row of a restore goes to the replaced database; the comment
  (`settings/actions.ts:473-476`) says the opposite.
- Restoring brings back an older table: files without rows, rows without files,
  ids used again.
- Between rename and removal of the log a restart opens the restored file with
  the old log (`463-472`); `OnlyWindowDamages` says this is the only way.
- If reopening throws, the marker is gone and later ticks use a closed
  connection until the worker restarts. Failed rows count for retention, so a
  good newest snapshot may be unlinked. The worker caps retention at 60, the form
  at 365.

Panel:

- TOTP changes do not invalidate sessions, unlike `auth.ts:20-25` says; a sign-in
  with an old plaintext secret writes it back over a new enrolment (`111-117`).
- Revoking an invite while the accepting request hashes still creates the
  account.
- A secret field of spaces only deletes the secret, unlike `settings/actions.ts:191-193`
  says; an outbound form without a URL clears the signing secret and then stores
  the one typed. The Drive form saves its switch and folder before it validates.
- A crash between link and channel leaves an orphan link. On a forced landing
  page, an early press may subscribe twice, and the page stays when subscribing
  throws.
- The limiter's sweep retains "the longest window we use (15 min account limit)"
  (`rate-limit.ts:32-33`), while one caller uses an hour (`workspaces/actions.ts:42`):
  that limit may be exceeded within its hour.
- With deliveries kept longer than events, a late click is counted twice. The
  settings allow it.
  Terminal rows are pruned whatever their campaign's status: a site paused for a
  week with an unfinished fan-out sends again to those it reached.

## Not modelled

- *Data that decides nothing here*: statistics, the layout of notifications,
  encryption, HTTP, texts, names and colours; an audience is a set. The fatigue
  cap's counts are a nondeterministic failure of a row.
- *Migrations at boot*: each is one immediate transaction that looks for its own
  tag first; nothing interleaves within it.
- *Core library*: pure functions over strings and bytes (time zones, CSV, TOTP,
  signatures), and calls to outside services; modelled where used, by their
  outcomes.
- *Tags, tracking, opt-in and statistics routes*: append-only rows and bounded
  upserts that no other part's decisions read.
- *Export, live, metrics, health*: reads. *Pages, deployment, WordPress plugin*:
  no state of their own.
- *Run logs of automations and journeys*, Drive upload, audit rows: written, and
  read only by lists in the panel.
- *The order of different stages within one tick* across modules: each module has
  the stages that share its tables.

The status of each component, with the reason, is in `PROJECT.json`.

## Plan

Done, in this order: the lease and the send engine; fan-out; automations;
subscribers and the browser; timers; backups; the panel; the proofs above. What
is left, most useful first:

1. Abstract specifications for fan-out and for the limiter, refined by the modules
   there are, as `DeliveryLease` is by `Sender`.
2. The fatigue cap over several campaigns, with the events table.
3. The tag route and the opt-in statistics, should audiences come to depend on
   their order.

## Running it

```
tlasany MCSender.tla                          # parse
tlc -workers 2 -config SenderRace.cfg MCSender.tla
tlc -workers 2 -config Panel.cfg MCPanel.tla
tlapm Sender_proofs.tla                       # prove
tlapm Panel_proofs.tla
```

The configuration of a run, its module and its properties are listed in
`PROJECT.json`, with the mutants, the map to the source, the hazards and the
theorems.
