------------------------------- MODULE Fanout -------------------------------
(***************************************************************************)
(* The campaign scheduler of apps/worker/src/scheduler.ts: workers that    *)
(* share one database file start due campaigns by claiming them and then   *)
(* inserting one delivery per subscriber in chunks, resume the fan-out of  *)
(* workers that died, and close campaigns nobody finalized.  With them run *)
(* the immediate automation campaigns of packages/db/src/services,         *)
(* operators who cancel and retry, and subscribers who come and go.        *)
(*                                                                         *)
(* One SQL statement (or one transaction) is one step, as in Sender.  The  *)
(* merges: the reads that decide whether a campaign may start, the counts  *)
(* behind the reaper's verdict, those of finalizeCampaigns with its        *)
(* update, the chunks in which a manual audience is read, the checks       *)
(* before a push with its answer.                                          *)
(*                                                                         *)
(* The send engine, modelled in Sender, appears as the stage that follows  *)
(* in the same worker: a cycle takes up some rows of a campaign and each   *)
(* gets an answer; claims are exclusive, as proved there.  `pending`       *)
(* stands for queued and sending, `sent` for sent and unsubscribed.        *)
(*                                                                         *)
(* Time is kept as ages that stop growing once they decide nothing more,   *)
(* so no bound on the clock is needed; five minutes are ReapAfter ticks.   *)
(* Definitions with an underscore are mutants of the ones they precede.    *)
(***************************************************************************)
EXTENDS Integers, FiniteSets

CONSTANTS
  Workers,      \* worker processes sharing the database file
  Campaigns,    \* campaigns.id
  Sites,        \* domains
  Subscribers,  \* push subscriptions
  NULL,         \* SQL NULL
  SiteOf,       \* campaigns.domain_id, NULL when a campaign has none
  Listed,       \* whom audience_json names: all, a segment or explicit ids
  SourceOf,     \* source_campaign_id of a non_clickers audience, or NULL
  Immediate,    \* campaigns made by enqueueAutomationCampaign without delay
  Chunk,        \* rows per transaction
  DueLimit,     \* DUE_LIMIT
  ReapAfter,    \* five minutes without an update, in ticks
  MaxFanout,    \* longest time a worker spends on one campaign, in ticks
  MaxCrashes,   \* bound: worker crashes
  MaxThrows     \* bound: throwing statements

ASSUME FanoutAssumption ==
  /\ Campaigns \subseteq Nat
  /\ NULL \notin Sites \cup Campaigns
  /\ SiteOf \in [Campaigns -> Sites \cup {NULL}]
  /\ Listed \in [Campaigns -> SUBSET Subscribers]
  /\ SourceOf \in [Campaigns -> Campaigns \cup {NULL}]
  /\ Immediate \subseteq Campaigns
  /\ \A c \in Campaigns : SourceOf[c] # NULL => Listed[c] = {} /\ c \notin Immediate
  /\ \A c \in Immediate : SiteOf[c] # NULL
  /\ Chunk \in Nat \ {0}
  /\ DueLimit \in Nat \ {0}
  /\ ReapAfter \in Nat \ {0}
  /\ MaxFanout \in Nat
  /\ MaxCrashes \in Nat
  /\ MaxThrows \in Nat

VARIABLES
  campaign,           \* campaigns.status, "none" before the row exists
  audience_complete,  \* campaigns.audience_complete
  age,                \* ticks since campaigns.updated_at, up to ReapAfter
  row,                \* deliveries of each campaign and subscriber
  site,               \* domains.status
  subscription,       \* has the subscriber joined, has he left?
  phase,              \* the statement each worker's scheduler stage is at
  job,                \* whether it starts, reaps, automates or sends a campaign
  target,             \* the campaign it works on
  whole,              \* audience_complete in the row it selected
  todo,               \* audience not yet inserted, or deliveries under way
  busy,               \* ticks spent on the target
  verdict,            \* status the reaper decided on, not yet written
  crashes, throws,    \* faults injected so far
  owed,               \* observer: subscribed ever since the campaign was claimed
  gaveUp              \* observer: campaigns the reaper closed on an error

table    == <<campaign, audience_complete, age, row>>
people   == <<site, subscription>>
stage    == <<phase, job, target, whole, todo, busy, verdict>>
faults   == <<crashes, throws>>
observer == <<owed, gaveUp>>
vars     == <<table, people, stage, faults, observer>>

-----------------------------------------------------------------------------
CampaignStatus == {"none", "scheduled", "sending", "done", "failed", "cancelled"}
RowStatus      == {"none", "pending", "sent", "failed", "cancelled"}
Phase == {"idle", "due", "ready", "claimed", "filling", "filled", "empty",
          "stuck", "counting", "deciding", "creating", "sending"}

TypeOK ==
  /\ campaign \in [Campaigns -> CampaignStatus]
  /\ audience_complete \in [Campaigns -> BOOLEAN]
  /\ age \in [Campaigns -> 0..ReapAfter]
  /\ row \in [Campaigns -> [Subscribers -> RowStatus]]
  /\ site \in [Sites -> {"active", "paused"}]
  /\ subscription \in [Subscribers -> {"future", "active", "gone"}]
  /\ phase \in [Workers -> Phase]
  /\ job \in [Workers -> {"none", "start", "reap", "automate", "send"}]
  /\ target \in [Workers -> Campaigns \cup {NULL}]
  /\ whole \in [Workers -> BOOLEAN]
  /\ todo \in [Workers -> SUBSET Subscribers]
  /\ busy \in [Workers -> Nat]
  /\ verdict \in [Workers -> {NULL, "done", "failed"}]
  /\ crashes \in Nat /\ throws \in Nat
  /\ owed \in [Campaigns -> SUBSET Subscribers]
  /\ gaveUp \in SUBSET Campaigns

Drained(c) == \A s \in Subscribers : row[c][s] # "pending"
AnySent(c) == \E s \in Subscribers : row[c][s] = "sent"
Reached(c) == {s \in Subscribers : row[c][s] # "none"}
Active     == {s \in Subscribers : subscription[s] = "active"}

\* Panel campaigns wait to be sent; retargets and automations come later.
InitWith(statuses) ==
  /\ campaign = statuses
  /\ audience_complete = [c \in Campaigns |-> FALSE]
  /\ age = [c \in Campaigns |-> 0]
  /\ row = [c \in Campaigns |-> [s \in Subscribers |-> "none"]]
  /\ site \in [Sites -> {"active", "paused"}]
  /\ subscription \in [Subscribers -> {"future", "active"}]
  /\ phase = [w \in Workers |-> "idle"]
  /\ job = [w \in Workers |-> "none"]
  /\ target = [w \in Workers |-> NULL]
  /\ whole = [w \in Workers |-> FALSE]
  /\ todo = [w \in Workers |-> {}]
  /\ busy = [w \in Workers |-> 0]
  /\ verdict = [w \in Workers |-> NULL]
  /\ crashes = 0 /\ throws = 0
  /\ owed = [c \in Campaigns |-> {}]
  /\ gaveUp = {}

\* Panel campaigns are scheduled; retargets and automations do not exist yet.
Init == InitWith([c \in Campaigns |->
          IF SourceOf[c] = NULL /\ c \notin Immediate THEN "scheduled" ELSE "none"])

-----------------------------------------------------------------------------
(* What the stage does over and over.                                      *)

Go(w, p) ==
  /\ phase' = [phase EXCEPT ![w] = p]
  /\ UNCHANGED <<job, target, whole, todo, busy, verdict>>

\* The stage takes up campaign c, with the row it selected.
Take(w, c, j, p) ==
  /\ phase' = [phase EXCEPT ![w] = p]
  /\ job' = [job EXCEPT ![w] = j]
  /\ target' = [target EXCEPT ![w] = c]
  /\ whole' = [whole EXCEPT ![w] = audience_complete[c]]
  /\ UNCHANGED <<todo, busy, verdict>>

\* The stage is through with its campaign.
Release(w) ==
  /\ phase' = [phase EXCEPT ![w] = "idle"]
  /\ job' = [job EXCEPT ![w] = "none"]
  /\ target' = [target EXCEPT ![w] = NULL]
  /\ whole' = [whole EXCEPT ![w] = FALSE]
  /\ todo' = [todo EXCEPT ![w] = {}]
  /\ busy' = [busy EXCEPT ![w] = 0]
  /\ verdict' = [verdict EXCEPT ![w] = NULL]

\* UPDATE campaigns SET status = s; every update touches updated_at.
SetStatus(c, s) ==
  /\ campaign' = [campaign EXCEPT ![c] = s]
  /\ age' = [age EXCEPT ![c] = 0]

\* The same guarded by WHERE status = 'sending'.
SetIfSending_Unguarded(c, s) == SetStatus(c, s)
SetIfSending(c, s) ==
  IF campaign[c] = "sending" THEN SetStatus(c, s) ELSE UNCHANGED <<campaign, age>>

\* audience_complete = 1 in a guarded update.
CompleteIfSending(c) ==
  audience_complete' = [audience_complete EXCEPT ![c] = @ \/ campaign[c] = "sending"]

\* ORDER BY id LIMIT DUE_LIMIT.
FirstOf(C) == {c \in C : Cardinality({e \in C : e < c}) < DueLimit}

-----------------------------------------------------------------------------
(* Starting a due campaign.                                                *)

PickDue(w, c) ==
  /\ phase[w] = "idle"
  /\ c \in FirstOf({e \in Campaigns : campaign[e] = "scheduled"})
  /\ Take(w, c, "start", "due")
  /\ UNCHANGED <<table, people, faults, observer>>

\* A paused site keeps its campaigns scheduled, and so does a retarget whose
\* source is not finished.
MayStart(c) ==
  /\ SiteOf[c] # NULL => site[SiteOf[c]] = "active"
  /\ SourceOf[c] # NULL => campaign[SourceOf[c]] \notin {"scheduled", "sending"}

CheckStart(w) ==
  /\ phase[w] = "due"
  /\ IF MayStart(target[w]) THEN Go(w, "ready") ELSE Release(w)
  /\ UNCHANGED <<table, people, faults, observer>>

\* The atomic claim: only one worker flips scheduled to sending.
ClaimCampaign(w) ==
  /\ phase[w] = "ready"
  /\ LET c == target[w] IN
       IF campaign[c] = "scheduled"
         THEN /\ SetStatus(c, "sending")
              /\ owed' = [owed EXCEPT ![c] = Listed[c] \cap Active]
              /\ phase' = [phase EXCEPT ![w] = "claimed"]
              /\ busy' = [busy EXCEPT ![w] = 0]
              /\ UNCHANGED <<job, target, whole, todo, verdict>>
         ELSE Release(w) /\ UNCHANGED <<campaign, age, owed>>
  /\ UNCHANGED <<audience_complete, row, people, faults, gaveUp>>

\* A campaign without a site fails at once.
FailSiteless(w) ==
  /\ phase[w] = "claimed"
  /\ SiteOf[target[w]] = NULL
  /\ SetIfSending(target[w], "failed")
  /\ Release(w)
  /\ UNCHANGED <<audience_complete, row, people, faults, observer>>

\* resolveAudience: the active ones of those listed, or, for a retarget,
\* those its source reached and who did not click (clicks are data).
Audiences(c) ==
  IF SourceOf[c] = NULL
    THEN {Listed[c] \cap Active}
    ELSE SUBSET {s \in Active : row[SourceOf[c]][s] = "sent"}

ResolveAudience(w) ==
  /\ phase[w] = "claimed"
  /\ SiteOf[target[w]] # NULL
  /\ \E A \in Audiences(target[w]) :
       /\ todo' = [todo EXCEPT ![w] = A]
       /\ phase' = [phase EXCEPT ![w] =
            IF A # {} THEN "filling" ELSE IF job[w] = "start" THEN "empty" ELSE "filled"]
  /\ UNCHANGED <<table, people, job, target, whole, busy, verdict, faults, observer>>

\* An audience of nobody is done immediately.
FinishEmpty(w) ==
  /\ phase[w] = "empty"
  /\ SetIfSending(target[w], "done")
  /\ CompleteIfSending(target[w])
  /\ Release(w)
  /\ UNCHANGED <<row, people, faults, observer>>

\* One transaction of enqueueAudience: ON CONFLICT DO NOTHING.
Insert_OnConflictReset(c, S) ==
  row' = [row EXCEPT ![c] = [s \in Subscribers |-> IF s \in S THEN "pending" ELSE @[s]]]
Insert(c, S) ==
  row' = [row EXCEPT ![c] =
    [s \in Subscribers |-> IF s \in S /\ @[s] = "none" THEN "pending" ELSE @[s]]]

\* Where the stage stands when `rest` is still to be inserted.
Afterwards_FirstChunk(rest) == "filled"
Afterwards(rest) == IF rest = {} THEN "filled" ELSE "filling"

InsertChunk(w) ==
  /\ phase[w] = "filling"
  /\ \E S \in SUBSET todo[w] :
       /\ S # {} /\ Cardinality(S) <= Chunk
       /\ S = todo[w] \/ Cardinality(S) = Chunk
       /\ Insert(target[w], S)
       /\ IF S = todo[w] /\ job[w] = "automate"
            THEN Release(w)
            ELSE /\ todo' = [todo EXCEPT ![w] = @ \ S]
                 /\ phase' = [phase EXCEPT ![w] = Afterwards(todo[w] \ S)]
                 /\ UNCHANGED <<job, target, whole, busy, verdict>>
  /\ UNCHANGED <<campaign, audience_complete, age, people, faults, observer>>

\* After the last chunk; the reaper goes on to finalize.
MarkComplete(w) ==
  /\ phase[w] = "filled"
  /\ SetIfSending(target[w], "sending")
  /\ CompleteIfSending(target[w])
  /\ IF job[w] = "reap" THEN Go(w, "counting") ELSE Release(w)
  /\ UNCHANGED <<row, people, faults, observer>>

-----------------------------------------------------------------------------
(* The reaper.                                                             *)

\* A sending campaign nobody updated for five minutes.
IsStuck_AnyAge(c) == campaign[c] = "sending"
IsStuck_Complete(c) == campaign[c] = "sending" /\ age[c] = ReapAfter /\ audience_complete[c]
IsStuck(c) == campaign[c] = "sending" /\ age[c] = ReapAfter

PickStuck(w, c) ==
  /\ phase[w] = "idle"
  /\ c \in FirstOf({e \in Campaigns : IsStuck(e)})
  /\ Take(w, c, "reap", "stuck")
  /\ UNCHANGED <<table, people, faults, observer>>

\* markStuckFailed.
MarkStuckFailed(c) ==
  /\ SetIfSending(c, "failed")
  /\ CompleteIfSending(c)
  /\ gaveUp' = IF campaign[c] = "sending" THEN gaveUp \cup {c} ELSE gaveUp

AbandonSiteless(w) ==
  /\ phase[w] = "stuck"
  /\ SiteOf[target[w]] = NULL
  /\ MarkStuckFailed(target[w])
  /\ Release(w)
  /\ UNCHANGED <<row, people, faults, owed>>

\* A paused site keeps its campaign; an incomplete fan-out is resumed.
Resumption(complete) == IF complete THEN "counting" ELSE "claimed"

CheckStuck(w) ==
  /\ phase[w] = "stuck"
  /\ SiteOf[target[w]] # NULL
  /\ IF site[SiteOf[target[w]]] = "active" THEN Go(w, Resumption(whole[w])) ELSE Release(w)
  /\ UNCHANGED <<table, people, faults, observer>>

\* The counts of finalizeStuckCampaign.
MayFinalize_Always(c) == TRUE
MayFinalize_NotEmpty(c) == Drained(c) /\ Reached(c) # {}
MayFinalize(c) == Drained(c)

CountStuck(w) ==
  /\ phase[w] = "counting"
  /\ LET c == target[w] IN
       IF MayFinalize(c)
         THEN /\ verdict' = [verdict EXCEPT ![w] =
                   IF AnySent(c) \/ Reached(c) = {} THEN "done" ELSE "failed"]
              /\ phase' = [phase EXCEPT ![w] = "deciding"]
              /\ UNCHANGED <<job, target, whole, todo, busy>>
         ELSE Release(w)
  /\ UNCHANGED <<table, people, faults, observer>>

WriteStuck(w) ==
  /\ phase[w] = "deciding"
  /\ SetIfSending(target[w], verdict[w])
  /\ CompleteIfSending(target[w])
  /\ Release(w)
  /\ UNCHANGED <<row, people, faults, observer>>

-----------------------------------------------------------------------------
(* enqueueAutomationCampaign without a delay.                              *)

\* The audience is resolved before the campaign row exists.
BeginAutomation(w, c) ==
  /\ phase[w] = "idle"
  /\ c \in Immediate
  /\ campaign[c] = "none"
  /\ \A v \in Workers : target[v] # c
  /\ owed' = [owed EXCEPT ![c] = Listed[c] \cap Active]
  /\ phase' = [phase EXCEPT ![w] = "creating"]
  /\ job' = [job EXCEPT ![w] = "automate"]
  /\ target' = [target EXCEPT ![w] = c]
  /\ todo' = [todo EXCEPT ![w] = Listed[c] \cap Active]
  /\ UNCHANGED <<table, people, whole, busy, verdict, faults, gaveUp>>

\* The row is inserted as sending and complete before any delivery is.
InsertCampaign(w) ==
  /\ phase[w] = "creating"
  /\ SetStatus(target[w], "sending")
  /\ audience_complete' = [audience_complete EXCEPT ![target[w]] = TRUE]
  /\ Go(w, IF todo[w] = {} THEN "empty" ELSE "filling")
  /\ UNCHANGED <<row, people, faults, observer>>

-----------------------------------------------------------------------------
(* Faults.                                                                 *)

\* A statement throws.  A send cycle lets go of its rows; the catch of
\* runScheduler fails a starting campaign whatever its status, the reaper's
\* and the automation's only a sending one; that write may throw as well.
Throw(w) ==
  /\ phase[w] # "idle"
  /\ throws < MaxThrows
  /\ throws' = throws + 1
  /\ LET c == target[w] IN
       \/ UNCHANGED <<campaign, age, audience_complete, gaveUp>>
       \/ /\ job[w] = "start"
          /\ SetStatus(c, "failed")
          /\ UNCHANGED <<audience_complete, gaveUp>>
       \/ /\ job[w] = "reap"
          /\ MarkStuckFailed(c)
       \/ /\ job[w] = "automate" /\ phase[w] = "filling"
          /\ SetIfSending(c, "failed")
          /\ UNCHANGED <<audience_complete, gaveUp>>
  /\ Release(w)
  /\ UNCHANGED <<row, people, crashes, owed>>

\* The process dies.
Crash(w) ==
  /\ phase[w] # "idle"
  /\ crashes < MaxCrashes
  /\ crashes' = crashes + 1
  /\ Release(w)
  /\ UNCHANGED <<table, people, throws, observer>>

-----------------------------------------------------------------------------
(* The send engine, the stage after the scheduler in the same worker.      *)

\* The push of row s of c is under way in worker w.
UnderWay(w, c, s) == phase[w] = "sending" /\ target[w] = c /\ s \in todo[w]

\* A cycle claims rows that wait; those of a worker that died wait again.
Waiting(c) == {s \in Subscribers :
  row[c][s] = "pending" /\ \A w \in Workers : ~UnderWay(w, c, s)}

BeginSend(w, c) ==
  /\ phase[w] = "idle"
  /\ campaign[c] = "sending"
  /\ SiteOf[c] # NULL /\ site[SiteOf[c]] = "active"
  /\ \E S \in SUBSET Waiting(c) : S # {} /\ todo' = [todo EXCEPT ![w] = S]
  /\ phase' = [phase EXCEPT ![w] = "sending"]
  /\ job' = [job EXCEPT ![w] = "send"]
  /\ target' = [target EXCEPT ![w] = c]
  /\ UNCHANGED <<table, people, whole, busy, verdict, faults, observer>>

\* Row s is through; the cycle is over when it was the last.
Answered(w, s) ==
  IF todo[w] = {s}
    THEN Release(w)
    ELSE /\ todo' = [todo EXCEPT ![w] = @ \ {s}]
         /\ UNCHANGED <<phase, job, target, whole, busy, verdict>>

\* The delivery is settled, also when its row was cancelled meanwhile: the
\* claim is still the cycle's.  Counting it touches the campaign.
Deliver(w, s) ==
  /\ phase[w] = "sending"
  /\ s \in todo[w]
  /\ \E r \in {"sent", "failed"} :
       /\ r = "sent" => subscription[s] = "active"
       /\ row' = [row EXCEPT ![target[w]][s] = r]
  /\ age' = [age EXCEPT ![target[w]] = 0]
  /\ Answered(w, s)
  /\ UNCHANGED <<campaign, audience_complete, people, faults, observer>>

\* It failed for now: queued with a backoff, a cancelled row as well.
Postpone(w, s) ==
  /\ phase[w] = "sending"
  /\ s \in todo[w]
  /\ row' = [row EXCEPT ![target[w]][s] = "pending"]
  /\ Answered(w, s)
  /\ UNCHANGED <<campaign, audience_complete, age, people, faults, observer>>

\* The head and the tail of a cycle, in a worker between two stages.
Between == \E w \in Workers : phase[w] = "idle"

\* finalizeCampaigns, for a campaign with a row in the batch.
Finalizable(c) ==
  /\ campaign[c] = "sending"
  /\ audience_complete[c]
  /\ Drained(c)
  /\ Reached(c) # {}

Finalize(c) ==
  /\ Between
  /\ Finalizable(c)
  /\ SetStatus(c, IF AnySent(c) THEN "done" ELSE "failed")
  /\ UNCHANGED <<audience_complete, row, people, stage, faults, observer>>

\* cancelTerminatedCampaignDeliveries.
Terminated_NoCancelled == {"failed"}
Terminated == {"cancelled", "failed"}
CancelPending(c) ==
  row' = [row EXCEPT ![c] = [s \in Subscribers |-> IF @[s] = "pending" THEN "cancelled" ELSE @[s]]]

CancelTerminated(c) ==
  /\ Between
  /\ campaign[c] \in Terminated
  /\ ~Drained(c)
  /\ CancelPending(c)
  /\ UNCHANGED <<campaign, audience_complete, age, people, stage, faults, observer>>

-----------------------------------------------------------------------------
(* Operators, subscribers, time.                                           *)

CancelCampaign(c) ==
  /\ campaign[c] \in {"scheduled", "sending"}
  /\ SetStatus(c, "cancelled")
  /\ CancelPending(c)
  /\ UNCHANGED <<audience_complete, people, stage, faults, observer>>

\* The failed rows of a finished campaign wait again.
RetryFailed(c) ==
  /\ campaign[c] \in {"done", "failed"}
  /\ \E s \in Subscribers : row[c][s] = "failed"
  /\ SetStatus(c, "sending")
  /\ row' = [row EXCEPT ![c] = [s \in Subscribers |-> IF @[s] = "failed" THEN "pending" ELSE @[s]]]
  /\ UNCHANGED <<audience_complete, people, stage, faults, observer>>

\* resendToNonClickersAction.
ResendToNonClickers(c) ==
  /\ SourceOf[c] # NULL
  /\ campaign[c] = "none"
  /\ campaign[SourceOf[c]] = "done"
  /\ SetStatus(c, "scheduled")
  /\ UNCHANGED <<audience_complete, row, people, stage, faults, observer>>

SetSiteStatus(g, s) ==
  /\ site[g] # s
  /\ site' = [site EXCEPT ![g] = s]
  /\ UNCHANGED <<table, subscription, stage, faults, observer>>

Subscribe(s) ==
  /\ subscription[s] = "future"
  /\ subscription' = [subscription EXCEPT ![s] = "active"]
  /\ UNCHANGED <<table, site, stage, faults, observer>>

\* Rows of subscribers are never reactivated: a return is a new row.
Unsubscribe(s) ==
  /\ subscription[s] = "active"
  /\ subscription' = [subscription EXCEPT ![s] = "gone"]
  /\ owed' = [c \in Campaigns |-> owed[c] \ {s}]
  /\ UNCHANGED <<table, site, stage, faults, gaveUp>>

\* A stage of the scheduler has begun; a send cycle may take its time.
Scheduling(w) == phase[w] \notin {"idle", "sending"}

\* Time passes; no worker spends more than MaxFanout on one campaign.
Tick ==
  /\ \A w \in Workers : Scheduling(w) => busy[w] < MaxFanout
  /\ age' = [c \in Campaigns |->
       IF campaign[c] = "sending" /\ age[c] < ReapAfter THEN age[c] + 1 ELSE age[c]]
  /\ busy' = [w \in Workers |-> IF Scheduling(w) THEN busy[w] + 1 ELSE busy[w]]
  /\ UNCHANGED <<campaign, audience_complete, row, people, phase, job, target, whole, todo,
                 verdict, faults, observer>>

-----------------------------------------------------------------------------
StageStep(w) ==
  \/ CheckStart(w) \/ ClaimCampaign(w) \/ FailSiteless(w) \/ ResolveAudience(w)
  \/ FinishEmpty(w) \/ InsertChunk(w) \/ MarkComplete(w)
  \/ AbandonSiteless(w) \/ CheckStuck(w) \/ CountStuck(w) \/ WriteStuck(w)
  \/ InsertCampaign(w)

Pick(w, c) == PickDue(w, c) \/ PickStuck(w, c) \/ BeginAutomation(w, c) \/ BeginSend(w, c)

SendStep(w) == \E s \in Subscribers : Deliver(w, s) \/ Postpone(w, s)

SendEngine(c) == Finalize(c) \/ CancelTerminated(c)

Operator ==
  \/ \E c \in Campaigns : CancelCampaign(c) \/ RetryFailed(c) \/ ResendToNonClickers(c)
  \/ \E g \in Sites, s \in {"active", "paused"} : SetSiteStatus(g, s)

Next ==
  \/ \E w \in Workers :
       StageStep(w) \/ SendStep(w) \/ Throw(w) \/ Crash(w) \/ \E c \in Campaigns : Pick(w, c)
  \/ \E c \in Campaigns : SendEngine(c)
  \/ Operator
  \/ \E s \in Subscribers : Subscribe(s) \/ Unsubscribe(s)
  \/ Tick

Spec == Init /\ [][Next]_vars

\* A stage that has begun is synchronous code and runs to its end; the tick
\* loop comes back to every campaign its queries select, and a delivery that
\* is taken up again and again is settled, because MAX_ATTEMPTS bounds the
\* postponements (Sender).
Fairness ==
  /\ \A w \in Workers : WF_vars(StageStep(w))
  /\ \A c \in Campaigns :
       /\ SF_vars(\E w \in Workers : PickDue(w, c) \/ PickStuck(w, c))
       /\ SF_vars(SendEngine(c) \/ \E w \in Workers : BeginSend(w, c))
       /\ SF_vars(\E w \in Workers, s \in Subscribers : Deliver(w, s) /\ target[w] = c)
  /\ WF_vars(Tick)

FairSpec == Spec /\ Fairness

-----------------------------------------------------------------------------
(* What the scheduler promises.                                            *)

\* A fan-out takes less than the reaper's five minutes (scheduler.ts:103-106).
Timely == MaxFanout < ReapAfter

\* A campaign marked complete has a delivery for everyone it owes one: each
\* listed subscriber who was there when it was claimed and did not leave
\* since (marketing.ts:27-32).  Excepted are automation campaigns, marked
\* before their fan-out, and campaigns the reaper gave up.
FullAudience ==
  \A c \in Campaigns \ (Immediate \cup gaveUp) :
    audience_complete[c] => owed[c] \subseteq Reached(c)

\* A worker that has the campaign's fan-out in hand.
FansOut(w) == phase[w] \in {"claimed", "filling", "filled", "empty"}

\* Fresh claims are left alone: while the worker that claimed a campaign
\* fans it out, no other does (scheduler.ts:103-106, 237-239).
StarterAlone ==
  \A w, v \in Workers :
    FansOut(w) /\ job[w] = "start" /\ FansOut(v) /\ target[v] = target[w] => v = w

\* A cancelled campaign stays cancelled, whatever the fan-out, the reaper or
\* the send engine were about to write (sender.ts:926-928).  Only the catch of
\* a throwing start overwrites it, with "failed" (scheduler.ts:86-92).
StartFailed(c) == \E w \in Workers : job[w] = "start" /\ target[w] = c /\ throws' = throws + 1
CancelIsFinal ==
  [][\A c \in Campaigns : campaign[c] = "cancelled" =>
       campaign'[c] = "cancelled" \/ (StartFailed(c) /\ campaign'[c] = "failed")]_vars

\* Resuming a fan-out is idempotent: it never takes back a delivery that was
\* made or cancelled, and neither does a retry (scheduler.ts:295-297).  Only
\* the answer to a push under way when its row was cancelled still counts.
SettledStays ==
  [][\A c \in Campaigns, s \in Subscribers :
       \/ row[c][s] \notin {"sent", "cancelled"}
       \/ row'[c][s] = row[c][s]
       \/ row[c][s] = "cancelled" /\ \E w \in Workers : UnderWay(w, c, s)]_vars

\* A campaign shown as done leaves no delivery waiting (sender.ts:889), with
\* one worker.
DoneIsDrained == \A c \in Campaigns : campaign[c] = "done" => Drained(c)

\* A due campaign is started and brought to an end, unless its site is paused.
CampaignEnds ==
  \A c \in Campaigns : campaign[c] = "scheduled" ~>
    \/ campaign[c] \in {"done", "failed", "cancelled"}
    \/ SiteOf[c] # NULL /\ site[SiteOf[c]] = "paused"

\* Every campaign that is sending ends, unless its site is paused: one whose
\* fan-out, or whose creation by an automation, died before its first row,
\* and one without a site, are finalized by nobody but the reaper.
SendingEnds ==
  \A c \in Campaigns : campaign[c] = "sending" ~>
    campaign[c] # "sending" \/ (SiteOf[c] # NULL /\ site[SiteOf[c]] = "paused")

\* A cancelled campaign runs dry, also when it was cancelled in the middle
\* of its fan-out and more rows were inserted afterwards.
CancelDrains ==
  \A c \in Campaigns : campaign[c] = "cancelled" ~>
    campaign[c] # "cancelled" \/ (Drained(c) /\ \A w \in Workers : target[w] # c)
=============================================================================
