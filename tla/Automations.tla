----------------------------- MODULE Automations -----------------------------
(***************************************************************************)
(* The automation runner of apps/worker/src/automation.ts, the panel's     *)
(* automation actions and the publish webhook.  A worker selects the due   *)
(* automations, claims each by moving its next_run_at ahead, asks the      *)
(* source for something new, enqueues a campaign                           *)
(* (packages/db/src/services/automation.ts), saves the cursor that tells   *)
(* what was sent, and re-arms the automation.  Each of these is a          *)
(* statement of its own, and operators, webhooks, other workers and        *)
(* crashes come in between.                                                *)
(*                                                                         *)
(* next_run_at is kept as the time left until it; a worker remembers, of   *)
(* the value it selected, only whether somebody has written another since  *)
(* (two writes in one millisecond are told apart).  A web request reads    *)
(* and writes in one turn of the event loop, so one request at a time is   *)
(* between the two.  The fan-out of the campaigns is modelled in Fanout.   *)
(* Definitions with an underscore are mutants of the ones they precede.    *)
(***************************************************************************)
EXTENDS Integers, FiniteSets

CONSTANTS
  Workers,      \* worker processes sharing the database file
  Automations,  \* automations.id
  NULL,         \* no automation, no next run
  Tables,       \* rows the table may hold at the start
  Configs,      \* type, rotation list length and drip length of an automation,
                \* and whether it has a site
  Items,        \* entries a feed may show, rotation turns
  TooLong,      \* cursors config_json may not hold: longer than 500 characters,
                \* or turns beyond a million
  Audience,     \* active subscribers of the site
  FanoutLimit,  \* most deliveries a drip may queue at once (100 000)
  Stamps,       \* x-pushpanel-timestamp of the webhooks
  DueLimit,     \* DUE_LIMIT
  ClaimWindow,  \* the claim sentinel's five minutes, in ticks
  RetryDelay,   \* FAILURE_RETRY_MINUTES, in ticks
  Interval,     \* interval_minutes or the cron's next time, in ticks
  MaxFailures,  \* MAX_CONSECUTIVE_FAILURES
  MaxRedirects, \* MAX_REDIRECTS
  MaxRun,       \* longest time a stage may take, in ticks
  MaxRequests,  \* bound: operators' and publishers' requests
  MaxChanges,   \* bound: changes of the sources
  MaxFaults     \* bound: crashes and throwing statements

Kinds == {"push_on_publish", "welcome_push", "drip", "automagic_dynamic",
          "automagic_static", "feed"}

ASSUME AutomationAssumption ==
  /\ Automations \subseteq Nat /\ NULL \notin Nat
  /\ Tables \subseteq SUBSET Automations
  /\ Configs \subseteq [type : Kinds, list : Nat, steps : Nat, site : BOOLEAN]
  /\ Items \subseteq Nat \ {0} /\ TooLong \subseteq Items
  /\ Audience \in Nat /\ FanoutLimit \in Nat
  /\ Stamps \subseteq Nat \ {0}
  /\ DueLimit \in Nat \ {0}
  /\ ClaimWindow \in Nat \ {0} /\ RetryDelay \in Nat \ {0} /\ Interval \in Nat \ {0}
  /\ MaxFailures \in Nat \ {0} /\ MaxRedirects \in Nat /\ MaxRun \in Nat
  /\ MaxRequests \in Nat /\ MaxChanges \in Nat /\ MaxFaults \in Nat

\* A turn that may be saved has a next one.
ASSUME TurnAssumption == \A i \in (Items \cup {0}) \ TooLong : i + 1 \in Items

VARIABLES
  config,    \* automations.type, domain_id and what of config_json never changes
  status,    \* automations.status, "none" before the row exists, "gone" after
  due,       \* ticks until next_run_at, NULL when it is not set
  cursor,    \* last_item_guid, last_video_id or rotation_index; 0 when unset
  fails,     \* consecutive_failures
  seen,      \* last_seen_ts
  newest,    \* first entry the source shows, 0 when it shows none
  answer,    \* redirects before the source answers, and whether it does
  stage,     \* the statement each worker is at
  queue,     \* selected rows, next_run_at unchanged since
  snapshot,  \* cursor and failures as selected
  at,        \* the automation the worker has claimed
  item,      \* what it is about to send
  left,      \* drip steps still to send
  outcome,   \* of the handler
  age,       \* ticks since the stage's `now`
  request,   \* the panel or webhook request between its read and its write
  requests, changes, faults,  \* how much of each bound is used up
  pushed,    \* observer: last item a campaign was made of
  excused,   \* observer: its cursor was lost or a run overlapped
  rearmed,   \* observer: made due again while a run was under way
  waiting    \* observer: a webhook was accepted and no run began since

row      == <<config, status, due, cursor, fails, seen>>
source   == <<newest, answer>>
worker   == <<stage, queue, snapshot, at, item, left, outcome, age>>
budget   == <<requests, changes, faults>>
observer == <<pushed, excused, rearmed, waiting>>
vars     == <<row, source, worker, request, budget, observer>>

-----------------------------------------------------------------------------
Stages   == {"idle", "claiming", "handling", "pushing", "saving", "booking"}
Ops      == {"none", "toggle", "run", "trigger"}
NoRequest == [op |-> "none", id |-> NULL, was |-> "none", stamp |-> 0]

\* Types whose handler keeps a cursor, and types that come round by themselves.
Cursored == {a \in Automations : config[a].type \in {"feed", "automagic_static"}}
Polled   == {a \in Automations : config[a].type \in {"feed", "automagic_static", "automagic_dynamic"}}

TypeOK ==
  /\ config \in [Automations -> Configs]
  /\ status \in [Automations -> {"none", "active", "paused", "gone"}]
  /\ due \in [Automations -> Nat \cup {NULL}]
  /\ cursor \in [Automations -> Items \cup {0}]
  /\ fails \in [Automations -> Nat]
  /\ seen \in [Automations -> Stamps \cup {0}]
  /\ newest \in [Automations -> Items \cup {0}]
  /\ answer \in [Automations -> [hops : Nat, up : BOOLEAN]]
  /\ stage \in [Workers -> Stages]
  /\ queue \in [Workers -> SUBSET Automations]
  /\ snapshot \in [Workers -> [Automations -> [cursor : Items \cup {0}, fails : Nat]]]
  /\ at \in [Workers -> Automations \cup {NULL}]
  /\ item \in [Workers -> Items \cup {0}]
  /\ left \in [Workers -> Nat]
  /\ outcome \in [Workers -> {"ok", "error"}]
  /\ age \in [Workers -> 0..MaxRun]
  /\ request \in [op : Ops, id : Automations \cup {NULL},
                  was : {"none", "active", "paused"}, stamp : Stamps \cup {0}]
  /\ requests \in Nat /\ changes \in Nat /\ faults \in Nat
  /\ pushed \in [Automations -> Items \cup {0}]
  /\ excused \in [Automations -> BOOLEAN]
  /\ rearmed \in [Automations -> BOOLEAN]
  /\ waiting \in [Automations -> BOOLEAN]

Blank == [a \in Automations |-> [cursor |-> 0, fails |-> 0]]

Fetched == {a \in Automations : config[a].type \in {"feed", "automagic_dynamic"}}

\* A source answers after some redirects, or not at all.
Answers == [hops : {MaxRedirects, MaxRedirects + 1}, up : {TRUE}] \cup [hops : {0}, up : {FALSE}]

\* A source is heard unless a hop is refused, times out, fails or is too
\* large, or there are more redirects than allowed.
SafeFetch(a) == answer[a].up /\ answer[a].hops <= MaxRedirects

\* The first run a new row is given (actions.ts:117).
FirstRun(a) == IF a \in Polled THEN 0 ELSE NULL

\* The panel gives every automation a site; a row without one was there before.
Init ==
  /\ config \in [Automations -> Configs]
  /\ \E rows \in Tables :
       /\ status = [a \in Automations |-> IF a \in rows THEN "active" ELSE "none"]
       /\ due = [a \in Automations |-> IF a \in rows THEN FirstRun(a) ELSE NULL]
  /\ \A a \in Automations : status[a] = "none" => config[a].site
  /\ cursor = [a \in Automations |-> 0]
  /\ fails = [a \in Automations |-> 0]
  /\ seen = [a \in Automations |-> 0]
  /\ newest \in [Automations -> Items \cup {0}]
  /\ \A a \in Automations : newest[a] # 0 => a \in Fetched /\ status[a] = "active"
  /\ answer = [a \in Automations |-> [hops |-> MaxRedirects, up |-> TRUE]]
  /\ stage = [w \in Workers |-> "idle"]
  /\ queue = [w \in Workers |-> {}]
  /\ snapshot = [w \in Workers |-> Blank]
  /\ at = [w \in Workers |-> NULL]
  /\ item = [w \in Workers |-> 0]
  /\ left = [w \in Workers |-> 0]
  /\ outcome = [w \in Workers |-> "ok"]
  /\ age = [w \in Workers |-> 0]
  /\ request = NoRequest
  /\ requests = 0 /\ changes = 0 /\ faults = 0
  /\ pushed = [a \in Automations |-> 0]
  /\ excused = [a \in Automations |-> FALSE]
  /\ rearmed = [a \in Automations |-> FALSE]
  /\ waiting = [a \in Automations |-> FALSE]


-----------------------------------------------------------------------------
(* Time and the claim.                                                     *)

\* What is left of d ticks counted from the stage's `now`.
Left(w, d) == IF d > age[w] THEN d - age[w] ELSE 0

Due == {a \in Automations : status[a] = "active" /\ due[a] = 0}

\* Up to DueLimit of them by id.
FirstOf(S) == {a \in S : Cardinality({b \in S : b < a}) < DueLimit}

\* Nobody's selected next_run_at of a still holds.
Unselect(a) == [w \in Workers |-> queue[w] \ {a}]

Running(a)      == {w \in Workers : at[w] = a}
Others(w, a)    == Running(a) \ {w}
Selected(a)     == {w \in Workers : a \in queue[w]}
Goto(w, s)      == stage' = [stage EXCEPT ![w] = s]
Conclude(w, o)  == Goto(w, "booking") /\ outcome' = [outcome EXCEPT ![w] = o]

Select(w) ==
  /\ stage[w] = "idle" /\ Due # {}
  /\ Goto(w, "claiming")
  /\ queue' = [queue EXCEPT ![w] = FirstOf(Due)]
  /\ snapshot' = [snapshot EXCEPT ![w] = [a \in Automations |->
       IF a \in FirstOf(Due) THEN [cursor |-> cursor[a], fails |-> fails[a]] ELSE Blank[a]]]
  /\ age' = [age EXCEPT ![w] = 0]
  /\ UNCHANGED <<row, source, at, item, left, outcome, request, budget, observer>>

\* config_json is refused when a saved cursor is longer than its schema allows.
Parses(c) == c \notin TooLong

Sentinel_Now(w) == 0
Sentinel(w) == Left(w, ClaimWindow)

\* The compare-and-swap on next_run_at, guarded by the status.
Claim(w) ==
  /\ stage[w] = "claiming" /\ at[w] = NULL
  /\ \E a \in queue[w] :
       /\ \A b \in queue[w] : a <= b
       /\ IF status[a] = "active"
          THEN /\ due' = [due EXCEPT ![a] = Sentinel(w)]
               /\ queue' = Unselect(a)
               /\ at' = [at EXCEPT ![w] = a]
               /\ waiting' = [waiting EXCEPT ![a] = FALSE]
               /\ excused' = [excused EXCEPT ![a] = @ \/ Running(a) # {}]
               /\ IF Parses(snapshot[w][a].cursor)
                  THEN Goto(w, "handling") /\ UNCHANGED outcome
                  ELSE Conclude(w, "error")
          ELSE /\ queue' = [queue EXCEPT ![w] = @ \ {a}]
               /\ UNCHANGED <<due, at, waiting, excused, stage, outcome>>
  /\ UNCHANGED <<config, status, cursor, fails, seen, source, snapshot, item, left, age,
                 request, budget, pushed, rearmed>>

\* The rows are worked through.
Finish(w) ==
  /\ stage[w] = "claiming" /\ at[w] = NULL /\ queue[w] = {}
  /\ Goto(w, "idle")
  /\ snapshot' = [snapshot EXCEPT ![w] = Blank]
  /\ age' = [age EXCEPT ![w] = 0]
  /\ UNCHANGED <<row, source, queue, at, item, left, outcome, request, budget, observer>>

-----------------------------------------------------------------------------
(* The handlers of the types.                                              *)

HasSite(a) == config[a].site

\* The first entry of the feed, when its key differs from the saved cursor.
LatestItem_FirstOnly(a, c) == IF c # 0 THEN 0 ELSE newest[a]
LatestItem(a, c) == IF newest[a] = c THEN 0 ELSE newest[a]

\* The next turn of the rotation list.
PickStaticPost(a, c) == IF config[a].list = 0 THEN 0 ELSE c + 1

DripTooLarge(a) == Audience * config[a].steps > FanoutLimit

\* handleAutomation up to the campaign.  Without a site it fails; nothing to send is no failure for a
\* feed, and is one for the AutoMagic types and drips.
Handle(w) ==
  LET a == at[w] IN LET c == snapshot[w][a].cursor IN
  /\ stage[w] = "handling"
  /\ \/ /\ ~HasSite(a)
        /\ Conclude(w, "error") /\ UNCHANGED <<item, left>>
     \/ /\ HasSite(a) /\ config[a].type \in {"push_on_publish", "welcome_push"}
        /\ Goto(w, "pushing") /\ UNCHANGED <<item, left, outcome>>
     \/ /\ HasSite(a) /\ a \in Fetched /\ ~SafeFetch(a)
        /\ Conclude(w, "error") /\ UNCHANGED <<item, left>>
     \/ /\ HasSite(a) /\ config[a].type = "feed" /\ SafeFetch(a)
        /\ item' = [item EXCEPT ![w] = LatestItem(a, c)]
        /\ IF LatestItem(a, c) = 0 THEN Conclude(w, "ok") ELSE Goto(w, "pushing") /\ UNCHANGED outcome
        /\ UNCHANGED left
     \/ /\ HasSite(a) /\ config[a].type = "automagic_dynamic" /\ SafeFetch(a)
        /\ IF newest[a] = 0 THEN Conclude(w, "error") ELSE Goto(w, "pushing") /\ UNCHANGED outcome
        /\ UNCHANGED <<item, left>>
     \/ /\ HasSite(a) /\ config[a].type = "automagic_static"
        /\ item' = [item EXCEPT ![w] = PickStaticPost(a, c)]
        /\ IF PickStaticPost(a, c) = 0 THEN Conclude(w, "error") ELSE Goto(w, "pushing") /\ UNCHANGED outcome
        /\ UNCHANGED left
     \/ /\ HasSite(a) /\ config[a].type = "drip"
        /\ IF config[a].steps = 0 \/ DripTooLarge(a)
           THEN Conclude(w, "error") /\ UNCHANGED left
           ELSE Goto(w, "pushing") /\ left' = [left EXCEPT ![w] = config[a].steps] /\ UNCHANGED outcome
        /\ UNCHANGED item
  /\ UNCHANGED <<row, source, queue, snapshot, at, age, request, budget, observer>>

\* enqueueAutomationCampaign, which refuses when the row is gone.  Of a drip
\* one campaign per step.
Enqueue(w) ==
  LET a == at[w] IN
  /\ stage[w] = "pushing" /\ status[a] # "gone"
  /\ pushed' = [pushed EXCEPT ![a] = IF a \in Cursored THEN item[w] ELSE @]
  /\ left' = [left EXCEPT ![w] = IF @ > 0 THEN @ - 1 ELSE 0]
  /\ IF a \in Cursored THEN Goto(w, "saving") /\ UNCHANGED outcome
     ELSE IF left[w] > 1 THEN UNCHANGED <<stage, outcome>>
     ELSE Conclude(w, "ok")
  /\ UNCHANGED <<row, source, queue, snapshot, at, item, age, request, budget,
                 excused, rearmed, waiting>>

EnqueueRefused(w) ==
  /\ stage[w] = "pushing"
  /\ \/ status[at[w]] = "gone" /\ UNCHANGED budget
     \/ faults < MaxFaults /\ faults' = faults + 1 /\ UNCHANGED <<requests, changes>>
  /\ Conclude(w, "error")
  /\ left' = [left EXCEPT ![w] = 0]
  /\ UNCHANGED <<row, source, queue, snapshot, at, item, age, request, observer>>

SaveCursor_Never(a, c) == cursor
SaveCursor(a, c) == IF status[a] \in {"active", "paused"} THEN [cursor EXCEPT ![a] = c] ELSE cursor

\* saveAutomationConfig merges the cursor into the live row; a failing write
\* is dropped.
Save(w) ==
  LET a == at[w] IN
  /\ stage[w] = "saving"
  /\ \/ /\ cursor' = SaveCursor(a, item[w])
        /\ excused' = [excused EXCEPT ![a] = item[w] # pushed[a] \/ Others(w, a) # {} \/ Selected(a) # {}]
        /\ UNCHANGED budget
     \/ /\ faults < MaxFaults /\ faults' = faults + 1
        /\ excused' = [excused EXCEPT ![a] = TRUE]
        /\ UNCHANGED <<cursor, requests, changes>>
  /\ Conclude(w, "ok")
  /\ UNCHANGED <<config, status, due, fails, seen, source, queue, snapshot, at, item, left,
                 age, request, pushed, rearmed, waiting>>

-----------------------------------------------------------------------------
(* The bookkeeping after a run.                                            *)

NextRun_OkOnly(w) == IF outcome[w] = "ok" /\ at[w] \in Polled THEN Left(w, Interval) ELSE NULL
NextRun(w) ==
  IF outcome[w] = "error" THEN Left(w, RetryDelay)
  ELSE IF at[w] \in Polled THEN Left(w, Interval) ELSE NULL

Failures(w) == IF outcome[w] = "ok" THEN 0 ELSE snapshot[w][at[w]].fails + 1
AutoPaused(w) == outcome[w] = "error" /\ Failures(w) >= MaxFailures

MayBook_Always(w) == status[at[w]] # "gone"
MayBook(w) == status[at[w]] = "active"

\* The worker is done with its automation.
Release(w) ==
  LET a == at[w] IN
  /\ Goto(w, "claiming")
  /\ at' = [at EXCEPT ![w] = NULL]
  /\ item' = [item EXCEPT ![w] = 0]
  /\ outcome' = [outcome EXCEPT ![w] = "ok"]
  /\ rearmed' = [rearmed EXCEPT ![a] = @ /\ Others(w, a) # {}]
  /\ UNCHANGED <<snapshot, left, age>>

Book(w) ==
  LET a == at[w] IN
  /\ stage[w] = "booking"
  /\ IF MayBook(w)
     THEN /\ status' = [status EXCEPT ![a] = IF AutoPaused(w) THEN "paused" ELSE "active"]
          /\ due' = [due EXCEPT ![a] = IF AutoPaused(w) THEN NULL ELSE NextRun(w)]
          /\ fails' = [fails EXCEPT ![a] = Failures(w)]
          /\ queue' = Unselect(a)
     ELSE UNCHANGED <<status, due, fails, queue>>
  /\ Release(w)
  /\ UNCHANGED <<config, cursor, seen, source, request, budget, pushed, excused, waiting>>

\* The bookkeeping throws and the sentinel stays.
BookFails(w) ==
  LET a == at[w] IN
  /\ stage[w] = "booking" /\ faults < MaxFaults
  /\ faults' = faults + 1
  /\ excused' = [excused EXCEPT ![a] = @ \/ Selected(a) # {}]
  /\ Release(w)
  /\ UNCHANGED <<row, source, queue, request, requests, changes, pushed, waiting>>

\* The process dies; campaigns already queued stay.
Crash(w) ==
  LET a == at[w] IN
  /\ stage[w] # "idle" /\ faults < MaxFaults
  /\ faults' = faults + 1
  /\ Goto(w, "idle")
  /\ queue' = [queue EXCEPT ![w] = {}]
  /\ snapshot' = [snapshot EXCEPT ![w] = Blank]
  /\ at' = [at EXCEPT ![w] = NULL]
  /\ item' = [item EXCEPT ![w] = 0]
  /\ left' = [left EXCEPT ![w] = 0]
  /\ outcome' = [outcome EXCEPT ![w] = "ok"]
  /\ age' = [age EXCEPT ![w] = 0]
  /\ IF a = NULL THEN UNCHANGED <<rearmed, excused>>
     ELSE /\ rearmed' = [rearmed EXCEPT ![a] = @ /\ Others(w, a) # {}]
          /\ excused' = [excused EXCEPT ![a] = @ \/ stage[w] = "saving" \/ Selected(a) # {}]
  /\ UNCHANGED <<row, source, request, requests, changes, pushed, waiting>>

-----------------------------------------------------------------------------
(* Operators and publishers: read, then write.                             *)

Spend == requests < MaxRequests /\ requests' = requests + 1 /\ UNCHANGED <<changes, faults>>
Ask(op, a, ts) == request' = [op |-> op, id |-> a, was |-> status[a], stamp |-> ts]
Exists(a) == status[a] \in {"active", "paused"}

CreateAutomation(a) ==
  /\ request = NoRequest /\ status[a] = "none" /\ Spend
  /\ status' = [status EXCEPT ![a] = "active"]
  /\ due' = [due EXCEPT ![a] = FirstRun(a)]
  /\ UNCHANGED <<config, cursor, fails, seen, source, worker, request, observer>>

DeleteAutomation(a) ==
  /\ request = NoRequest /\ Exists(a) /\ Spend
  /\ status' = [status EXCEPT ![a] = "gone"]
  /\ due' = [due EXCEPT ![a] = NULL]
  /\ queue' = Unselect(a)
  /\ UNCHANGED <<config, cursor, fails, seen, source, stage, snapshot, at, item, left,
                 outcome, age, request, observer>>

\* toggleAutomationAction and runAutomationNowAction read the status, the
\* webhook also its secret and whether it is of the publish type.
ReadToggle(a) == Exists(a) /\ Ask("toggle", a, 0)
ReadRunNow(a) == status[a] = "active" /\ Ask("run", a, 0)
ReadTrigger(a) ==
  /\ config[a].type = "push_on_publish" /\ status[a] = "active"
  /\ \E ts \in Stamps : Ask("trigger", a, ts)

Read ==
  /\ request = NoRequest /\ Spend
  /\ \E a \in Automations : ReadToggle(a) \/ ReadRunNow(a) \/ ReadTrigger(a)
  /\ UNCHANGED <<row, source, worker, observer>>

\* next_run_at is set to now, or cleared.
Arm(a, d) ==
  /\ due' = [due EXCEPT ![a] = d]
  /\ queue' = Unselect(a)
  /\ rearmed' = [rearmed EXCEPT ![a] = @ \/ (d = 0 /\ Running(a) # {})]

WriteToggle ==
  LET a == request.id IN
  /\ request.op = "toggle"
  /\ IF request.was = "active"
     THEN status' = [status EXCEPT ![a] = "paused"] /\ Arm(a, NULL)
     ELSE status' = [status EXCEPT ![a] = "active"] /\ Arm(a, 0)
  /\ UNCHANGED <<seen, waiting>>

WriteRunNow ==
  /\ request.op = "run"
  /\ Arm(request.id, 0)
  /\ UNCHANGED <<status, seen, waiting>>

TriggerTime_Unset == due[request.id]
TriggerTime == 0

\* Accepted once per timestamp, and only a newer one.
WriteTrigger ==
  LET a == request.id IN
  /\ request.op = "trigger" /\ seen[a] < request.stamp
  /\ Arm(a, TriggerTime)
  /\ seen' = [seen EXCEPT ![a] = request.stamp]
  /\ waiting' = [waiting EXCEPT ![a] = @ \/ Running(a) = {}]
  /\ UNCHANGED status

Refused ==
  \/ ~Exists(request.id)
  \/ request.op = "trigger" /\ seen[request.id] >= request.stamp

Write ==
  /\ request # NoRequest /\ request' = NoRequest
  /\ \/ Refused /\ UNCHANGED <<status, due, seen, queue, rearmed, waiting>>
     \/ ~Refused /\ (WriteToggle \/ WriteRunNow \/ WriteTrigger)
  /\ UNCHANGED <<config, cursor, fails, source, stage, snapshot, at, item, left, outcome,
                 age, budget, pushed, excused>>

\* A post appears or is withdrawn, the source moves, goes down or comes back.
Publish(a) ==
  /\ a \in Fetched /\ Exists(a)
  /\ changes < MaxChanges /\ changes' = changes + 1
  /\ \/ \E i \in Items \cup {0} : newest' = [newest EXCEPT ![a] = i] /\ UNCHANGED answer
     \/ \E r \in Answers : answer' = [answer EXCEPT ![a] = r] /\ UNCHANGED newest
  /\ UNCHANGED <<row, worker, request, requests, faults, observer>>

Elapsed == [a \in Automations |-> IF due[a] = NULL \/ due[a] = 0 THEN due[a] ELSE due[a] - 1]
Busy(w) == stage[w] # "idle"

Tick ==
  /\ \A w \in Workers : Busy(w) => age[w] < MaxRun
  /\ Elapsed # due \/ \E w \in Workers : Busy(w)
  /\ due' = Elapsed
  /\ age' = [w \in Workers |-> IF Busy(w) THEN age[w] + 1 ELSE age[w]]
  /\ UNCHANGED <<config, status, cursor, fails, seen, source, stage, queue, snapshot, at,
                 item, left, outcome, request, budget, observer>>

WorkerStep(w) == Select(w) \/ Claim(w) \/ Finish(w) \/ Handle(w) \/ Enqueue(w) \/ Save(w) \/ Book(w)
WorkerFault(w) == EnqueueRefused(w) \/ BookFails(w) \/ Crash(w)

Next ==
  \/ \E w \in Workers : WorkerStep(w) \/ WorkerFault(w)
  \/ \E a \in Automations : CreateAutomation(a) \/ DeleteAutomation(a) \/ Publish(a)
  \/ Read \/ Write \/ Tick

Spec == Init /\ [][Next]_vars

\* The worker's loop runs, a refused campaign is reported, a request is
\* answered and time passes.
Fairness ==
  /\ \A w \in Workers : WF_vars(WorkerStep(w) \/ EnqueueRefused(w))
  /\ WF_vars(Write) /\ WF_vars(Tick)
FairSpec == Spec /\ Fairness

-----------------------------------------------------------------------------
(* What the runner promises.                                               *)

\* A run takes less than the claim window.
Timely == MaxRun < ClaimWindow

\* Two workers never run one automation at once (automation.ts:64-71), unless
\* an operator or a webhook made it due again while it ran.
ExclusiveRun ==
  Timely => \A w, v \in Workers :
    at[w] # NULL /\ at[v] = at[w] => v = w \/ rearmed[at[w]]

\* The same entry or rotation turn is not sent twice in a row
\* (automation.ts:197-199, 384-389), unless a crash or a failing statement
\* lost the cursor or two runs overlapped.
NoRepeat ==
  \A w \in Workers :
    stage[w] = "pushing" /\ at[w] \in Cursored =>
      item[w] # pushed[at[w]] \/ excused[at[w]]

\* A type that comes round by itself never drops out of the schedule: while
\* it is active it has a next run, whatever operators and workers wrote.
ActiveIsArmed == \A a \in Polled : status[a] = "active" => due[a] # NULL
ScheduleInvariant == TypeOK /\ ActiveIsArmed

\* A pause landing in the middle of a run holds (automation.ts:121-125): only
\* an operator makes a paused automation active again.
PauseHolds ==
  [][\A a \in Automations :
       status[a] = "paused" /\ status'[a] = "active" =>
         request.op = "toggle" /\ request.id = a /\ request' = NoRequest]_vars

\* An automation with a next run is run, and one that comes round by itself is
\* run again and again, also when the worker that claimed it crashed.
AutomationRuns ==
  \A a \in Automations :
    status[a] = "active" /\ (due[a] # NULL \/ a \in Polled) ~>
      status[a] # "active" \/ Running(a) # {}

\* An accepted webhook is followed by a run (trigger/route.ts:15), when none
\* was under way as it was accepted.
TriggerHeard ==
  \A a \in Automations : waiting[a] ~> ~waiting[a] \/ status[a] # "active"

\* What the feed of a site shows first is sent, unless it shows something else,
\* cannot be read, or the automation is stopped.
NewestPushed ==
  \A a \in Automations, i \in Items :
    config[a].type = "feed" /\ HasSite(a) /\ status[a] = "active" /\ newest[a] = i ~>
      \/ pushed[a] = i \/ cursor[a] = i \/ newest[a] # i
      \/ ~SafeFetch(a) \/ status[a] # "active"

\* A source that stays dead, or an automation that has no site to send to.
Hopeless(a) == ~HasSite(a) \/ (a \in Fetched /\ ~SafeFetch(a))

\* An automation that comes round by itself and fails every time is paused in
\* the end (automation.ts:23), instead of being polled for ever.
Quarantined ==
  \A a \in Automations :
    <>[](a \in Polled /\ Hopeless(a)) => <>[](status[a] # "active")

\* Whatever makes an automation due, the hour or a webhook, it is run.
DueRuns == AutomationRuns /\ TriggerHeard

\* A feed is followed: what is new in it is sent, and a dead one is given up.
FeedFollowed == NewestPushed /\ Quarantined

=============================================================================
