--------------------------- MODULE Sender_proofs ----------------------------
(***************************************************************************)
(* Theorems about Sender for every set of workers, rows, campaigns and     *)
(* every value of the other constants: its types, the claim protocol and   *)
(* what follows from it, and the refinement of DeliveryLease.              *)
(***************************************************************************)
EXTENDS Sender, TLAPS

LEMMA TypeInit == Init => TypeOK
  BY SenderAssumption DEF Init, TypeOK, CampaignStatus, DomainStatus, DeliveryStatus, Phase, Task

\* Helpers that several actions share keep the types.
LEMMA ForgetType ==
  ASSUME TypeOK, NEW w \in Workers, Forget(w)
  PROVE  /\ phase' \in [Workers -> Phase]
         /\ now' \in [Workers -> Nat]
         /\ terminated' \in [Workers -> SUBSET Campaigns]
         /\ candidates' \in [Workers -> SUBSET Deliveries]
         /\ task' \in [Workers -> [Deliveries -> Task]]
         /\ halted' \in [Workers -> SUBSET Campaigns]
         /\ paused' \in [Workers -> SUBSET Domains]
         /\ toFinalize' \in [Workers -> SUBSET Campaigns]
         /\ verdict' \in [Workers -> {NULL} \cup (Campaigns \X {"done", "failed"})]
  BY DEF TypeOK, Forget, Phase, Task

LEMMA RequeueType ==
  ASSUME TypeOK, NEW S, Requeue(S)
  PROVE  /\ status' \in [Deliveries -> DeliveryStatus]
         /\ claimed_at' \in [Deliveries -> Nat \cup {NULL}]
  BY DEF TypeOK, Requeue, DeliveryStatus

LEMMA SettleType ==
  ASSUME TypeOK, NEW w \in Workers, NEW d \in Deliveries, NEW s \in DeliveryStatus, Settle(w, d, s)
  PROVE  status' \in [Deliveries -> DeliveryStatus]
  BY DEF TypeOK, Settle

LEMMA RetryOrFailType ==
  ASSUME TypeOK, NEW w \in Workers, NEW d \in Deliveries, RetryOrFail(w, d)
  PROVE  /\ status' \in [Deliveries -> DeliveryStatus]
         /\ claimed_at' \in [Deliveries -> Nat \cup {NULL}]
         /\ attempts' \in [Deliveries -> 0..MaxAttempts]
         /\ next_attempt_at' \in [Deliveries -> Nat]
<1>1. CASE attempts[d] >= MaxAttempts
  <2>1. Settle(w, d, "failed")
    BY <1>1 DEF RetryOrFail
  <2> QED
    BY <2>1, SettleType DEF Settle, TypeOK, DeliveryStatus
<1>2. CASE ~(attempts[d] >= MaxAttempts)
  <2>1. Requeue({e \in {d} : Owned(w, e)})
    BY <1>2 DEF RetryOrFail
  <2>2. now[w] + Backoff \in Nat
    BY SenderAssumption DEF TypeOK
  <2>3. WithinBound(now[w] + Backoff) \in Nat
    BY <2>2, SenderAssumption DEF WithinBound
  <2> QED
    BY <1>2, <2>1, <2>3, RequeueType DEF RetryOrFail, TypeOK
<1> QED  BY <1>1, <1>2

LEMMA TypeHead ==
  ASSUME TypeOK, NEW w \in Workers,
         \/ BeginCycle(w) \/ ReadTerminated(w) \/ CancelTerminated(w)
         \/ SelectCandidates(w) \/ Claim(w)
         \/ LoadCampaigns(w) \/ LoadDomains(w)
  PROVE  TypeOK'
<1> USE SenderAssumption
<1>1. CASE BeginCycle(w)
  <2>1. phase' \in [Workers -> Phase] /\ now' \in [Workers -> Nat]
    BY <1>1 DEF BeginCycle, Enter, TypeOK, Phase
  <2> QED
    BY <1>1, <2>1, RequeueType DEF BeginCycle, TypeOK, settings, observer
<1>2. CASE ReadTerminated(w)
  BY <1>2 DEF ReadTerminated, Enter, TypeOK, Phase, rows, settings, observer
<1>3. CASE CancelTerminated(w)
  BY <1>3 DEF CancelTerminated, Enter, TypeOK, Phase, DeliveryStatus, settings, observer
<1>4. CASE SelectCandidates(w)
  <2> DEFINE found == {d \in Deliveries : Eligible(d, now[w])}
             first == {d \in found : Cardinality({e \in found : e < d}) < BatchSize}
  <2>1. CASE found = {}
    <3>1. Forget(w)
      BY <1>4, <2>1 DEF SelectCandidates
    <3> QED
      BY <1>4, <3>1, ForgetType DEF SelectCandidates, TypeOK, rows, settings, observer
  <2>2. CASE found # {}
    <3>1. first \subseteq Deliveries
      OBVIOUS
    <3>2. candidates' = [candidates EXCEPT ![w] = first] /\ Enter(w, "claiming")
          /\ UNCHANGED <<now, terminated, task, halted, paused, toFinalize, verdict>>
      BY <1>4, <2>2 DEF SelectCandidates
    <3> HIDE DEF first
    <3> QED
      BY <1>4, <3>1, <3>2 DEF SelectCandidates, Enter, TypeOK, Phase, rows, settings, observer
  <2> QED
    BY <2>1, <2>2
<1>5. CASE Claim(w)
  <2> DEFINE won == Won(w)
  <2>1. /\ status' \in [Deliveries -> DeliveryStatus]
        /\ claimed_at' \in [Deliveries -> Nat \cup {NULL}]
        /\ attempts' \in [Deliveries -> 0..MaxAttempts]
    BY <1>5 DEF Claim, TypeOK, DeliveryStatus
  <2>2. CASE won = {}
    <3>1. Forget(w)
      BY <1>5, <2>2 DEF Claim
    <3> QED
      BY <1>5, <2>1, <3>1, ForgetType DEF Claim, TypeOK, settings, observer
  <2>3. CASE won # {}
    <3>1. /\ task' = [task EXCEPT ![w] = [d \in Deliveries |-> IF d \in won THEN "todo" ELSE "none"]]
          /\ candidates' = [candidates EXCEPT ![w] = {}]
          /\ Enter(w, "loading")
          /\ UNCHANGED <<now, terminated, halted, paused, toFinalize, verdict>>
      BY <1>5, <2>3 DEF Claim
    <3> HIDE DEF won
    <3> QED
      BY <1>5, <2>1, <3>1 DEF Claim, Enter, TypeOK, Phase, Task, settings, observer
  <2> QED
    BY <2>2, <2>3
<1>6. CASE LoadCampaigns(w)
  BY <1>6 DEF LoadCampaigns, Enter, TypeOK, Phase, rows, settings, observer
<1>7. CASE LoadDomains(w)
  BY <1>7 DEF LoadDomains, Enter, TypeOK, Phase, rows, settings, observer
<1> QED
  BY <1>1, <1>2, <1>3, <1>4, <1>5, <1>6, <1>7

LEMMA TypePool ==
  ASSUME TypeOK, NEW w \in Workers, NEW d \in Deliveries,
         \/ FailUnsent(w, d) \/ CancelUnsent(w, d) \/ ParkUnsent(w, d) \/ Push(w, d)
         \/ ProviderAccepts(w, d) \/ SettleSent(w, d) \/ SettleGone(w, d)
         \/ SettleRejected(w, d) \/ SettleRetry(w, d)
  PROVE  TypeOK'
<1> USE SenderAssumption DEF rows, settings, cycle, observer, Task, Finish
<1>1. CASE FailUnsent(w, d)
  <2>1. status' \in [Deliveries -> DeliveryStatus]
    BY <1>1, SettleType DEF FailUnsent, DeliveryStatus
  <2> QED  BY <1>1, <2>1 DEF FailUnsent, Settle, TypeOK
<1>2. CASE CancelUnsent(w, d)
  <2>1. status' \in [Deliveries -> DeliveryStatus]
    BY <1>2, SettleType DEF CancelUnsent, DeliveryStatus
  <2> QED  BY <1>2, <2>1 DEF CancelUnsent, Settle, TypeOK
<1>3. CASE ParkUnsent(w, d)
  BY <1>3, RequeueType DEF ParkUnsent, TypeOK
<1>4. CASE Push(w, d)
  BY <1>4 DEF Push, TypeOK
<1>5. CASE ProviderAccepts(w, d)
  BY <1>5 DEF ProviderAccepts, TypeOK
<1>6. CASE SettleSent(w, d)
  <2>1. status' \in [Deliveries -> DeliveryStatus]
    BY <1>6, SettleType DEF SettleSent, DeliveryStatus
  <2> QED  BY <1>6, <2>1 DEF SettleSent, Settle, Lose, TypeOK
<1>7. CASE SettleGone(w, d)
  <2>1. status' \in [Deliveries -> DeliveryStatus]
    BY <1>7, SettleType DEF SettleGone, DeliveryStatus
  <2>2. \/ subscribed' = [subscribed EXCEPT ![SubscriberOf[d]] = FALSE] /\ faults' = faults
        \/ subscribed' = subscribed /\ faults' = faults
        \/ subscribed' = subscribed /\ faults' = faults + 1
    BY <1>7 DEF SettleGone
  <2>3. subscribed' \in [Subscribers -> BOOLEAN]
    BY <2>2 DEF TypeOK
  <2>4. faults' \in Nat
    BY <2>2 DEF TypeOK
  <2> QED  BY <1>7, <2>1, <2>3, <2>4 DEF SettleGone, Settle, TypeOK
<1>8. CASE SettleRejected(w, d)
  <2>1. status' \in [Deliveries -> DeliveryStatus]
    BY <1>8, SettleType DEF SettleRejected, DeliveryStatus
  <2> QED  BY <1>8, <2>1 DEF SettleRejected, Settle, TypeOK
<1>9. CASE SettleRetry(w, d)
  BY <1>9, RetryOrFailType DEF SettleRetry, TypeOK
<1> QED
  BY <1>1, <1>2, <1>3, <1>4, <1>5, <1>6, <1>7, <1>8, <1>9

LEMMA TypeFault ==
  ASSUME TypeOK, NEW w \in Workers, Fault(w)
  PROVE  TypeOK'
<1> USE SenderAssumption DEF rows, settings, cycle, observer
<1>1. CASE Crash(w)
  BY <1>1, ForgetType DEF Crash, Lose, TypeOK
<1>2. CASE BatchThrows(w)
  <2>1. status' \in [Deliveries -> DeliveryStatus] /\ claimed_at' \in [Deliveries -> Nat \cup {NULL}]
    BY <1>2, RequeueType DEF BatchThrows, TypeOK
  <2> QED  BY <1>2, <2>1, ForgetType DEF BatchThrows, TypeOK
<1>3. ASSUME NEW d \in Deliveries, AnswerLost(w, d) PROVE TypeOK'
  BY <1>3, RetryOrFailType DEF AnswerLost, Lose, Finish, Task, TypeOK
<1>4. ASSUME NEW d \in Deliveries, DeliveryThrows(w, d) PROVE TypeOK'
  <2>1. status' \in [Deliveries -> DeliveryStatus] /\ claimed_at' \in [Deliveries -> Nat \cup {NULL}]
    BY <1>4, RequeueType DEF DeliveryThrows, TypeOK
  <2> QED  BY <1>4, <2>1 DEF DeliveryThrows, Lose, Finish, Task, TypeOK
<1> QED
  BY <1>1, <1>2, <1>3, <1>4 DEF Fault

LEMMA TypeTail ==
  ASSUME TypeOK, NEW w \in Workers,
         \/ FinishPool(w) \/ (\E c \in Campaigns : CountOutcomes(w, c))
         \/ WriteVerdict(w) \/ EndCycle(w)
  PROVE  TypeOK'
<1> USE SenderAssumption DEF rows, settings, cycle, observer
<1>1. CASE FinishPool(w)
  <2>1. {CampaignOf[d] : d \in Batch(w)} \subseteq Campaigns
    BY DEF Batch
  <2> QED  BY <1>1, <2>1 DEF FinishPool, Enter, Phase, TypeOK
<1>2. ASSUME NEW c \in Campaigns, CountOutcomes(w, c) PROVE TypeOK'
  <2>1. verdict' \in [Workers -> {NULL} \cup (Campaigns \X {"done", "failed"})]
    BY <1>2 DEF CountOutcomes, TypeOK
  <2>2. toFinalize' = toFinalize \/ toFinalize' = [toFinalize EXCEPT ![w] = @ \ {c}]
    BY <1>2 DEF CountOutcomes
  <2>3. toFinalize[w] \ {c} \in SUBSET Campaigns
    BY DEF TypeOK
  <2>4. toFinalize' \in [Workers -> SUBSET Campaigns]
    BY <2>2, <2>3 DEF TypeOK
  <2> QED  BY <1>2, <2>1, <2>4 DEF CountOutcomes, TypeOK
<1>3. CASE WriteVerdict(w)
  <2>1. verdict[w] \in Campaigns \X {"done", "failed"}
    BY <1>3 DEF WriteVerdict, TypeOK
  <2>2. campaign' \in [Campaigns -> CampaignStatus]
    BY <1>3, <2>1 DEF WriteVerdict, TypeOK, CampaignStatus
  <2> QED  BY <1>3, <2>1, <2>2 DEF WriteVerdict, TypeOK
<1>4. CASE EndCycle(w)
  BY <1>4, ForgetType DEF EndCycle, TypeOK
<1> QED
  BY <1>1, <1>2, <1>3, <1>4

LEMMA TypeEnvironment == ASSUME TypeOK, Environment PROVE TypeOK'
<1> USE SenderAssumption DEF rows, settings, cycle, observer, CampaignStatus, DomainStatus
<1>1. ASSUME NEW c \in Campaigns, CancelCampaign(c) PROVE TypeOK'
  BY <1>1 DEF CancelCampaign, TypeOK, DeliveryStatus
<1>2. ASSUME NEW c \in Campaigns, RetryFailed(c) PROVE TypeOK'
  BY <1>2, RequeueType DEF RetryFailed, FailedRows, TypeOK
<1>3. ASSUME NEW c \in Campaigns, FanoutCompletes(c) PROVE TypeOK'
  BY <1>3 DEF FanoutCompletes, TypeOK
<1>4. ASSUME NEW c \in Campaigns, FanoutFails(c) PROVE TypeOK'
  <2>1. /\ campaign' = [campaign EXCEPT ![c] = "failed"]
        /\ faults' = faults + 1
        /\ UNCHANGED <<rows, domain, subscribed, cycle, clock, observer>>
    BY <1>4 DEF FanoutFails
  <2>2. audience_complete' = audience_complete \/ audience_complete' = [audience_complete EXCEPT ![c] = TRUE]
    BY <1>4 DEF FanoutFails
  <2>3. audience_complete' \in [Campaigns -> BOOLEAN]
    BY <2>2 DEF TypeOK
  <2>4. campaign' \in [Campaigns -> CampaignStatus] /\ faults' \in Nat
    BY <2>1 DEF TypeOK
  <2> QED  BY <2>1, <2>3, <2>4 DEF TypeOK
<1>5. ASSUME NEW c \in Campaigns, ReapDrained(c) PROVE TypeOK'
  BY <1>5 DEF ReapDrained, TypeOK
<1>6. ASSUME NEW g \in Domains, NEW s \in DomainStatus, SetDomainStatus(g, s) PROVE TypeOK'
  BY <1>6 DEF SetDomainStatus, TypeOK
<1>7. ASSUME NEW s \in Subscribers, Unsubscribe(s) PROVE TypeOK'
  BY <1>7 DEF Unsubscribe, TypeOK
<1>8. CASE Tick
  BY <1>8 DEF Tick, TypeOK
<1> QED
  BY <1>1, <1>2, <1>3, <1>4, <1>5, <1>6, <1>7, <1>8 DEF Environment

LEMMA TypeNext == TypeOK /\ [Next]_vars => TypeOK'
<1> SUFFICES ASSUME TypeOK, [Next]_vars PROVE TypeOK'
  OBVIOUS
<1>1. ASSUME NEW w \in Workers, CycleStep(w) PROVE TypeOK'
  BY <1>1, TypeHead, TypePool, TypeTail DEF CycleStep
<1>2. CASE UNCHANGED vars
  BY <1>2 DEF vars, rows, settings, cycle, observer, TypeOK
<1> QED
  BY <1>1, <1>2, TypeFault, TypeEnvironment DEF Next

\* Every variable keeps its type along every behaviour of the engine.
THEOREM TypeCorrect == Spec => []TypeOK
  BY TypeInit, TypeNext, PTL DEF Spec

-----------------------------------------------------------------------------
(* The claim protocol: if a live cycle is shorter than the stale window    *)
(* and claim tokens differ, LeaseInvariant is inductive.                   *)

\* What the pool does to row d once its delivery by w is over.
Ends(w, d) ==
  \/ FailUnsent(w, d) \/ CancelUnsent(w, d) \/ ParkUnsent(w, d)
  \/ SettleSent(w, d) \/ SettleGone(w, d) \/ SettleRejected(w, d) \/ SettleRetry(w, d)
  \/ AnswerLost(w, d) \/ DeliveryThrows(w, d)

-----------------------------------------------------------------------------
(* Frame facts: what a step leaves alone.                                  *)

\* A guarded write, a release and a backoff all spare the other rows, and d
\* itself when the claim is no longer w's.
LEMMA SettleFrame ==
  ASSUME TypeOK, NEW w \in Workers, NEW d \in Deliveries, NEW s, Settle(w, d, s)
  PROVE  /\ \A e \in Deliveries \ {d} : status'[e] = status[e] /\ claimed_at'[e] = claimed_at[e]
         /\ ~Owned(w, d) => status'[d] = status[d] /\ claimed_at'[d] = claimed_at[d]
         /\ Owned(w, d) => status'[d] = s
  BY DEF TypeOK, Settle

LEMMA RequeueFrame ==
  ASSUME NEW S, Requeue(S), NEW e \in Deliveries, e \notin S, TypeOK
  PROVE  status'[e] = status[e] /\ claimed_at'[e] = claimed_at[e]
  BY DEF TypeOK, Requeue

LEMMA RetryFrame ==
  ASSUME TypeOK, NEW w \in Workers, NEW d \in Deliveries, RetryOrFail(w, d)
  PROVE  /\ \A e \in Deliveries \ {d} : status'[e] = status[e] /\ claimed_at'[e] = claimed_at[e]
         /\ ~Owned(w, d) => status'[d] = status[d] /\ claimed_at'[d] = claimed_at[d]
<1>1. CASE attempts[d] >= MaxAttempts
  BY <1>1, SettleFrame DEF RetryOrFail
<1>2. CASE ~(attempts[d] >= MaxAttempts)
  <2>1. Requeue({e \in {d} : Owned(w, e)})
    BY <1>2 DEF RetryOrFail
  <2> QED
    BY <2>1, RequeueFrame
<1> QED  BY <1>1, <1>2

\* The end of one delivery: only w's task for d and row d change, the row
\* only if w still holds it.
LEMMA EndsFrame ==
  ASSUME TypeOK, NEW w \in Workers, NEW d \in Deliveries, Ends(w, d)
  PROVE  /\ task[w][d] \in InPlay
         /\ task' = [task EXCEPT ![w][d] = "finished"]
         /\ UNCHANGED <<phase, now, clock, accepted>>
         /\ \A e \in Deliveries \ {d} :
              status'[e] = status[e] /\ claimed_at'[e] = claimed_at[e]
         /\ ~Owned(w, d) => status'[d] = status[d] /\ claimed_at'[d] = claimed_at[d]
<1> USE DEF InPlay, Finish, Turn, observer
<1>1. CASE FailUnsent(w, d)
  BY <1>1, SettleFrame DEF FailUnsent
<1>2. CASE CancelUnsent(w, d)
  BY <1>2, SettleFrame DEF CancelUnsent
<1>3. CASE ParkUnsent(w, d)
  BY <1>3, RequeueFrame DEF ParkUnsent
<1>4. CASE SettleSent(w, d)
  BY <1>4, SettleFrame DEF SettleSent
<1>5. CASE SettleGone(w, d)
  BY <1>5, SettleFrame DEF SettleGone
<1>6. CASE SettleRejected(w, d)
  BY <1>6, SettleFrame DEF SettleRejected
<1>7. CASE SettleRetry(w, d)
  BY <1>7, RetryFrame DEF SettleRetry
<1>8. CASE AnswerLost(w, d)
  BY <1>8, RetryFrame DEF AnswerLost
<1>9. CASE DeliveryThrows(w, d)
  <2>1. CASE Requeue(Releasable(w, {d}))
    <3>1. Releasable(w, {d}) \subseteq {d} /\ (~Owned(w, d) => d \notin Releasable(w, {d}))
      BY DEF Releasable
    <3> QED
      BY <1>9, <2>1, <3>1, RequeueFrame DEF DeliveryThrows
  <2>2. CASE UNCHANGED <<status, claimed_at>>
    BY <1>9, <2>2 DEF DeliveryThrows
  <2> QED  BY <1>9, <2>1, <2>2 DEF DeliveryThrows
<1> QED
  BY <1>1, <1>2, <1>3, <1>4, <1>5, <1>6, <1>7, <1>8, <1>9 DEF Ends

\* Every step is one of these; each kind has its own argument below.
LEMMA StepKinds ==
  ASSUME Next
  PROVE  \/ \E w \in Workers :
              \/ BeginCycle(w) \/ ReadTerminated(w) \/ CancelTerminated(w)
              \/ SelectCandidates(w) \/ Claim(w) \/ LoadCampaigns(w) \/ LoadDomains(w)
              \/ FinishPool(w) \/ (\E c \in Campaigns : CountOutcomes(w, c))
              \/ WriteVerdict(w) \/ EndCycle(w) \/ Crash(w) \/ BatchThrows(w)
              \/ \E d \in Deliveries : Push(w, d) \/ ProviderAccepts(w, d) \/ Ends(w, d)
         \/ Environment
  BY DEF Next, CycleStep, Fault, Ends

\* Workers start, continue or end their cycles; the clock moves by Tick.
LEMMA CycleFrame ==
  ASSUME TypeOK, Next, NEW v \in Workers
  PROVE  /\ \/ phase'[v] = "idle"
            \/ phase[v] # "idle" /\ now'[v] = now[v]
            \/ BeginCycle(v) /\ now'[v] = clock
         /\ clock' = clock \/ Tick
<1> USE DEF TypeOK, Enter, cycle
<1>1. ASSUME NEW w \in Workers,
             \/ BeginCycle(w) \/ ReadTerminated(w) \/ CancelTerminated(w)
             \/ LoadCampaigns(w) \/ LoadDomains(w) \/ FinishPool(w) \/ WriteVerdict(w)
             \/ \E c \in Campaigns : CountOutcomes(w, c)
      PROVE  /\ \/ phase'[v] = "idle"
                \/ phase[v] # "idle" /\ now'[v] = now[v]
                \/ BeginCycle(v) /\ now'[v] = clock
             /\ clock' = clock
  BY <1>1 DEF BeginCycle, ReadTerminated, CancelTerminated, LoadCampaigns, LoadDomains,
              FinishPool, WriteVerdict, CountOutcomes
<1>2. ASSUME NEW w \in Workers, Forget(w)
      PROVE  phase'[v] = "idle" \/ (phase'[v] = phase[v] /\ now'[v] = now[v])
  BY <1>2 DEF Forget
<1>3. ASSUME NEW w \in Workers, EndCycle(w) \/ Crash(w) \/ BatchThrows(w)
      PROVE  Forget(w) /\ clock' = clock
  BY <1>3 DEF EndCycle, Crash, BatchThrows
<1>4. ASSUME NEW w \in Workers, SelectCandidates(w) \/ Claim(w)
      PROVE  /\ \/ Forget(w)
                \/ phase[w] # "idle" /\ (phase' = [phase EXCEPT ![w] = "claiming"]
                     \/ phase' = [phase EXCEPT ![w] = "loading"]) /\ now' = now
             /\ clock' = clock
  BY <1>4 DEF SelectCandidates, Claim
<1>5. ASSUME NEW w \in Workers, NEW d \in Deliveries, Push(w, d) \/ ProviderAccepts(w, d) \/ Ends(w, d)
      PROVE  UNCHANGED <<phase, now, clock>>
  BY <1>5, EndsFrame DEF Push, ProviderAccepts
<1>6. CASE Environment
  <2>1. UNCHANGED <<phase, now>> /\ (clock' = clock \/ Tick)
    BY <1>6 DEF Environment, CancelCampaign, RetryFailed, FanoutCompletes, FanoutFails,
                ReapDrained, SetDomainStatus, Unsubscribe, Tick
  <2> QED  BY <2>1
<1> QED
  BY StepKinds, <1>1, <1>2, <1>3, <1>4, <1>5, <1>6

-----------------------------------------------------------------------------
(* The conjuncts of LeaseInvariant, one lemma each.                        *)

\* Tick waits for live cycles that have used up their time.
LEMMA AgeNext ==
  ASSUME TypeOK, CycleAge, Next
  PROVE  CycleAge'
<1> SUFFICES ASSUME NEW w \in Workers, Live(w)'
             PROVE  now'[w] <= clock' /\ clock' - now'[w] <= MaxCycle
  BY DEF CycleAge
<1> USE SenderAssumption DEF TypeOK, Live
<1>1. phase'[w] # "idle"
  OBVIOUS
<1>2. CASE BeginCycle(w) /\ now'[w] = clock
  BY <1>2 DEF BeginCycle
<1>3. CASE phase[w] # "idle" /\ now'[w] = now[w]
  <2>1. CASE Tick
    BY <1>3, <2>1 DEF Tick, CycleAge
  <2>2. CASE clock' = clock
    BY <1>3, <2>2 DEF CycleAge
  <2> QED  BY <2>1, <2>2, CycleFrame
<1> QED
  BY <1>1, <1>2, <1>3, CycleFrame

LEMMA TokensNext ==
  ASSUME TypeOK, DistinctTokens, Next, ~SharedTokens
  PROVE  DistinctTokens'
<1> SUFFICES ASSUME NEW w \in Workers, NEW v \in Workers, Live(w)', Live(v)', now'[w] = now'[v]
             PROVE  w = v
  BY DEF DistinctTokens
<1>1. phase'[w] # "idle" /\ phase'[v] # "idle"
  BY DEF Live
<1>2. ASSUME NEW x \in Workers, NEW y \in Workers, x # y, BeginCycle(x), phase'[y] # "idle"
      PROVE  Live(y) /\ now'[y] = now[y] /\ now[y] # clock /\ now'[x] = clock
  BY <1>2 DEF BeginCycle, Enter, Live, TypeOK
<1>3. CASE BeginCycle(w) \/ BeginCycle(v)
  BY <1>1, <1>2, <1>3
<1>4. CASE ~BeginCycle(w) /\ ~BeginCycle(v)
  BY <1>1, <1>4, CycleFrame DEF DistinctTokens, Live
<1> QED  BY <1>3, <1>4

\* Rows come into play by a claim and leave it before the pool ends.
LEMMA PhasesNext ==
  ASSUME TypeOK, PlayPhases, Next
  PROVE  PlayPhases'
<1> USE DEF TypeOK, PlayPhases, InPlay
<1>1. ASSUME NEW w \in Workers,
             \/ BeginCycle(w) \/ ReadTerminated(w) \/ CancelTerminated(w)
             \/ LoadCampaigns(w) \/ LoadDomains(w) \/ FinishPool(w) \/ WriteVerdict(w)
             \/ \E c \in Campaigns : CountOutcomes(w, c)
      PROVE  PlayPhases'
  BY <1>1 DEF BeginCycle, ReadTerminated, CancelTerminated, LoadCampaigns, LoadDomains,
              FinishPool, PoolDone, WriteVerdict, CountOutcomes, Enter
<1>2. ASSUME NEW w \in Workers, Forget(w) PROVE PlayPhases'
  BY <1>2 DEF Forget
<1>3. ASSUME NEW w \in Workers, EndCycle(w) \/ Crash(w) \/ BatchThrows(w) PROVE Forget(w)
  BY <1>3 DEF EndCycle, Crash, BatchThrows
<1>4. ASSUME NEW w \in Workers, SelectCandidates(w) PROVE PlayPhases'
  <2>1. Forget(w) \/ (phase[w] = "selecting" /\ Enter(w, "claiming") /\ task' = task)
    BY <1>4 DEF SelectCandidates
  <2> QED  BY <2>1, <1>2 DEF Enter
<1>5. ASSUME NEW w \in Workers, Claim(w) PROVE PlayPhases'
  <2>1. \/ Forget(w)
        \/ /\ phase' = [phase EXCEPT ![w] = "loading"]
           /\ \E won : task' = [task EXCEPT ![w] =
                [d \in Deliveries |-> IF d \in won THEN "todo" ELSE "none"]]
    BY <1>5 DEF Claim, Enter
  <2>2. ASSUME NEW won, phase' = [phase EXCEPT ![w] = "loading"],
               task' = [task EXCEPT ![w] = [d \in Deliveries |-> IF d \in won THEN "todo" ELSE "none"]]
        PROVE  PlayPhases'
    BY <2>2
  <2> QED  BY <2>1, <2>2, <1>2
<1>6. ASSUME NEW w \in Workers, NEW d \in Deliveries, Ends(w, d) PROVE PlayPhases'
  <2>1. task' = [task EXCEPT ![w][d] = "finished"] /\ phase' = phase
    BY <1>6, EndsFrame
  <2> QED  BY <2>1
<1>7. ASSUME NEW w \in Workers, NEW d \in Deliveries, Push(w, d) \/ ProviderAccepts(w, d)
      PROVE  PlayPhases'
  BY <1>7 DEF Push, ProviderAccepts, Turn
<1>8. CASE Environment
  <2>1. UNCHANGED <<phase, task>>
    BY <1>8 DEF Environment, CancelCampaign, RetryFailed, FanoutCompletes, FanoutFails,
                ReapDrained, SetDomainStatus, Unsubscribe, Tick, cycle
  <2> QED  BY <2>1
<1> QED
  BY StepKinds, <1>1, <1>2, <1>3, <1>4, <1>5, <1>6, <1>7, <1>8

LEMMA InPlayLive ==
  ASSUME PlayPhases, NEW w \in Workers, NEW d \in Deliveries, task[w][d] \in InPlay
  PROVE  Live(w)
  BY DEF PlayPhases, InPlay, Live

\* Two holders of one row would be live cycles with the same token.
LEMMA OneHolder ==
  ASSUME DistinctTokens, PlayPhases, ClaimHeld
  PROVE  ExclusiveClaim
  BY InPlayLive DEF ExclusiveClaim, ClaimHeld, DistinctTokens, Owned

\* No reviver, claim, release or retry takes a row from under a live cycle.
LEMMA ClaimNext ==
  ASSUME TypeOK, CycleAge, DistinctTokens, PlayPhases, ClaimHeld, Next, Timely
  PROVE  ClaimHeld'
<1> SUFFICES ASSUME NEW v \in Workers, NEW d \in Deliveries, task'[v][d] \in InPlay
             PROVE  claimed_at'[d] = now'[v] /\ status'[d] \in {"sending", "cancelled"}
  BY DEF ClaimHeld, Owned
<1> DEFINE Held == /\ task[v][d] \in InPlay /\ phase[v] # "idle" /\ claimed_at[d] = now[v]
                   /\ status[d] \in {"sending", "cancelled"}
<1>held. ASSUME task[v][d] \in InPlay PROVE Held
  BY <1>held, InPlayLive DEF ClaimHeld, Owned, Live
<1>same. ASSUME task[v][d] \in InPlay, now'[v] = now[v],
                status'[d] = status[d], claimed_at'[d] = claimed_at[d]
         PROVE  claimed_at'[d] = now'[v] /\ status'[d] \in {"sending", "cancelled"}
  BY <1>same, <1>held
<1>forget. ASSUME NEW w \in Workers, Forget(w)
           PROVE  v # w /\ task[v][d] \in InPlay /\ now'[v] = now[v]
  BY <1>forget DEF Forget, TypeOK, InPlay
<1> HIDE DEF Held
<1>1. ASSUME NEW w \in Workers, BeginCycle(w)
      PROVE  claimed_at'[d] = now'[v] /\ status'[d] \in {"sending", "cancelled"}
  <2>1. task[v][d] \in InPlay /\ Requeue({e \in Deliveries : IsStale(e, clock)})
    BY <1>1 DEF BeginCycle
  <2>2. v # w /\ now'[v] = now[v]
    BY <1>1, <2>1, <1>held DEF BeginCycle, TypeOK, Held
  <2>3. clock - now[v] <= MaxCycle /\ claimed_at[d] = now[v] /\ now[v] \in Nat /\ clock \in Nat
    BY <2>1, <1>held DEF Held, CycleAge, Live, TypeOK
  <2>4. ~IsStale(d, clock)
    BY <2>3, SenderAssumption DEF IsStale, Timely
  <2> QED
    BY <2>1, <2>2, <2>4, <1>same, RequeueFrame
<1>2. ASSUME NEW w \in Workers,
             \/ ReadTerminated(w) \/ LoadCampaigns(w) \/ LoadDomains(w) \/ FinishPool(w)
             \/ WriteVerdict(w) \/ \E c \in Campaigns : CountOutcomes(w, c)
      PROVE  claimed_at'[d] = now'[v] /\ status'[d] \in {"sending", "cancelled"}
  <2>1. UNCHANGED <<task, now, status, claimed_at>>
    BY <1>2 DEF ReadTerminated, LoadCampaigns, LoadDomains, FinishPool, WriteVerdict,
                CountOutcomes, rows
  <2> QED  BY <2>1, <1>same
<1>3. ASSUME NEW w \in Workers, CancelTerminated(w)
      PROVE  claimed_at'[d] = now'[v] /\ status'[d] \in {"sending", "cancelled"}
  BY <1>3, <1>held DEF CancelTerminated, Held
<1>4. ASSUME NEW w \in Workers, SelectCandidates(w) \/ EndCycle(w) \/ Crash(w)
      PROVE  claimed_at'[d] = now'[v] /\ status'[d] \in {"sending", "cancelled"}
  <2>1. UNCHANGED <<status, claimed_at>> /\ (Forget(w) \/ UNCHANGED <<task, now>>)
    BY <1>4 DEF SelectCandidates, EndCycle, Crash, rows
  <2> QED  BY <2>1, <1>same, <1>forget
<1>5. ASSUME NEW w \in Workers, BatchThrows(w)
      PROVE  claimed_at'[d] = now'[v] /\ status'[d] \in {"sending", "cancelled"}
  <2>1. v # w /\ task[v][d] \in InPlay /\ now'[v] = now[v] /\ phase[w] # "idle"
    BY <1>5, <1>forget DEF BatchThrows
  <2>2. d \notin Releasable(w, Batch(w))
    BY <2>1, <1>held DEF Releasable, Owned, Held, DistinctTokens, Live
  <2>3. status'[d] = status[d] /\ claimed_at'[d] = claimed_at[d]
    BY <1>5, <2>2, RequeueFrame DEF BatchThrows
  <2> QED  BY <2>1, <2>3, <1>same
<1>6. ASSUME NEW w \in Workers, Claim(w)
      PROVE  claimed_at'[d] = now'[v] /\ status'[d] \in {"sending", "cancelled"}
  <2> DEFINE won == Won(w)
  <2>1. /\ d \in won => status'[d] = "sending" /\ claimed_at'[d] = now[w]
        /\ d \notin won => status'[d] = status[d] /\ claimed_at'[d] = claimed_at[d]
    BY <1>6 DEF Claim
  <2>2. CASE Forget(w) /\ won = {}
    BY <2>1, <2>2, <1>forget, <1>same
  <2>3. CASE /\ task' = [task EXCEPT ![w] = [e \in Deliveries |-> IF e \in won THEN "todo" ELSE "none"]]
             /\ now' = now
    <3>1. CASE v = w
      <4>1. d \in won
        BY <2>3, <3>1 DEF TypeOK, InPlay
      <4> QED  BY <2>1, <2>3, <3>1, <4>1
    <3>2. CASE v # w
      <4>1. task[v][d] \in InPlay
        BY <2>3, <3>2 DEF TypeOK
      <4>2. d \notin won
        BY <4>1, <1>held DEF Held, Won
      <4> QED  BY <2>1, <2>3, <4>1, <4>2, <1>same
    <3> QED  BY <3>1, <3>2
  <2> QED  BY <1>6, <2>2, <2>3 DEF Claim
<1>7. ASSUME NEW w \in Workers, NEW e \in Deliveries, Push(w, e) \/ ProviderAccepts(w, e)
      PROVE  claimed_at'[d] = now'[v] /\ status'[d] \in {"sending", "cancelled"}
  <2>1. UNCHANGED <<status, claimed_at, now>>
    BY <1>7 DEF Push, ProviderAccepts, rows
  <2>2. task[w][e] \in InPlay /\ \E x : task' = [task EXCEPT ![w][e] = x]
    BY <1>7 DEF Push, ProviderAccepts, Turn, InPlay
  <2>3. task[v][d] \in InPlay
    BY <2>2 DEF TypeOK
  <2> QED  BY <2>1, <2>3, <1>same
<1>8. ASSUME NEW w \in Workers, NEW e \in Deliveries, Ends(w, e)
      PROVE  claimed_at'[d] = now'[v] /\ status'[d] \in {"sending", "cancelled"}
  <2>1. task' = [task EXCEPT ![w][e] = "finished"] /\ now' = now /\ task[w][e] \in InPlay
    BY <1>8, EndsFrame
  <2>2. task[v][d] \in InPlay /\ ~(v = w /\ d = e)
    BY <2>1 DEF TypeOK, InPlay
  <2>3. d # e
    BY <2>1, <2>2, OneHolder DEF ExclusiveClaim
  <2>4. status'[d] = status[d] /\ claimed_at'[d] = claimed_at[d]
    BY <1>8, <2>3, EndsFrame
  <2> QED  BY <2>1, <2>2, <2>4, <1>same
<1>9. CASE Environment
  <2>1. UNCHANGED <<task, now>>
    BY <1>9 DEF Environment, CancelCampaign, RetryFailed, FanoutCompletes, FanoutFails,
                ReapDrained, SetDomainStatus, Unsubscribe, Tick, cycle
  <2>2. Held
    BY <2>1, <1>held
  <2>3. ASSUME NEW c \in Campaigns, CancelCampaign(c)
        PROVE  claimed_at'[d] = claimed_at[d] /\ status'[d] \in {status[d], "cancelled"}
    BY <2>3 DEF CancelCampaign
  <2>4. ASSUME NEW c \in Campaigns, RetryFailed(c)
        PROVE  claimed_at'[d] = claimed_at[d] /\ status'[d] = status[d]
    BY <2>4, <2>2, RequeueFrame DEF RetryFailed, FailedRows, Held
  <2>5. ASSUME NEW c \in Campaigns, FanoutCompletes(c) \/ FanoutFails(c) \/ ReapDrained(c)
        PROVE  claimed_at' = claimed_at /\ status' = status
    BY <2>5 DEF FanoutCompletes, FanoutFails, ReapDrained, rows
  <2>6. ASSUME \/ \E g \in Domains, s \in DomainStatus : SetDomainStatus(g, s)
               \/ \E s \in Subscribers : Unsubscribe(s)
               \/ Tick
        PROVE  claimed_at' = claimed_at /\ status' = status
    BY <2>6 DEF SetDomainStatus, Unsubscribe, Tick, rows
  <2>7. claimed_at'[d] = claimed_at[d] /\ status'[d] \in {status[d], "cancelled"}
    BY <1>9, <2>3, <2>4, <2>5, <2>6 DEF Environment
  <2> QED  BY <2>1, <2>2, <2>7 DEF Held
<1> QED
  BY StepKinds, <1>1, <1>2, <1>3, <1>4, <1>5, <1>6, <1>7, <1>8, <1>9

-----------------------------------------------------------------------------
(* What follows for a delivered row, and the account of acceptances.       *)

\* Only the cycle that holds a row writes it, and it holds no `sent` row.
LEMMA SentStays ==
  ASSUME TypeOK, PlayPhases, ClaimHeld, Next, NEW d \in Deliveries, status[d] = "sent"
  PROVE  status'[d] = "sent"
<1>1. ASSUME NEW S, Requeue(S), d \notin S PROVE status'[d] = "sent"
  BY <1>1, RequeueFrame
<1>2. ASSUME NEW w \in Workers, BeginCycle(w) PROVE status'[d] = "sent"
  <2>1. d \notin {e \in Deliveries : IsStale(e, clock)}
    BY DEF IsStale
  <2> QED  BY <1>2, <2>1, <1>1 DEF BeginCycle
<1>3. ASSUME NEW w \in Workers, CancelTerminated(w) \/ Claim(w) PROVE status'[d] = "sent"
  BY <1>3 DEF CancelTerminated, Claim, Won, Pending
<1>4. ASSUME NEW w \in Workers, BatchThrows(w) PROVE status'[d] = "sent"
  <2>1. d \notin Releasable(w, Batch(w))
    BY DEF Releasable
  <2> QED  BY <1>4, <2>1, <1>1 DEF BatchThrows
<1>5. ASSUME NEW w \in Workers, NEW e \in Deliveries, Ends(w, e) PROVE status'[d] = "sent"
  <2>1. e # d
    BY <1>5, EndsFrame DEF ClaimHeld
  <2> QED  BY <1>5, <2>1, EndsFrame
<1>6. ASSUME NEW w \in Workers,
             \/ ReadTerminated(w) \/ SelectCandidates(w) \/ LoadCampaigns(w) \/ LoadDomains(w)
             \/ FinishPool(w) \/ WriteVerdict(w) \/ EndCycle(w) \/ Crash(w)
             \/ \E c \in Campaigns : CountOutcomes(w, c)
             \/ \E e \in Deliveries : Push(w, e) \/ ProviderAccepts(w, e)
      PROVE  status' = status
  BY <1>6 DEF ReadTerminated, SelectCandidates, LoadCampaigns, LoadDomains, FinishPool,
              WriteVerdict, EndCycle, Crash, CountOutcomes, Push, ProviderAccepts, rows
<1>7. ASSUME NEW c \in Campaigns, CancelCampaign(c) PROVE status'[d] = "sent"
  BY <1>7 DEF CancelCampaign, Pending
<1>8. ASSUME NEW c \in Campaigns, RetryFailed(c) PROVE status'[d] = "sent"
  BY <1>8, <1>1 DEF RetryFailed, FailedRows
<1>9. ASSUME \/ \E c \in Campaigns : FanoutCompletes(c) \/ FanoutFails(c) \/ ReapDrained(c)
             \/ \E g \in Domains, s \in DomainStatus : SetDomainStatus(g, s)
             \/ \E s \in Subscribers : Unsubscribe(s)
             \/ Tick
      PROVE  status' = status
  BY <1>9 DEF FanoutCompletes, FanoutFails, ReapDrained, SetDomainStatus, Unsubscribe, Tick, rows
<1> QED
  BY StepKinds, <1>2, <1>3, <1>4, <1>5, <1>6, <1>7, <1>8, <1>9 DEF Environment

\* The end of a delivery whose message was accepted records it or loses it.
LEMMA EndsAccount ==
  ASSUME TypeOK, NEW w \in Workers, NEW d \in Deliveries, Ends(w, d)
  PROVE  /\ \A e \in Deliveries : lost'[e] \in Nat /\ lost'[e] >= lost[e]
         /\ \A e \in Deliveries \ {d} : lost'[e] = lost[e]
         /\ task[w][d] # "accepted" => lost'[d] = lost[d]
         /\ task[w][d] = "accepted" => lost'[d] = lost[d] + 1 \/ (status'[d] = "sent" /\ lost'[d] = lost[d])
<1> USE DEF TypeOK, Turn, observer
<1>1. CASE \/ FailUnsent(w, d) \/ CancelUnsent(w, d) \/ ParkUnsent(w, d)
           \/ SettleGone(w, d) \/ SettleRejected(w, d) \/ SettleRetry(w, d)
  <2>1. lost' = lost /\ task[w][d] # "accepted"
    BY <1>1 DEF FailUnsent, CancelUnsent, ParkUnsent, SettleGone, SettleRejected, SettleRetry
  <2> QED  BY <2>1
<1>2. CASE SettleSent(w, d)
  <2>1. CASE Owned(w, d)
    BY <1>2, <2>1, SettleFrame DEF SettleSent, Lose
  <2>2. CASE ~Owned(w, d)
    BY <1>2, <2>2 DEF SettleSent, Lose
  <2> QED  BY <2>1, <2>2
<1>3. CASE AnswerLost(w, d)
  BY <1>3 DEF AnswerLost, Lose
<1>4. CASE DeliveryThrows(w, d)
  BY <1>4 DEF DeliveryThrows, Lose
<1> QED
  BY <1>1, <1>2, <1>3, <1>4 DEF Ends

LEMMA AccountedNext ==
  ASSUME TypeOK, DistinctTokens, PlayPhases, ClaimHeld, Accounted, Next
  PROVE  Accounted'
<1> SUFFICES ASSUME NEW d \in Deliveries
             PROVE  \/ accepted'[d] <= lost'[d]
                    \/ /\ accepted'[d] = lost'[d] + 1
                       /\ status'[d] = "sent" \/ \E w \in Workers : task'[w][d] = "accepted"
  BY DEF Accounted
<1> DEFINE Goal == \/ accepted'[d] <= lost'[d]
                   \/ /\ accepted'[d] = lost'[d] + 1
                      /\ status'[d] = "sent" \/ \E w \in Workers : task'[w][d] = "accepted"
<1>nat. accepted[d] \in Nat /\ lost[d] \in Nat
  BY DEF TypeOK
<1>keep. ASSUME accepted'[d] = accepted[d], lost'[d] = lost[d],
                \A w \in Workers : task[w][d] = "accepted" => task'[w][d] = "accepted"
         PROVE  Goal
  BY <1>keep, SentStays DEF Accounted
<1> HIDE DEF Goal
<1>1. ASSUME NEW w \in Workers,
             \/ BeginCycle(w) \/ ReadTerminated(w) \/ CancelTerminated(w)
             \/ LoadCampaigns(w) \/ LoadDomains(w) \/ FinishPool(w) \/ WriteVerdict(w)
             \/ \E c \in Campaigns : CountOutcomes(w, c)
      PROVE  Goal
  <2>1. UNCHANGED <<task, accepted, lost>>
    BY <1>1 DEF BeginCycle, ReadTerminated, CancelTerminated, LoadCampaigns, LoadDomains,
                FinishPool, WriteVerdict, CountOutcomes, observer
  <2> QED  BY <2>1, <1>keep
<1>2. ASSUME NEW w \in Workers, SelectCandidates(w) \/ Claim(w) \/ EndCycle(w) \/ BatchThrows(w)
      PROVE  Goal
  <2>1. phase[w] # "pool" /\ UNCHANGED <<accepted, lost>> /\ \E t : task' = [task EXCEPT ![w] = t]
    <3>1. phase[w] # "pool" /\ UNCHANGED <<accepted, lost>>
      BY <1>2 DEF SelectCandidates, Claim, EndCycle, BatchThrows, observer
    <3>2. Forget(w) => \E t : task' = [task EXCEPT ![w] = t]
      BY DEF Forget
    <3>3. task' = task => task' = [task EXCEPT ![w] = task[w]]
      BY DEF TypeOK
    <3>4. Forget(w) \/ task' = task \/ \E t : task' = [task EXCEPT ![w] = t]
      BY <1>2 DEF SelectCandidates, Claim, EndCycle, BatchThrows
    <3> QED  BY <3>1, <3>2, <3>3, <3>4
  <2>2. task[w][d] # "accepted"
    BY <2>1 DEF PlayPhases
  <2> QED  BY <2>1, <2>2, <1>keep DEF TypeOK
<1>3. ASSUME NEW w \in Workers, Crash(w) PROVE Goal
  <2>1. accepted' = accepted /\ Lose({e \in Deliveries : task[w][e] = "accepted"})
    BY <1>3 DEF Crash
  <2>2. \A v \in Workers \ {w} : task'[v] = task[v]
    BY <1>3 DEF Crash, Forget, TypeOK
  <2>3. CASE task[w][d] = "accepted"
    <3>1. lost'[d] = lost[d] + 1
      BY <2>1, <2>3 DEF Lose
    <3>2. accepted[d] <= lost[d] + 1
      BY <1>nat DEF Accounted
    <3> QED  BY <2>1, <3>1, <3>2, <1>nat DEF Goal
  <2>4. CASE task[w][d] # "accepted"
    <3>1. lost'[d] = lost[d]
      BY <2>1, <2>4 DEF Lose
    <3> QED  BY <2>1, <2>2, <2>4, <3>1, <1>keep
  <2> QED  BY <2>3, <2>4
<1>4. ASSUME NEW w \in Workers, NEW e \in Deliveries, Push(w, e) PROVE Goal
  <2>1. task' = [task EXCEPT ![w][e] = "pushing"] /\ task[w][e] = "todo" /\ UNCHANGED <<accepted, lost>>
    BY <1>4 DEF Push, Turn, observer
  <2> QED  BY <2>1, <1>keep DEF TypeOK
<1>5. ASSUME NEW w \in Workers, NEW e \in Deliveries, ProviderAccepts(w, e) PROVE Goal
  <2>1. /\ task[w][e] = "pushing" /\ task' = [task EXCEPT ![w][e] = "accepted"]
        /\ accepted' = [accepted EXCEPT ![e] = @ + 1] /\ lost' = lost
    BY <1>5 DEF ProviderAccepts
  <2>2. CASE d # e
    BY <2>1, <2>2, <1>keep DEF TypeOK
  <2>3. CASE d = e
    <3>1. status[d] # "sent"
      BY <2>1, <2>3 DEF ClaimHeld, InPlay
    <3>2. ASSUME NEW v \in Workers, task[v][d] = "accepted" PROVE FALSE
      BY <3>2, <2>1, <2>3, OneHolder DEF ExclusiveClaim, InPlay
    <3>3. accepted[d] <= lost[d]
      BY <3>1, <3>2 DEF Accounted
    <3>4. task'[w][d] = "accepted" /\ accepted'[d] = accepted[d] + 1 /\ lost'[d] = lost[d]
      BY <2>1, <2>3 DEF TypeOK
    <3> QED  BY <3>3, <3>4, <1>nat DEF Goal
  <2> QED  BY <2>2, <2>3
<1>6. ASSUME NEW w \in Workers, NEW e \in Deliveries, Ends(w, e) PROVE Goal
  <2>1. task' = [task EXCEPT ![w][e] = "finished"] /\ accepted' = accepted
    BY <1>6, EndsFrame
  <2>2. CASE d # e \/ task[w][e] # "accepted"
    BY <1>6, <2>1, <2>2, EndsAccount, <1>keep DEF TypeOK
  <2>3. CASE d = e /\ task[w][e] = "accepted"
    <3>1. lost'[d] = lost[d] + 1 \/ (status'[d] = "sent" /\ lost'[d] = lost[d])
      BY <1>6, <2>3, EndsAccount
    <3>2. accepted'[d] = accepted[d] /\ accepted[d] <= lost[d] + 1
      BY <2>1, <1>nat DEF Accounted
    <3> QED  BY <3>1, <3>2, <1>nat DEF Goal
  <2> QED  BY <2>2, <2>3
<1>7. CASE Environment
  <2>1. UNCHANGED <<task, accepted, lost>>
    BY <1>7 DEF Environment, CancelCampaign, RetryFailed, FanoutCompletes, FanoutFails,
                ReapDrained, SetDomainStatus, Unsubscribe, Tick, cycle, observer
  <2> QED  BY <2>1, <1>keep DEF Goal
<1> QED
  BY StepKinds, <1>1, <1>2, <1>3, <1>4, <1>5, <1>6, <1>7 DEF Goal

-----------------------------------------------------------------------------
LEMMA LeaseInit == Init => LeaseInvariant
<1> SUFFICES ASSUME Init PROVE LeaseInvariant
  OBVIOUS
<1>1. TypeOK
  BY TypeInit
<1>2. CycleAge /\ DistinctTokens /\ PlayPhases /\ ClaimHeld /\ Accounted
  BY DEF Init, CycleAge, DistinctTokens, PlayPhases, ClaimHeld, Accounted, Live, InPlay
<1> QED  BY <1>1, <1>2 DEF LeaseInvariant

LEMMA LeaseNext ==
  ASSUME Timely
  PROVE  LeaseInvariant /\ [Next]_vars => LeaseInvariant'
<1> SUFFICES ASSUME LeaseInvariant, [Next]_vars PROVE LeaseInvariant'
  OBVIOUS
<1>1. CASE Next
  BY <1>1, TypeNext, AgeNext, TokensNext, PhasesNext, ClaimNext, AccountedNext
     DEF LeaseInvariant, Timely
<1>2. CASE UNCHANGED vars
  BY <1>2 DEF LeaseInvariant, TypeOK, CycleAge, DistinctTokens, PlayPhases, ClaimHeld, Accounted,
              Live, Owned, vars, rows, settings, cycle, observer
<1> QED  BY <1>1, <1>2

\* The invariant behind the promises of sender.ts holds along every behaviour.
THEOREM LeaseInvariance == ASSUME Timely PROVE Spec => []LeaseInvariant
  BY LeaseInit, LeaseNext, PTL DEF Spec

\* A row in the hands of a live cycle keeps that cycle's claim token, however
\* many workers, rows and campaigns there are.
THEOREM ClaimIsHeld == ASSUME Timely PROVE Spec => []ClaimHeld
<1>1. LeaseInvariant => ClaimHeld
  BY DEF LeaseInvariant
<1> QED  BY <1>1, LeaseInvariance, PTL

\* No two workers are ever working on the same delivery.
THEOREM ClaimIsExclusive == ASSUME Timely PROVE Spec => []ExclusiveClaim
<1>1. LeaseInvariant => ExclusiveClaim
  BY OneHolder DEF LeaseInvariant
<1> QED  BY <1>1, LeaseInvariance, PTL

\* The push service takes a message at most once more than the number of
\* acceptances that a crash, a throw or a lost answer kept from the table.
THEOREM DeliveredOnce == ASSUME Timely PROVE Spec => []SentOnce
<1>1. LeaseInvariant => SentOnce
  BY DEF LeaseInvariant, SentOnce, Accounted, TypeOK
<1> QED  BY <1>1, LeaseInvariance, PTL

\* No step takes a row out of `sent`.
THEOREM SentForever == ASSUME Timely PROVE Spec => SentIsFinal
<1>1. LeaseInvariant /\ [Next]_vars => [\A d \in Deliveries : status[d] = "sent" => status'[d] = "sent"]_vars
  BY SentStays DEF LeaseInvariant
<1> QED  BY <1>1, LeaseInvariance, PTL DEF Spec, SentIsFinal

-----------------------------------------------------------------------------
(* Without the bound on a cycle: a cycle that outlives the stale window.   *)

\* A worker that ends a delivery somebody else took over writes nothing.
LEMMA LateStep ==
  ASSUME TypeOK, DistinctTokens, PlayPhases, Next,
         NEW w \in Workers, NEW v \in Workers, NEW d \in Deliveries, w # v,
         task[w][d] \in InPlay, Owned(w, d),
         task[v][d] \in InPlay, task'[v][d] = "finished"
  PROVE  status'[d] = status[d] /\ claimed_at'[d] = claimed_at[d]
<1>1. Live(w) /\ Live(v)
  BY InPlayLive
<1>2. ~Owned(v, d)
  BY <1>1 DEF Owned, DistinctTokens
<1>3. ASSUME NEW x \in Workers, Forget(x) PROVE FALSE
  BY <1>3 DEF Forget, TypeOK, InPlay
<1>4. ASSUME NEW x \in Workers,
             \/ BeginCycle(x) \/ ReadTerminated(x) \/ CancelTerminated(x)
             \/ LoadCampaigns(x) \/ LoadDomains(x) \/ FinishPool(x) \/ WriteVerdict(x)
             \/ \E c \in Campaigns : CountOutcomes(x, c)
      PROVE  task' = task
  BY <1>4 DEF BeginCycle, ReadTerminated, CancelTerminated, LoadCampaigns, LoadDomains,
              FinishPool, WriteVerdict, CountOutcomes
<1>5. ASSUME NEW x \in Workers, SelectCandidates(x) \/ Claim(x) PROVE FALSE
  <2>1. \/ Forget(x) \/ task' = task
        \/ \E won : task' = [task EXCEPT ![x] =
             [e \in Deliveries |-> IF e \in won THEN "todo" ELSE "none"]]
    BY <1>5 DEF SelectCandidates, Claim
  <2>2. task' # task
    BY DEF InPlay
  <2>3. ASSUME NEW won, task' = [task EXCEPT ![x] =
                 [e \in Deliveries |-> IF e \in won THEN "todo" ELSE "none"]]
        PROVE  FALSE
    BY <2>3 DEF TypeOK, InPlay
  <2> QED  BY <2>1, <2>2, <2>3, <1>3
<1>6. ASSUME NEW x \in Workers, EndCycle(x) \/ Crash(x) \/ BatchThrows(x) PROVE FALSE
  BY <1>6, <1>3 DEF EndCycle, Crash, BatchThrows
<1>7. ASSUME NEW x \in Workers, NEW e \in Deliveries, Push(x, e) \/ ProviderAccepts(x, e)
      PROVE  FALSE
  <2>1. PICK y \in InPlay : task' = [task EXCEPT ![x][e] = y]
    BY <1>7 DEF Push, ProviderAccepts, InPlay
  <2>2. task'[v][d] \in InPlay
    BY <2>1 DEF TypeOK
  <2> QED  BY <2>2 DEF InPlay
<1>8. ASSUME NEW x \in Workers, NEW e \in Deliveries, Ends(x, e)
      PROVE  status'[d] = status[d] /\ claimed_at'[d] = claimed_at[d]
  <2>1. task' = [task EXCEPT ![x][e] = "finished"]
    BY <1>8, EndsFrame
  <2>2. x = v /\ e = d
    BY <2>1 DEF TypeOK, InPlay
  <2> QED  BY <1>8, <2>2, <1>2, EndsFrame
<1>9. CASE Environment
  <2>1. task' = task
    BY <1>9 DEF Environment, CancelCampaign, RetryFailed, FanoutCompletes, FanoutFails,
                ReapDrained, SetDomainStatus, Unsubscribe, Tick, cycle
  <2> QED  BY <2>1 DEF InPlay
<1>10. task' # task
  BY DEF InPlay
<1> QED
  BY StepKinds, <1>4, <1>5, <1>6, <1>7, <1>8, <1>9, <1>10

\* A late result never clobbers a row another cycle reclaimed, however long
\* the late cycle took, as long as claim tokens differ.
THEOREM LateResultsIgnored == ASSUME ~SharedTokens PROVE Spec => LateResultIgnored
<1> DEFINE I == TypeOK /\ DistinctTokens /\ PlayPhases
<1>1. Init => I
  BY LeaseInit DEF LeaseInvariant
<1>2. I /\ [Next]_vars => I'
  <2> SUFFICES ASSUME I, [Next]_vars PROVE I'
    OBVIOUS
  <2>1. CASE Next
    BY <2>1, TypeNext, TokensNext, PhasesNext
  <2>2. CASE UNCHANGED vars
    BY <2>2 DEF TypeOK, DistinctTokens, PlayPhases, Live, vars, rows, settings, cycle, observer
  <2> QED  BY <2>1, <2>2
<1>3. I /\ [Next]_vars =>
        [\A w, v \in Workers, d \in Deliveries :
           /\ w # v
           /\ task[w][d] \in InPlay /\ Owned(w, d)
           /\ task[v][d] \in InPlay /\ task'[v][d] = "finished"
           => status'[d] = status[d] /\ claimed_at'[d] = claimed_at[d]]_vars
  BY LateStep
<1> HIDE DEF I
<1> QED  BY <1>1, <1>2, <1>3, PTL DEF Spec, LateResultIgnored

-----------------------------------------------------------------------------
(* Sender implements DeliveryLease: with live cycles shorter than the      *)
(* stale window and distinct claim tokens, every step of the workers and   *)
(* of the panel moves each row as the lease discipline allows.             *)

-----------------------------------------------------------------------------
(* The abstract holder of a row.                                           *)

LEMMA HolderFound ==
  ASSUME ExclusiveClaim, NEW w \in Workers, NEW d \in Deliveries, task[w][d] \in InPlay
  PROVE  HolderOf(d) = w
  BY DEF ExclusiveClaim, HolderOf

LEMMA HolderNone ==
  ASSUME NEW d \in Deliveries, \A w \in Workers : task[w][d] \notin InPlay
  PROVE  HolderOf(d) = NULL
  BY DEF HolderOf

LEMMA HolderKept ==
  ASSUME NEW d \in Deliveries, \A w \in Workers : task'[w][d] \in InPlay <=> task[w][d] \in InPlay
  PROVE  HolderOf(d)' = HolderOf(d)
  BY DEF HolderOf

\* A row in no stage but `taken` or `closed` has no holder.
LEMMA HeldStage ==
  ASSUME ClaimHeld, NEW d \in Deliveries, status[d] \notin {"sending", "cancelled"}
  PROVE  HolderOf(d) = NULL
  BY HolderNone DEF ClaimHeld

\* Taking every task of w off the table leaves the other holders alone.
LEMMA ForgetHolders ==
  ASSUME TypeOK, ExclusiveClaim, NEW w \in Workers, Forget(w), NEW d \in Deliveries
  PROVE  /\ task[w][d] \in InPlay => HolderOf(d) = w /\ HolderOf(d)' = NULL
         /\ task[w][d] \notin InPlay => HolderOf(d)' = HolderOf(d)
<1>1. /\ task'[w][d] = "none"
      /\ \A v \in Workers \ {w} : task'[v][d] = task[v][d]
  BY DEF Forget, TypeOK
<1>2. task'[w][d] \notin InPlay
  BY <1>1 DEF InPlay
<1>3. CASE task[w][d] \in InPlay
  <2>1. \A v \in Workers : task'[v][d] \notin InPlay
    BY <1>1, <1>2, <1>3 DEF ExclusiveClaim
  <2>2. HolderOf(d)' = NULL
    BY <2>1 DEF HolderOf
  <2> QED  BY <1>3, <2>2, HolderFound
<1>4. CASE task[w][d] \notin InPlay
  BY <1>1, <1>2, <1>4, HolderKept
<1> QED  BY <1>3, <1>4

LEMMA EndsHolder ==
  ASSUME TypeOK, ExclusiveClaim, NEW w \in Workers, NEW d \in Deliveries, Ends(w, d)
  PROVE  /\ HolderOf(d) = w /\ HolderOf(d)' = NULL
         /\ \A e \in Deliveries \ {d} : HolderOf(e)' = HolderOf(e)
<1>1. task[w][d] \in InPlay /\ task' = [task EXCEPT ![w][d] = "finished"]
  BY EndsFrame
<1>2. \A v \in Workers : task'[v][d] \notin InPlay
  BY <1>1 DEF ExclusiveClaim, TypeOK, InPlay
<1>3. HolderOf(d)' = NULL
  BY <1>2 DEF HolderOf
<1>4. ASSUME NEW e \in Deliveries \ {d} PROVE HolderOf(e)' = HolderOf(e)
  <2>1. \A v \in Workers : task'[v][e] = task[v][e]
    BY <1>1 DEF TypeOK
  <2> QED  BY <2>1, HolderKept
<1> QED  BY <1>1, <1>3, <1>4, HolderFound

-----------------------------------------------------------------------------
(* The abstract steps in terms of status and HolderOf.                     *)

LEMMA Stages ==
  /\ StageOf("queued") = "open" /\ StageOf("sending") = "taken" /\ StageOf("sent") = "delivered"
  /\ StageOf("failed") = "closed" /\ StageOf("unsubscribed") = "closed"
  /\ StageOf("cancelled") = "closed"
  BY DEF StageOf

LEMMA StageType ==
  ASSUME NEW s \in DeliveryStatus PROVE StageOf(s) \in Lease!Stage
  BY Stages DEF DeliveryStatus, Lease!Stage

LEMMA AbstractRow ==
  ASSUME NEW d \in Deliveries,
         \/ status'[d] = status[d] /\ HolderOf(d)' = HolderOf(d)
         \/ /\ status[d] = "queued" /\ status'[d] = "sending"
            /\ HolderOf(d) = NULL /\ HolderOf(d)' \in Workers
         \/ /\ HolderOf(d) # NULL /\ HolderOf(d)' = NULL
            /\ status'[d] \in DeliveryStatus \ {"sending"} \/ status'[d] = status[d]
         \/ /\ status[d] \in Pending /\ status'[d] = "cancelled"
            /\ HolderOf(d)' = HolderOf(d)
         \/ /\ status[d] \in {"sending", "failed"} /\ status'[d] = "queued"
            /\ HolderOf(d) = NULL /\ HolderOf(d)' = NULL
  PROVE  Lease!RowStep(d)
<1> DEFINE stage  == [e \in Deliveries |-> StageOf(status[e])]
           holder == [e \in Deliveries |-> HolderOf(e)]
<1>1. /\ stage[d] = StageOf(status[d]) /\ stage'[d] = StageOf(status'[d])
      /\ holder[d] = HolderOf(d) /\ holder'[d] = HolderOf(d)'
  OBVIOUS
<1> USE Stages DEF Lease!RowStep, Lease!Becomes, Lease!Take, Lease!Resolve, Lease!Withdraw,
                   Lease!Abandon, Lease!Recover, Lease!Reopen
<1> HIDE DEF stage, holder
<1>2. CASE status'[d] = status[d] /\ HolderOf(d)' = HolderOf(d)
  BY <1>1, <1>2 DEF stage, holder
<1>3. CASE /\ status[d] = "queued" /\ status'[d] = "sending"
           /\ HolderOf(d) = NULL /\ HolderOf(d)' \in Workers
  BY <1>1, <1>3 DEF stage, holder
<1>4. CASE /\ HolderOf(d) # NULL /\ HolderOf(d)' = NULL
           /\ status'[d] \in DeliveryStatus \ {"sending"} \/ status'[d] = status[d]
  BY <1>1, <1>4 DEF stage, holder, DeliveryStatus
<1>5. CASE /\ status[d] \in Pending /\ status'[d] = "cancelled" /\ HolderOf(d)' = HolderOf(d)
  BY <1>1, <1>5 DEF stage, holder, Pending
<1>6. CASE /\ status[d] \in {"sending", "failed"} /\ status'[d] = "queued"
           /\ HolderOf(d) = NULL /\ HolderOf(d)' = NULL
  BY <1>1, <1>6 DEF stage, holder
<1> QED  BY <1>2, <1>3, <1>4, <1>5, <1>6

-----------------------------------------------------------------------------
(* Every step of the engine is a step of the lease discipline.             *)

LEMMA RequeueEffect ==
  ASSUME NEW S, Requeue(S), NEW d \in Deliveries
  PROVE  status'[d] = IF d \in S THEN "queued" ELSE status[d]
  BY DEF Requeue

\* The end of a delivery never leaves the row freshly `sending`.
LEMMA EndsStatus ==
  ASSUME TypeOK, NEW w \in Workers, NEW d \in Deliveries, Ends(w, d)
  PROVE  status'[d] \in DeliveryStatus \ {"sending"} \/ status'[d] = status[d]
<1> DEFINE Good == status'[d] \in DeliveryStatus \ {"sending"} \/ status'[d] = status[d]
<1>1. ASSUME NEW s \in DeliveryStatus \ {"sending"}, Settle(w, d, s) PROVE Good
  BY <1>1, SettleFrame
<1>2. ASSUME NEW S, Requeue(S) PROVE Good
  BY <1>2, RequeueEffect DEF DeliveryStatus
<1> HIDE DEF Good
<1>3. RetryOrFail(w, d) => Good
  BY <1>1, <1>2 DEF RetryOrFail, DeliveryStatus
<1>4. CASE \/ FailUnsent(w, d) \/ CancelUnsent(w, d) \/ SettleSent(w, d)
           \/ SettleGone(w, d) \/ SettleRejected(w, d)
  BY <1>1, <1>4 DEF FailUnsent, CancelUnsent, SettleSent, SettleGone, SettleRejected,
                    DeliveryStatus, Good
<1>5. CASE ParkUnsent(w, d) \/ SettleRetry(w, d) \/ AnswerLost(w, d)
  BY <1>2, <1>3, <1>5 DEF ParkUnsent, SettleRetry, AnswerLost, Good
<1>6. CASE DeliveryThrows(w, d)
  <2>1. status' = status => Good
    BY DEF Good
  <2> QED  BY <1>2, <1>6, <2>1 DEF DeliveryThrows, Good
<1> QED  BY <1>4, <1>5, <1>6 DEF Ends

LEMMA RowSteps ==
  ASSUME LeaseInvariant, Next, Timely, NEW d \in Deliveries
  PROVE  Lease!RowStep(d)
<1> USE DEF LeaseInvariant
<1>0. ExclusiveClaim /\ NULL \notin Workers
  BY OneHolder, SenderAssumption
<1>idle. ASSUME task' = task, status'[d] = status[d] PROVE Lease!RowStep(d)
  BY <1>idle, HolderKept, AbstractRow
<1>1. ASSUME NEW w \in Workers, BeginCycle(w) PROVE Lease!RowStep(d)
  <2>1. task' = task /\ Requeue({e \in Deliveries : IsStale(e, clock)})
    BY <1>1 DEF BeginCycle
  <2>2. HolderOf(d)' = HolderOf(d)
    BY <2>1, HolderKept
  <2>3. CASE IsStale(d, clock)
    <3>1. \A v \in Workers : task[v][d] \notin InPlay
      <4> SUFFICES ASSUME NEW v \in Workers, task[v][d] \in InPlay PROVE FALSE
        OBVIOUS
      <4>1. Live(v) /\ claimed_at[d] = now[v] /\ now[v] \in Nat /\ clock \in Nat
        BY InPlayLive DEF ClaimHeld, Owned, TypeOK
      <4>2. clock - now[v] <= MaxCycle
        BY <4>1 DEF CycleAge
      <4> QED  BY <2>3, <4>1, <4>2, SenderAssumption DEF IsStale, Timely
    <3>2. status[d] = "sending" /\ status'[d] = "queued" /\ HolderOf(d) = NULL
      BY <2>1, <2>3, <3>1, HolderNone, RequeueEffect DEF IsStale
    <3> QED  BY <3>2, <2>2, AbstractRow
  <2>4. CASE ~IsStale(d, clock)
    BY <2>1, <2>2, <2>4, RequeueEffect, AbstractRow
  <2> QED  BY <2>3, <2>4
<1>2. ASSUME NEW w \in Workers,
             \/ ReadTerminated(w) \/ LoadCampaigns(w) \/ LoadDomains(w) \/ FinishPool(w)
             \/ WriteVerdict(w) \/ \E c \in Campaigns : CountOutcomes(w, c)
      PROVE  Lease!RowStep(d)
  <2>1. UNCHANGED <<task, status>>
    BY <1>2 DEF ReadTerminated, LoadCampaigns, LoadDomains, FinishPool, WriteVerdict,
                CountOutcomes, rows
  <2> QED  BY <2>1, <1>idle
<1>3. ASSUME NEW w \in Workers, CancelTerminated(w) PROVE Lease!RowStep(d)
  <2>1. /\ task' = task
        /\ status'[d] = status[d] \/ (status[d] \in Pending /\ status'[d] = "cancelled")
    BY <1>3 DEF CancelTerminated
  <2> QED  BY <2>1, HolderKept, AbstractRow
<1>4. ASSUME NEW w \in Workers, SelectCandidates(w) \/ EndCycle(w) PROVE Lease!RowStep(d)
  <2>1. status' = status /\ (task' = task \/ (Forget(w) /\ phase[w] # "pool" /\ phase[w] # "loading" /\ phase[w] # "loadingDomains"))
    BY <1>4 DEF SelectCandidates, EndCycle, rows
  <2>2. CASE task' = task
    BY <2>1, <2>2, <1>idle
  <2>3. CASE task' # task
    <3>1. task[w][d] \notin InPlay
      BY <2>1, <2>3 DEF PlayPhases, InPlay
    <3> QED  BY <1>0, <2>1, <2>3, <3>1, ForgetHolders, AbstractRow
  <2> QED  BY <2>2, <2>3
<1>5. ASSUME NEW w \in Workers, Crash(w) PROVE Lease!RowStep(d)
  <2>1. status' = status /\ Forget(w)
    BY <1>5 DEF Crash, rows
  <2>2. CASE task[w][d] \in InPlay
    BY <1>0, <2>1, <2>2, ForgetHolders, AbstractRow
  <2>3. CASE task[w][d] \notin InPlay
    BY <1>0, <2>1, <2>3, ForgetHolders, AbstractRow
  <2> QED  BY <2>2, <2>3
<1>6. ASSUME NEW w \in Workers, BatchThrows(w) PROVE Lease!RowStep(d)
  <2>1. Forget(w) /\ (Requeue(Releasable(w, Batch(w))) \/ status' = status) /\ phase[w] # "idle"
    BY <1>6 DEF BatchThrows
  <2>2. \/ status'[d] = status[d]
        \/ status'[d] = "queued" /\ status[d] = "sending" /\ Owned(w, d)
    BY <2>1, RequeueEffect DEF Releasable
  <2>3. CASE task[w][d] \in InPlay
    <3>1. HolderOf(d) = w /\ HolderOf(d)' = NULL
      BY <1>0, <2>1, <2>3, ForgetHolders
    <3> QED  BY <1>0, <2>2, <3>1, AbstractRow DEF DeliveryStatus
  <2>4. CASE task[w][d] \notin InPlay
    <3>1. HolderOf(d)' = HolderOf(d)
      BY <1>0, <2>1, <2>4, ForgetHolders
    <3>2. CASE status'[d] = status[d]
      BY <3>1, <3>2, AbstractRow
    <3>3. CASE status'[d] = "queued" /\ status[d] = "sending" /\ Owned(w, d)
      <4>1. \A v \in Workers : task[v][d] \notin InPlay
        BY <2>1, <2>4, <3>3, InPlayLive DEF ClaimHeld, Owned, DistinctTokens, Live
      <4> QED  BY <3>1, <3>3, <4>1, HolderNone, AbstractRow
    <3> QED  BY <2>2, <3>2, <3>3
  <2> QED  BY <2>3, <2>4
<1>7. ASSUME NEW w \in Workers, Claim(w) PROVE Lease!RowStep(d)
  <2> DEFINE won == Won(w)
  <2>1. /\ d \in won => status'[d] = "sending"
        /\ d \notin won => status'[d] = status[d]
    BY <1>7 DEF Claim
  <2>2. CASE Forget(w) /\ won = {}
    <3>1. task[w][d] \notin InPlay
      BY <1>7 DEF Claim, PlayPhases, InPlay
    <3> QED  BY <1>0, <2>1, <2>2, <3>1, ForgetHolders, AbstractRow
  <2>3. CASE task' = [task EXCEPT ![w] = [e \in Deliveries |-> IF e \in won THEN "todo" ELSE "none"]]
    <3>1. CASE d \in won
      <4>1. status[d] = "queued" /\ HolderOf(d) = NULL
        BY <3>1, HeldStage DEF Won
      <4>2. task'[w][d] \in InPlay
        BY <2>3, <3>1 DEF TypeOK, InPlay
      <4>3. HolderOf(d)' \in Workers
        BY <4>2 DEF HolderOf
      <4> QED  BY <2>1, <3>1, <4>1, <4>3, AbstractRow
    <3>2. CASE d \notin won
      <4>1. task[w][d] \notin InPlay
        BY <1>7 DEF Claim, PlayPhases, InPlay
      <4>2. task'[w][d] \notin InPlay /\ \A v \in Workers \ {w} : task'[v][d] = task[v][d]
        BY <2>3, <3>2 DEF TypeOK, InPlay
      <4>3. HolderOf(d)' = HolderOf(d)
        BY <4>1, <4>2, HolderKept
      <4> QED  BY <2>1, <3>2, <4>3, AbstractRow
    <3> QED  BY <3>1, <3>2
  <2> QED  BY <1>7, <2>2, <2>3 DEF Claim
<1>8. ASSUME NEW w \in Workers, NEW e \in Deliveries, Push(w, e) \/ ProviderAccepts(w, e)
      PROVE  Lease!RowStep(d)
  <2>1. /\ task[w][e] \in InPlay /\ status' = status
        /\ \E x \in InPlay : task' = [task EXCEPT ![w][e] = x]
    BY <1>8 DEF Push, ProviderAccepts, Turn, InPlay, rows
  <2>2. \A v \in Workers : task'[v][d] \in InPlay <=> task[v][d] \in InPlay
    BY <2>1 DEF TypeOK
  <2> QED  BY <2>1, <2>2, HolderKept, AbstractRow
<1>9. ASSUME NEW w \in Workers, NEW e \in Deliveries, Ends(w, e) PROVE Lease!RowStep(d)
  <2>1. CASE d = e
    BY <1>0, <1>9, <2>1, EndsHolder, EndsStatus, AbstractRow
  <2>2. CASE d # e
    BY <1>0, <1>9, <2>2, EndsHolder, EndsFrame, AbstractRow
  <2> QED  BY <2>1, <2>2
<1>10. CASE Environment
  <2>1. task' = task
    BY <1>10 DEF Environment, CancelCampaign, RetryFailed, FanoutCompletes, FanoutFails,
                 ReapDrained, SetDomainStatus, Unsubscribe, Tick, cycle
  <2>2. HolderOf(d)' = HolderOf(d)
    BY <2>1, HolderKept
  <2>3. ASSUME NEW c \in Campaigns, CancelCampaign(c)
        PROVE  status'[d] = status[d] \/ (status[d] \in Pending /\ status'[d] = "cancelled")
    BY <2>3 DEF CancelCampaign
  <2>4. ASSUME NEW c \in Campaigns, RetryFailed(c)
        PROVE  status'[d] = status[d] \/ (status[d] = "failed" /\ status'[d] = "queued" /\ HolderOf(d) = NULL)
    BY <2>4, RequeueEffect, HeldStage DEF RetryFailed, FailedRows
  <2>5. ASSUME NEW c \in Campaigns, FanoutCompletes(c) \/ FanoutFails(c) \/ ReapDrained(c)
        PROVE  status' = status
    BY <2>5 DEF FanoutCompletes, FanoutFails, ReapDrained, rows
  <2>6. ASSUME \/ \E g \in Domains, s \in DomainStatus : SetDomainStatus(g, s)
               \/ \E s \in Subscribers : Unsubscribe(s)
               \/ Tick
        PROVE  status' = status
    BY <2>6 DEF SetDomainStatus, Unsubscribe, Tick, rows
  <2>7. \/ status'[d] = status[d]
        \/ status[d] \in Pending /\ status'[d] = "cancelled"
        \/ status[d] = "failed" /\ status'[d] = "queued" /\ HolderOf(d) = NULL
    BY <1>10, <2>3, <2>4, <2>5, <2>6 DEF Environment
  <2> QED  BY <2>2, <2>7, AbstractRow
<1> QED
  BY StepKinds, <1>1, <1>2, <1>3, <1>4, <1>5, <1>6, <1>7, <1>8, <1>9, <1>10

LEMMA RefineInit == Init => Lease!Init
<1> SUFFICES ASSUME Init PROVE Lease!Init
  OBVIOUS
<1>1. ASSUME NEW d \in Deliveries PROVE StageOf(status[d]) = "open" /\ HolderOf(d) = NULL
  BY Stages, HolderNone DEF Init, InPlay
<1> QED  BY <1>1 DEF Lease!Init

LEMMA RefineNext ==
  ASSUME LeaseInvariant, LeaseInvariant', Next, Timely
  PROVE  Lease!Next
<1>1. \A d \in Deliveries : StageOf(status[d])' \in Lease!Stage
  BY StageType DEF LeaseInvariant, TypeOK
<1>2. \A d \in Deliveries : HolderOf(d)' \in Workers \cup {NULL}
  BY DEF HolderOf
<1>3. [d \in Deliveries |-> StageOf(status[d])]' \in [Deliveries -> Lease!Stage]
  BY <1>1
<1>4. [d \in Deliveries |-> HolderOf(d)]' \in [Deliveries -> Workers \cup {NULL}]
  BY <1>2
<1>5. \A d \in Deliveries : Lease!RowStep(d)
  BY RowSteps
<1> QED  BY <1>3, <1>4, <1>5 DEF Lease!Next

\* The workers and the panel together keep the lease discipline: only the
\* holder reports on a row, a lost lease is recovered, `sent` is final.
THEOREM ImplementsLease == ASSUME Timely PROVE Spec => LeaseDiscipline
<1>1. LeaseInvariant /\ LeaseInvariant' /\ [Next]_vars
        => [Lease!Next]_<<[d \in Deliveries |-> StageOf(status[d])], [d \in Deliveries |-> HolderOf(d)]>>
  <2> SUFFICES ASSUME LeaseInvariant, LeaseInvariant', [Next]_vars
               PROVE  [Lease!Next]_<<[d \in Deliveries |-> StageOf(status[d])], [d \in Deliveries |-> HolderOf(d)]>>
    OBVIOUS
  <2>1. CASE Next
    BY <2>1, RefineNext
  <2>2. CASE UNCHANGED vars
    <3>1. status' = status /\ task' = task
      BY <2>2 DEF vars, rows, cycle
    <3> QED  BY <3>1 DEF HolderOf
  <2> QED  BY <2>1, <2>2
<1> QED
  BY <1>1, RefineInit, LeaseInvariance, PTL DEF Spec, LeaseDiscipline, Lease!Spec

=============================================================================
