--------------------------- MODULE Fanout_proofs ----------------------------
(***************************************************************************)
(* Theorems about Fanout for every set of workers, campaigns, sites and    *)
(* subscribers, any chunk size and any number of crashes and throws: the   *)
(* full audience (with no assumption about time), the last word of a       *)
(* cancellation, settled deliveries, the starter that is left alone when   *)
(* fan-outs are timely, and the drained campaign of a single worker.       *)
(***************************************************************************)
EXTENDS Fanout, TLAPS

-----------------------------------------------------------------------------
(* Types.                                                                  *)

\* A busy stage has a campaign, and a verdict before it writes one.
Shape ==
  \A w \in Workers :
    /\ phase[w] # "idle" => target[w] \in Campaigns
    /\ phase[w] = "deciding" => verdict[w] \in {"done", "failed"}

TypeInvariant == TypeOK /\ Shape

LEMMA TypeInit == Init => TypeInvariant
  BY FanoutAssumption
  DEF Init, InitWith, TypeInvariant, TypeOK, Shape, CampaignStatus, RowStatus, Phase

\* The pieces of a step keep the types of what they write.
LEMMA ReleaseType ==
  ASSUME TypeInvariant, NEW w \in Workers, Release(w)
  PROVE  /\ phase' \in [Workers -> Phase]
         /\ job' \in [Workers -> {"none", "start", "reap", "automate", "send"}]
         /\ target' \in [Workers -> Campaigns \cup {NULL}]
         /\ whole' \in [Workers -> BOOLEAN]
         /\ todo' \in [Workers -> SUBSET Subscribers]
         /\ busy' \in [Workers -> Nat]
         /\ verdict' \in [Workers -> {NULL, "done", "failed"}]
         /\ Shape'
  BY DEF TypeInvariant, TypeOK, Shape, Release, Phase

LEMMA GoType ==
  ASSUME TypeInvariant, NEW w \in Workers, NEW p \in Phase \ {"deciding"}, phase[w] # "idle", Go(w, p)
  PROVE  phase' \in [Workers -> Phase] /\ Shape'
  BY DEF TypeInvariant, TypeOK, Shape, Go

LEMMA TakeType ==
  ASSUME TypeInvariant, NEW w \in Workers, NEW c \in Campaigns,
         NEW j \in {"start", "reap"}, NEW p \in {"due", "stuck"}, Take(w, c, j, p)
  PROVE  /\ phase' \in [Workers -> Phase]
         /\ job' \in [Workers -> {"none", "start", "reap", "automate", "send"}]
         /\ target' \in [Workers -> Campaigns \cup {NULL}]
         /\ whole' \in [Workers -> BOOLEAN]
         /\ Shape'
  BY DEF TypeInvariant, TypeOK, Shape, Take, Phase

LEMMA StatusType ==
  ASSUME TypeInvariant, NEW c \in Campaigns, NEW s \in CampaignStatus,
         SetStatus(c, s) \/ SetIfSending(c, s)
  PROVE  campaign' \in [Campaigns -> CampaignStatus] /\ age' \in [Campaigns -> 0..ReapAfter]
<1>1. SetStatus(c, s) \/ UNCHANGED <<campaign, age>>
  BY DEF SetIfSending
<1>2. 0 \in 0..ReapAfter
  BY FanoutAssumption
<1> QED
  BY <1>1, <1>2 DEF TypeInvariant, TypeOK, SetStatus

LEMMA CompleteType ==
  ASSUME TypeInvariant, NEW c \in Campaigns, CompleteIfSending(c)
  PROVE  audience_complete' \in [Campaigns -> BOOLEAN]
  BY DEF TypeInvariant, TypeOK, CompleteIfSending

LEMMA InsertType ==
  ASSUME TypeInvariant, NEW c \in Campaigns, NEW S, Insert(c, S) \/ CancelPending(c)
  PROVE  row' \in [Campaigns -> [Subscribers -> RowStatus]]
<1> DEFINE ins == [s \in Subscribers |-> IF s \in S /\ row[c][s] = "none" THEN "pending" ELSE row[c][s]]
           can == [s \in Subscribers |-> IF row[c][s] = "pending" THEN "cancelled" ELSE row[c][s]]
<1>1. row \in [Campaigns -> [Subscribers -> RowStatus]]
  BY DEF TypeInvariant, TypeOK
<1>2. ins \in [Subscribers -> RowStatus] /\ can \in [Subscribers -> RowStatus]
  BY <1>1 DEF RowStatus
<1>3. row' = [row EXCEPT ![c] = ins] \/ row' = [row EXCEPT ![c] = can]
  BY <1>1 DEF Insert, CancelPending
<1> HIDE DEF ins, can
<1> QED
  BY <1>1, <1>2, <1>3

LEMMA ActiveType == Active \subseteq Subscribers
  BY DEF Active

LEMMA TypeStart ==
  ASSUME TypeInvariant, NEW w \in Workers,
         \/ CheckStart(w) \/ ClaimCampaign(w) \/ FailSiteless(w) \/ ResolveAudience(w)
         \/ FinishEmpty(w) \/ InsertChunk(w) \/ MarkComplete(w)
  PROVE  TypeInvariant'
<1> USE FanoutAssumption DEF table, people, faults, observer
<1> DEFINE c == target[w]
<1>1. CASE CheckStart(w)
  <2>1. CASE Go(w, "ready")
    BY <1>1, <2>1, GoType DEF CheckStart, Go, TypeInvariant, TypeOK, Phase
  <2>2. CASE Release(w)
    BY <1>1, <2>2, ReleaseType DEF CheckStart, TypeInvariant, TypeOK
  <2> QED  BY <1>1, <2>1, <2>2 DEF CheckStart
<1>2. CASE ClaimCampaign(w)
  <2>1. c \in Campaigns
    BY <1>2 DEF ClaimCampaign, TypeInvariant, Shape
  <2>2. CASE campaign[c] = "scheduled"
    <3>1. campaign' \in [Campaigns -> CampaignStatus] /\ age' \in [Campaigns -> 0..ReapAfter]
      BY <1>2, <2>1, <2>2, StatusType DEF ClaimCampaign, CampaignStatus
    <3>2. Listed[c] \cap Active \in SUBSET Subscribers
      BY ActiveType
    <3>3. owed' \in [Campaigns -> SUBSET Subscribers]
      BY <1>2, <2>1, <2>2, <3>2 DEF ClaimCampaign, TypeInvariant, TypeOK
    <3> QED
      BY <1>2, <2>1, <2>2, <3>1, <3>3 DEF ClaimCampaign, TypeInvariant, TypeOK, Shape, Phase
  <2>3. CASE campaign[c] # "scheduled"
    BY <1>2, <2>3, ReleaseType DEF ClaimCampaign, TypeInvariant, TypeOK
  <2> QED  BY <2>2, <2>3
<1>3. CASE FailSiteless(w)
  <2>1. c \in Campaigns
    BY <1>3 DEF FailSiteless, TypeInvariant, Shape
  <2> QED
    BY <1>3, <2>1, ReleaseType, StatusType DEF FailSiteless, CampaignStatus, TypeInvariant, TypeOK
<1>4. CASE ResolveAudience(w)
  <2>1. c \in Campaigns
    BY <1>4 DEF ResolveAudience, TypeInvariant, Shape
  <2>2. PICK A \in Audiences(c) :
          /\ todo' = [todo EXCEPT ![w] = A]
          /\ phase' = [phase EXCEPT ![w] =
               IF A # {} THEN "filling" ELSE IF job[w] = "start" THEN "empty" ELSE "filled"]
    BY <1>4 DEF ResolveAudience
  <2>3. A \subseteq Subscribers
    BY ActiveType DEF Audiences
  <2>4. phase' \in [Workers -> Phase] /\ todo' \in [Workers -> SUBSET Subscribers] /\ phase'[w] # "deciding"
    BY <2>2, <2>3 DEF TypeInvariant, TypeOK, Phase
  <2> QED
    BY <1>4, <2>1, <2>2, <2>4 DEF ResolveAudience, TypeInvariant, TypeOK, Shape
<1>5. CASE FinishEmpty(w)
  <2>1. c \in Campaigns
    BY <1>5 DEF FinishEmpty, TypeInvariant, Shape
  <2> QED
    BY <1>5, <2>1, ReleaseType, StatusType, CompleteType
    DEF FinishEmpty, CampaignStatus, TypeInvariant, TypeOK
<1>6. CASE InsertChunk(w)
  <2>1. c \in Campaigns
    BY <1>6 DEF InsertChunk, TypeInvariant, Shape
  <2>2. PICK S \in SUBSET todo[w] :
          /\ Insert(c, S)
          /\ \/ Release(w)
             \/ /\ todo' = [todo EXCEPT ![w] = @ \ S]
                /\ phase' = [phase EXCEPT ![w] = Afterwards(todo[w] \ S)]
                /\ UNCHANGED <<job, target, whole, busy, verdict>>
    BY <1>6 DEF InsertChunk
  <2>3. row' \in [Campaigns -> [Subscribers -> RowStatus]]
    BY <2>1, <2>2, InsertType
  <2>4. CASE Release(w)
    BY <1>6, <2>3, <2>4, ReleaseType DEF InsertChunk, TypeInvariant, TypeOK
  <2>5. CASE ~Release(w)
    <3>1. todo' \in [Workers -> SUBSET Subscribers]
      BY <2>2, <2>5 DEF TypeInvariant, TypeOK
    <3>2. Afterwards(todo[w] \ S) \in {"filled", "filling"}
      BY DEF Afterwards
    <3> HIDE DEF c
    <3> QED
      BY <1>6, <2>2, <2>3, <2>5, <3>1, <3>2 DEF InsertChunk, TypeInvariant, TypeOK, Shape, Phase
  <2> QED  BY <2>4, <2>5
<1>7. CASE MarkComplete(w)
  <2>1. c \in Campaigns
    BY <1>7 DEF MarkComplete, TypeInvariant, Shape
  <2>2. /\ campaign' \in [Campaigns -> CampaignStatus] /\ age' \in [Campaigns -> 0..ReapAfter]
        /\ audience_complete' \in [Campaigns -> BOOLEAN]
    BY <1>7, <2>1, StatusType, CompleteType DEF MarkComplete, CampaignStatus
  <2>3. CASE Release(w)
    BY <1>7, <2>2, <2>3, ReleaseType DEF MarkComplete, TypeInvariant, TypeOK
  <2>4. CASE Go(w, "counting")
    BY <1>7, <2>2, <2>4, GoType DEF MarkComplete, Go, TypeInvariant, TypeOK, Phase
  <2> QED  BY <1>7, <2>3, <2>4 DEF MarkComplete
<1> QED
  BY <1>1, <1>2, <1>3, <1>4, <1>5, <1>6, <1>7

LEMMA MarkStuckFailedType ==
  ASSUME TypeInvariant, NEW c \in Campaigns, MarkStuckFailed(c)
  PROVE  /\ campaign' \in [Campaigns -> CampaignStatus]
         /\ age' \in [Campaigns -> 0..ReapAfter]
         /\ audience_complete' \in [Campaigns -> BOOLEAN]
         /\ gaveUp' \in SUBSET Campaigns
  BY StatusType, CompleteType DEF MarkStuckFailed, CampaignStatus, TypeInvariant, TypeOK

LEMMA TypeReap ==
  ASSUME TypeInvariant, NEW w \in Workers,
         \/ AbandonSiteless(w) \/ CheckStuck(w) \/ CountStuck(w) \/ WriteStuck(w)
         \/ InsertCampaign(w)
  PROVE  TypeInvariant'
<1> USE FanoutAssumption DEF table, people, faults, observer
<1> DEFINE c == target[w]
<1>1. CASE AbandonSiteless(w)
  <2>1. c \in Campaigns
    BY <1>1 DEF AbandonSiteless, TypeInvariant, Shape
  <2> QED
    BY <1>1, <2>1, ReleaseType, MarkStuckFailedType DEF AbandonSiteless, TypeInvariant, TypeOK
<1>2. CASE CheckStuck(w)
  <2>1. CASE Go(w, Resumption(whole[w]))
    <3>1. Resumption(whole[w]) \in Phase \ {"deciding"}
      BY DEF Resumption, Phase
    <3>2. phase' \in [Workers -> Phase] /\ Shape'
      BY <1>2, <2>1, <3>1, GoType DEF CheckStuck
    <3> QED
      BY <1>2, <2>1, <3>2 DEF CheckStuck, Go, TypeInvariant, TypeOK
  <2>2. CASE Release(w)
    BY <1>2, <2>2, ReleaseType DEF CheckStuck, TypeInvariant, TypeOK
  <2> QED  BY <1>2, <2>1, <2>2 DEF CheckStuck
<1>3. CASE CountStuck(w)
  <2>1. CASE MayFinalize(c)
    <3>1. /\ verdict' = [verdict EXCEPT ![w] =
               IF AnySent(c) \/ Reached(c) = {} THEN "done" ELSE "failed"]
          /\ phase' = [phase EXCEPT ![w] = "deciding"]
          /\ UNCHANGED <<job, target, whole, todo, busy, table, people, faults, observer>>
      BY <1>3, <2>1 DEF CountStuck
    <3>2. c \in Campaigns
      BY <1>3 DEF CountStuck, TypeInvariant, Shape
    <3> QED
      BY <3>1, <3>2 DEF TypeInvariant, TypeOK, Shape, Phase
  <2>2. CASE ~MayFinalize(c)
    BY <1>3, <2>2, ReleaseType DEF CountStuck, TypeInvariant, TypeOK
  <2> QED  BY <2>1, <2>2
<1>4. CASE WriteStuck(w)
  <2>1. c \in Campaigns /\ verdict[w] \in CampaignStatus
    BY <1>4 DEF WriteStuck, TypeInvariant, Shape, CampaignStatus
  <2> QED
    BY <1>4, <2>1, ReleaseType, StatusType, CompleteType DEF WriteStuck, TypeInvariant, TypeOK
<1>5. CASE InsertCampaign(w)
  <2>1. c \in Campaigns
    BY <1>5 DEF InsertCampaign, TypeInvariant, Shape
  <2>2. campaign' \in [Campaigns -> CampaignStatus] /\ age' \in [Campaigns -> 0..ReapAfter]
    BY <1>5, <2>1, StatusType DEF InsertCampaign, CampaignStatus
  <2>3. phase' \in [Workers -> Phase] /\ Shape'
    BY <1>5, GoType DEF InsertCampaign, Phase
  <2> QED
    BY <1>5, <2>1, <2>2, <2>3 DEF InsertCampaign, Go, TypeInvariant, TypeOK
<1> QED
  BY <1>1, <1>2, <1>3, <1>4, <1>5

LEMMA TypePick ==
  ASSUME TypeInvariant, NEW w \in Workers, NEW c \in Campaigns, Pick(w, c)
  PROVE  TypeInvariant'
<1> USE FanoutAssumption DEF table, people, faults, observer
<1>1. CASE PickDue(w, c)
  BY <1>1, TakeType DEF PickDue, Take, TypeInvariant, TypeOK
<1>2. CASE PickStuck(w, c)
  BY <1>2, TakeType DEF PickStuck, Take, TypeInvariant, TypeOK
<1>3. CASE BeginAutomation(w, c)
  <2>1. Listed[c] \cap Active \in SUBSET Subscribers
    BY ActiveType
  <2> DEFINE A == Listed[c] \cap Active
  <2>2. /\ owed' = [owed EXCEPT ![c] = A]
        /\ phase' = [phase EXCEPT ![w] = "creating"]
        /\ job' = [job EXCEPT ![w] = "automate"]
        /\ target' = [target EXCEPT ![w] = c]
        /\ todo' = [todo EXCEPT ![w] = A]
        /\ UNCHANGED <<table, people, whole, busy, verdict, faults, gaveUp>>
    BY <1>3 DEF BeginAutomation
  <2> HIDE DEF A
  <2> QED
    BY <2>1, <2>2 DEF A, TypeInvariant, TypeOK, Shape, Phase
<1>4. CASE BeginSend(w, c)
  <2>1. PICK S \in SUBSET Waiting(c) : todo' = [todo EXCEPT ![w] = S]
    BY <1>4 DEF BeginSend
  <2>2. S \subseteq Subscribers
    BY DEF Waiting
  <2> QED
    BY <1>4, <2>1, <2>2 DEF BeginSend, TypeInvariant, TypeOK, Shape, Phase
<1> QED
  BY <1>1, <1>2, <1>3, <1>4 DEF Pick

LEMMA TypeFault ==
  ASSUME TypeInvariant, NEW w \in Workers, Throw(w) \/ Crash(w)
  PROVE  TypeInvariant'
<1> USE FanoutAssumption DEF table, people, faults, observer
<1> DEFINE c == target[w]
<1>1. CASE Throw(w)
  <2>1. c \in Campaigns
    BY <1>1 DEF Throw, TypeInvariant, Shape
  <2>2. /\ campaign' \in [Campaigns -> CampaignStatus]
        /\ age' \in [Campaigns -> 0..ReapAfter]
        /\ audience_complete' \in [Campaigns -> BOOLEAN]
        /\ gaveUp' \in SUBSET Campaigns
    <3>1. \/ UNCHANGED <<campaign, age, audience_complete, gaveUp>>
          \/ SetStatus(c, "failed") /\ UNCHANGED <<audience_complete, gaveUp>>
          \/ MarkStuckFailed(c)
          \/ SetIfSending(c, "failed") /\ UNCHANGED <<audience_complete, gaveUp>>
      BY <1>1 DEF Throw
    <3> QED
      BY <2>1, <3>1, StatusType, MarkStuckFailedType DEF CampaignStatus, TypeInvariant, TypeOK
  <2> QED
    BY <1>1, <2>2, ReleaseType DEF Throw, TypeInvariant, TypeOK
<1>2. CASE Crash(w)
  BY <1>2, ReleaseType DEF Crash, TypeInvariant, TypeOK
<1> QED  BY <1>1, <1>2

LEMMA TypeSend ==
  ASSUME TypeInvariant, NEW c \in Campaigns, SendEngine(c)
  PROVE  TypeInvariant'
<1> USE FanoutAssumption DEF table, people, stage, faults, observer, Shape
<1>1. CASE Finalize(c)
  <2>1. campaign' \in [Campaigns -> CampaignStatus] /\ age' \in [Campaigns -> 0..ReapAfter]
    BY <1>1, StatusType DEF Finalize, CampaignStatus
  <2> QED  BY <1>1, <2>1 DEF Finalize, TypeInvariant, TypeOK
<1>2. CASE CancelTerminated(c)
  BY <1>2, InsertType DEF CancelTerminated, TypeInvariant, TypeOK
<1> QED
  BY <1>1, <1>2 DEF SendEngine

LEMMA TypeAnswer ==
  ASSUME TypeInvariant, NEW w \in Workers, SendStep(w)
  PROVE  TypeInvariant'
<1> USE FanoutAssumption DEF table, people, faults, observer
<1> DEFINE c == target[w]
<1>1. PICK s \in Subscribers : Deliver(w, s) \/ Postpone(w, s)
  BY DEF SendStep
<1>2. c \in Campaigns
  BY <1>1 DEF Deliver, Postpone, TypeInvariant, Shape
<1>3. row' \in [Campaigns -> [Subscribers -> RowStatus]]
  <2>1. PICK r \in {"sent", "failed", "pending"} : row' = [row EXCEPT ![c][s] = r]
    BY <1>1 DEF Deliver, Postpone
  <2>2. row[c] \in [Subscribers -> RowStatus] /\ r \in RowStatus
    BY <1>2 DEF TypeInvariant, TypeOK, RowStatus
  <2> HIDE DEF c
  <2> QED  BY <1>2, <2>1, <2>2 DEF TypeInvariant, TypeOK
<1>4. age' \in [Campaigns -> 0..ReapAfter]
  <2>1. age' = age \/ age' = [age EXCEPT ![c] = 0]
    BY <1>1 DEF Deliver, Postpone
  <2>2. 0 \in 0..ReapAfter
    OBVIOUS
  <2> HIDE DEF c
  <2> QED  BY <1>2, <2>1, <2>2 DEF TypeInvariant, TypeOK
<1>5. UNCHANGED <<campaign, audience_complete, people, faults, observer>> /\ Answered(w, s)
  BY <1>1 DEF Deliver, Postpone
<1>6. CASE Release(w)
  BY <1>3, <1>4, <1>5, <1>6, ReleaseType DEF TypeInvariant, TypeOK
<1>7. CASE /\ todo' = [todo EXCEPT ![w] = @ \ {s}]
           /\ UNCHANGED <<phase, job, target, whole, busy, verdict>>
  <2>1. todo' \in [Workers -> SUBSET Subscribers]
    BY <1>7 DEF TypeInvariant, TypeOK
  <2> QED
    BY <1>3, <1>4, <1>5, <1>7, <2>1 DEF TypeInvariant, TypeOK, Shape
<1> QED
  BY <1>5, <1>6, <1>7 DEF Answered

LEMMA AgainType ==
  ASSUME TypeInvariant, NEW c \in Campaigns, RetryFailed(c)
  PROVE  row' \in [Campaigns -> [Subscribers -> RowStatus]]
<1> DEFINE again == [s \in Subscribers |-> IF row[c][s] = "failed" THEN "pending" ELSE row[c][s]]
<1>1. row \in [Campaigns -> [Subscribers -> RowStatus]]
  BY DEF TypeInvariant, TypeOK
<1>2. again \in [Subscribers -> RowStatus]
  BY <1>1 DEF RowStatus
<1>3. row' = [row EXCEPT ![c] = again]
  BY <1>1 DEF RetryFailed
<1> HIDE DEF again
<1> QED
  BY <1>1, <1>2, <1>3

LEMMA TypeEnvironment ==
  ASSUME TypeInvariant, Operator \/ Tick \/ \E s \in Subscribers : Subscribe(s) \/ Unsubscribe(s)
  PROVE  TypeInvariant'
<1> USE FanoutAssumption DEF table, people, stage, faults, observer, Shape
<1>1. ASSUME NEW c \in Campaigns, CancelCampaign(c) PROVE TypeInvariant'
  <2>1. campaign' \in [Campaigns -> CampaignStatus] /\ age' \in [Campaigns -> 0..ReapAfter]
    BY <1>1, StatusType DEF CancelCampaign, CampaignStatus
  <2> QED  BY <1>1, <2>1, InsertType DEF CancelCampaign, TypeInvariant, TypeOK
<1>2. ASSUME NEW c \in Campaigns, RetryFailed(c) PROVE TypeInvariant'
  <2>1. campaign' \in [Campaigns -> CampaignStatus] /\ age' \in [Campaigns -> 0..ReapAfter]
    BY <1>2, StatusType DEF RetryFailed, CampaignStatus
  <2> QED  BY <1>2, <2>1, AgainType DEF RetryFailed, TypeInvariant, TypeOK
<1>3. ASSUME NEW c \in Campaigns, ResendToNonClickers(c) PROVE TypeInvariant'
  <2>1. campaign' \in [Campaigns -> CampaignStatus] /\ age' \in [Campaigns -> 0..ReapAfter]
    BY <1>3, StatusType DEF ResendToNonClickers, CampaignStatus
  <2> QED  BY <1>3, <2>1 DEF ResendToNonClickers, TypeInvariant, TypeOK
<1>4. ASSUME NEW g \in Sites, NEW s \in {"active", "paused"}, SetSiteStatus(g, s) PROVE TypeInvariant'
  BY <1>4 DEF SetSiteStatus, TypeInvariant, TypeOK
<1>5. ASSUME NEW s \in Subscribers, Subscribe(s) PROVE TypeInvariant'
  BY <1>5 DEF Subscribe, TypeInvariant, TypeOK
<1>6. ASSUME NEW s \in Subscribers, Unsubscribe(s) PROVE TypeInvariant'
  BY <1>6 DEF Unsubscribe, TypeInvariant, TypeOK
<1>7. CASE Tick
  <2>1. age' \in [Campaigns -> 0..ReapAfter] /\ busy' \in [Workers -> Nat]
    BY <1>7 DEF Tick, TypeInvariant, TypeOK
  <2> QED  BY <1>7, <2>1 DEF Tick, TypeInvariant, TypeOK
<1> QED
  BY <1>1, <1>2, <1>3, <1>4, <1>5, <1>6, <1>7 DEF Operator

LEMMA TypeNext == TypeInvariant /\ [Next]_vars => TypeInvariant'
<1> SUFFICES ASSUME TypeInvariant, [Next]_vars PROVE TypeInvariant'
  OBVIOUS
<1>1. ASSUME NEW w \in Workers, StageStep(w) PROVE TypeInvariant'
  BY <1>1, TypeStart, TypeReap DEF StageStep
<1>2. CASE UNCHANGED vars
  BY <1>2 DEF vars, table, people, stage, faults, observer, TypeInvariant, TypeOK, Shape
<1> QED
  BY <1>1, <1>2, TypePick, TypeAnswer, TypeFault, TypeSend, TypeEnvironment DEF Next

\* Every variable keeps its type along every behaviour of the scheduler.
THEOREM TypeCorrect == Spec => []TypeOK
<1>1. TypeInvariant => TypeOK
  BY DEF TypeInvariant
<1> QED
  BY <1>1, TypeInit, TypeNext, PTL DEF Spec

-----------------------------------------------------------------------------
(* Why a complete fan-out has reached everyone.                            *)

\* Whom a campaign owes a delivery is listed and subscribed.
OwedSubscribed ==
  \A c \in Campaigns : owed[c] \subseteq Listed[c] \cap Active

\* A campaign nobody claimed yet is not complete, and nobody fans it out.
UnclaimedUntouched ==
  \A c \in Campaigns : campaign[c] \in {"none", "scheduled"} =>
    /\ ~audience_complete[c]
    /\ \A w \in Workers :
         target[w] = c => phase[w] \in {"idle", "due", "ready", "creating"}

\* A campaign a stage selected as complete has been so ever since.
WholeIsComplete ==
  \A w \in Workers : whole[w] => phase[w] # "idle" /\ audience_complete[target[w]]

\* What a fan-out has not yet inserted is in its hands; once it has inserted
\* everything nobody is missing.
Covers(w) ==
  phase[w] # "idle" /\ target[w] \notin Immediate =>
    /\ phase[w] = "filling" => owed[target[w]] \subseteq Reached(target[w]) \cup todo[w]
    /\ phase[w] \in {"filled", "empty"} => owed[target[w]] \subseteq Reached(target[w])
    /\ phase[w] \in {"counting", "deciding"} =>
         whole[w] \/ owed[target[w]] \subseteq Reached(target[w])

FanoutCovers == \A w \in Workers : Covers(w)

\* Only automation campaigns are created by a stage.
CreatedAreImmediate ==
  \A w \in Workers : phase[w] = "creating" => target[w] \in Immediate

FanoutInvariant ==
  /\ TypeInvariant
  /\ OwedSubscribed
  /\ UnclaimedUntouched
  /\ WholeIsComplete
  /\ FanoutCovers
  /\ CreatedAreImmediate
  /\ FullAudience

LEMMA FanoutInit == Init => FanoutInvariant
  BY TypeInit DEF Init, InitWith, FanoutInvariant, OwedSubscribed, UnclaimedUntouched, WholeIsComplete,
    FanoutCovers, Covers, CreatedAreImmediate, FullAudience

\* The steps of a worker's stage, and all the others.
WorkerStep(w) ==
  StageStep(w) \/ SendStep(w) \/ Throw(w) \/ Crash(w) \/ \E c \in Campaigns : Pick(w, c)
Elsewhere ==
  \/ \E c \in Campaigns : SendEngine(c)
  \/ Operator
  \/ \E s \in Subscribers : Subscribe(s) \/ Unsubscribe(s)
  \/ Tick

LEMMA StepKinds == Next => Elsewhere \/ \E w \in Workers : WorkerStep(w)
  BY DEF Next, WorkerStep, Elsewhere

LEMMA ElsewhereFrame ==
  ASSUME Elsewhere
  PROVE  /\ UNCHANGED <<phase, job, target, whole, todo, verdict, audience_complete, gaveUp>>
         /\ owed' = owed \/ \E s \in Subscribers : owed' = [c \in Campaigns |-> owed[c] \ {s}]
  BY DEF Elsewhere, SendEngine, Finalize, CancelTerminated, Operator, CancelCampaign,
    RetryFailed, ResendToNonClickers, SetSiteStatus, Subscribe, Unsubscribe, Tick,
    table, people, stage, faults, observer

LEMMA OthersFrame ==
  ASSUME TypeInvariant, NEW w \in Workers, NEW v \in Workers \ {w}, WorkerStep(w)
  PROVE  /\ phase'[v] = phase[v] /\ target'[v] = target[v]
         /\ whole'[v] = whole[v] /\ todo'[v] = todo[v] /\ job'[v] = job[v]
<1> USE DEF TypeInvariant, TypeOK
<1>1. CASE Release(w)
  BY <1>1 DEF Release
<1>2. ASSUME NEW p, Go(w, p)
      PROVE  /\ phase'[v] = phase[v] /\ target'[v] = target[v]
             /\ whole'[v] = whole[v] /\ todo'[v] = todo[v] /\ job'[v] = job[v]
  BY <1>2 DEF Go
<1>3. ASSUME NEW c \in Campaigns, NEW j, NEW p, Take(w, c, j, p)
      PROVE  /\ phase'[v] = phase[v] /\ target'[v] = target[v]
             /\ whole'[v] = whole[v] /\ todo'[v] = todo[v] /\ job'[v] = job[v]
  BY <1>3 DEF Take
<1>4. CASE StageStep(w)
  BY <1>1, <1>2, <1>4 DEF StageStep, CheckStart, ClaimCampaign, FailSiteless, ResolveAudience,
    FinishEmpty, InsertChunk, MarkComplete, AbandonSiteless, CheckStuck, CountStuck, WriteStuck,
    InsertCampaign
<1>5. CASE Throw(w) \/ Crash(w)
  BY <1>1, <1>5 DEF Throw, Crash
<1>6. ASSUME NEW c \in Campaigns, Pick(w, c)
      PROVE  /\ phase'[v] = phase[v] /\ target'[v] = target[v]
             /\ whole'[v] = whole[v] /\ todo'[v] = todo[v] /\ job'[v] = job[v]
  BY <1>3, <1>6 DEF Pick, PickDue, PickStuck, BeginAutomation, BeginSend
<1>7. CASE SendStep(w)
  BY <1>1, <1>7 DEF SendStep, Deliver, Postpone, Answered
<1> QED
  BY <1>4, <1>5, <1>6, <1>7 DEF WorkerStep

\* Deliveries are never deleted, audience_complete is never reset, and a
\* campaign that left `scheduled` does not come back.
LEMMA RowsOnly ==
  ASSUME TypeInvariant, NEW c \in Campaigns, NEW e \in Campaigns,
         \/ \E S : Insert(e, S)
         \/ CancelPending(e)
         \/ \E s \in Subscribers, r \in {"sent", "failed", "pending"} : row' = [row EXCEPT ![e][s] = r]
         \/ RetryFailed(e)
         \/ row' = row
  PROVE  Reached(c) \subseteq Reached(c)'
  BY DEF Insert, CancelPending, RetryFailed, Reached, TypeInvariant, TypeOK

LEMMA ReachedGrows ==
  ASSUME TypeInvariant, Next, NEW c \in Campaigns
  PROVE  Reached(c) \subseteq Reached(c)'
<1> USE DEF table, people, stage, faults, observer
<1>1. ASSUME NEW w \in Workers, WorkerStep(w) PROVE Reached(c) \subseteq Reached(c)'
  <2>1. CASE InsertChunk(w)
    BY <2>1, RowsOnly DEF InsertChunk, TypeInvariant, Shape
  <2>2. CASE SendStep(w)
    BY <2>2, RowsOnly DEF SendStep, Deliver, Postpone, TypeInvariant, Shape
  <2>3. CASE ~InsertChunk(w) /\ ~SendStep(w)
    <3>1. row' = row
      BY <1>1, <2>3 DEF WorkerStep, StageStep, CheckStart, ClaimCampaign, FailSiteless,
        ResolveAudience, FinishEmpty, MarkComplete, AbandonSiteless, CheckStuck, CountStuck,
        WriteStuck, InsertCampaign, Throw, Crash, Pick, PickDue, PickStuck, BeginAutomation,
        BeginSend
    <3> QED  BY <3>1 DEF Reached
  <2> QED  BY <2>1, <2>2, <2>3
<1>2. ASSUME NEW e \in Campaigns, SendEngine(e) \/ CancelCampaign(e) \/ RetryFailed(e)
      PROVE  Reached(c) \subseteq Reached(c)'
  BY <1>2, RowsOnly DEF SendEngine, Finalize, CancelTerminated, CancelCampaign
<1>3. ASSUME \/ \E e \in Campaigns : ResendToNonClickers(e)
             \/ \E g \in Sites, s \in {"active", "paused"} : SetSiteStatus(g, s)
             \/ \E s \in Subscribers : Subscribe(s) \/ Unsubscribe(s)
             \/ Tick
      PROVE  Reached(c) \subseteq Reached(c)'
  BY <1>3 DEF ResendToNonClickers, SetSiteStatus, Subscribe, Unsubscribe, Tick, Reached
<1> QED
  BY StepKinds, <1>1, <1>2, <1>3 DEF Elsewhere, Operator

LEMMA StatusMoves ==
  ASSUME TypeInvariant, NEW c \in Campaigns, NEW e \in Campaigns,
         NEW s \in CampaignStatus \ {"none", "scheduled"},
         SetStatus(e, s) \/ SetIfSending(e, s) \/ campaign' = campaign,
         campaign'[c] \in {"none", "scheduled"}
  PROVE  campaign'[c] = campaign[c]
  BY DEF SetStatus, SetIfSending, TypeInvariant, TypeOK

LEMMA Unclaimed ==
  ASSUME TypeInvariant, Next, NEW c \in Campaigns, campaign'[c] \in {"none", "scheduled"}
  PROVE  campaign[c] \in {"none", "scheduled"}
<1> USE DEF table, people, stage, faults, observer, CampaignStatus
<1>1. ASSUME NEW w \in Workers, WorkerStep(w), phase[w] # "idle"
      PROVE  campaign'[c] = campaign[c]
  <2>1. target[w] \in Campaigns
    BY <1>1 DEF TypeInvariant, Shape
  <2>2. CASE campaign' = campaign
    BY <2>2
  <2>3. CASE ~(campaign' = campaign)
    <3>1. \/ SetStatus(target[w], "sending")
          \/ \E s \in {"failed", "done", "sending"} : SetIfSending(target[w], s)
          \/ SetStatus(target[w], "failed")
          \/ phase[w] = "deciding" /\ SetIfSending(target[w], verdict[w])
      BY <1>1, <2>3 DEF WorkerStep, StageStep, CheckStart, ClaimCampaign, FailSiteless,
        ResolveAudience, FinishEmpty, InsertChunk, MarkComplete, AbandonSiteless, CheckStuck,
        CountStuck, WriteStuck, InsertCampaign, MarkStuckFailed, Throw, Crash, Pick, PickDue,
        PickStuck, BeginAutomation, BeginSend, SendStep, Deliver, Postpone
    <3> QED
      BY <2>1, <3>1, StatusMoves DEF TypeInvariant, Shape
  <2> QED  BY <2>2, <2>3
<1>2. ASSUME NEW w \in Workers, WorkerStep(w), phase[w] = "idle"
      PROVE  campaign'[c] = campaign[c]
  BY <1>2 DEF WorkerStep, StageStep, CheckStart, ClaimCampaign, FailSiteless,
    ResolveAudience, FinishEmpty, InsertChunk, MarkComplete, AbandonSiteless, CheckStuck,
    CountStuck, WriteStuck, InsertCampaign, Throw, Crash, Pick, PickDue, PickStuck,
    BeginAutomation, BeginSend, SendStep, Deliver, Postpone
<1>3. ASSUME NEW e \in Campaigns, SendEngine(e) \/ CancelCampaign(e) \/ RetryFailed(e)
      PROVE  campaign'[c] = campaign[c]
  BY <1>3, StatusMoves DEF SendEngine, Finalize, CancelTerminated, CancelCampaign, RetryFailed
<1>4. ASSUME NEW e \in Campaigns, ResendToNonClickers(e)
      PROVE  campaign[c] \in {"none", "scheduled"}
  BY <1>4 DEF ResendToNonClickers, SetStatus, TypeInvariant, TypeOK
<1>5. ASSUME \/ \E g \in Sites, s \in {"active", "paused"} : SetSiteStatus(g, s)
             \/ \E s \in Subscribers : Subscribe(s) \/ Unsubscribe(s)
             \/ Tick
      PROVE  campaign'[c] = campaign[c]
  BY <1>5 DEF SetSiteStatus, Subscribe, Unsubscribe, Tick
<1> QED
  BY StepKinds, <1>1, <1>2, <1>3, <1>4, <1>5 DEF Elsewhere, Operator

\* A campaign comes to owe more only when it is claimed, or created by an
\* automation.
LEMMA OwedShrinks ==
  ASSUME TypeInvariant, Next, NEW c \in Campaigns
  PROVE  \/ owed'[c] \subseteq owed[c]
         \/ campaign[c] = "scheduled" /\ owed'[c] = Listed[c] \cap Active /\ subscription' = subscription
         \/ c \in Immediate /\ owed'[c] = Listed[c] \cap Active /\ subscription' = subscription
<1> USE DEF table, people, stage, faults, observer, TypeInvariant, TypeOK
<1>1. CASE Elsewhere
  BY <1>1, ElsewhereFrame
<1>2. ASSUME NEW w \in Workers, WorkerStep(w), ~ClaimCampaign(w), \A e \in Campaigns : ~BeginAutomation(w, e)
      PROVE  owed' = owed
  BY <1>2 DEF WorkerStep, StageStep, CheckStart, FailSiteless, ResolveAudience, FinishEmpty,
    InsertChunk, MarkComplete, AbandonSiteless, CheckStuck, CountStuck, WriteStuck,
    InsertCampaign, Throw, Crash, Pick, PickDue, PickStuck, BeginSend, SendStep, Deliver, Postpone
<1>3. ASSUME NEW w \in Workers, ClaimCampaign(w)
      PROVE  \/ owed'[c] \subseteq owed[c]
             \/ campaign[c] = "scheduled" /\ owed'[c] = Listed[c] \cap Active /\ subscription' = subscription
  <2>1. CASE campaign[target[w]] = "scheduled"
    <3>1. /\ owed' = [owed EXCEPT ![target[w]] = Listed[target[w]] \cap Active]
          /\ subscription' = subscription
      BY <1>3, <2>1 DEF ClaimCampaign
    <3> QED  BY <2>1, <3>1
  <2>2. CASE campaign[target[w]] # "scheduled"
    BY <1>3, <2>2 DEF ClaimCampaign
  <2> QED  BY <2>1, <2>2
<1>4. ASSUME NEW w \in Workers, NEW e \in Campaigns, BeginAutomation(w, e)
      PROVE  \/ owed'[c] \subseteq owed[c]
             \/ c \in Immediate /\ owed'[c] = Listed[c] \cap Active /\ subscription' = subscription
  BY <1>4 DEF BeginAutomation
<1> QED
  BY StepKinds, <1>1, <1>2, <1>3, <1>4

-----------------------------------------------------------------------------
(* What one step does to the stage that takes it.                          *)

\* The stage begins with a campaign, ...
Begins(w) ==
  /\ phase[w] = "idle" /\ target'[w] \in Campaigns
  /\ \/ phase'[w] = "due" /\ whole'[w] = audience_complete[target'[w]]
     \/ /\ phase'[w] = "stuck" /\ whole'[w] = audience_complete[target'[w]]
        /\ campaign[target'[w]] = "sending"
     \/ phase'[w] = "creating" /\ target'[w] \in Immediate /\ whole'[w] = whole[w]
     \/ phase'[w] = "sending" /\ campaign'[target'[w]] = "sending" /\ whole'[w] = whole[w]

\* ... is through with it, ...
Ends(w) == phase'[w] = "idle" /\ ~whole'[w]

\* ... or goes on with it.
GoesOn(w) ==
  /\ phase[w] # "idle" /\ target'[w] = target[w] /\ whole'[w] = whole[w]
  /\ \/ phase[w] = "due" /\ phase'[w] = "ready"
     \/ phase[w] = "ready" /\ phase'[w] = "claimed" /\ campaign'[target[w]] = "sending"
     \/ /\ phase[w] = "claimed" /\ phase'[w] \in {"filling", "filled", "empty"}
        /\ \E A \in Audiences(target[w]) :
             todo'[w] = A /\ (phase'[w] \in {"filled", "empty"} => A = {})
     \/ /\ phase[w] = "filling" /\ phase'[w] \in {"filling", "filled"}
        /\ \E S \in SUBSET todo[w] :
             /\ Insert(target[w], S) /\ todo'[w] = todo[w] \ S
             /\ phase'[w] = "filled" => S = todo[w]
     \/ phase[w] = "filled" /\ phase'[w] = "counting"
     \/ phase[w] = "stuck" /\ phase'[w] = "claimed"
     \/ phase[w] = "stuck" /\ phase'[w] = "counting" /\ whole[w]
     \/ phase[w] = "counting" /\ phase'[w] = "deciding"
     \/ phase[w] = "creating" /\ phase'[w] \in {"empty", "filling"} /\ campaign'[target[w]] = "sending"
     \/ phase[w] = "sending" /\ phase'[w] = "sending"

LEMMA StageMoves ==
  ASSUME TypeInvariant, NEW w \in Workers, WorkerStep(w)
  PROVE  Begins(w) \/ Ends(w) \/ GoesOn(w)
<1> USE DEF TypeInvariant, TypeOK
<1> DEFINE c == target[w]
<1>1. Release(w) => Ends(w)
  BY DEF Release, Ends
<1>2. ASSUME NEW p, Go(w, p)
      PROVE  phase'[w] = p /\ target'[w] = target[w] /\ whole'[w] = whole[w]
  BY <1>2 DEF Go
<1>3. CASE CheckStart(w)
  BY <1>1, <1>2, <1>3 DEF CheckStart, GoesOn
<1>4. CASE ClaimCampaign(w)
  <2>1. CASE campaign[c] = "scheduled"
    <3>1. c \in Campaigns
      BY <1>4 DEF ClaimCampaign, Shape
    <3> QED
      BY <1>4, <2>1, <3>1 DEF ClaimCampaign, SetStatus, GoesOn
  <2>2. CASE campaign[c] # "scheduled"
    BY <1>1, <1>4, <2>2 DEF ClaimCampaign
  <2> QED  BY <2>1, <2>2
<1>5. CASE ResolveAudience(w)
  BY <1>5 DEF ResolveAudience, GoesOn
<1>6. CASE InsertChunk(w)
  <2>1. PICK S \in SUBSET todo[w] :
          /\ Insert(c, S)
          /\ \/ Release(w)
             \/ /\ todo' = [todo EXCEPT ![w] = @ \ S]
                /\ phase' = [phase EXCEPT ![w] = Afterwards(todo[w] \ S)]
                /\ UNCHANGED <<job, target, whole, busy, verdict>>
    BY <1>6 DEF InsertChunk
  <2>2. CASE ~Release(w)
    <3>1. todo'[w] = todo[w] \ S /\ phase'[w] = Afterwards(todo[w] \ S)
      BY <2>1, <2>2
    <3>2. phase'[w] \in {"filling", "filled"} /\ (phase'[w] = "filled" => S = todo[w])
      BY <3>1 DEF Afterwards
    <3> QED
      BY <1>6, <2>1, <2>2, <3>1, <3>2 DEF InsertChunk, GoesOn
  <2> QED  BY <1>1, <2>2
<1>7. CASE MarkComplete(w)
  BY <1>1, <1>2, <1>7 DEF MarkComplete, GoesOn
<1>8. CASE CheckStuck(w)
  BY <1>1, <1>2, <1>8 DEF CheckStuck, Resumption, GoesOn
<1>9. CASE CountStuck(w)
  <2>1. CASE MayFinalize(c)
    BY <1>9, <2>1 DEF CountStuck, GoesOn
  <2>2. CASE ~MayFinalize(c)
    BY <1>1, <1>9, <2>2 DEF CountStuck
  <2> QED  BY <2>1, <2>2
<1>10. CASE InsertCampaign(w)
  <2>1. c \in Campaigns
    BY <1>10 DEF InsertCampaign, Shape
  <2> QED
    BY <1>2, <1>10, <2>1 DEF InsertCampaign, SetStatus, GoesOn
<1>11. CASE FailSiteless(w) \/ FinishEmpty(w) \/ AbandonSiteless(w) \/ WriteStuck(w) \/ Throw(w) \/ Crash(w)
  BY <1>1, <1>11 DEF FailSiteless, FinishEmpty, AbandonSiteless, WriteStuck, Throw, Crash
<1>12. ASSUME NEW e \in Campaigns, Pick(w, e) PROVE Begins(w)
  <2>1. CASE BeginSend(w, e)
    BY <2>1 DEF BeginSend, Begins, table
  <2> QED
    BY <1>12, <2>1 DEF Pick, PickDue, PickStuck, BeginAutomation, Take, Begins, FirstOf, IsStuck
<1>13. CASE SendStep(w)
  BY <1>1, <1>13 DEF SendStep, Deliver, Postpone, Answered, GoesOn
<1> QED
  BY <1>3, <1>4, <1>5, <1>6, <1>7, <1>8, <1>9, <1>10, <1>11, <1>12, <1>13 DEF WorkerStep, StageStep

\* Every stage takes a step of its own or keeps still.
LEMMA EachStage ==
  ASSUME TypeInvariant, Next, NEW v \in Workers
  PROVE  \/ Begins(v) \/ Ends(v) \/ GoesOn(v)
         \/ /\ phase'[v] = phase[v] /\ target'[v] = target[v]
            /\ whole'[v] = whole[v] /\ todo'[v] = todo[v]
<1>1. CASE Elsewhere
  BY <1>1, ElsewhereFrame
<1>2. ASSUME NEW w \in Workers, WorkerStep(w), w # v
      PROVE  /\ phase'[v] = phase[v] /\ target'[v] = target[v]
             /\ whole'[v] = whole[v] /\ todo'[v] = todo[v]
  BY <1>2, OthersFrame
<1> QED
  BY StepKinds, StageMoves, <1>1, <1>2

-----------------------------------------------------------------------------
(* Who marks a campaign complete.                                          *)

LEMMA CompleteFrame ==
  ASSUME TypeInvariant, NEW e \in Campaigns, CompleteIfSending(e),
         NEW c \in Campaigns, audience_complete'[c] # audience_complete[c]
  PROVE  c = e /\ campaign[c] = "sending" /\ audience_complete'[c]
<1> DEFINE new == audience_complete[e] \/ campaign[e] = "sending"
<1>1. audience_complete \in [Campaigns -> BOOLEAN]
  BY DEF TypeInvariant, TypeOK
<1>2. audience_complete' = [audience_complete EXCEPT ![e] = new]
  BY DEF CompleteIfSending
<1>3. new \in BOOLEAN
  BY <1>1
<1>4. c # e => audience_complete'[c] = audience_complete[c]
  BY <1>1, <1>2
<1>5. audience_complete'[e] = new
  BY <1>1, <1>2
<1>6. c = e
  BY <1>4
<1>7. new # audience_complete[e]
  BY <1>5, <1>6
<1>8. ~audience_complete[e] /\ new
  BY <1>1, <1>7
<1> QED
  BY <1>5, <1>6, <1>8

LEMMA CompletedBy ==
  ASSUME FanoutInvariant, Next, NEW c \in Campaigns, audience_complete'[c] # audience_complete[c]
  PROVE  /\ audience_complete'[c]
         /\ campaign'[c] \notin {"none", "scheduled"}
         /\ owed' = owed
         /\ c \in Immediate \/ c \in gaveUp' \/ owed[c] \subseteq Reached(c)
<1> USE DEF FanoutInvariant, TypeInvariant, TypeOK, table, people, faults, observer
<1>1. PICK w \in Workers : WorkerStep(w)
  BY StepKinds, ElsewhereFrame
<1> DEFINE e == target[w]
<1>2. ASSUME CompleteIfSending(e), e \in Campaigns
      PROVE  c = e /\ campaign[c] = "sending" /\ audience_complete'[c]
  BY <1>2, CompleteFrame
<1>3. ASSUME NEW s \in CampaignStatus \ {"none", "scheduled"}, SetIfSending(e, s),
             CompleteIfSending(e), e \in Campaigns
      PROVE  campaign'[c] \notin {"none", "scheduled"}
  BY <1>2, <1>3 DEF SetIfSending, SetStatus
<1>4. ASSUME MarkStuckFailed(e), e \in Campaigns
      PROVE  /\ audience_complete'[c] /\ campaign'[c] \notin {"none", "scheduled"} /\ c \in gaveUp'
  BY <1>2, <1>3, <1>4 DEF MarkStuckFailed, CampaignStatus
<1>5. CASE FinishEmpty(w)
  <2>1. e \in Campaigns /\ SetIfSending(e, "done") /\ CompleteIfSending(e) /\ owed' = owed
    BY <1>5 DEF FinishEmpty, Shape
  <2>2. c \in Immediate \/ owed[c] \subseteq Reached(c)
    BY <1>2, <1>5, <2>1 DEF FinishEmpty, FanoutCovers, Covers
  <2> QED  BY <1>2, <1>3, <2>1, <2>2 DEF CampaignStatus
<1>6. CASE MarkComplete(w)
  <2>1. e \in Campaigns /\ SetIfSending(e, "sending") /\ CompleteIfSending(e) /\ owed' = owed
    BY <1>6 DEF MarkComplete, Shape
  <2>2. c \in Immediate \/ owed[c] \subseteq Reached(c)
    BY <1>2, <1>6, <2>1 DEF MarkComplete, FanoutCovers, Covers
  <2> QED  BY <1>2, <1>3, <2>1, <2>2 DEF CampaignStatus
<1>7. CASE WriteStuck(w)
  <2>1. e \in Campaigns /\ SetIfSending(e, verdict[w]) /\ CompleteIfSending(e) /\ owed' = owed
    BY <1>7 DEF WriteStuck, Shape
  <2>2. verdict[w] \in CampaignStatus \ {"none", "scheduled"}
    BY <1>7 DEF WriteStuck, Shape, CampaignStatus
  <2>3. ~whole[w]
    BY <1>2, <2>1 DEF WholeIsComplete
  <2>4. c \in Immediate \/ owed[c] \subseteq Reached(c)
    BY <1>2, <1>7, <2>1, <2>3 DEF WriteStuck, FanoutCovers, Covers
  <2> QED  BY <1>2, <1>3, <2>1, <2>2, <2>4
<1>8. CASE AbandonSiteless(w)
  <2>1. e \in Campaigns /\ MarkStuckFailed(e) /\ owed' = owed
    BY <1>8 DEF AbandonSiteless, Shape
  <2> QED  BY <1>4, <2>1
<1>9. CASE Throw(w)
  <2>1. e \in Campaigns /\ MarkStuckFailed(e) /\ owed' = owed
    BY <1>9 DEF Throw, Shape
  <2> QED  BY <1>4, <2>1
<1>10. CASE InsertCampaign(w)
  <2>1. /\ e \in Campaigns /\ e \in Immediate
        /\ SetStatus(e, "sending") /\ owed' = owed
        /\ audience_complete' = [audience_complete EXCEPT ![e] = TRUE]
    BY <1>10 DEF InsertCampaign, Shape, CreatedAreImmediate
  <2> QED  BY <2>1 DEF SetStatus
<1>11. CASE audience_complete' = audience_complete
  BY <1>11
<1> QED
  BY <1>1, <1>5, <1>6, <1>7, <1>8, <1>9, <1>10, <1>11 DEF WorkerStep, StageStep, CheckStart,
    ClaimCampaign, FailSiteless, ResolveAudience, InsertChunk, CheckStuck, CountStuck, Crash,
    Pick, PickDue, PickStuck, BeginAutomation, BeginSend, SendStep, Deliver, Postpone

-----------------------------------------------------------------------------
(* Every conjunct of FanoutInvariant is kept.                              *)

LEMMA KeepOwedSubscribed == FanoutInvariant /\ Next => OwedSubscribed'
<1> SUFFICES ASSUME FanoutInvariant, Next, NEW c \in Campaigns, NEW s, s \in owed'[c]
             PROVE  s \in Listed[c] /\ s \in Active'
  BY DEF OwedSubscribed
<1> USE DEF FanoutInvariant, Active, TypeInvariant, TypeOK
<1>1. CASE owed'[c] = Listed[c] \cap Active /\ subscription' = subscription
  BY <1>1
<1>2. CASE owed'[c] \subseteq owed[c]
  <2>1. s \in Listed[c] /\ s \in Subscribers /\ subscription[s] = "active"
    BY <1>2 DEF OwedSubscribed
  <2>2. subscription'[s] = "active"
    <3>1. CASE subscription' = subscription
      BY <2>1, <3>1
    <3>2. ASSUME NEW r \in Subscribers, Subscribe(r) PROVE subscription'[s] = "active"
      BY <2>1, <3>2 DEF Subscribe
    <3>3. ASSUME NEW r \in Subscribers, Unsubscribe(r) PROVE subscription'[s] = "active"
      BY <2>1, <3>3 DEF Unsubscribe
    <3> QED
      BY <3>1, <3>2, <3>3 DEF Next, StageStep, CheckStart, ClaimCampaign, FailSiteless,
        ResolveAudience, FinishEmpty, InsertChunk, MarkComplete, AbandonSiteless, CheckStuck,
        CountStuck, WriteStuck, InsertCampaign, Throw, Crash, Pick, PickDue, PickStuck,
        BeginAutomation, BeginSend, SendStep, Deliver, Postpone, SendEngine, Finalize,
        CancelTerminated, Operator,
        CancelCampaign, RetryFailed, ResendToNonClickers, SetSiteStatus, Tick, people
  <2> QED  BY <2>1, <2>2
<1> QED
  BY <1>1, <1>2, OwedShrinks

LEMMA KeepUnclaimedUntouched == FanoutInvariant /\ Next => UnclaimedUntouched'
<1> SUFFICES ASSUME FanoutInvariant, Next, NEW c \in Campaigns, campaign'[c] \in {"none", "scheduled"}
             PROVE  /\ ~audience_complete'[c]
                    /\ \A w \in Workers :
                         target'[w] = c => phase'[w] \in {"idle", "due", "ready", "creating"}
  BY DEF UnclaimedUntouched
<1> USE DEF FanoutInvariant
<1>1. campaign[c] \in {"none", "scheduled"}
  BY Unclaimed
<1>2. ~audience_complete'[c]
  BY <1>1, CompletedBy DEF UnclaimedUntouched
<1>3. ASSUME NEW w \in Workers, target'[w] = c
      PROVE  phase'[w] \in {"idle", "due", "ready", "creating"}
  BY <1>1, <1>3, EachStage DEF UnclaimedUntouched, Begins, Ends, GoesOn
<1> QED  BY <1>2, <1>3

LEMMA KeepWholeIsComplete == FanoutInvariant /\ Next => WholeIsComplete'
<1> SUFFICES ASSUME FanoutInvariant, Next, NEW w \in Workers, whole'[w]
             PROVE  phase'[w] # "idle" /\ audience_complete'[target'[w]]
  BY DEF WholeIsComplete
<1> USE DEF FanoutInvariant
<1>1. \A c \in Campaigns : audience_complete[c] => audience_complete'[c]
  BY CompletedBy
<1>2. \A v \in Workers : phase[v] # "idle" => target[v] \in Campaigns
  BY DEF TypeInvariant, Shape
<1>3. CASE Begins(w)
  BY <1>1, <1>3 DEF Begins, WholeIsComplete
<1>4. CASE GoesOn(w)
  BY <1>1, <1>2, <1>4 DEF GoesOn, WholeIsComplete
<1>5. CASE phase'[w] = phase[w] /\ target'[w] = target[w] /\ whole'[w] = whole[w]
  BY <1>1, <1>2, <1>5 DEF WholeIsComplete
<1> QED
  BY <1>3, <1>4, <1>5, EachStage DEF Ends

LEMMA KeepCreatedAreImmediate == FanoutInvariant /\ Next => CreatedAreImmediate'
<1> SUFFICES ASSUME FanoutInvariant, Next, NEW w \in Workers, phase'[w] = "creating"
             PROVE  target'[w] \in Immediate
  BY DEF CreatedAreImmediate
<1> QED
  BY EachStage DEF FanoutInvariant, CreatedAreImmediate, Begins, Ends, GoesOn

\* The audience a stage resolves includes everyone the campaign owes.
LEMMA ResolvedAudience ==
  ASSUME FanoutInvariant, NEW c \in Campaigns, NEW A \in Audiences(c)
  PROVE  owed[c] \subseteq A
  BY FanoutAssumption DEF FanoutInvariant, OwedSubscribed, Audiences

LEMMA Inserted ==
  ASSUME TypeInvariant, NEW c \in Campaigns, NEW S \in SUBSET Subscribers, Insert(c, S)
  PROVE  S \subseteq Reached(c)'
  BY DEF TypeInvariant, TypeOK, Insert, Reached

LEMMA GaveUpGrows ==
  ASSUME Next
  PROVE  gaveUp \subseteq gaveUp'
<1>1. CASE Elsewhere
  BY <1>1, ElsewhereFrame
<1>2. ASSUME NEW w \in Workers, WorkerStep(w) PROVE gaveUp \subseteq gaveUp'
  BY <1>2 DEF WorkerStep, StageStep, CheckStart, ClaimCampaign, FailSiteless, ResolveAudience,
    FinishEmpty, InsertChunk, MarkComplete, AbandonSiteless, CheckStuck, CountStuck, WriteStuck,
    InsertCampaign, Throw, Crash, Pick, PickDue, PickStuck, BeginAutomation, BeginSend,
    SendStep, Deliver, Postpone, MarkStuckFailed, table, people, stage, faults, observer
<1> QED  BY StepKinds, <1>1, <1>2

LEMMA KeepCovers ==
  ASSUME FanoutInvariant, Next, NEW w \in Workers
  PROVE  Covers(w)'
<1> USE DEF FanoutInvariant
<1>0. \A v \in Workers : phase'[v] # "idle" => target'[v] \in Campaigns
  BY TypeNext DEF TypeInvariant, Shape
<1>1. SUFFICES ASSUME NEW c \in Campaigns \ Immediate, target'[w] = c,
                      phase'[w] \in {"filling", "filled", "empty", "counting", "deciding"}
      PROVE  /\ phase'[w] = "filling" => owed'[c] \subseteq Reached(c)' \cup todo'[w]
             /\ phase'[w] \in {"filled", "empty"} => owed'[c] \subseteq Reached(c)'
             /\ phase'[w] \in {"counting", "deciding"} =>
                  whole'[w] \/ owed'[c] \subseteq Reached(c)'
  BY <1>0 DEF Covers, Reached
<1>2. \/ GoesOn(w)
      \/ /\ phase'[w] = phase[w] /\ target'[w] = target[w]
         /\ whole'[w] = whole[w] /\ todo'[w] = todo[w]
  BY <1>1, EachStage DEF Begins, Ends
<1>3. target[w] = c /\ phase[w] \notin {"idle", "due", "ready", "creating"}
  BY <1>1, <1>2 DEF GoesOn, CreatedAreImmediate
<1>5. owed'[c] \subseteq owed[c]
  BY <1>3, OwedShrinks DEF UnclaimedUntouched
<1>6. Reached(c) \subseteq Reached(c)'
  BY ReachedGrows
<1>7. Covers(w)
  BY DEF FanoutCovers
<1>8. CASE /\ phase'[w] = phase[w] /\ target'[w] = target[w]
           /\ whole'[w] = whole[w] /\ todo'[w] = todo[w]
  BY <1>3, <1>5, <1>6, <1>7, <1>8 DEF Covers
<1>9. CASE GoesOn(w)
  <2>1. CASE phase[w] = "claimed"
    <3>1. PICK A \in Audiences(c) : todo'[w] = A /\ (phase'[w] \in {"filled", "empty"} => A = {})
      BY <1>3, <1>9, <2>1 DEF GoesOn
    <3>2. owed[c] \subseteq A /\ phase'[w] \in {"filling", "filled", "empty"}
      BY <1>9, <2>1, ResolvedAudience DEF GoesOn
    <3> QED  BY <1>3, <1>5, <3>1, <3>2
  <2>2. CASE phase[w] = "filling"
    <3>1. PICK S \in SUBSET todo[w] :
            /\ Insert(c, S) /\ todo'[w] = todo[w] \ S
            /\ phase'[w] = "filled" => S = todo[w]
      BY <1>3, <1>9, <2>2 DEF GoesOn
    <3>2. S \subseteq Reached(c)'
      BY <3>1, Inserted DEF TypeInvariant, TypeOK
    <3>3. owed[c] \subseteq Reached(c) \cup todo[w]
      BY <1>3, <1>7, <2>2 DEF Covers
    <3>4. phase'[w] \in {"filling", "filled"}
      BY <1>9, <2>2 DEF GoesOn
    <3> QED  BY <1>3, <1>5, <1>6, <3>1, <3>2, <3>3, <3>4
  <2>3. CASE phase[w] = "filled" \/ phase[w] = "counting"
    <3>1. phase'[w] \in {"counting", "deciding"} /\ whole'[w] = whole[w]
      BY <1>9, <2>3 DEF GoesOn
    <3>2. whole[w] \/ owed[c] \subseteq Reached(c)
      BY <1>3, <1>7, <2>3 DEF Covers
    <3> QED  BY <1>3, <1>5, <1>6, <3>1, <3>2
  <2>4. CASE phase[w] = "stuck"
    <3>1. phase'[w] = "counting" /\ whole'[w]
      BY <1>1, <1>9, <2>4 DEF GoesOn
    <3> QED  BY <1>3, <3>1
  <2> QED  BY <1>3, <1>9, <2>1, <2>2, <2>3, <2>4 DEF GoesOn
<1> QED
  BY <1>2, <1>8, <1>9

LEMMA KeepFullAudience == FanoutInvariant /\ Next => FullAudience'
<1> SUFFICES ASSUME FanoutInvariant, Next, NEW c \in Campaigns, c \notin Immediate \cup gaveUp',
                    audience_complete'[c]
             PROVE  owed'[c] \subseteq Reached(c)'
  BY DEF FullAudience
<1> USE DEF FanoutInvariant
<1>1. Reached(c) \subseteq Reached(c)'
  BY ReachedGrows
<1>2. CASE audience_complete[c]
  <2>1. campaign[c] \notin {"none", "scheduled"}
    BY <1>2 DEF UnclaimedUntouched
  <2>2. owed'[c] \subseteq owed[c]
    BY <2>1, OwedShrinks
  <2>3. gaveUp \subseteq gaveUp'
    BY GaveUpGrows
  <2> QED
    BY <1>1, <1>2, <2>2, <2>3 DEF FullAudience
<1>3. CASE ~audience_complete[c]
  <2>1. audience_complete'[c] # audience_complete[c]
    BY <1>3
  <2> QED
    BY <1>1, <2>1, CompletedBy
<1> QED
  BY <1>2, <1>3

LEMMA FanoutNext == FanoutInvariant /\ [Next]_vars => FanoutInvariant'
<1> SUFFICES ASSUME FanoutInvariant, [Next]_vars PROVE FanoutInvariant'
  OBVIOUS
<1>1. CASE Next
  <2>1. TypeInvariant'
    BY <1>1, TypeNext DEF FanoutInvariant
  <2>2. FanoutCovers'
    BY <1>1, KeepCovers DEF FanoutCovers
  <2> QED
    BY <1>1, <2>1, <2>2, KeepOwedSubscribed, KeepUnclaimedUntouched, KeepWholeIsComplete,
       KeepCreatedAreImmediate, KeepFullAudience
    DEF FanoutInvariant
<1>2. CASE UNCHANGED vars
  <2>1. TypeInvariant'
    BY <1>2, TypeNext DEF FanoutInvariant
  <2> QED
    BY <1>2, <2>1 DEF FanoutInvariant, vars, table, people, stage, faults, observer, OwedSubscribed,
      UnclaimedUntouched, WholeIsComplete, FanoutCovers, Covers, CreatedAreImmediate, FullAudience,
      Active, Reached
<1> QED
  BY <1>1, <1>2

\* A campaign marked complete has a delivery for everyone it owes one,
\* however many workers start and resume it, at whatever speed, through any
\* number of crashes, throws, cancellations and retries.
THEOREM AudienceIsFull == Spec => []FullAudience
<1>1. FanoutInvariant => FullAudience
  BY DEF FanoutInvariant
<1> QED
  BY <1>1, FanoutInit, FanoutNext, PTL DEF Spec

-----------------------------------------------------------------------------
(* Rules: who may write a verdict, and what is never written over.         *)

-----------------------------------------------------------------------------
(* A campaign an automation is about to create belongs to its stage only.  *)

Creating ==
  \A w \in Workers : phase[w] = "creating" =>
    /\ campaign[target[w]] = "none"
    /\ \A v \in Workers \ {w} : phase[v] # "idle" => target[v] # target[w]

CreateInvariant == TypeInvariant /\ CreatedAreImmediate /\ Creating

LEMMA CreateInit == Init => CreateInvariant
  BY TypeInit DEF Init, InitWith, CreateInvariant, CreatedAreImmediate, Creating

\* A stage turns to a campaign that does not exist only to create it.
LEMMA TurnsTo ==
  ASSUME TypeInvariant, NEW v \in Workers, WorkerStep(v), phase[v] = "idle", phase'[v] # "idle",
         NEW w \in Workers \ {v}, phase[w] = "creating", campaign[target[w]] = "none"
  PROVE  target'[v] # target[w] /\ UNCHANGED campaign
<1>1. PICK e \in Campaigns : Pick(v, e)
  BY DEF WorkerStep, StageStep, CheckStart, ClaimCampaign, FailSiteless, ResolveAudience,
    FinishEmpty, InsertChunk, MarkComplete, AbandonSiteless, CheckStuck, CountStuck, WriteStuck,
    InsertCampaign, SendStep, Deliver, Postpone, Throw, Crash
<1>2. target'[v] = e /\ UNCHANGED campaign
  BY <1>1 DEF Pick, PickDue, PickStuck, BeginAutomation, BeginSend, Take, table, TypeInvariant, TypeOK
<1>3. e # target[w]
  BY <1>1 DEF Pick, PickDue, PickStuck, BeginAutomation, BeginSend, FirstOf, IsStuck
<1> QED  BY <1>2, <1>3

\* The status of a campaign is the business of the stage that works on it.
LEMMA StageWrites ==
  ASSUME TypeInvariant, NEW w \in Workers, WorkerStep(w), NEW c \in Campaigns,
         phase[w] = "idle" \/ target[w] # c
  PROVE  campaign'[c] = campaign[c]
<1>1. CASE phase[w] = "idle"
  BY <1>1 DEF WorkerStep, StageStep, CheckStart, ClaimCampaign, FailSiteless,
    ResolveAudience, FinishEmpty, InsertChunk, MarkComplete, AbandonSiteless, CheckStuck,
    CountStuck, WriteStuck, InsertCampaign, Throw, Crash, Pick, PickDue, PickStuck,
    BeginAutomation, BeginSend, SendStep, Deliver, Postpone, table
<1>2. CASE phase[w] # "idle" /\ target[w] # c
  <2>1. target[w] \in Campaigns
    BY <1>2 DEF TypeInvariant, Shape
  <2>2. \/ UNCHANGED campaign
        \/ \E s : SetStatus(target[w], s) \/ SetIfSending(target[w], s)
    BY DEF WorkerStep, StageStep, CheckStart, ClaimCampaign, FailSiteless,
      ResolveAudience, FinishEmpty, InsertChunk, MarkComplete, AbandonSiteless, CheckStuck,
      CountStuck, WriteStuck, InsertCampaign, MarkStuckFailed, Throw, Crash, Pick, PickDue, PickStuck,
      BeginAutomation, BeginSend, SendStep, Deliver, Postpone, table
  <2> QED  BY <1>2, <2>1, <2>2 DEF SetStatus, SetIfSending, TypeInvariant, TypeOK
<1> QED  BY <1>1, <1>2

\* Operators and the engine never touch a campaign that does not exist,
\* unless it is a retarget.
LEMMA ElsewhereNone ==
  ASSUME TypeInvariant, Elsewhere, NEW c \in Immediate, campaign[c] = "none"
  PROVE  campaign'[c] = "none"
<1> USE FanoutAssumption DEF TypeInvariant, TypeOK, SetStatus
<1>1. ASSUME NEW e \in Campaigns, SendEngine(e) \/ CancelCampaign(e) \/ RetryFailed(e) \/ ResendToNonClickers(e)
      PROVE  campaign'[c] = "none"
  BY <1>1 DEF SendEngine, Finalize, Finalizable, CancelTerminated, CancelCampaign, RetryFailed, ResendToNonClickers
<1>2. ASSUME \/ \E g \in Sites, s \in {"active", "paused"} : SetSiteStatus(g, s)
             \/ \E s \in Subscribers : Subscribe(s) \/ Unsubscribe(s)
             \/ Tick
      PROVE  campaign' = campaign
  BY <1>2 DEF SetSiteStatus, Subscribe, Unsubscribe, Tick, table
<1> QED  BY <1>1, <1>2 DEF Elsewhere, Operator

LEMMA CreateNext == CreateInvariant /\ [Next]_vars => CreateInvariant'
<1> SUFFICES ASSUME CreateInvariant, [Next]_vars PROVE CreateInvariant'
  OBVIOUS
<1> USE DEF CreateInvariant
<1>1. TypeInvariant'
  BY TypeNext
<1>2. CASE UNCHANGED vars
  BY <1>1, <1>2 DEF vars, table, stage, CreatedAreImmediate, Creating
<1>3. CASE Elsewhere
  <2>1. UNCHANGED <<phase, target>>
    BY <1>3, ElsewhereFrame
  <2>2. ASSUME NEW w \in Workers, phase[w] = "creating" PROVE campaign'[target[w]] = "none"
    BY <1>3, <2>2, ElsewhereNone DEF Creating, CreatedAreImmediate
  <2> QED  BY <1>1, <2>1, <2>2 DEF CreatedAreImmediate, Creating
<1>4. ASSUME NEW v \in Workers, WorkerStep(v) PROVE CreateInvariant'
  <2>1. ASSUME NEW w \in Workers \ {v}
        PROVE  phase'[w] = phase[w] /\ target'[w] = target[w]
    BY <1>4, <2>1, OthersFrame
  <2>2. Begins(v) \/ Ends(v) \/ GoesOn(v)
    BY <1>4, StageMoves
  <2>3. CreatedAreImmediate'
    BY <2>1, <2>2 DEF CreatedAreImmediate, Begins, Ends, GoesOn
  <2>4. ASSUME NEW w \in Workers \ {v}, phase[w] = "creating"
        PROVE  campaign'[target[w]] = "none" /\ (phase'[v] # "idle" => target'[v] # target[w])
    <3>1. campaign[target[w]] = "none" /\ (phase[v] # "idle" => target[v] # target[w]) /\ target[w] \in Campaigns
      BY <2>4 DEF Creating, TypeInvariant, Shape
    <3>2. campaign'[target[w]] = "none"
      BY <1>4, <3>1, StageWrites
    <3>3. ASSUME phase'[v] # "idle" PROVE target'[v] # target[w]
      <4>1. CASE phase[v] = "idle"
        BY <1>4, <2>4, <3>1, <3>3, <4>1, TurnsTo
      <4>2. CASE phase[v] # "idle"
        BY <2>2, <3>1, <3>3, <4>2 DEF Begins, Ends, GoesOn
      <4> QED  BY <4>1, <4>2
    <3> QED  BY <3>2, <3>3
  <2>5. ASSUME phase'[v] = "creating"
        PROVE  /\ campaign'[target'[v]] = "none"
               /\ \A w \in Workers \ {v} : phase'[w] # "idle" => target'[w] # target'[v]
    <3>1. phase[v] = "idle"
      BY <2>2, <2>5 DEF Begins, Ends, GoesOn
    <3>2. PICK e \in Campaigns : BeginAutomation(v, e)
      BY <1>4, <2>5, <3>1 DEF WorkerStep, StageStep, CheckStart, ClaimCampaign, FailSiteless,
        ResolveAudience, FinishEmpty, InsertChunk, MarkComplete, AbandonSiteless, CheckStuck,
        CountStuck, WriteStuck, InsertCampaign, Throw, Crash, Pick, PickDue, PickStuck,
        BeginSend, SendStep, Deliver, Postpone, Take, TypeInvariant, TypeOK
    <3> QED  BY <2>1, <3>2 DEF BeginAutomation, table, TypeInvariant, TypeOK
  <2> QED  BY <1>1, <2>1, <2>3, <2>4, <2>5 DEF Creating
<1> QED  BY <1>2, <1>3, <1>4, StepKinds

-----------------------------------------------------------------------------
(* A cancelled campaign stays cancelled.                                   *)

LEMMA CancelledStays ==
  ASSUME CreateInvariant, Next, NEW c \in Campaigns, campaign[c] = "cancelled"
  PROVE  campaign'[c] = "cancelled" \/ (StartFailed(c) /\ campaign'[c] = "failed")
<1> USE DEF CreateInvariant
<1>1. ASSUME NEW w \in Workers, WorkerStep(w), ~Throw(w) PROVE campaign'[c] = "cancelled"
  <2>1. CASE phase[w] = "idle" \/ target[w] # c
    BY <1>1, <2>1, StageWrites
  <2>2. CASE phase[w] # "idle" /\ target[w] = c
    <3>1. \/ UNCHANGED campaign
          \/ \E s : SetIfSending(c, s)
          \/ ClaimCampaign(w) \/ InsertCampaign(w)
      BY <1>1, <2>2 DEF WorkerStep, StageStep, CheckStart, FailSiteless,
        ResolveAudience, FinishEmpty, InsertChunk, MarkComplete, AbandonSiteless, CheckStuck,
        CountStuck, WriteStuck, MarkStuckFailed, Crash, Pick, PickDue, PickStuck,
        BeginAutomation, BeginSend, SendStep, Deliver, Postpone, table
    <3> QED  BY <2>2, <3>1 DEF SetIfSending, ClaimCampaign, InsertCampaign, Creating
  <2> QED  BY <2>1, <2>2
<1>2. ASSUME NEW w \in Workers, Throw(w)
      PROVE  campaign'[c] = "cancelled" \/ (StartFailed(c) /\ campaign'[c] = "failed")
  <2>1. CASE target[w] # c
    BY <1>2, <2>1, StageWrites DEF WorkerStep
  <2>2. CASE target[w] = c
    <3>1. \/ UNCHANGED campaign
          \/ job[w] = "start" /\ SetStatus(c, "failed")
          \/ SetIfSending(c, "failed")
      BY <1>2, <2>2 DEF Throw, MarkStuckFailed
    <3>2. throws' = throws + 1
      BY <1>2 DEF Throw
    <3>3. campaign'[c] = "cancelled" \/ (job[w] = "start" /\ campaign'[c] = "failed")
      BY <3>1 DEF SetStatus, SetIfSending, TypeInvariant, TypeOK
    <3> QED  BY <2>2, <3>2, <3>3 DEF StartFailed
  <2> QED  BY <2>1, <2>2
<1>3. CASE Elsewhere
  <2> USE DEF TypeInvariant, TypeOK, SetStatus
  <2>1. ASSUME NEW e \in Campaigns, SendEngine(e) \/ CancelCampaign(e) \/ RetryFailed(e) \/ ResendToNonClickers(e)
        PROVE  campaign'[c] = "cancelled"
    BY <2>1 DEF SendEngine, Finalize, Finalizable, CancelTerminated, CancelCampaign, RetryFailed, ResendToNonClickers
  <2>2. ASSUME \/ \E g \in Sites, s \in {"active", "paused"} : SetSiteStatus(g, s)
               \/ \E s \in Subscribers : Subscribe(s) \/ Unsubscribe(s)
               \/ Tick
        PROVE  campaign' = campaign
    BY <2>2 DEF SetSiteStatus, Subscribe, Unsubscribe, Tick, table
  <2> QED  BY <1>3, <2>1, <2>2 DEF Elsewhere, Operator
<1> QED  BY <1>1, <1>2, <1>3, StepKinds

\* A cancellation is never overwritten by the fan-out, the reaper or the send
\* engine, whatever they had read before; only the catch of a start does.
THEOREM CancellationIsFinal == Spec => CancelIsFinal
<1>1. CreateInvariant /\ [Next]_vars =>
        [\A c \in Campaigns :
           campaign[c] = "cancelled" =>
             campaign'[c] = "cancelled" \/ (StartFailed(c) /\ campaign'[c] = "failed")]_vars
  BY CancelledStays
<1> QED  BY <1>1, CreateInit, CreateNext, PTL DEF Spec, CancelIsFinal

-----------------------------------------------------------------------------
(* Settled deliveries.                                                     *)

\* A push under way is that of one cycle, and its row was waiting; it may
\* have been cancelled since.
InHand ==
  \A w \in Workers, s \in Subscribers :
    phase[w] = "sending" /\ s \in todo[w] =>
      /\ row[target[w]][s] \in {"pending", "cancelled"}
      /\ \A v \in Workers \ {w} : ~UnderWay(v, target[w], s)

SettleInvariant == TypeInvariant /\ InHand

LEMMA SettleInit == Init => SettleInvariant
  BY TypeInit DEF Init, InitWith, SettleInvariant, InHand

\* What may happen to a row: a fan-out makes it, the answer to its own push
\* changes it, a cancellation takes it while it waits, a retry brings it back.
LEMMA RowMoves ==
  ASSUME TypeInvariant, Next, NEW c \in Campaigns, NEW s \in Subscribers
  PROVE  \/ row'[c][s] = row[c][s]
         \/ row[c][s] = "none"
         \/ row[c][s] = "pending" /\ row'[c][s] = "cancelled"
         \/ row[c][s] = "failed"
         \/ \E w \in Workers : UnderWay(w, c, s) /\ (Deliver(w, s) \/ Postpone(w, s))
<1> USE DEF TypeInvariant, TypeOK
<1>1. ASSUME NEW w \in Workers, WorkerStep(w)
      PROVE  \/ row'[c][s] = row[c][s]
             \/ row[c][s] = "none"
             \/ UnderWay(w, c, s) /\ (Deliver(w, s) \/ Postpone(w, s))
  <2>1. CASE InsertChunk(w)
    <3>1. PICK S : Insert(target[w], S)
      BY <2>1 DEF InsertChunk
    <3>2. target[w] \in Campaigns
      BY <2>1 DEF InsertChunk, Shape
    <3> QED  BY <3>1, <3>2 DEF Insert
  <2>2. CASE SendStep(w)
    <3>1. PICK e \in Subscribers : Deliver(w, e) \/ Postpone(w, e)
      BY <2>2 DEF SendStep
    <3>2. PICK r : row' = [row EXCEPT ![target[w]][e] = r]
      BY <3>1 DEF Deliver, Postpone
    <3>3. phase[w] = "sending" /\ e \in todo[w]
      BY <3>1 DEF Deliver, Postpone
    <3>4. row'[c][s] = row[c][s] \/ (c = target[w] /\ e = s)
      BY <3>2
    <3> QED  BY <3>1, <3>3, <3>4 DEF UnderWay
  <2>3. CASE ~InsertChunk(w) /\ ~SendStep(w)
    <3>1. row' = row
      BY <1>1, <2>3 DEF WorkerStep, StageStep, CheckStart, ClaimCampaign, FailSiteless,
        ResolveAudience, FinishEmpty, MarkComplete, AbandonSiteless, CheckStuck, CountStuck,
        WriteStuck, InsertCampaign, Throw, Crash, Pick, PickDue, PickStuck, BeginAutomation,
        BeginSend, table
    <3> QED  BY <3>1
  <2> QED  BY <2>1, <2>2, <2>3
<1>2. ASSUME NEW e \in Campaigns, SendEngine(e) \/ CancelCampaign(e) \/ RetryFailed(e)
      PROVE  \/ row'[c][s] = row[c][s]
             \/ row[c][s] = "pending" /\ row'[c][s] = "cancelled"
             \/ row[c][s] = "failed"
  <2>1. row' = row \/ CancelPending(e) \/ RetryFailed(e)
    BY <1>2 DEF SendEngine, Finalize, CancelTerminated, CancelCampaign
  <2>2. CASE CancelPending(e)
    BY <2>2 DEF CancelPending
  <2>3. CASE RetryFailed(e)
    BY <2>3 DEF RetryFailed
  <2> QED  BY <2>1, <2>2, <2>3
<1>3. ASSUME \/ \E e \in Campaigns : ResendToNonClickers(e)
             \/ \E g \in Sites, t \in {"active", "paused"} : SetSiteStatus(g, t)
             \/ \E t \in Subscribers : Subscribe(t) \/ Unsubscribe(t)
             \/ Tick
      PROVE  row'[c][s] = row[c][s]
  BY <1>3 DEF ResendToNonClickers, SetSiteStatus, Subscribe, Unsubscribe, Tick, table
<1> QED
  BY StepKinds, <1>1, <1>2, <1>3 DEF Elsewhere, Operator

\* A cycle takes up rows that wait, and its hands only empty afterwards.
LEMMA HandMoves ==
  ASSUME TypeInvariant, NEW w \in Workers, WorkerStep(w), phase'[w] = "sending", NEW s \in todo'[w]
  PROVE  /\ target'[w] \in Campaigns
         /\ \/ s \in Waiting(target'[w]) /\ row' = row
            \/ /\ UnderWay(w, target'[w], s)
               /\ ~Deliver(w, s) /\ ~Postpone(w, s)
<1> USE DEF TypeInvariant, TypeOK
<1>1. CASE phase[w] = "idle"
  <2>1. PICK c \in Campaigns : BeginSend(w, c)
    BY <1>1 DEF WorkerStep, StageStep, CheckStart, ClaimCampaign, FailSiteless,
      ResolveAudience, FinishEmpty, InsertChunk, MarkComplete, AbandonSiteless, CheckStuck,
      CountStuck, WriteStuck, InsertCampaign, Throw, Crash, Pick, PickDue, PickStuck,
      BeginAutomation, Take, SendStep, Deliver, Postpone
  <2> QED  BY <2>1 DEF BeginSend, table
<1>2. CASE phase[w] # "idle"
  <2>1. phase[w] = "sending" /\ target'[w] = target[w] /\ target[w] \in Campaigns
    BY <1>2, StageMoves DEF Begins, Ends, GoesOn, Shape
  <2>2. SendStep(w)
    BY <1>2, <2>1 DEF WorkerStep, StageStep, CheckStart, ClaimCampaign, FailSiteless,
      ResolveAudience, FinishEmpty, InsertChunk, MarkComplete, AbandonSiteless, CheckStuck,
      CountStuck, WriteStuck, InsertCampaign, Throw, Crash, Pick, PickDue, PickStuck,
      BeginAutomation, BeginSend, Release
  <2>3. PICK e \in Subscribers : Answered(w, e) /\ (Deliver(w, e) \/ Postpone(w, e))
    BY <2>2 DEF SendStep, Deliver, Postpone
  <2>4. todo' = [todo EXCEPT ![w] = @ \ {e}]
    BY <2>1, <2>3 DEF Answered, Release
  <2>5. s \in todo[w] /\ s # e
    BY <2>4
  <2>6. UnderWay(w, target'[w], s)
    BY <2>1, <2>5 DEF UnderWay
  <2>7. ~Deliver(w, s) /\ ~Postpone(w, s)
    <3>1. SUFFICES ASSUME Deliver(w, s) \/ Postpone(w, s) PROVE FALSE
      OBVIOUS
    <3>2. Answered(w, s)
      BY <3>1 DEF Deliver, Postpone
    <3>3. s \notin todo'[w] \/ phase'[w] = "idle"
      BY <3>2 DEF Answered, Release
    <3> QED  BY <3>3
  <2> QED  BY <2>1, <2>6, <2>7
<1> QED  BY <1>1, <1>2

LEMMA SettleNext == SettleInvariant /\ [Next]_vars => SettleInvariant'
<1> SUFFICES ASSUME SettleInvariant, [Next]_vars PROVE SettleInvariant'
  OBVIOUS
<1> USE DEF SettleInvariant
<1>1. TypeInvariant'
  BY TypeNext
<1>2. CASE UNCHANGED vars
  BY <1>1, <1>2 DEF vars, table, stage, InHand, UnderWay
<1>3. CASE Elsewhere /\ Next
  <2>1. UNCHANGED <<phase, target, todo>>
    BY <1>3, ElsewhereFrame
  <2>2. ASSUME NEW w \in Workers, NEW s \in Subscribers, phase[w] = "sending", s \in todo[w]
        PROVE  row'[target[w]][s] \in {"pending", "cancelled"}
    <3>1. target[w] \in Campaigns /\ row[target[w]][s] \in {"pending", "cancelled"}
      BY <2>2 DEF InHand, TypeInvariant, Shape
    <3>2. ASSUME NEW v \in Workers, UnderWay(v, target[w], s) PROVE ~Deliver(v, s) /\ ~Postpone(v, s)
      BY <2>1, <3>2 DEF Deliver, Postpone, Answered, Release, UnderWay, TypeInvariant, TypeOK
    <3> QED  BY <1>3, <3>1, <3>2, RowMoves
  <2> QED  BY <1>1, <2>1, <2>2 DEF InHand, UnderWay
<1>4. ASSUME NEW v \in Workers, WorkerStep(v), Next PROVE SettleInvariant'
  <2>1. ASSUME NEW w \in Workers \ {v}
        PROVE  phase'[w] = phase[w] /\ target'[w] = target[w] /\ todo'[w] = todo[w]
    BY <1>4, <2>1, OthersFrame
  <2>2. ASSUME NEW w \in Workers \ {v}, NEW s \in Subscribers, phase[w] = "sending", s \in todo[w]
        PROVE  row'[target[w]][s] \in {"pending", "cancelled"}
    <3>1. /\ target[w] \in Campaigns /\ row[target[w]][s] \in {"pending", "cancelled"}
          /\ ~UnderWay(v, target[w], s)
      BY <2>2 DEF InHand, TypeInvariant, Shape
    <3>2. ASSUME NEW u \in Workers, UnderWay(u, target[w], s) PROVE ~Deliver(u, s) /\ ~Postpone(u, s)
      <4>1. u # v
        BY <3>1, <3>2
      <4>2. phase'[u] = phase[u] /\ todo'[u] = todo[u]
        BY <2>1, <4>1
      <4> QED  BY <3>2, <4>2 DEF Deliver, Postpone, Answered, Release, UnderWay, TypeInvariant, TypeOK
    <3> QED  BY <1>4, <3>1, <3>2, RowMoves
  <2>3. ASSUME NEW s \in Subscribers, phase'[v] = "sending", s \in todo'[v]
        PROVE  /\ row'[target'[v]][s] \in {"pending", "cancelled"}
               /\ \A w \in Workers \ {v} : ~UnderWay(w, target'[v], s)
    <3> DEFINE c == target'[v]
    <3>1. /\ c \in Campaigns
          /\ \/ s \in Waiting(c) /\ row' = row
             \/ UnderWay(v, c, s) /\ ~Deliver(v, s) /\ ~Postpone(v, s)
      BY <1>4, <2>3, HandMoves
    <3> HIDE DEF c
    <3>2. CASE s \in Waiting(c) /\ row' = row
      <4>1. row[c][s] = "pending" /\ \A w \in Workers : ~UnderWay(w, c, s)
        BY <3>2 DEF Waiting
      <4>2. row'[c][s] = "pending"
        BY <3>2, <4>1
      <4> QED  BY <4>1, <4>2 DEF c
    <3>3. CASE UnderWay(v, c, s) /\ ~Deliver(v, s) /\ ~Postpone(v, s)
      <4>1. row[c][s] \in {"pending", "cancelled"} /\ \A w \in Workers \ {v} : ~UnderWay(w, c, s)
        BY <3>3 DEF InHand, UnderWay
      <4>2. row'[c][s] \in {"pending", "cancelled"}
        BY <1>4, <3>1, <3>3, <4>1, RowMoves
      <4> QED  BY <4>1, <4>2 DEF c
    <3> QED  BY <3>1, <3>2, <3>3
  <2>4. ASSUME NEW w \in Workers, NEW s \in Subscribers, phase'[w] = "sending", s \in todo'[w]
        PROVE  row'[target'[w]][s] \in {"pending", "cancelled"}
    BY <2>1, <2>2, <2>3, <2>4
  <2>5. ASSUME NEW w \in Workers, NEW s \in Subscribers, phase'[w] = "sending", s \in todo'[w],
               NEW u \in Workers \ {w}, phase'[u] = "sending", target'[u] = target'[w], s \in todo'[u]
        PROVE  FALSE
    <3>1. CASE w = v
      BY <2>1, <2>3, <2>5, <3>1 DEF UnderWay
    <3>2. CASE u = v
      BY <2>1, <2>3, <2>5, <3>2 DEF UnderWay
    <3>3. CASE w # v /\ u # v
      <4>1. phase[w] = "sending" /\ s \in todo[w] /\ UnderWay(u, target[w], s)
        BY <2>1, <2>5, <3>3 DEF UnderWay
      <4> QED  BY <4>1 DEF InHand
    <3> QED  BY <3>1, <3>2, <3>3
  <2> QED  BY <1>1, <2>4, <2>5 DEF InHand, UnderWay
<1> QED  BY <1>2, <1>3, <1>4, StepKinds

\* Neither a resumed fan-out nor a retry takes back a delivery that was made
\* or cancelled; only the answer to a push under way follows a cancellation.
THEOREM DeliveriesStaySettled == Spec => SettledStays
<1>1. SettleInvariant /\ [Next]_vars =>
        [\A c \in Campaigns, s \in Subscribers :
           \/ row[c][s] \notin {"sent", "cancelled"}
           \/ row'[c][s] = row[c][s]
           \/ row[c][s] = "cancelled" /\ \E w \in Workers : UnderWay(w, c, s)]_vars
  <2> SUFFICES ASSUME SettleInvariant, Next, NEW c \in Campaigns, NEW s \in Subscribers,
                      row[c][s] \in {"sent", "cancelled"}, row'[c][s] # row[c][s]
               PROVE  row[c][s] = "cancelled" /\ \E w \in Workers : UnderWay(w, c, s)
    OBVIOUS
  <2>1. PICK w \in Workers : UnderWay(w, c, s)
    BY RowMoves DEF SettleInvariant
  <2> QED  BY <2>1 DEF SettleInvariant, InHand, UnderWay
<1> QED  BY <1>1, SettleInit, SettleNext, PTL DEF Spec, SettledStays

-----------------------------------------------------------------------------
(* A timely starter is left alone.                                         *)

\* Which stage a worker is in tells what it is there for.
Roles ==
  \A w \in Workers :
    /\ phase[w] \in {"stuck", "counting", "deciding"} => job[w] = "reap"
    /\ phase[w] = "creating" => job[w] = "automate"

\* No fan-out is longer than it may be.
InTime == \A w \in Workers : busy[w] <= MaxFanout

\* A starter at work: the campaign has not been left alone for longer than he
\* is at it, and whoever else holds it has not claimed it, or sends it.
Solo(w) ==
  FansOut(w) /\ job[w] = "start" =>
    /\ campaign[target[w]] = "sending" => age[target[w]] <= busy[w]
    /\ \A v \in Workers \ {w} :
         target[v] = target[w] => phase[v] \in {"idle", "due", "ready", "sending"}

SoloInvariant ==
  /\ FanoutInvariant
  /\ CreateInvariant
  /\ Roles
  /\ InTime
  /\ \A w \in Workers : Solo(w)

LEMMA SoloInit == Init => SoloInvariant
<1> SUFFICES ASSUME Init PROVE SoloInvariant
  OBVIOUS
<1>1. Roles /\ InTime /\ \A w \in Workers : Solo(w)
  BY FanoutAssumption DEF Init, InitWith, Roles, InTime, Solo, FansOut
<1> QED  BY <1>1, FanoutInit, CreateInit DEF SoloInvariant

\* Every write of a campaign row, and nothing but time, moves its age.
LEMMA AgeMoves ==
  ASSUME TypeInvariant, Next, ~Tick, NEW c \in Campaigns
  PROVE  age'[c] = 0 \/ (age'[c] = age[c] /\ campaign'[c] = campaign[c])
<1> USE DEF TypeInvariant, TypeOK
<1>1. ASSUME NEW e \in Campaigns, NEW s, SetStatus(e, s) \/ SetIfSending(e, s)
      PROVE  age'[c] = 0 \/ (age'[c] = age[c] /\ campaign'[c] = campaign[c])
  BY <1>1 DEF SetStatus, SetIfSending
<1>2. ASSUME NEW w \in Workers, WorkerStep(w)
      PROVE  age'[c] = 0 \/ (age'[c] = age[c] /\ campaign'[c] = campaign[c])
  <2>1. CASE phase[w] = "idle"
    <3>1. UNCHANGED <<campaign, age>>
      BY <1>2, <2>1 DEF WorkerStep, StageStep, CheckStart, ClaimCampaign, FailSiteless,
        ResolveAudience, FinishEmpty, InsertChunk, MarkComplete, AbandonSiteless, CheckStuck,
        CountStuck, WriteStuck, InsertCampaign, Throw, Crash, Pick, PickDue, PickStuck,
        BeginAutomation, BeginSend, SendStep, Deliver, Postpone, table
    <3> QED  BY <3>1
  <2>2. CASE phase[w] # "idle"
    <3>1. target[w] \in Campaigns
      BY <2>2 DEF Shape
    <3>2. \/ UNCHANGED <<campaign, age>>
          \/ \E s : SetStatus(target[w], s) \/ SetIfSending(target[w], s)
          \/ age' = [age EXCEPT ![target[w]] = 0] /\ UNCHANGED campaign
      BY <1>2 DEF WorkerStep, StageStep, CheckStart, ClaimCampaign, FailSiteless,
        ResolveAudience, FinishEmpty, InsertChunk, MarkComplete, AbandonSiteless, CheckStuck,
        CountStuck, WriteStuck, InsertCampaign, MarkStuckFailed, Throw, Crash, Pick, PickDue,
        PickStuck, BeginAutomation, BeginSend, SendStep, Deliver, Postpone, table
    <3> QED  BY <1>1, <3>1, <3>2
  <2> QED  BY <2>1, <2>2
<1>3. ASSUME NEW e \in Campaigns, SendEngine(e) \/ CancelCampaign(e) \/ RetryFailed(e) \/ ResendToNonClickers(e)
      PROVE  age'[c] = 0 \/ (age'[c] = age[c] /\ campaign'[c] = campaign[c])
  <2>1. UNCHANGED <<campaign, age>> \/ \E s : SetStatus(e, s)
    BY <1>3 DEF SendEngine, Finalize, CancelTerminated, CancelCampaign, RetryFailed, ResendToNonClickers
  <2> QED  BY <1>1, <2>1
<1>4. ASSUME \/ \E g \in Sites, t \in {"active", "paused"} : SetSiteStatus(g, t)
             \/ \E t \in Subscribers : Subscribe(t) \/ Unsubscribe(t)
      PROVE  UNCHANGED <<campaign, age>>
  BY <1>4 DEF SetSiteStatus, Subscribe, Unsubscribe, table
<1> QED
  BY StepKinds, <1>2, <1>3, <1>4 DEF Elsewhere, Operator

\* The clock of a stage stands still, or starts anew.
LEMMA BusyMoves ==
  ASSUME TypeInvariant, Next, ~Tick, NEW w \in Workers
  PROVE  busy'[w] = busy[w] \/ (busy'[w] = 0 /\ (phase'[w] = "idle" \/ ClaimCampaign(w)))
<1> USE DEF TypeInvariant, TypeOK
<1>1. CASE Elsewhere
  BY <1>1 DEF Elsewhere, SendEngine, Finalize, CancelTerminated, Operator, CancelCampaign,
    RetryFailed, ResendToNonClickers, SetSiteStatus, Subscribe, Unsubscribe, stage
<1>2. ASSUME NEW v \in Workers, WorkerStep(v)
      PROVE  busy'[w] = busy[w] \/ (busy'[w] = 0 /\ (phase'[w] = "idle" \/ ClaimCampaign(w)))
  <2>1. busy' = busy \/ Release(v) \/ (busy' = [busy EXCEPT ![v] = 0] /\ ClaimCampaign(v))
    BY <1>2 DEF WorkerStep, StageStep, CheckStart, ClaimCampaign, FailSiteless,
      ResolveAudience, FinishEmpty, InsertChunk, MarkComplete, AbandonSiteless, CheckStuck,
      CountStuck, WriteStuck, InsertCampaign, Throw, Crash, Pick, PickDue, PickStuck, Take, Go,
      BeginAutomation, BeginSend, SendStep, Deliver, Postpone, Answered
  <2> QED  BY <2>1 DEF Release
<1> QED  BY StepKinds, <1>1, <1>2

\* A stage keeps its job as long as it is at it, and begins with one.
LEMMA JobMoves ==
  ASSUME TypeInvariant, NEW w \in Workers, WorkerStep(w), phase'[w] # "idle"
  PROVE  \/ phase[w] # "idle" /\ job'[w] = job[w]
         \/ /\ phase[w] = "idle"
            /\ \/ phase'[w] = "due"
               \/ phase'[w] = "stuck" /\ job'[w] = "reap"
               \/ phase'[w] = "creating" /\ job'[w] = "automate"
               \/ phase'[w] = "sending"
<1> USE DEF TypeInvariant, TypeOK
<1>1. CASE phase[w] = "idle"
  <2>1. PICK c \in Campaigns : Pick(w, c)
    BY <1>1 DEF WorkerStep, StageStep, CheckStart, ClaimCampaign, FailSiteless,
      ResolveAudience, FinishEmpty, InsertChunk, MarkComplete, AbandonSiteless, CheckStuck,
      CountStuck, WriteStuck, InsertCampaign, Throw, Crash, SendStep, Deliver, Postpone
  <2> QED  BY <1>1, <2>1 DEF Pick, PickDue, PickStuck, BeginAutomation, BeginSend, Take
<1>2. CASE phase[w] # "idle"
  <2>1. job' = job \/ Release(w)
    BY <1>2 DEF WorkerStep, StageStep, CheckStart, ClaimCampaign, FailSiteless,
      ResolveAudience, FinishEmpty, InsertChunk, MarkComplete, AbandonSiteless, CheckStuck,
      CountStuck, WriteStuck, InsertCampaign, Throw, Crash, Pick, PickDue, PickStuck, Go,
      BeginAutomation, BeginSend, SendStep, Deliver, Postpone, Answered
  <2> QED  BY <1>2, <2>1 DEF Release
<1> QED  BY <1>1, <1>2

LEMMA RolesNext == TypeInvariant /\ Roles /\ Next => Roles'
<1> SUFFICES ASSUME TypeInvariant, Roles, Next PROVE Roles'
  OBVIOUS
<1>1. CASE Elsewhere
  <2>1. UNCHANGED <<phase, job>>
    BY <1>1, ElsewhereFrame
  <2> QED  BY <2>1 DEF Roles
<1>2. ASSUME NEW v \in Workers, WorkerStep(v) PROVE Roles'
  <2>1. ASSUME NEW w \in Workers \ {v} PROVE phase'[w] = phase[w] /\ job'[w] = job[w]
    BY <1>2, <2>1, OthersFrame
  <2>2. CASE phase'[v] = "idle"
    BY <2>1, <2>2 DEF Roles
  <2>3. CASE phase'[v] # "idle" /\ phase[v] = "idle"
    BY <1>2, <2>1, <2>3, JobMoves DEF Roles
  <2>4. CASE phase'[v] # "idle" /\ phase[v] # "idle"
    <3>1. job'[v] = job[v]
      BY <1>2, <2>4, JobMoves
    <3>2. phase'[v] # "stuck" /\ phase'[v] # "creating"
      BY <1>2, <2>4, StageMoves DEF Begins, Ends, GoesOn
    <3>3. ASSUME phase'[v] \in {"counting", "deciding"} PROVE job[v] = "reap"
      <4>1. phase[v] \in {"stuck", "counting"} \/ (phase[v] = "filled" /\ phase'[v] = "counting")
        BY <1>2, <2>4, <3>3, StageMoves DEF Begins, Ends, GoesOn
      <4>2. ASSUME phase[v] = "filled", phase'[v] = "counting" PROVE job[v] = "reap"
        <5>1. MarkComplete(v)
          BY <1>2, <4>2 DEF WorkerStep, StageStep, CheckStart, ClaimCampaign, FailSiteless,
            ResolveAudience, FinishEmpty, InsertChunk, AbandonSiteless, CheckStuck,
            CountStuck, WriteStuck, InsertCampaign, Throw, Crash, Pick, PickDue, PickStuck,
            BeginAutomation, BeginSend, SendStep, Deliver, Postpone, Release, TypeInvariant, TypeOK
        <5> QED  BY <4>2, <5>1 DEF MarkComplete, Release, TypeInvariant, TypeOK
      <4> QED  BY <4>1, <4>2 DEF Roles
    <3> QED  BY <2>1, <3>1, <3>2, <3>3 DEF Roles
  <2> QED  BY <2>2, <2>3, <2>4
<1> QED  BY StepKinds, <1>1, <1>2

LEMMA InTimeNext == TypeInvariant /\ InTime /\ Next => InTime'
<1> SUFFICES ASSUME TypeInvariant, InTime, Next, NEW w \in Workers PROVE busy'[w] <= MaxFanout
  BY DEF InTime
<1> USE FanoutAssumption DEF TypeInvariant, TypeOK, InTime
<1>1. CASE Tick
  BY <1>1 DEF Tick
<1>2. CASE ~Tick
  BY <1>2, BusyMoves
<1> QED  BY <1>1, <1>2

\* A fan-out that has been claimed is one of a campaign that has been.
LEMMA Claimed ==
  ASSUME SoloInvariant, NEW w \in Workers, FansOut(w)
  PROVE  target[w] \in Campaigns /\ campaign[target[w]] \notin {"none", "scheduled"}
  BY DEF SoloInvariant, FanoutInvariant, TypeInvariant, Shape, FansOut, UnclaimedUntouched

\* The claim finds nobody else at the campaign.
LEMMA ClaimIsSolo ==
  ASSUME SoloInvariant, NEW w \in Workers, ClaimCampaign(w)
  PROVE  Solo(w)'
<1> USE FanoutAssumption DEF SoloInvariant, FanoutInvariant, CreateInvariant, TypeInvariant, TypeOK
<1> DEFINE c == target[w]
<1>1. c \in Campaigns
  BY DEF ClaimCampaign, Shape
<1>2. CASE campaign[c] # "scheduled"
  <2>1. phase'[w] = "idle"
    BY <1>2 DEF ClaimCampaign, Release
  <2> QED  BY <2>1 DEF Solo, FansOut
<1>3. CASE campaign[c] = "scheduled"
  <2>1. age'[c] = 0 /\ busy'[w] = 0 /\ phase' = [phase EXCEPT ![w] = "claimed"] /\ target' = target
    BY <1>1, <1>3 DEF ClaimCampaign, SetStatus
  <2>2. ASSUME NEW v \in Workers \ {w}, target[v] = c PROVE phase[v] \in {"idle", "due", "ready"}
    <3>1. phase[v] \in {"idle", "due", "ready", "creating"}
      BY <1>1, <1>3, <2>2 DEF UnclaimedUntouched
    <3>2. phase[v] # "creating"
      BY <1>3, <2>2 DEF Creating
    <3> QED  BY <3>1, <3>2
  <2>3. ASSUME NEW v \in Workers \ {w}, target'[v] = target'[w]
        PROVE  phase'[v] \in {"idle", "due", "ready", "sending"}
    BY <2>1, <2>2, <2>3
  <2> QED  BY <2>1, <2>3 DEF Solo
<1> QED  BY <1>2, <1>3

\* Whoever turns to the campaign of a starter at work does so to start it,
\* which he will not, or to send it: for the reaper it is too young.
LEMMA OthersStayOut ==
  ASSUME Timely, SoloInvariant, NEW w \in Workers, FansOut(w), job[w] = "start",
         NEW v \in Workers \ {w}, WorkerStep(v), target'[v] = target[w]
  PROVE  phase'[v] \in {"idle", "due", "ready", "sending"}
<1> USE FanoutAssumption DEF SoloInvariant, FanoutInvariant, CreateInvariant, TypeInvariant, TypeOK
<1> DEFINE c == target[w]
<1>1. c \in Campaigns /\ campaign[c] \notin {"none", "scheduled"}
  BY Claimed
<1>2. Begins(v) \/ Ends(v) \/ GoesOn(v)
  BY StageMoves
<1>3. CASE Ends(v)
  BY <1>3 DEF Ends
<1>4. CASE GoesOn(v)
  <2>1. phase[v] \in {"due", "ready", "sending"}
    BY <1>4 DEF GoesOn, Solo
  <2>2. ~(phase[v] = "ready" /\ phase'[v] = "claimed")
    <3>1. SUFFICES ASSUME phase[v] = "ready", phase'[v] = "claimed" PROVE FALSE
      OBVIOUS
    <3>2. target[v] = c
      BY <1>4 DEF GoesOn
    <3>3. ClaimCampaign(v)
      BY <3>1 DEF WorkerStep, StageStep, CheckStart, FailSiteless,
        ResolveAudience, FinishEmpty, InsertChunk, MarkComplete, AbandonSiteless, CheckStuck,
        CountStuck, WriteStuck, InsertCampaign, Throw, Crash, Pick, PickDue, PickStuck,
        BeginAutomation, BeginSend, SendStep, Deliver, Postpone, Release
    <3> QED  BY <1>1, <3>1, <3>2, <3>3 DEF ClaimCampaign, Release
  <2> QED  BY <1>4, <2>1, <2>2 DEF GoesOn
<1>5. CASE Begins(v)
  <2>1. PICK e \in Campaigns : Pick(v, e)
    BY <1>5 DEF Begins, WorkerStep, StageStep, CheckStart, ClaimCampaign, FailSiteless,
      ResolveAudience, FinishEmpty, InsertChunk, MarkComplete, AbandonSiteless, CheckStuck,
      CountStuck, WriteStuck, InsertCampaign, Throw, Crash, SendStep, Deliver, Postpone
  <2>2. target'[v] = e
    BY <2>1 DEF Pick, PickDue, PickStuck, BeginAutomation, BeginSend, Take
  <2>3. ~PickStuck(v, e)
    <3>1. SUFFICES ASSUME IsStuck(c) PROVE FALSE
      BY <2>2 DEF PickStuck, FirstOf
    <3>2. age[c] <= busy[w] /\ busy[w] <= MaxFanout /\ busy[w] \in Nat /\ age[c] = ReapAfter
      BY <1>1, <3>1 DEF IsStuck, Solo, InTime
    <3> QED  BY <3>2 DEF Timely
  <2>4. ~BeginAutomation(v, e)
    BY <1>1, <2>2 DEF BeginAutomation
  <2> QED  BY <2>1, <2>3, <2>4 DEF Pick, PickDue, BeginSend, Take
<1> QED  BY <1>2, <1>3, <1>4, <1>5

LEMMA SoloNext ==
  ASSUME Timely, SoloInvariant, Next, NEW w \in Workers
  PROVE  Solo(w)'
<1>0. TypeInvariant
  BY DEF SoloInvariant, FanoutInvariant
<1> SUFFICES ASSUME FansOut(w)', job'[w] = "start",  ~ClaimCampaign(w)
             PROVE  Solo(w)'
  BY ClaimIsSolo DEF Solo
<1> DEFINE c == target[w]
<1>1. FansOut(w) /\ job[w] = "start" /\ target'[w] = c /\ phase'[w] # "idle"
  <2>1. CASE Elsewhere
    BY <2>1, ElsewhereFrame DEF FansOut
  <2>2. ASSUME NEW v \in Workers \ {w}, WorkerStep(v) PROVE FansOut(w) /\ job[w] = "start" /\ target'[w] = c
    BY <1>0, <2>2, OthersFrame DEF FansOut
  <2>3. CASE WorkerStep(w)
    <3>1. phase'[w] \in {"claimed", "filling", "filled", "empty"}
      BY DEF FansOut
    <3>2. phase[w] # "idle" /\ job[w] = "start"
      BY <1>0, <2>3, <3>1, JobMoves
    <3>3. GoesOn(w)
      BY <1>0, <2>3, <3>1, <3>2, StageMoves DEF Begins, Ends
    <3>4. phase[w] # "creating" /\ phase[w] # "stuck"
      BY <3>2 DEF SoloInvariant, Roles
    <3>5. phase[w] # "ready"
      <4>1. SUFFICES ASSUME phase[w] = "ready" PROVE FALSE
        OBVIOUS
      <4> QED  BY <1>0, <2>3, <3>1, <4>1 DEF WorkerStep, StageStep, CheckStart, FailSiteless,
          ResolveAudience, FinishEmpty, InsertChunk, MarkComplete, AbandonSiteless, CheckStuck,
          CountStuck, WriteStuck, InsertCampaign, Throw, Crash, Pick, PickDue, PickStuck,
          BeginAutomation, BeginSend, SendStep, Deliver, Postpone, Release, TypeInvariant, TypeOK
    <3> QED  BY <3>1, <3>2, <3>3, <3>4, <3>5 DEF GoesOn, FansOut
  <2> QED  BY <2>1, <2>2, <2>3, StepKinds DEF FansOut
<1>2. c \in Campaigns /\ Solo(w)
  BY <1>0, <1>1, Claimed DEF SoloInvariant
<1>3. campaign'[c] = "sending" => age'[c] <= busy'[w]
  <2>1. CASE Tick
    <3>1. campaign[c] = "sending" => age[c] <= busy[w]
      BY <1>1, <1>2 DEF Solo
    <3>2. Scheduling(w)
      BY <1>1 DEF FansOut, Scheduling
    <3>3. UNCHANGED campaign /\ busy'[w] = busy[w] + 1 /\ age'[c] \in {age[c], age[c] + 1}
      BY <1>0, <1>2, <2>1, <3>2 DEF Tick, TypeInvariant, TypeOK
    <3>4. age[c] \in 0..ReapAfter /\ busy[w] \in Nat
      BY <1>0, <1>2 DEF TypeInvariant, TypeOK
    <3> HIDE DEF c
    <3> QED  BY <3>1, <3>3, <3>4
  <2>2. CASE ~Tick
    <3>1. busy'[w] = busy[w]
      BY <1>0, <1>1, <2>2, BusyMoves
    <3>2. age'[c] = 0 \/ (age'[c] = age[c] /\ campaign'[c] = campaign[c])
      BY <1>0, <1>2, <2>2, AgeMoves
    <3>3. campaign[c] = "sending" => age[c] <= busy[w]
      BY <1>1, <1>2 DEF Solo
    <3>4. 0 <= busy[w]
      BY <1>0 DEF TypeInvariant, TypeOK
    <3> QED  BY <3>1, <3>2, <3>3, <3>4
  <2> QED  BY <2>1, <2>2
<1>4. ASSUME NEW v \in Workers \ {w}, target'[v] = c
      PROVE  phase'[v] \in {"idle", "due", "ready", "sending"}
  <2>1. CASE WorkerStep(v)
    BY <1>1, <1>4, <2>1, OthersStayOut
  <2>2. CASE ~WorkerStep(v)
    <3>1. phase'[v] = phase[v] /\ target'[v] = target[v]
      BY <1>0, <2>2, StepKinds, ElsewhereFrame, OthersFrame
    <3> QED  BY <1>1, <1>2, <1>4, <3>1 DEF Solo
  <2> QED  BY <2>1, <2>2
<1> QED  BY <1>1, <1>3, <1>4 DEF Solo

\* While the worker that claimed a campaign fans it out nobody else does, if
\* no fan-out takes as long as the reaper waits.
THEOREM StarterIsAlone == ASSUME Timely PROVE Spec => []StarterAlone
<1>1. SoloInvariant /\ [Next]_vars => SoloInvariant'
  <2> SUFFICES ASSUME SoloInvariant, [Next]_vars PROVE SoloInvariant'
    OBVIOUS
  <2>1. FanoutInvariant' /\ CreateInvariant'
    BY FanoutNext, CreateNext DEF SoloInvariant
  <2>2. CASE Next
    <3>1. Roles' /\ InTime'
      BY <2>2, RolesNext, InTimeNext DEF SoloInvariant, CreateInvariant
    <3>2. \A w \in Workers : Solo(w)'
      BY <2>2, SoloNext
    <3> QED  BY <2>1, <3>1, <3>2 DEF SoloInvariant
  <2>3. CASE UNCHANGED vars
    BY <2>1, <2>3 DEF SoloInvariant, vars, table, stage, Roles, InTime, Solo, FansOut
  <2> QED  BY <2>2, <2>3
<1>2. SoloInvariant => StarterAlone
  BY DEF SoloInvariant, Solo, StarterAlone, FansOut
<1> QED  BY <1>1, <1>2, SoloInit, PTL DEF Spec

-----------------------------------------------------------------------------
(* With one worker, a campaign shown as done leaves nothing waiting.       *)

Alone == \A w, v \in Workers : v = w

\* A stage never works on a campaign that is over.
Open == \A w \in Workers : phase[w] # "idle" => campaign[target[w]] \notin {"done", "failed"}

\* A campaign nobody claimed has no deliveries, ...
Unborn == \A c \in Campaigns : campaign[c] \in {"none", "scheduled"} => Reached(c) = {}

\* ... nor has one that was claimed and resolves to nobody.
Fresh ==
  \A w \in Workers :
    phase[w] = "empty" \/ (phase[w] = "claimed" /\ job[w] = "start") => Reached(target[w]) = {}

\* Between the reaper's counts and its verdict nothing waits again.
Settling == \A w \in Workers : phase[w] = "deciding" => Drained(target[w])

DrainInvariant ==
  /\ FanoutInvariant /\ CreateInvariant /\ Roles
  /\ Open /\ Unborn /\ Fresh /\ Settling /\ DoneIsDrained

LEMMA DrainInit == Init => DrainInvariant
<1> SUFFICES ASSUME Init PROVE DrainInvariant
  OBVIOUS
<1>1. Roles /\ Open /\ Fresh /\ Settling
  BY DEF Init, InitWith, Roles, Open, Fresh, Settling
<1>2. Unborn /\ DoneIsDrained
  BY DEF Init, InitWith, Unborn, DoneIsDrained, Reached, Drained
<1> QED  BY <1>1, <1>2, FanoutInit, CreateInit DEF DrainInvariant

\* Only a fan-out makes deliveries; only it, a postponed push and a retry
\* let one wait.
LEMMA RowWaits ==
  ASSUME TypeInvariant, Next, NEW c \in Campaigns, NEW s \in Subscribers,
         \A w \in Workers : target[w] = c => phase[w] \notin {"filling", "sending"}
  PROVE  \/ row'[c][s] = row[c][s]
         \/ row[c][s] # "none" /\ row'[c][s] # "pending"
         \/ row[c][s] # "none" /\ RetryFailed(c)
<1> USE DEF TypeInvariant, TypeOK
<1>1. ASSUME NEW w \in Workers, WorkerStep(w) PROVE row'[c][s] = row[c][s]
  <2>1. CASE InsertChunk(w)
    <3>1. PICK S : Insert(target[w], S)
      BY <2>1 DEF InsertChunk
    <3>2. target[w] # c
      BY <2>1 DEF InsertChunk
    <3> QED  BY <3>1, <3>2 DEF Insert
  <2>2. CASE SendStep(w)
    <3>1. PICK e \in Subscribers : \E r : row' = [row EXCEPT ![target[w]][e] = r]
      BY <2>2 DEF SendStep, Deliver, Postpone
    <3>2. target[w] # c
      BY <2>2 DEF SendStep, Deliver, Postpone
    <3> QED  BY <3>1, <3>2
  <2>3. CASE ~InsertChunk(w) /\ ~SendStep(w)
    <3>1. row' = row
      BY <1>1, <2>3 DEF WorkerStep, StageStep, CheckStart, ClaimCampaign, FailSiteless,
        ResolveAudience, FinishEmpty, MarkComplete, AbandonSiteless, CheckStuck, CountStuck,
        WriteStuck, InsertCampaign, Throw, Crash, Pick, PickDue, PickStuck, BeginAutomation,
        BeginSend, table
    <3> QED  BY <3>1
  <2> QED  BY <2>1, <2>2, <2>3
<1>2. ASSUME NEW e \in Campaigns, SendEngine(e) \/ CancelCampaign(e) \/ RetryFailed(e)
      PROVE  \/ row'[c][s] = row[c][s]
             \/ row[c][s] # "none" /\ row'[c][s] # "pending"
             \/ row[c][s] # "none" /\ RetryFailed(c)
  <2>1. row' = row \/ CancelPending(e) \/ RetryFailed(e)
    BY <1>2 DEF SendEngine, Finalize, CancelTerminated, CancelCampaign
  <2>2. CASE CancelPending(e)
    BY <2>2 DEF CancelPending
  <2>3. CASE RetryFailed(e)
    <3>1. row' = [row EXCEPT ![e] = [t \in Subscribers |-> IF @[t] = "failed" THEN "pending" ELSE @[t]]]
      BY <2>3 DEF RetryFailed
    <3>2. row'[c][s] = row[c][s] \/ (c = e /\ row[c][s] = "failed")
      BY <3>1
    <3> QED  BY <2>3, <3>2
  <2> QED  BY <2>1, <2>2, <2>3
<1>3. ASSUME \/ \E e \in Campaigns : ResendToNonClickers(e)
             \/ \E g \in Sites, t \in {"active", "paused"} : SetSiteStatus(g, t)
             \/ \E t \in Subscribers : Subscribe(t) \/ Unsubscribe(t)
             \/ Tick
      PROVE  row'[c][s] = row[c][s]
  BY <1>3 DEF ResendToNonClickers, SetSiteStatus, Subscribe, Unsubscribe, Tick, table
<1> QED
  BY StepKinds, <1>1, <1>2, <1>3 DEF Elsewhere, Operator

\* Away from fan-outs a campaign without deliveries stays without, and one
\* that has drained stays so until a retry.
LEMMA NothingNew ==
  ASSUME TypeInvariant, Next, NEW c \in Campaigns,
         \A w \in Workers : target[w] = c => phase[w] \notin {"filling", "sending"}
  PROVE  /\ Reached(c) = {} => Reached(c)' = {}
         /\ Drained(c) /\ ~RetryFailed(c) => Drained(c)'
  BY RowWaits DEF Reached, Drained

\* Who writes a verdict lets go of the campaign.
LEMMA VerdictEnds ==
  ASSUME TypeInvariant, Next, Alone, NEW c \in Campaigns,
         campaign'[c] \in {"done", "failed"}, campaign'[c] # campaign[c], NEW v \in Workers
  PROVE  phase'[v] = "idle"
<1> USE DEF TypeInvariant, TypeOK
<1>1. ASSUME NEW w \in Workers, WorkerStep(w) PROVE phase'[v] = "idle"
  <2>1. v = w
    BY DEF Alone
  <2>2. CASE Release(w)
    BY <2>1, <2>2 DEF Release
  <2>3. CASE ~Release(w)
    <3>1. \/ campaign' = campaign
          \/ SetStatus(target[w], "sending") \/ SetIfSending(target[w], "sending")
      BY <1>1, <2>3 DEF WorkerStep, StageStep, CheckStart, ClaimCampaign, FailSiteless,
        ResolveAudience, FinishEmpty, InsertChunk, MarkComplete, AbandonSiteless, CheckStuck,
        CountStuck, WriteStuck, InsertCampaign, Throw, Crash, Pick, PickDue, PickStuck,
        BeginAutomation, BeginSend, SendStep, Deliver, Postpone, table
    <3>2. campaign'[c] \in {campaign[c], "sending"}
      BY <3>1 DEF SetStatus, SetIfSending
    <3> QED  BY <3>2
  <2> QED  BY <2>2, <2>3
<1>2. ASSUME NEW e \in Campaigns, Finalize(e) PROVE phase'[v] = "idle"
  BY <1>2 DEF Finalize, Between, stage, Alone
<1>3. CASE Elsewhere /\ \A e \in Campaigns : ~Finalize(e)
  <2>1. \/ campaign' = campaign
        \/ \E e \in Campaigns, s \in {"cancelled", "sending", "scheduled"} : SetStatus(e, s)
    BY <1>3 DEF Elsewhere, SendEngine, CancelTerminated, Operator, CancelCampaign, RetryFailed,
      ResendToNonClickers, SetSiteStatus, Subscribe, Unsubscribe, Tick, table
  <2>2. campaign'[c] \in {campaign[c], "cancelled", "sending", "scheduled"}
    BY <2>1 DEF SetStatus
  <2> QED  BY <2>2
<1>4. CASE Elsewhere /\ \E e \in Campaigns : Finalize(e)
  BY <1>2, <1>4
<1> QED  BY StepKinds, <1>1, <1>3, <1>4

\* A campaign becomes done only when its deliveries have drained.
LEMMA DoneWhenDrained ==
  ASSUME DrainInvariant, Next, NEW c \in Campaigns, campaign'[c] = "done", campaign[c] # "done"
  PROVE  Drained(c) /\ row' = row
<1> USE DEF DrainInvariant, FanoutInvariant, TypeInvariant, TypeOK
<1>1. ASSUME NEW w \in Workers, WorkerStep(w) PROVE Drained(c) /\ row' = row
  <2>1. CASE FinishEmpty(w)
    <3>1. c = target[w] /\ Reached(c) = {} /\ row' = row
      BY <2>1 DEF FinishEmpty, SetIfSending, SetStatus, Fresh, Shape
    <3> QED  BY <3>1 DEF Reached, Drained
  <2>2. CASE WriteStuck(w)
    BY <2>2 DEF WriteStuck, SetIfSending, SetStatus, Settling, Shape
  <2>3. CASE ~FinishEmpty(w) /\ ~WriteStuck(w)
    <3>1. \/ campaign' = campaign
          \/ \E s \in {"sending", "failed"} : SetStatus(target[w], s) \/ SetIfSending(target[w], s)
      BY <1>1, <2>3 DEF WorkerStep, StageStep, CheckStart, ClaimCampaign, FailSiteless,
        ResolveAudience, InsertChunk, MarkComplete, AbandonSiteless, CheckStuck, MarkStuckFailed,
        CountStuck, InsertCampaign, Throw, Crash, Pick, PickDue, PickStuck,
        BeginAutomation, BeginSend, SendStep, Deliver, Postpone, table
    <3>2. campaign'[c] \in {campaign[c], "sending", "failed"}
      BY <3>1 DEF SetStatus, SetIfSending
    <3> QED  BY <3>2
  <2> QED  BY <2>1, <2>2, <2>3
<1>2. ASSUME NEW e \in Campaigns, Finalize(e) PROVE Drained(c) /\ row' = row
  BY <1>2 DEF Finalize, Finalizable, SetStatus
<1>3. CASE Elsewhere /\ \A e \in Campaigns : ~Finalize(e)
  <2>1. \/ campaign' = campaign
        \/ \E e \in Campaigns, s \in {"cancelled", "sending", "scheduled"} : SetStatus(e, s)
    BY <1>3 DEF Elsewhere, SendEngine, CancelTerminated, Operator, CancelCampaign, RetryFailed,
      ResendToNonClickers, SetSiteStatus, Subscribe, Unsubscribe, Tick, table
  <2>2. campaign'[c] \in {campaign[c], "cancelled", "sending", "scheduled"}
    BY <2>1 DEF SetStatus
  <2> QED  BY <2>2
<1> QED  BY StepKinds, <1>1, <1>2, <1>3

LEMMA KeepOpen == ASSUME DrainInvariant, Next, Alone PROVE Open'
<1> SUFFICES ASSUME NEW w \in Workers, phase'[w] # "idle" PROVE campaign'[target'[w]] \notin {"done", "failed"}
  BY DEF Open
<1> USE DEF DrainInvariant, FanoutInvariant
<1>1. TypeInvariant'
  BY TypeNext
<1>2. target'[w] \in Campaigns
  BY <1>1 DEF TypeInvariant, Shape
<1>3. campaign[target'[w]] \notin {"done", "failed"}
  <2>1. CASE phase[w] = "idle"
    <3>1. WorkerStep(w)
      BY <2>1, StepKinds, ElsewhereFrame, OthersFrame
    <3>2. PICK e \in Campaigns : Pick(w, e)
      BY <2>1, <3>1 DEF WorkerStep, StageStep, CheckStart, ClaimCampaign, FailSiteless,
        ResolveAudience, FinishEmpty, InsertChunk, MarkComplete, AbandonSiteless, CheckStuck,
        CountStuck, WriteStuck, InsertCampaign, SendStep, Deliver, Postpone, Throw, Crash
    <3> QED
      BY <3>2 DEF Pick, PickDue, PickStuck, BeginAutomation, BeginSend, Take, FirstOf, IsStuck,
        TypeInvariant, TypeOK
  <2>2. CASE phase[w] # "idle"
    <3>1. target'[w] = target[w]
      BY <2>2, EachStage DEF Begins, Ends, GoesOn
    <3> QED  BY <2>2, <3>1 DEF Open
  <2> QED  BY <2>1, <2>2
<1> QED  BY <1>2, <1>3, VerdictEnds

LEMMA KeepUnborn == ASSUME DrainInvariant, Next PROVE Unborn'
<1> SUFFICES ASSUME NEW c \in Campaigns, campaign'[c] \in {"none", "scheduled"} PROVE Reached(c)' = {}
  BY DEF Unborn
<1>1. campaign[c] \in {"none", "scheduled"}
  BY Unclaimed DEF DrainInvariant, FanoutInvariant
<1>2. \A w \in Workers : target[w] = c => phase[w] \notin {"filling", "sending"}
  BY <1>1 DEF DrainInvariant, FanoutInvariant, UnclaimedUntouched
<1> QED  BY <1>1, <1>2, NothingNew DEF DrainInvariant, FanoutInvariant, Unborn

LEMMA KeepFresh == ASSUME DrainInvariant, Next, Alone PROVE Fresh'
<1> SUFFICES ASSUME NEW w \in Workers,
                    phase'[w] = "empty" \/ (phase'[w] = "claimed" /\ job'[w] = "start")
             PROVE  \A s \in Subscribers : row'[target'[w]][s] = "none"
  BY DEF Fresh, Reached
<1> USE DEF DrainInvariant, FanoutInvariant
<1>1. phase[w] # "idle" /\ target'[w] = target[w] /\ target[w] \in Campaigns /\ phase[w] \notin {"filling", "sending"}
  BY EachStage DEF Begins, Ends, GoesOn, TypeInvariant, Shape
<1>2. Reached(target[w]) = {}
  <2>1. CASE ~WorkerStep(w)
    <3>1. phase'[w] = phase[w] /\ job'[w] = job[w]
      BY <2>1, StepKinds, ElsewhereFrame, OthersFrame
    <3> QED  BY <3>1 DEF Fresh
  <2>2. CASE ClaimCampaign(w)
    <3>1. campaign[target[w]] = "scheduled"
      BY <2>2 DEF ClaimCampaign, Release, TypeInvariant, TypeOK
    <3> QED  BY <1>1, <3>1 DEF Unborn
  <2>3. CASE InsertCampaign(w)
    <3>1. campaign[target[w]] = "none"
      BY <2>3 DEF InsertCampaign, CreateInvariant, Creating
    <3> QED  BY <1>1, <3>1 DEF Unborn
  <2>4. CASE ResolveAudience(w)
    <3>1. phase[w] = "claimed" /\ job[w] = "start"
      BY <2>4 DEF ResolveAudience, TypeInvariant, TypeOK
    <3> QED  BY <3>1 DEF Fresh
  <2>5. CASE WorkerStep(w) /\ ~ClaimCampaign(w) /\ ~InsertCampaign(w) /\ ~ResolveAudience(w)
    <3>1. CASE phase[w] = "stuck"
      <4>1. CheckStuck(w)
        BY <2>5, <3>1 DEF WorkerStep, StageStep, CheckStart, FailSiteless, FinishEmpty,
          InsertChunk, MarkComplete, AbandonSiteless, CountStuck, WriteStuck, SendStep, Deliver,
          Postpone, Throw, Crash, Release, Pick, PickDue, PickStuck, BeginAutomation, BeginSend,
          TypeInvariant, TypeOK
      <4>2. job'[w] = job[w] /\ phase'[w] # "empty"
        BY <4>1 DEF CheckStuck, Go, Release, Resumption, TypeInvariant, TypeOK
      <4> QED  BY <3>1, <4>2 DEF Roles
    <3>2. CASE phase[w] # "stuck"
      BY <1>1, <2>5, <3>2 DEF WorkerStep, StageStep, CheckStart, FailSiteless, FinishEmpty,
        InsertChunk, Afterwards, MarkComplete, AbandonSiteless, CheckStuck, CountStuck,
        WriteStuck, SendStep, Deliver, Postpone, Throw, Crash, Go, Release, Pick, PickDue,
        PickStuck, BeginAutomation, BeginSend, TypeInvariant, TypeOK
    <3> QED  BY <3>1, <3>2
  <2> QED  BY <2>1, <2>2, <2>3, <2>4, <2>5
<1>3. \A v \in Workers : target[v] = target[w] => phase[v] \notin {"filling", "sending"}
  BY <1>1 DEF Alone
<1>4. ASSUME NEW c \in Campaigns, c = target[w] PROVE Reached(c)' = {}
  BY <1>2, <1>3, <1>4, NothingNew
<1> QED  BY <1>1, <1>4 DEF Reached

LEMMA KeepSettling == ASSUME DrainInvariant, Next, Alone PROVE Settling'
<1> SUFFICES ASSUME NEW w \in Workers, phase'[w] = "deciding"
             PROVE  \A s \in Subscribers : row'[target'[w]][s] # "pending"
  BY DEF Settling, Drained
<1> USE DEF DrainInvariant, FanoutInvariant
<1>1. /\ phase[w] \in {"counting", "deciding"} /\ target'[w] = target[w] /\ target[w] \in Campaigns
  BY EachStage DEF Begins, Ends, GoesOn, TypeInvariant, Shape
<1>2. Drained(target[w])
  <2>1. CASE phase[w] = "deciding"
    BY <2>1 DEF Settling
  <2>2. CASE phase[w] = "counting"
    <3>1. WorkerStep(w)
      BY <2>2, StepKinds, ElsewhereFrame, OthersFrame
    <3>2. CountStuck(w)
      BY <2>2, <3>1 DEF WorkerStep, StageStep, CheckStart, ClaimCampaign, FailSiteless,
        ResolveAudience, FinishEmpty, InsertChunk, MarkComplete, AbandonSiteless, CheckStuck,
        WriteStuck, InsertCampaign, SendStep, Deliver, Postpone, Throw, Crash, Release, Pick,
        PickDue, PickStuck, BeginAutomation, BeginSend, TypeInvariant, TypeOK
    <3> QED  BY <3>2 DEF CountStuck, MayFinalize, Release, TypeInvariant, TypeOK
  <2> QED  BY <1>1, <2>1, <2>2
<1>3. \A v \in Workers : target[v] = target[w] => phase[v] \notin {"filling", "sending"}
  BY <1>1 DEF Alone
<1>4. ~RetryFailed(target[w])
  BY <1>1 DEF RetryFailed, Open
<1>5. ASSUME NEW c \in Campaigns, c = target[w] PROVE Drained(c)'
  BY <1>2, <1>3, <1>4, <1>5, NothingNew
<1> QED  BY <1>1, <1>5 DEF Drained

LEMMA KeepDrained == ASSUME DrainInvariant, Next PROVE DoneIsDrained'
<1> SUFFICES ASSUME NEW c \in Campaigns, campaign'[c] = "done" PROVE Drained(c)'
  BY DEF DoneIsDrained
<1> USE DEF DrainInvariant, FanoutInvariant
<1>1. CASE campaign[c] # "done"
  BY <1>1, DoneWhenDrained DEF Drained
<1>2. CASE campaign[c] = "done"
  <2>1. \A w \in Workers : target[w] = c => phase[w] \notin {"filling", "sending"}
    BY <1>2 DEF Open
  <2>2. ~RetryFailed(c)
    BY DEF RetryFailed, SetStatus, TypeInvariant, TypeOK
  <2> QED  BY <1>2, <2>1, <2>2, NothingNew DEF DoneIsDrained
<1> QED  BY <1>1, <1>2

\* A campaign shown as done has no delivery waiting, however often its rows
\* are retried, as long as one worker runs: finalizing, reaping and sending
\* are then stages of one loop, and no verdict is older than the rows it is
\* about.
THEOREM NothingLeftWaiting == ASSUME Alone PROVE Spec => []DoneIsDrained
<1>1. DrainInvariant /\ [Next]_vars => DrainInvariant'
  <2> SUFFICES ASSUME DrainInvariant, [Next]_vars PROVE DrainInvariant'
    OBVIOUS
  <2>1. FanoutInvariant' /\ CreateInvariant'
    BY FanoutNext, CreateNext DEF DrainInvariant
  <2>2. CASE Next
    <3>1. Roles'
      BY <2>2, RolesNext DEF DrainInvariant, CreateInvariant
    <3> QED
      BY <2>1, <2>2, <3>1, KeepOpen, KeepUnborn, KeepFresh, KeepSettling, KeepDrained DEF DrainInvariant
  <2>3. CASE UNCHANGED vars
    BY <2>1, <2>3 DEF DrainInvariant, vars, table, stage, Roles, Open, Unborn, Fresh, Settling,
      DoneIsDrained, Reached, Drained
  <2> QED  BY <2>2, <2>3
<1>2. DrainInvariant => DoneIsDrained
  BY DEF DrainInvariant
<1> QED  BY <1>1, <1>2, DrainInit, PTL DEF Spec

=============================================================================
