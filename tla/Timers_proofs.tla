---------------------------- MODULE Timers_proofs ----------------------------
(***************************************************************************)
(* Theorems about journeys and e-mail campaigns for any number of workers, *)
(* rows, contacts, actions and faults, and any length of the windows: the  *)
(* types, and that the journey table keeps time.                           *)
(***************************************************************************)
EXTENDS Timers, FiniteSetTheorems, WellFoundedInduction, TLAPS

-----------------------------------------------------------------------------
(* Arithmetic.                                                             *)

\* A set of numbers that is not empty has a least one.
Below == {p \in Nat \X Nat : p[1] < p[2]}

LEMMA BelowIsWellFounded == IsWellFoundedOn(Below, Nat)
  BY NatLessThanWellFounded DEF OpToRel, Below

LEMMA LeastIsIn == ASSUME NEW S, S \subseteq Nat, S # {} PROVE Least(S) \in S
<1>1. PICK x \in S : \A y \in S : ~ (<<y, x>> \in Below)
  BY BelowIsWellFounded, WFMin
<1>2. \A y \in S : x <= y
  <2> SUFFICES ASSUME NEW y \in S PROVE x <= y
    OBVIOUS
  <2>1. x \in Nat /\ y \in Nat /\ ~ (<<y, x>> \in Below)
    BY <1>1
  <2>2. ~ (y < x)
    BY <2>1 DEF Below
  <2> QED  BY <2>1, <2>2
<1> QED  BY <1>2 DEF Least

\* Doubling: a power of two counts the subsets of a set.
LEMMA PowerIsNat == ASSUME NEW n \in Nat PROVE 2^n \in Nat
<1>1. IsFiniteSet(1..n) /\ Cardinality(1..n) = n
  BY FS_Interval
<1>2. IsFiniteSet(SUBSET (1..n)) /\ Cardinality(SUBSET (1..n)) = 2^Cardinality(1..n)
  BY <1>1, FS_SUBSET
<1>3. Cardinality(SUBSET (1..n)) \in Nat
  BY <1>2, FS_CardinalityType
<1> QED  BY <1>1, <1>2, <1>3

LEMMA BackoffIsNat == ASSUME NEW f \in Nat, f > 0 PROVE Backoff(f) \in Nat
<1> DEFINE exponent == IF f > 6 THEN 5 ELSE f - 1
<1>1. exponent \in Nat
  OBVIOUS
<1>2. 2^exponent \in Nat
  BY <1>1, PowerIsNat
<1> DEFINE power == 2^exponent
<1>3. BackoffUnit * power \in Nat /\ MaxBackoff \in Nat
  <2>1. power \in Nat /\ BackoffUnit \in Nat
    BY <1>2, TimerAssumption
  <2> HIDE DEF power
  <2> QED  BY <2>1, TimerAssumption
<1> HIDE DEF exponent
<1> QED  BY <1>3 DEF Backoff, exponent

-----------------------------------------------------------------------------
(* Types.                                                                  *)

\* A worker has selected and claimed rows of the stage it is in, and a
\* toggle that was read names a journey.
Shape ==
  /\ \A w \in Workers :
       /\ phase[w] = "journeys" => todo[w] \subseteq Journeys
       /\ phase[w] = "mails" => todo[w] \subseteq Mails
       /\ phase[w] = "rearming" => target[w] \in Journeys /\ todo[w] \subseteq Journeys
       /\ phase[w] = "resolving" => target[w] \in Mails /\ todo[w] \subseteq Mails
  /\ toggling # NoToggle => toggling.id \in Journeys

Types == TypeOK /\ Shape

LEMMA TypesInit == Init => Types
  BY TimerAssumption DEF Init, Types, TypeOK, Shape, JourneyStatus, MailStatus, Phases, NoToggle

LEMMA FirstIn == ASSUME NEW S PROVE FirstOf(S) \subseteq S
  BY DEF FirstOf

\* The row a worker takes from its list.
LEMMA NextOnList ==
  ASSUME Types, NEW w \in Workers, todo[w] # {} PROVE Least(todo[w]) \in todo[w]
<1>1. todo[w] \subseteq Nat
  BY TimerAssumption DEF Types, TypeOK
<1> QED  BY <1>1, LeastIsIn

\* Taking a row from every list leaves lists of the same kind.
LEMMA UnselectKeeps ==
  ASSUME Types, NEW x
  PROVE  /\ Unselect(x) \in [Workers -> SUBSET (Journeys \cup Mails)]
         /\ \A w \in Workers : Unselect(x)[w] \subseteq todo[w]
  BY DEF Types, TypeOK, Unselect

LEMMA PutTypes ==
  ASSUME Types, NEW j \in Journeys, NEW st \in JourneyStatus, NEW d \in Nat \cup {NULL}, NEW f \in Nat,
         Put(j, st, d, f)
  PROVE  /\ journey' \in [Journeys -> JourneyStatus] /\ next' \in [Journeys -> Nat \cup {NULL}]
         /\ failures' \in [Journeys -> Nat]
  BY DEF Put, Types, TypeOK, journeyRow

\* One step for every action.
LEMMA JourneyStepTypes ==
  ASSUME Types, NEW w \in Workers,
         SelectJourneys(w) \/ ClaimJourney(w) \/ EndStage(w) \/ RearmJourney(w) \/ RearmThrows(w) \/ Crash(w)
  PROVE  Types'
<1> USE TimerAssumption DEF Types, TypeOK, Shape, Goto, journeyRow, mailRow, contact, panel, NoToggle, Phases
<1>1. CASE SelectJourneys(w)
  <2>1. FirstOf(DueJourneys) \subseteq Journeys
    BY FirstIn DEF DueJourneys
  <2> QED  BY <1>1, <2>1 DEF SelectJourneys
<1>2. CASE ClaimJourney(w)
  <2>1. Least(todo[w]) \in todo[w] /\ Least(todo[w]) \in Journeys
    BY <1>2, NextOnList DEF ClaimJourney
  <2>2. CASE journey[Least(todo[w])] = "active"
    <3>1. todo' \in [Workers -> SUBSET (Journeys \cup Mails)] /\ \A v \in Workers : todo'[v] \subseteq todo[v]
      BY <1>2, <2>2, UnselectKeeps DEF ClaimJourney
    <3>2. /\ next' = [next EXCEPT ![Least(todo[w])] = ClaimWindow] /\ UNCHANGED <<journey, failures>>
          /\ target' = [target EXCEPT ![w] = Least(todo[w])] /\ phase' = [phase EXCEPT ![w] = "rearming"]
          /\ UNCHANGED <<mailRow, contact, known, panel, faults>>
      BY <1>2, <2>2 DEF ClaimJourney, JourneySentinel
    <3>3. TypeOK'
      BY <2>1, <3>1, <3>2
    <3>4. Shape'
      BY <2>1, <3>1, <3>2, <1>2 DEF ClaimJourney
    <3> QED  BY <3>3, <3>4
  <2>3. CASE journey[Least(todo[w])] # "active"
    <3>1. todo' = [todo EXCEPT ![w] = @ \ {Least(todo[w])}] /\ UNCHANGED <<next, target, phase>>
          /\ UNCHANGED <<journey, failures, mailRow, contact, known, panel, faults>>
      BY <1>2, <2>3 DEF ClaimJourney
    <3> QED  BY <3>1
  <2> QED  BY <2>2, <2>3
<1>3. CASE EndStage(w)
  BY <1>3 DEF EndStage
<1>4. CASE RearmJourney(w)
  <2>1. target[w] \in Journeys /\ AfterRun(target[w]) \in JourneyStatus /\ Rearmed(target[w]) \in Nat
    BY <1>4 DEF RearmJourney, AfterRun, Rearmed
  <2>2. /\ journey' \in [Journeys -> JourneyStatus] /\ next' \in [Journeys -> Nat \cup {NULL}]
        /\ failures' \in [Journeys -> Nat]
    BY <1>4, <2>1, PutTypes DEF RearmJourney
  <2> QED  BY <1>4, <2>2 DEF RearmJourney, LeaveJourney
<1>5. CASE RearmThrows(w)
  <2> DEFINE f == known[w][target[w]] + 1
  <2>1. target[w] \in Journeys /\ f \in Nat /\ f > 0
    <3>1. target[w] \in Journeys
      BY <1>5 DEF RearmThrows
    <3>2. known[w] \in [Journeys -> Nat]
      OBVIOUS
    <3>3. known[w][target[w]] \in Nat
      BY <3>1, <3>2
    <3> QED  BY <3>1, <3>3
  <2>2. Backoff(f) \in Nat
    BY <2>1, BackoffIsNat
  <2>3. /\ journey' \in [Journeys -> JourneyStatus] /\ next' \in [Journeys -> Nat \cup {NULL}]
        /\ failures' \in [Journeys -> Nat]
    <3>1. CASE UNCHANGED journeyRow
      BY <3>1
    <3>2. CASE Put(target[w], "paused", NULL, f) \/ Put(target[w], "active", Backoff(f), f)
      <4> HIDE DEF f, Types
      <4>1. "paused" \in JourneyStatus /\ "active" \in JourneyStatus
        BY DEF JourneyStatus
      <4> QED  BY <2>1, <2>2, <3>2, <4>1, PutTypes
    <3> QED  BY <1>5, <3>1, <3>2 DEF RearmThrows
  <2> QED  BY <1>5, <2>3 DEF RearmThrows, LeaveJourney, Throws
<1>6. CASE Crash(w)
  BY <1>6 DEF Crash, Throws
<1> QED  BY <1>1, <1>2, <1>3, <1>4, <1>5, <1>6

LEMMA MailStepTypes ==
  ASSUME Types, NEW w \in Workers, ReapMails(w) \/ SelectMails(w) \/ ClaimMail(w) \/ CloseMail(w)
  PROVE  Types'
<1> USE TimerAssumption DEF Types, TypeOK, Shape, Goto, journeyRow, contact, panel, NoToggle, Phases, MailStatus
<1>1. CASE ReapMails(w)
  BY <1>1 DEF ReapMails, Throws, Stale
<1>2. CASE SelectMails(w)
  <2>1. FirstOf(DueMails) \subseteq Mails
    BY FirstIn DEF DueMails
  <2> QED  BY <1>2, <2>1 DEF SelectMails, mailRow
<1>3. CASE ClaimMail(w)
  <2>1. Least(todo[w]) \in todo[w] /\ Least(todo[w]) \in Mails
    BY <1>3, NextOnList DEF ClaimMail
  <2>2. /\ todo' = [todo EXCEPT ![w] = @ \ {Least(todo[w])}]
        /\ UNCHANGED <<journeyRow, schedule, audience, reached, contact, known, panel, faults>>
    BY <1>3 DEF ClaimMail
  <2>3. CASE mail[Least(todo[w])] = "scheduled"
    <3>1. /\ mail' = [mail EXCEPT ![Least(todo[w])] = "sending"] /\ idle' = [idle EXCEPT ![Least(todo[w])] = 0]
          /\ target' = [target EXCEPT ![w] = Least(todo[w])] /\ phase' = [phase EXCEPT ![w] = "resolving"]
          /\ phase[w] = "mails"
      BY <1>3, <2>3 DEF ClaimMail
    <3> QED  BY <2>1, <2>2, <3>1
  <2>4. CASE mail[Least(todo[w])] # "scheduled"
    <3>1. UNCHANGED <<mail, idle, target, phase>>
      BY <1>3, <2>4 DEF ClaimMail
    <3> QED  BY <2>1, <2>2, <3>1
  <2> QED  BY <2>3, <2>4
<1>4. CASE CloseMail(w)
  <2>1. ResolveEmailAudience(target[w]) \subseteq Contacts
    BY DEF ResolveEmailAudience
  <2>2. /\ mail' \in [Mails -> MailStatus] /\ idle' \in [Mails -> 0..ReapAfter]
        /\ reached' \in [Mails -> SUBSET Contacts] /\ faults' \in Nat
    <3>1. target[w] \in Mails /\ 0 \in 0..ReapAfter /\ Closed \in MailStatus
      BY <1>4 DEF CloseMail, Closed
    <3>2. mail' = mail \/ \E s \in MailStatus : mail' = [mail EXCEPT ![target[w]] = s]
      BY <1>4, <3>1 DEF CloseMail
    <3>3. idle' = idle \/ idle' = [idle EXCEPT ![target[w]] = 0]
      BY <1>4 DEF CloseMail
    <3>4. reached' = reached \/ reached' = [reached EXCEPT ![target[w]] = ResolveEmailAudience(target[w])]
      BY <1>4 DEF CloseMail
    <3>5. faults' = faults \/ faults' = faults + 1
      BY <1>4 DEF CloseMail, Throws
    <3>6. mail \in [Mails -> MailStatus] /\ idle \in [Mails -> 0..ReapAfter]
          /\ reached \in [Mails -> SUBSET Contacts] /\ faults \in Nat
      OBVIOUS
    <3> HIDE DEF Types, MailStatus
    <3>7. mail' \in [Mails -> MailStatus]
      BY <3>2, <3>6
    <3>8. idle' \in [Mails -> 0..ReapAfter]
      BY <3>1, <3>3, <3>6
    <3>9. reached' \in [Mails -> SUBSET Contacts]
      BY <2>1, <3>4, <3>6
    <3> QED  BY <3>5, <3>6, <3>7, <3>8, <3>9
  <2>3. /\ phase' = [phase EXCEPT ![w] = "mails"] /\ target' = [target EXCEPT ![w] = NULL]
        /\ UNCHANGED <<journeyRow, schedule, audience, contact, todo, known, panel>>
        /\ phase[w] = "resolving"
    BY <1>4 DEF CloseMail
  <2> QED  BY <2>2, <2>3
<1> QED  BY <1>1, <1>2, <1>3, <1>4

LEMMA PanelStepTypes ==
  ASSUME Types,
         \/ \E j \in Journeys : CreateJourney(j) \/ DeleteJourney(j) \/ ReadToggle(j)
         \/ \E m \in Mails : CreateMail(m) \/ DeleteMail(m)
         \/ WriteToggle \/ Tick
  PROVE  Types'
<1> USE TimerAssumption DEF Types, TypeOK, Shape, Act, journeyRow, mailRow, contact, worker, panel, NoToggle
<1>1. ASSUME NEW j \in Journeys, CreateJourney(j) PROVE Types'
  BY <1>1 DEF CreateJourney, JourneyStatus
<1>2. ASSUME NEW j \in Journeys, DeleteJourney(j) PROVE Types'
  <2>1. todo' \in [Workers -> SUBSET (Journeys \cup Mails)] /\ \A v \in Workers : todo'[v] \subseteq todo[v]
    BY <1>2, UnselectKeeps DEF DeleteJourney
  <2> QED  BY <1>2, <2>1 DEF DeleteJourney, JourneyStatus
<1>3. ASSUME NEW j \in Journeys, ReadToggle(j) PROVE Types'
  BY <1>3 DEF ReadToggle
<1>4. ASSUME NEW m \in Mails, CreateMail(m) PROVE Types'
  BY <1>4 DEF CreateMail, MailStatus
<1>5. ASSUME NEW m \in Mails, DeleteMail(m) PROVE Types'
  BY <1>5 DEF DeleteMail, MailStatus
<1>6. CASE WriteToggle
  <2>1. toggling.id \in Journeys /\ failures[toggling.id] \in Nat
    BY <1>6 DEF WriteToggle
  <2>2. "paused" \in JourneyStatus /\ "active" \in JourneyStatus
    BY DEF JourneyStatus
  <2>3. /\ journey' \in [Journeys -> JourneyStatus] /\ next' \in [Journeys -> Nat \cup {NULL}]
        /\ failures' \in [Journeys -> Nat]
    BY <1>6, <2>1, <2>2, PutTypes DEF WriteToggle
  <2>4. todo' \in [Workers -> SUBSET (Journeys \cup Mails)] /\ \A v \in Workers : todo'[v] \subseteq todo[v]
    BY <1>6, UnselectKeeps DEF WriteToggle
  <2> QED  BY <1>6, <2>3, <2>4 DEF WriteToggle, JourneyStatus
<1>7. CASE Tick
  BY <1>7 DEF Tick, Down, Up
<1> QED  BY <1>1, <1>2, <1>3, <1>4, <1>5, <1>6, <1>7

LEMMA TypesStep == ASSUME Types, [Next]_vars PROVE Types'
<1>1. CASE UNCHANGED vars
  BY <1>1 DEF vars, Types, TypeOK, Shape, journeyRow, mailRow, contact, worker, panel, NoToggle
<1>2. CASE Next
  BY <1>2, JourneyStepTypes, MailStepTypes, PanelStepTypes DEF Next, WorkerStep, WorkerFault
<1> QED  BY <1>1, <1>2

-----------------------------------------------------------------------------
(* The journey table.                                                      *)

\* Only what is written to the table matters: a verdict with its time.
LEMMA PutArms ==
  ASSUME Types, ActiveJourneyArmed, NEW j \in Journeys, NEW st, NEW d, NEW f, Put(j, st, d, f),
         st = "active" => d # NULL
  PROVE  ActiveJourneyArmed'
  BY DEF Types, TypeOK, ActiveJourneyArmed, Put, journeyRow

LEMMA ArmedStep == ASSUME Types, ActiveJourneyArmed, [Next]_vars PROVE ActiveJourneyArmed'
<1> USE TimerAssumption
<1>1. ASSUME NEW w \in Workers, ClaimJourney(w) PROVE ActiveJourneyArmed'
  <2>1. JourneySentinel # NULL
    BY DEF JourneySentinel
  <2> QED  BY <1>1, <2>1 DEF ClaimJourney, Types, TypeOK, ActiveJourneyArmed
<1>2. ASSUME NEW w \in Workers, RearmJourney(w) PROVE ActiveJourneyArmed'
  <2>1. target[w] \in Journeys /\ Rearmed(target[w]) # NULL
    BY <1>2 DEF RearmJourney, Types, Shape, Rearmed
  <2> QED  BY <1>2, <2>1, PutArms DEF RearmJourney
<1>3. ASSUME NEW w \in Workers, RearmThrows(w) PROVE ActiveJourneyArmed'
  <2> DEFINE f == known[w][target[w]] + 1
  <2>1. target[w] \in Journeys /\ f \in Nat /\ f > 0
    <3>1. target[w] \in Journeys
      BY <1>3 DEF RearmThrows, Types, Shape
    <3>2. known[w] \in [Journeys -> Nat]
      BY DEF Types, TypeOK
    <3>3. known[w][target[w]] \in Nat
      BY <3>1, <3>2
    <3> QED  BY <3>1, <3>3
  <2>2. Backoff(f) # NULL
    BY <2>1, BackoffIsNat
  <2> HIDE DEF f
  <2>3. CASE Put(target[w], "paused", NULL, f) \/ Put(target[w], "active", Backoff(f), f)
    BY <2>1, <2>2, <2>3, PutArms
  <2>4. CASE UNCHANGED journeyRow
    BY <2>4 DEF journeyRow, ActiveJourneyArmed
  <2> QED  BY <1>3, <2>3, <2>4 DEF RearmThrows, f
<1>4. ASSUME WriteToggle PROVE ActiveJourneyArmed'
  <2>1. toggling.id \in Journeys
    BY <1>4 DEF WriteToggle, Types, Shape
  <2>2. CASE Put(toggling.id, "paused", NULL, failures[toggling.id])
    BY <2>1, <2>2 DEF Types, TypeOK, ActiveJourneyArmed, Put, journeyRow
  <2>3. CASE Put(toggling.id, "active", 0, failures[toggling.id])
    BY <2>1, <2>3 DEF Types, TypeOK, ActiveJourneyArmed, Put, journeyRow
  <2> QED  BY <1>4, <2>2, <2>3 DEF WriteToggle
<1>5. ASSUME NEW j \in Journeys, CreateJourney(j) \/ DeleteJourney(j) PROVE ActiveJourneyArmed'
  BY <1>5 DEF CreateJourney, DeleteJourney, Types, TypeOK, ActiveJourneyArmed
<1>6. CASE Tick
  <2>1. UNCHANGED journey /\ next' = [j \in Journeys |-> Down(next[j])]
    BY <1>6 DEF Tick
  <2>2. ASSUME NEW j \in Journeys, journey[j] = "active" PROVE Down(next[j]) # NULL
    <3>1. next[j] \in Nat
      BY <2>2 DEF Types, TypeOK, ActiveJourneyArmed
    <3> QED  BY <3>1 DEF Down
  <2> QED  BY <2>1, <2>2 DEF ActiveJourneyArmed
<1>7. CASE UNCHANGED journeyRow
  BY <1>7 DEF journeyRow, ActiveJourneyArmed
<1>8. ASSUME NEW w \in Workers,
             \/ SelectJourneys(w) \/ EndStage(w) \/ Crash(w)
             \/ ReapMails(w) \/ SelectMails(w) \/ ClaimMail(w) \/ CloseMail(w)
      PROVE UNCHANGED journeyRow
  BY <1>8 DEF SelectJourneys, EndStage, Crash, ReapMails, SelectMails, ClaimMail, CloseMail
<1>9. ASSUME \/ \E j \in Journeys : ReadToggle(j)
             \/ \E m \in Mails : CreateMail(m) \/ DeleteMail(m)
             \/ UNCHANGED vars
      PROVE UNCHANGED journeyRow
  BY <1>9 DEF ReadToggle, CreateMail, DeleteMail, vars
<1> QED
  BY <1>1, <1>2, <1>3, <1>4, <1>5, <1>6, <1>7, <1>8, <1>9 DEF Next, WorkerStep, WorkerFault

\* What makes a paused journey active.
LEMMA PauseStep ==
  ASSUME Types, [Next]_vars, NEW j \in Journeys, journey[j] = "paused", journey'[j] = "active"
  PROVE  toggling.id = j \/ faults' # faults
<1> USE DEF Types, TypeOK
<1>1. ASSUME NEW w \in Workers, RearmJourney(w) PROVE FALSE
  BY <1>1 DEF RearmJourney, Put, AfterRun, journeyRow
<1>2. ASSUME NEW w \in Workers, RearmThrows(w) PROVE faults' # faults
  BY <1>2 DEF RearmThrows, Throws
<1>3. CASE WriteToggle
  BY <1>3 DEF WriteToggle, Put, journeyRow
<1>4. ASSUME NEW i \in Journeys, CreateJourney(i) \/ DeleteJourney(i) PROVE FALSE
  BY <1>4 DEF CreateJourney, DeleteJourney
<1>5. CASE UNCHANGED journey
  BY <1>5
<1>6. ASSUME NEW w \in Workers,
             \/ SelectJourneys(w) \/ ClaimJourney(w) \/ EndStage(w) \/ Crash(w)
             \/ ReapMails(w) \/ SelectMails(w) \/ ClaimMail(w) \/ CloseMail(w)
      PROVE UNCHANGED journey
  BY <1>6 DEF SelectJourneys, ClaimJourney, EndStage, Crash, ReapMails, SelectMails, ClaimMail, CloseMail, journeyRow
<1>7. ASSUME \/ \E i \in Journeys : ReadToggle(i)
             \/ \E m \in Mails : CreateMail(m) \/ DeleteMail(m)
             \/ Tick \/ UNCHANGED vars
      PROVE UNCHANGED journey
  BY <1>7 DEF ReadToggle, CreateMail, DeleteMail, Tick, vars, journeyRow
<1> QED
  BY <1>1, <1>2, <1>3, <1>4, <1>5, <1>6, <1>7 DEF Next, WorkerStep, WorkerFault

\* Journeys keep time (journey.ts:46-96): types are kept, an active journey
\* always has a next run - a claim, a re-arm, a backoff and a toggle write one
\* - and a paused one is made active by the toggle it was read for, or by the
\* catch of a throwing re-arm.
THEOREM JourneysStayOnTime == Spec => JourneysKeepTime
<1>1. Init => Types /\ ActiveJourneyArmed
  <2>1. Init => ActiveJourneyArmed
    BY TimerAssumption DEF Init, ActiveJourneyArmed
  <2> QED  BY <2>1, TypesInit
<1>2. Types /\ ActiveJourneyArmed /\ [Next]_vars => (Types /\ ActiveJourneyArmed)'
  BY TypesStep, ArmedStep
<1>3. Types /\ [Next]_vars =>
        [\A j \in Journeys :
           journey[j] = "paused" /\ journey'[j] = "active" => toggling.id = j \/ faults' # faults]_vars
  BY PauseStep
<1>4. Types => TypeOK
  BY DEF Types
<1> QED  BY <1>1, <1>2, <1>3, <1>4, PTL DEF Spec, JourneysKeepTime, JourneyPauseHolds

=============================================================================
