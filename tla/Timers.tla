------------------------------- MODULE Timers -------------------------------
(***************************************************************************)
(* The two other timed tables of the worker: journeys                      *)
(* (apps/worker/src/journey.ts), which are only re-armed as long as the    *)
(* canvas is not executed, and e-mail campaigns (email.ts), which resolve  *)
(* their contacts and close; with the panel's actions on both.  The stages *)
(* have no await, but every statement is a transaction of its own, so the  *)
(* panel, another worker or a crash may come between two of them.          *)
(*                                                                         *)
(* Times are kept as ticks left, as in Automations, and the age of a claim *)
(* on an e-mail campaign as ticks since updated_at.                        *)
(* Definitions with an underscore are mutants of the ones they precede.    *)
(***************************************************************************)
EXTENDS Integers, FiniteSets

CONSTANTS
  Workers,          \* worker processes sharing the database file
  Journeys, Mails,  \* journeys.id, email_campaigns.id
  NULL,
  Contacts,         \* email_contacts of the workspace
  Listed,           \* contacts a manual audience may name
  DueLimit,         \* DUE_LIMIT
  ClaimWindow,      \* five minutes, in ticks
  JourneyInterval,  \* fifteen minutes, in ticks
  BackoffUnit,      \* three minutes, in ticks
  MaxBackoff,       \* 180 minutes, in ticks
  MaxJourneyFails,  \* consecutive failures before a journey is paused
  ReapAfter,        \* thirty minutes, in ticks
  MaxDelay,         \* bound: how far ahead an e-mail is scheduled
  MaxActions,       \* bound: panel actions
  MaxFaults         \* bound: crashes and throwing statements

ASSUME TimerAssumption ==
  /\ Journeys \subseteq Nat /\ Mails \subseteq Nat /\ NULL \notin Nat
  /\ NULL \notin Workers
  /\ Listed \subseteq Contacts
  /\ DueLimit \in Nat \ {0} /\ ClaimWindow \in Nat \ {0} /\ JourneyInterval \in Nat \ {0}
  /\ BackoffUnit \in Nat \ {0} /\ MaxBackoff \in Nat \ {0} /\ MaxJourneyFails \in Nat \ {0}
  /\ ReapAfter \in Nat \ {0} /\ MaxDelay \in Nat
  /\ MaxActions \in Nat /\ MaxFaults \in Nat

VARIABLES
  journey,     \* journeys.status, "none" before the row exists, "gone" after
  next,        \* ticks until journeys.next_run_at, NULL when not set
  failures,    \* consecutiveFailures in stats_json
  mail,        \* email_campaigns.status
  schedule,    \* ticks until schedule_at
  audience,    \* kind in audience_json
  idle,        \* ticks since email_campaigns.updated_at, up to ReapAfter
  reached,     \* contacts resolved when the campaign closed
  suppressed,  \* contacts that bounced or unsubscribed
  enabled,     \* setting suppression_enabled
  phase,       \* the statement each worker is at
  todo,        \* rows selected, their next_run_at or status unchanged since
  target,      \* the row it has claimed
  known,       \* failures of the journeys as selected
  toggling,    \* panel's pause or resume between its read and its write
  actions, faults  \* how much of each bound is used up

journeyRow == <<journey, next, failures>>
mailRow    == <<mail, schedule, audience, idle, reached>>
contact    == <<suppressed, enabled>>
worker     == <<phase, todo, target, known>>
panel      == <<toggling, actions>>
vars       == <<journeyRow, mailRow, contact, worker, panel, faults>>

-----------------------------------------------------------------------------
JourneyStatus == {"none", "draft", "active", "paused", "gone"}
MailStatus == {"none", "draft", "scheduled", "sending", "done", "failed", "gone"}
Phases == {"idle", "journeys", "rearming", "reaping", "mails", "resolving"}

TypeOK ==
  /\ journey \in [Journeys -> JourneyStatus]
  /\ next \in [Journeys -> Nat \cup {NULL}]
  /\ failures \in [Journeys -> Nat]
  /\ mail \in [Mails -> MailStatus]
  /\ schedule \in [Mails -> Nat]
  /\ audience \in [Mails -> {"all", "manual", "broken"}]
  /\ idle \in [Mails -> 0..ReapAfter]
  /\ reached \in [Mails -> SUBSET Contacts]
  /\ suppressed \subseteq Contacts /\ enabled \in BOOLEAN
  /\ phase \in [Workers -> Phases]
  /\ todo \in [Workers -> SUBSET (Journeys \cup Mails)]
  /\ target \in [Workers -> Journeys \cup Mails \cup {NULL}]
  /\ known \in [Workers -> [Journeys -> Nat]]
  /\ toggling \in [id : Journeys \cup {NULL}, was : JourneyStatus]
  /\ actions \in Nat /\ faults \in Nat

NoToggle == [id |-> NULL, was |-> "none"]

\* Journeys there are, already running; contacts do not change.
Init ==
  /\ \E J \in SUBSET Journeys :
       /\ journey = [j \in Journeys |-> IF j \in J THEN "active" ELSE "none"]
       /\ next = [j \in Journeys |-> IF j \in J THEN 0 ELSE NULL]
  /\ failures = [j \in Journeys |-> 0]
  /\ mail = [m \in Mails |-> "none"]
  /\ schedule = [m \in Mails |-> 0]
  /\ audience = [m \in Mails |-> "all"]
  /\ idle = [m \in Mails |-> 0]
  /\ reached = [m \in Mails |-> {}]
  /\ suppressed \in SUBSET Contacts /\ enabled \in BOOLEAN
  /\ phase = [w \in Workers |-> "idle"]
  /\ todo = [w \in Workers |-> {}]
  /\ target = [w \in Workers |-> NULL]
  /\ known = [w \in Workers |-> [j \in Journeys |-> 0]]
  /\ toggling = NoToggle
  /\ actions = 0 /\ faults = 0

-----------------------------------------------------------------------------
(* Journeys.                                                               *)

Goto(w, p) == phase' = [phase EXCEPT ![w] = p]
FirstOf(S) == {x \in S : Cardinality({y \in S : y < x}) < DueLimit}
Least(S)   == CHOOSE x \in S : \A y \in S : x <= y
Throws     == faults < MaxFaults /\ faults' = faults + 1
Unselect(x) == [w \in Workers |-> todo[w] \ {x}]

DueJourneys == {j \in Journeys : journey[j] = "active" /\ next[j] = 0}

SelectJourneys(w) ==
  /\ phase[w] = "idle" /\ DueJourneys # {}
  /\ Goto(w, "journeys")
  /\ todo' = [todo EXCEPT ![w] = FirstOf(DueJourneys)]
  /\ known' = [known EXCEPT ![w] = failures]
  /\ UNCHANGED <<journeyRow, mailRow, contact, target, panel, faults>>

JourneySentinel_Cleared == NULL
JourneySentinel == ClaimWindow

ClaimJourney(w) ==
  LET j == Least(todo[w]) IN
  /\ phase[w] = "journeys" /\ todo[w] # {}
  /\ IF journey[j] = "active"
     THEN /\ next' = [next EXCEPT ![j] = JourneySentinel]
          /\ todo' = Unselect(j)
          /\ target' = [target EXCEPT ![w] = j]
          /\ Goto(w, "rearming")
     ELSE todo' = [todo EXCEPT ![w] = @ \ {j}] /\ UNCHANGED <<next, target, phase>>
  /\ UNCHANGED <<journey, failures, mailRow, contact, known, panel, faults>>

EndStage(w) ==
  /\ phase[w] \in {"journeys", "mails"} /\ todo[w] = {}
  /\ Goto(w, "idle")
  /\ known' = [known EXCEPT ![w] = [j \in Journeys |-> 0]]
  /\ UNCHANGED <<journeyRow, mailRow, contact, todo, target, panel, faults>>

\* Writes the journey, unless it was deleted.
Put(j, st, d, f) ==
  IF journey[j] = "gone" THEN UNCHANGED journeyRow
  ELSE /\ journey' = [journey EXCEPT ![j] = st]
       /\ next' = [next EXCEPT ![j] = d]
       /\ failures' = [failures EXCEPT ![j] = f]

LeaveJourney(w) ==
  /\ Goto(w, "journeys")
  /\ target' = [target EXCEPT ![w] = NULL]
  /\ UNCHANGED <<mailRow, contact, todo, known, panel>>

Rearmed(j) == JourneyInterval

\* The re-arm leaves the status alone.
AfterRun_Active(j) == "active"
AfterRun(j) == journey[j]

\* The canvas is not executed: the journey is re-armed and its failures
\* forgotten.
RearmJourney(w) ==
  LET j == target[w] IN
  /\ phase[w] = "rearming"
  /\ Put(j, AfterRun(j), Rearmed(j), 0)
  /\ LeaveJourney(w) /\ UNCHANGED faults

\* Doubled with every failure up to a ceiling.
Backoff(f) ==
  LET exponent == IF f > 6 THEN 5 ELSE f - 1
      ticks == BackoffUnit * 2^exponent
  IN IF ticks > MaxBackoff THEN MaxBackoff ELSE ticks

\* A throwing re-arm writes the backoff, whatever the status is by now; if
\* that throws too, the sentinel stays.
RearmThrows(w) ==
  LET j == target[w] IN LET f == known[w][j] + 1 IN
  /\ phase[w] = "rearming" /\ Throws
  /\ \/ IF f >= MaxJourneyFails THEN Put(j, "paused", NULL, f) ELSE Put(j, "active", Backoff(f), f)
     \/ UNCHANGED journeyRow
  /\ LeaveJourney(w)

-----------------------------------------------------------------------------
(* E-mail campaigns.                                                       *)

DueMails == {m \in Mails : mail[m] = "scheduled" /\ schedule[m] = 0}
Stale_None == {}
Stale    == {m \in Mails : mail[m] = "sending" /\ idle[m] = ReapAfter}

\* Campaigns stranded by a crash go back; a throwing statement is ignored.
ReapMails(w) ==
  /\ phase[w] = "idle" /\ DueMails \cup Stale # {}
  /\ \/ /\ mail' = [m \in Mails |-> IF m \in Stale THEN "scheduled" ELSE mail[m]]
        /\ idle' = [m \in Mails |-> IF m \in Stale THEN 0 ELSE idle[m]]
        /\ UNCHANGED faults
     \/ Throws /\ UNCHANGED <<mail, idle>>
  /\ Goto(w, "reaping")
  /\ UNCHANGED <<journeyRow, schedule, audience, reached, contact, todo, target, known, panel>>

SelectMails(w) ==
  /\ phase[w] = "reaping"
  /\ Goto(w, "mails")
  /\ todo' = [todo EXCEPT ![w] = FirstOf(DueMails)]
  /\ UNCHANGED <<journeyRow, mailRow, contact, target, known, panel, faults>>

ClaimMail(w) ==
  LET m == Least(todo[w]) IN
  /\ phase[w] = "mails" /\ todo[w] # {}
  /\ todo' = [todo EXCEPT ![w] = @ \ {m}]
  /\ IF mail[m] = "scheduled"
     THEN /\ mail' = [mail EXCEPT ![m] = "sending"]
          /\ idle' = [idle EXCEPT ![m] = 0]
          /\ target' = [target EXCEPT ![w] = m]
          /\ Goto(w, "resolving")
     ELSE UNCHANGED <<mail, idle, target, phase>>
  /\ UNCHANGED <<journeyRow, schedule, audience, reached, contact, known, panel, faults>>

\* Everybody of the workspace unless ids are given, nobody when the audience
\* does not parse, without the suppressed while the setting is on.
ResolveEmailAudience(m) ==
  LET named == CASE audience[m] = "all" -> Contacts [] audience[m] = "manual" -> Listed [] OTHER -> {}
  IN named \ (IF enabled THEN suppressed ELSE {})

Closed == "done"

\* There is no transport: the campaign closes with nothing sent.  A throw
\* closes it as failed, or leaves it to the reaper.
CloseMail(w) ==
  LET m == target[w] IN
  /\ phase[w] = "resolving"
  /\ \/ /\ mail[m] = "sending" /\ UNCHANGED faults
        /\ mail' = [mail EXCEPT ![m] = Closed]
        /\ reached' = [reached EXCEPT ![m] = ResolveEmailAudience(m)]
        /\ idle' = [idle EXCEPT ![m] = 0]
     \/ /\ mail[m] = "sending" /\ Throws
        /\ mail' = [mail EXCEPT ![m] = "failed"]
        /\ idle' = [idle EXCEPT ![m] = 0] /\ UNCHANGED reached
     \/ mail[m] = "sending" /\ Throws /\ UNCHANGED <<mail, reached, idle>>
     \/ mail[m] # "sending" /\ UNCHANGED <<mail, reached, idle, faults>>
  /\ Goto(w, "mails")
  /\ target' = [target EXCEPT ![w] = NULL]
  /\ UNCHANGED <<journeyRow, schedule, audience, contact, todo, known, panel>>

Crash(w) ==
  /\ phase[w] # "idle" /\ Throws
  /\ Goto(w, "idle")
  /\ todo' = [todo EXCEPT ![w] = {}]
  /\ target' = [target EXCEPT ![w] = NULL]
  /\ known' = [known EXCEPT ![w] = [j \in Journeys |-> 0]]
  /\ UNCHANGED <<journeyRow, mailRow, contact, panel>>

-----------------------------------------------------------------------------
(* The panel.                                                              *)

Act == toggling = NoToggle /\ actions < MaxActions /\ actions' = actions + 1

\* POST /api/v1/journeys stores a draft.
CreateJourney(j) ==
  /\ journey[j] = "none" /\ Act
  /\ journey' = [journey EXCEPT ![j] = "draft"]
  /\ UNCHANGED <<next, failures, mailRow, contact, worker, toggling, faults>>

DeleteJourney(j) ==
  /\ journey[j] \notin {"none", "gone"} /\ Act
  /\ journey' = [journey EXCEPT ![j] = "gone"]
  /\ next' = [next EXCEPT ![j] = NULL]
  /\ todo' = Unselect(j)
  /\ UNCHANGED <<failures, mailRow, contact, phase, target, known, toggling, faults>>

ReadToggle(j) ==
  /\ journey[j] \notin {"none", "gone"} /\ Act
  /\ toggling' = [id |-> j, was |-> journey[j]]
  /\ UNCHANGED <<journeyRow, mailRow, contact, worker, faults>>

\* What is not active becomes active, drafts included, and is due at once.
WriteToggle ==
  LET j == toggling.id IN
  /\ toggling # NoToggle /\ toggling' = NoToggle
  /\ IF toggling.was = "active" THEN Put(j, "paused", NULL, failures[j]) ELSE Put(j, "active", 0, failures[j])
  /\ todo' = Unselect(j)
  /\ UNCHANGED <<mailRow, contact, phase, target, known, actions, faults>>

\* With a time it is scheduled, without one it stays a draft.
CreateMail(m) ==
  /\ mail[m] = "none" /\ Act
  /\ \/ \E d \in 0..MaxDelay :
          mail' = [mail EXCEPT ![m] = "scheduled"] /\ schedule' = [schedule EXCEPT ![m] = d]
     \/ mail' = [mail EXCEPT ![m] = "draft"] /\ UNCHANGED schedule
  /\ \E k \in {"all", "manual", "broken"} : audience' = [audience EXCEPT ![m] = k]
  /\ UNCHANGED <<journeyRow, idle, reached, contact, worker, toggling, faults>>

DeleteMail(m) ==
  /\ mail[m] \notin {"none", "gone"} /\ Act
  /\ mail' = [mail EXCEPT ![m] = "gone"]
  /\ UNCHANGED <<journeyRow, schedule, audience, idle, reached, contact, worker, toggling, faults>>

\* The stages are over before a tick has passed.
Down(d) == IF d = NULL \/ d = 0 THEN d ELSE d - 1
Up(n)   == IF n < ReapAfter THEN n + 1 ELSE n

Tick ==
  /\ \A w \in Workers : phase[w] = "idle"
  /\ next' = [j \in Journeys |-> Down(next[j])]
  /\ schedule' = [m \in Mails |-> Down(schedule[m])]
  /\ idle' = [m \in Mails |-> IF mail[m] = "sending" THEN Up(idle[m]) ELSE idle[m]]
  /\ <<next, schedule, idle>>' # <<next, schedule, idle>>
  /\ UNCHANGED <<journey, failures, mail, audience, reached, contact, worker, panel, faults>>

WorkerStep(w) ==
  \/ SelectJourneys(w) \/ ClaimJourney(w) \/ RearmJourney(w) \/ EndStage(w)
  \/ ReapMails(w) \/ SelectMails(w) \/ ClaimMail(w) \/ CloseMail(w)
WorkerFault(w) == RearmThrows(w) \/ Crash(w)

Next ==
  \/ \E w \in Workers : WorkerStep(w) \/ WorkerFault(w)
  \/ \E j \in Journeys : CreateJourney(j) \/ DeleteJourney(j) \/ ReadToggle(j)
  \/ \E m \in Mails : CreateMail(m) \/ DeleteMail(m)
  \/ WriteToggle \/ Tick

Spec == Init /\ [][Next]_vars

\* The worker's tick reaches both stages again and again, and the stages are
\* idle again and again between which time passes.
Fairness ==
  /\ \A w \in Workers :
       /\ SF_vars(SelectJourneys(w)) /\ SF_vars(ReapMails(w)) /\ WF_vars(WorkerStep(w))
  /\ WF_vars(WriteToggle) /\ SF_vars(Tick)
FairSpec == Spec /\ Fairness

-----------------------------------------------------------------------------
(* What the two stages promise.                                            *)

\* An active journey always has a next run: nothing a worker or an operator
\* writes leaves it active and out of the schedule.
ActiveJourneyArmed == \A j \in Journeys : journey[j] = "active" => next[j] # NULL

\* A paused journey is made active again by an operator only
\* (journeys/actions.ts:28); the catch of a throwing re-arm is the exception
\* (journey.ts:89-96).
JourneyPauseHolds ==
  [][\A j \in Journeys :
       journey[j] = "paused" /\ journey'[j] = "active" => toggling.id = j \/ faults' # faults]_vars

\* The journey table at rest and in motion: an active journey has a next
\* run, and a pause during a run holds.
JourneysKeepTime == []TypeOK /\ []ActiveJourneyArmed /\ JourneyPauseHolds

\* An active journey is run again and again, also after a crash.
JourneyComesRound ==
  \A j \in Journeys : journey[j] = "active" ~> journey[j] # "active" \/ \E w \in Workers : target[w] = j

\* A scheduled e-mail campaign is closed, also when the worker that claimed
\* it died (email.ts:28-38).
MailSettles ==
  \A m \in Mails : mail[m] \in {"scheduled", "sending"} ~> mail[m] \in {"done", "failed", "gone"}
=============================================================================
