------------------------------- MODULE Clicks -------------------------------
(***************************************************************************)
(* A campaign after it was sent: notifications in browsers, the beacons    *)
(* their service worker fires, the click route that counts one click per   *)
(* delivery and tallies buttons, and the worker's daily pruning of old     *)
(* deliveries and events.                                                  *)
(*                                                                         *)
(* The route runs without an await once it has its parameters, so one      *)
(* click at a time; the worker's statements come between its own.  Time is *)
(* counted in days.  How long deliveries and events are kept are two       *)
(* settings that nothing relates, read anew by every pruning.              *)
(***************************************************************************)
EXTENDS Integers, FiniteSets

CONSTANTS
  Deliveries,     \* of one campaign, each to a subscriber of its own
  Buttons,        \* of the campaign's notification
  Body,           \* the notification itself, when it is pressed
  Close,          \* its dismissal
  Gone,           \* no row
  DelDays, EvtDays,   \* what the two retention settings may say, in days; 0 for ever
  StrandedDays,   \* 30: how long rows that nobody will send stay at least
  MaxDays,        \* bound: days that pass
  MaxFaults       \* bound: restarts and failing statements

ASSUME ClicksAssumption ==
  /\ DelDays \subseteq Nat /\ EvtDays \subseteq Nat /\ StrandedDays \in Nat
  /\ MaxDays \in Nat /\ MaxFaults \in Nat /\ IsFiniteSet(Deliveries)
  /\ Body \notin Buttons /\ Close \notin Buttons \cup {Body}
  /\ Gone \notin [is : {"queued", "sent"}, at : Nat] /\ Gone \notin [by : Buttons \cup {Body}, at : Nat]

VARIABLES
  day, status, row, note, beacons, clicked, times, tally,
  web,         \* the click route's run
  worker,      \* the statement of the pruning to come
  keep,        \* the retention this pruning read
  marker,      \* last_prune_at
  failing,     \* a statement of this pruning failed
  torn,        \* history: the web process stopped within a run
  missed,      \* history: this pruning failed to take the deliveries
  early,       \* history: a delivery's click events pruned while a click could find it
  mishaps

history    == <<times, torn, missed, early>>
clicksVars == <<day, status, row, note, beacons, clicked, tally, web, worker, keep, marker, failing,
                mishaps, history>>

-----------------------------------------------------------------------------
Rests  == [at |-> "idle"]
Unread == [del |-> 0, evt |-> 0]

ClicksTypeOK ==
  /\ day \in 0..MaxDays /\ marker \in 0..MaxDays \cup {Gone}
  /\ status \in {"sending", "done", "failed"}
  /\ \A d \in Deliveries : row[d] = Gone \/ row[d] \in [is : {"queued", "sent"}, at : 0..MaxDays]
  /\ note \in [Deliveries -> {"none", "shown", "closed"}]
  /\ beacons \subseteq [of : Deliveries, press : Buttons \cup {Body, Close}]
  /\ \A d \in Deliveries : clicked[d] = Gone \/ clicked[d] \in [by : Buttons \cup {Body}, at : 0..MaxDays]
  /\ times \in [Deliveries -> Nat] /\ early \in [Deliveries -> Nat] /\ tally \in [Buttons -> Nat]
  /\ worker \in {"idle", "stranded", "terminal", "events", "mark"}
  /\ keep \in [del : DelDays \cup {0}, evt : EvtDays \cup {0}] /\ mishaps \in 0..MaxFaults

ClicksInit ==
  /\ day = 0 /\ status = "sending" /\ row = [d \in Deliveries |-> [is |-> "queued", at |-> 0]]
  /\ note = [d \in Deliveries |-> "none"] /\ beacons = {}
  /\ clicked = [d \in Deliveries |-> Gone] /\ times = [d \in Deliveries |-> 0]
  /\ tally = [b \in Buttons |-> 0]
  /\ web = Rests /\ worker = "idle" /\ keep = Unread /\ marker = Gone /\ failing = FALSE
  /\ torn = FALSE /\ missed = FALSE /\ early = [d \in Deliveries |-> 0] /\ mishaps = 0

server == <<clicked, tally, web, history>>
prunes == <<worker, keep, marker, failing>>

-----------------------------------------------------------------------------
(* The campaign, and the service worker that shows its notification.       *)

\* The push arrives, or not; showNotification is tried twice.
Push(d) ==
  /\ status = "sending" /\ row[d] # Gone /\ row[d].is = "queued"
  /\ row' = [row EXCEPT ![d] = [is |-> "sent", at |-> day]]
  /\ note' \in {note, [note EXCEPT ![d] = "shown"]}
  /\ UNCHANGED <<day, status, beacons, server, prunes, mishaps>>

\* The campaign is over, or stuck with rows that nobody will send.
End ==
  /\ status = "sending"
  /\ status' \in (IF \E d \in Deliveries : row[d] # Gone /\ row[d].is = "queued" THEN {"failed"} ELSE {"done"})
  /\ UNCHANGED <<day, row, note, beacons, server, prunes, mishaps>>

\* notificationclick: a button that is there, or the body; it is closed, and
\* one beacon goes to the panel.  notificationclose: a beacon as well.
Touch(d, press) ==
  /\ note[d] = "shown"
  /\ note' = [note EXCEPT ![d] = "closed"]
  /\ beacons' = beacons \cup {[of |-> d, press |-> press]}
  /\ UNCHANGED <<day, status, row, server, prunes, mishaps>>

Lose(b) == beacons' = beacons \ {b} /\ UNCHANGED <<day, status, row, note, server, prunes, mishaps>>

-----------------------------------------------------------------------------
(* GET /api/v1/click/<delivery>: the network may deliver a beacon again.   *)
(* A dismissal records an event that nothing here counts.                  *)

Unknown(b) == row[b.of] = Gone
Prior(b) == clicked[b.of] # Gone

Receive(b) ==
  /\ web = Rests
  /\ beacons' \in {beacons, beacons \ {b}}
  /\ IF Unknown(b) \/ b.press = Close THEN UNCHANGED web ELSE web' = [at |-> "prior", b |-> b]
  /\ UNCHANGED <<day, status, row, note, clicked, tally, history, prunes, mishaps>>

\* The replay dedupe: was this delivery's click recorded before?
LookUpPrior ==
  /\ web.at = "prior" /\ web' = [web EXCEPT !.at = IF Prior(web.b) THEN "redirect" ELSE "insert"]
  /\ UNCHANGED <<day, status, row, note, beacons, clicked, tally, history, prunes, mishaps>>

\* The first button has index 0.
IsButton(press) == press \in Buttons

\* events has a unique index on a delivery's click.
InsertClick ==
  /\ web.at = "insert"
  /\ LET b == web.b IN
       /\ clicked' = [clicked EXCEPT ![b.of] = [by |-> b.press, at |-> day]]
       /\ times' = [times EXCEPT ![b.of] = @ + 1]
       /\ web' = [web EXCEPT !.at = IF IsButton(b.press) THEN "bump" ELSE "redirect"]
  /\ UNCHANGED <<day, status, row, note, beacons, tally, torn, missed, early, prunes, mishaps>>

BumpButtonStat ==
  /\ web.at = "bump" /\ web' = [web EXCEPT !.at = "redirect"]
  /\ tally' = [tally EXCEPT ![web.b.press] = @ + 1]
  /\ UNCHANGED <<day, status, row, note, beacons, clicked, history, prunes, mishaps>>

Redirect ==
  /\ web.at = "redirect" /\ web' = Rests
  /\ UNCHANGED <<day, status, row, note, beacons, clicked, tally, history, prunes, mishaps>>

WebRestarts ==
  /\ web # Rests /\ mishaps < MaxFaults /\ mishaps' = mishaps + 1
  /\ web' = Rests /\ torn' = (torn \/ web.at = "bump")
  /\ UNCHANGED <<day, status, row, note, beacons, clicked, tally, times, missed, early, prunes>>

-----------------------------------------------------------------------------
(* runRetentionPruning.  A failing part lets the next one run, and keeps   *)
(* the marker, so that the next tick prunes again.                         *)

Older(t, days) == t < day - days
Longest(m, n) == IF m >= n THEN m ELSE n

\* A retention of 0 skips its part.
Stranded(d) ==
  /\ keep.del > 0 /\ row[d] # Gone /\ row[d].is = "queued"
  /\ Older(row[d].at, Longest(keep.del, StrandedDays)) /\ status # "sending"
Terminal(d) == keep.del > 0 /\ row[d] # Gone /\ row[d].is = "sent" /\ Older(row[d].at, keep.del)
Aged(d)     == keep.evt > 0 /\ clicked[d] # Gone /\ Older(clicked[d].at, keep.evt)

\* Deliveries go before their events.
Then_EventsFirst(at) == CASE at = "idle" -> "events" [] at = "events" -> "stranded"
                          [] at = "stranded" -> "terminal" [] at = "terminal" -> "mark"
Then(at) == CASE at = "idle" -> "stranded" [] at = "stranded" -> "terminal"
              [] at = "terminal" -> "events" [] at = "events" -> "mark"

BeginPrune ==
  /\ worker = "idle" /\ marker # day
  /\ worker' = Then("idle") /\ keep' \in [del : DelDays, evt : EvtDays]
  /\ UNCHANGED <<day, status, row, note, beacons, server, marker, failing, mishaps>>

PruneRows(at, old) ==
  /\ worker = at /\ worker' = Then(at)
  /\ row' = [d \in Deliveries |-> IF d \in old THEN Gone ELSE row[d]]
  /\ UNCHANGED <<day, status, note, beacons, server, keep, marker, failing, mishaps>>
PruneStranded == PruneRows("stranded", {d \in Deliveries : Stranded(d)})
PruneTerminal == PruneRows("terminal", {d \in Deliveries : Terminal(d)})

\* A click can still find the delivery, or has found it and is about to look
\* for its event.
Reachable(d) == row[d] # Gone \/ (web.at = "prior" /\ web.b.of = d)

PruneEvents ==
  /\ worker = "events" /\ worker' = Then("events")
  /\ clicked' = [d \in Deliveries |-> IF Aged(d) THEN Gone ELSE clicked[d]]
  /\ early' = [d \in Deliveries |-> IF Aged(d) /\ Reachable(d) THEN early[d] + 1 ELSE early[d]]
  /\ UNCHANGED <<day, status, row, note, beacons, tally, web, times, torn, missed, keep, marker, failing,
                 mishaps>>

PruneFails ==
  /\ \/ worker \in {"stranded", "terminal"} /\ keep.del > 0
     \/ worker = "events" /\ keep.evt > 0
  /\ worker' = Then(worker)
  /\ mishaps < MaxFaults /\ mishaps' = mishaps + 1
  /\ failing' = TRUE /\ missed' = (missed \/ worker = "terminal")
  /\ UNCHANGED <<day, status, row, note, beacons, clicked, tally, web, times, torn, early, keep, marker>>

\* What the run has read and counted ends with it.
EndPrune == worker' = "idle" /\ keep' = Unread /\ failing' = FALSE /\ missed' = FALSE

WriteMarker ==
  /\ worker = "mark" /\ EndPrune
  /\ marker' = IF failing THEN marker ELSE day
  /\ UNCHANGED <<day, status, row, note, beacons, clicked, tally, web, times, torn, early, mishaps>>

WorkerRestarts ==
  /\ worker # "idle" /\ mishaps < MaxFaults /\ mishaps' = mishaps + 1
  /\ EndPrune
  /\ UNCHANGED <<day, status, row, note, beacons, clicked, tally, web, times, torn, early, marker>>

\* Days pass between runs of the route and of the pruning.
NextDay ==
  /\ day < MaxDays /\ web = Rests /\ worker = "idle" /\ day' = day + 1
  /\ UNCHANGED <<status, row, note, beacons, server, prunes, mishaps>>

ClicksNext ==
  \/ \E d \in Deliveries : Push(d) \/ \E press \in Buttons \cup {Body, Close} : Touch(d, press)
  \/ End
  \/ \E b \in beacons : Lose(b) \/ Receive(b)
  \/ LookUpPrior \/ InsertClick \/ BumpButtonStat \/ Redirect \/ WebRestarts
  \/ BeginPrune \/ PruneStranded \/ PruneTerminal \/ PruneEvents \/ PruneFails \/ WriteMarker
  \/ WorkerRestarts
  \/ NextDay

-----------------------------------------------------------------------------
\* One delivery, one clicked event, however often its beacon arrives and
\* whatever is pruned in between: a delivery is counted once more only for
\* each event that a pruning took while a click could still find the
\* delivery.  When a pruning does that is EventsOutlive.
ClickedOnce == \A d \in Deliveries : times[d] <= 1 + early[d]

\* A pruning takes a click's event only after the delivery it proves clicked,
\* whatever the days kept and whatever failed before: unless the settings
\* keep deliveries for longer than events (nothing in the code relates the
\* two), or this very pruning failed to take the deliveries.
Ordered == keep.evt = 0 \/ keep.del \in 1..keep.evt
EventsOutlive ==
  [][\A d \in Deliveries :
       clicked[d] # Gone /\ clicked'[d] = Gone /\ Ordered /\ ~ missed => row[d] = Gone]_clicksVars

\* The campaign's tally of a button never exceeds the clicks counted, and a
\* click counted on a button is in the tally as soon as its run is over,
\* unless the process stopped between the two statements.
Counted(b) == {d \in Deliveries : clicked[d] # Gone /\ clicked[d].by = b}
TallyHolds ==
  \A b \in Buttons :
    torn \/ Cardinality(Counted(b)) <= tally[b] + (IF web # Rests /\ web.at = "bump" /\ web.b.press = b THEN 1 ELSE 0)

\* Pruning never takes a delivery that the campaign is still to send.
PendingSpared ==
  [][\A d \in Deliveries : row[d] # Gone /\ row[d].is = "queued" /\ status = "sending" => row'[d] # Gone]_clicksVars

\* Pruning and counting together: what is counted is counted once, or again
\* only where the retention settings or a failing statement let an event go
\* before its delivery; and what is pruned was not needed any more.
PruningSafe == []ClicksTypeOK /\ []ClickedOnce /\ EventsOutlive /\ []TallyHolds /\ PendingSpared

=============================================================================
