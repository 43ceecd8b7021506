---------------------------- MODULE Subscribers ----------------------------
(***************************************************************************)
(* The table of subscribers of one site and the count shown for it: the    *)
(* public routes subscribe, resubscribe and unsubscribe, the panel's       *)
(* unsubscribe, clean and import, the worker's removal of a subscriber     *)
(* whose endpoint is gone, and the hourly purge.                           *)
(*                                                                         *)
(* The web process runs one handler at a time: after its last await a      *)
(* handler is synchronous, so no second request comes between two of its   *)
(* statements, but the statements of the worker process do, and either     *)
(* process may die there.  Definitions with an underscore are mutants of   *)
(* the ones they precede.                                                  *)
(***************************************************************************)
EXTENDS Integers, FiniteSets

CONSTANTS
  Endpoints,     \* push endpoints, as told apart by token_hash
  NULL,
  Cap,           \* MAX_SUBSCRIBERS_PER_DOMAIN
  MaxActs,       \* bound: what is done by hand
  MaxFaults      \* bound: throwing statements, crashes, refusals, lost messages

ASSUME SubscriberAssumption ==
  NULL \notin Endpoints /\ Cap \in Nat \ {0} /\ MaxActs \in Nat /\ MaxFaults \in Nat

VARIABLES
  active,     \* endpoints with an active row; a unique index allows one each
  dead, old,  \* endpoints with unsubscribed rows, younger and older than the
              \* retention
  count,      \* domains.subscribers_count
  web,        \* the request being handled, the statement it is at
  importing,  \* an import between two rows of its file
  file,       \* the endpoints it has still to read
  worker,     \* the statement of the worker that follows
  torn,       \* a recount of one process fell between two statements of the other
  acts, faults

table      == <<active, dead, old>>
serverVars == <<table, count, web, importing, file, worker, torn, acts, faults>>

-----------------------------------------------------------------------------
Sources   == {"subscribe", "flush", "sync", "worker", "unsubscribe", "panel"}
Ops       == {"subscribe", "resubscribe", "unsubscribe", "clean", "import"}
Calls     == [op : Ops, ep : Endpoints \cup {NULL}, was : Endpoints \cup {NULL}, from : Sources]
Posted    == [op : {"subscribe", "resubscribe", "unsubscribe"}, ep : Endpoints,
              was : Endpoints \cup {NULL}, from : Sources \ {"panel"}]

Statements == Ops \cup {"rotating", "refreshing", "guarding", "saving", "counting",
                        "leaving", "recounting", "storing", "answer", "idle"}

NoCall    == [op |-> "clean", ep |-> NULL, was |-> NULL, from |-> "panel"]
NoRequest == [call |-> NoCall, at |-> "idle", found |-> FALSE, seen |-> 0, reply |-> "none"]

Requests  == [call : Calls, at : Statements, found : BOOLEAN, seen : Nat,
              reply : {"none", "ok", "busy", "refused"}]

ServerTypeOK ==
  /\ active \subseteq Endpoints /\ dead \subseteq Endpoints /\ old \subseteq Endpoints
  /\ count \in Nat
  /\ web \in Requests
  /\ importing \in BOOLEAN /\ file \subseteq Endpoints
  /\ worker \in {"idle", "flipped", "purged"}
  /\ torn \in BOOLEAN
  /\ acts \in 0..MaxActs /\ faults \in 0..MaxFaults

ServerInit ==
  /\ active = {} /\ dead = {} /\ old = {} /\ count = 0
  /\ web = NoRequest /\ importing = FALSE /\ file = {}
  /\ worker = "idle" /\ torn = FALSE
  /\ acts = 0 /\ faults = 0

Dead(e)    == e \in dead \cup old
Known(e)   == e \in active \/ Dead(e)

-----------------------------------------------------------------------------
(* Steps of a handler.                                                     *)

At(s)     == web.at = s
ep        == web.call.ep
was       == web.call.was
Reply(r)  == web' = [web EXCEPT !.at = "answer", !.reply = r, !.found = FALSE, !.seen = 0]
Goto(s)   == web' = [web EXCEPT !.at = s]
Others    == <<importing, file, worker, acts>>
NoFault   == UNCHANGED faults
Fault     == faults < MaxFaults /\ faults' = faults + 1

Insert(e) == active' = active \cup {e} /\ UNCHANGED <<dead, old>>
Kill(e)   == active' = active \ {e} /\ dead' = dead \cup {e} /\ UNCHANGED old

\* The two processes tear the count: as rare as a fault.
Tears(yes, after) ==
  IF yes THEN torn' = TRUE /\ Fault ELSE torn' = after /\ NoFault

\* Rate limits, body and URL checks, the site and the origin come first.
Accept(c) ==
  /\ web = NoRequest
  /\ web' = [NoRequest EXCEPT !.call = c, !.at = c.op]
  /\ UNCHANGED <<table, count, torn, Others, faults>>

\* They may turn the request away: with 429, or for good (a paused site).
Refuse ==
  /\ web.at \in {"subscribe", "resubscribe", "unsubscribe"} /\ web.call.from # "panel"
  /\ Fault
  /\ \E r \in {"busy", "refused"} : Reply(r)
  /\ UNCHANGED <<table, count, torn, Others>>

Full == Cardinality(active) >= Cap

\* A subscribe looks for the active row of the endpoint; a new one counts
\* against the cap.
SubscribeLookup ==
  /\ At("subscribe")
  /\ IF ep \notin active /\ Full THEN Reply("busy")
     ELSE web' = [web EXCEPT !.at = "saving", !.found = ep \in active]
  /\ UNCHANGED <<table, count, torn, Others, faults>>

\* A row found is refreshed by its id, dead or not by now; the loser of the
\* unique index refreshes the winner.
Save ==
  /\ At("saving")
  /\ IF web.found \/ ep \in active THEN Reply("ok") /\ UNCHANGED table
     ELSE Insert(ep) /\ Goto("counting")
  /\ UNCHANGED <<count, torn, Others, faults>>

CountOne ==
  /\ At("counting")
  /\ count' = count + 1
  /\ Reply("ok")
  /\ UNCHANGED <<table, torn, Others, faults>>

\* A rotation reads one row of the endpoint it replaces, in no order: a dead
\* one ends it.
ResubscribeLookup ==
  /\ At("resubscribe")
  /\ IF was \in {NULL, ep} THEN Goto("refreshing")
     ELSE \/ Dead(was) /\ Reply("ok")
          \/ (was \in active \/ ~Dead(was)) /\ Goto("rotating")
  /\ UNCHANGED <<table, count, torn, Others, faults>>

\* The active row takes the new endpoint, unless an active row has it.
Rotate ==
  /\ At("rotating")
  /\ IF was \in active /\ ep \notin active
     THEN active' = (active \ {was}) \cup {ep} /\ Reply("ok")
     ELSE Goto("refreshing") /\ UNCHANGED active
  /\ UNCHANGED <<dead, old, count, torn, Others, faults>>

Refresh ==
  /\ At("refreshing")
  /\ IF ep \in active THEN Reply("ok") ELSE Goto("guarding")
  /\ UNCHANGED <<table, count, torn, Others, faults>>

\* A dead row of the endpoint keeps a background call from reviving it.
OptedOut_Never(e) == FALSE
OptedOut(e) == Dead(e)

Guard ==
  /\ At("guarding")
  /\ IF OptedOut(ep) THEN Reply("ok") ELSE IF Full THEN Reply("busy") ELSE Goto("saving")
  /\ UNCHANGED <<table, count, torn, Others, faults>>

\* Unsubscribing, by the endpoint from the SDK and by the id from the panel.
UnsubscribeLookup ==
  /\ At("unsubscribe")
  /\ IF ep \in active THEN Goto("leaving") ELSE Reply("refused")
  /\ UNCHANGED <<table, count, torn, Others, faults>>

Leave ==
  /\ At("leaving")
  /\ IF Known(ep) THEN Kill(ep) ELSE UNCHANGED table
  /\ Goto("recounting")
  /\ UNCHANGED <<count, torn, Others, faults>>

\* The panel deletes every dead row of the site, after their tags.
Clean ==
  /\ At("clean") /\ Goto("recounting")
  /\ dead' = {} /\ old' = {} /\ UNCHANGED active
  /\ UNCHANGED <<count, torn, Others, faults>>

\* The count is read and then written.  A recount heals an earlier drift
\* when the worker is not between two statements of its own.
Recount ==
  /\ web.at \in {"recounting", "import"}
  /\ web' = [web EXCEPT !.at = "storing", !.seen = Cardinality(active)]
  /\ importing' = (importing /\ web.at # "import")
  /\ Tears(worker = "flipped", FALSE)
  /\ UNCHANGED <<table, count, file, worker, acts>>

StoreCount ==
  /\ At("storing")
  /\ count' = web.seen
  /\ Reply("ok")
  /\ UNCHANGED <<table, torn, Others, faults>>

Answered ==
  /\ At("answer")
  /\ web' = NoRequest
  /\ UNCHANGED <<table, count, torn, Others>>

\* A statement throws, or the process dies: the statements before it stay.
HandlerThrows ==
  /\ web.at \notin {"idle", "answer"} /\ Fault
  /\ torn' = (torn \/ web.at \in {"counting", "recounting", "storing", "import"})
  /\ importing' = (importing /\ web.at # "import")
  /\ Reply("busy")
  /\ UNCHANGED <<table, count, file, worker, acts>>

\* An import dies between two rows.
ImportThrows ==
  /\ importing /\ web = NoRequest /\ Fault
  /\ importing' = FALSE /\ file' = {} /\ torn' = TRUE
  /\ UNCHANGED <<table, count, web, worker, acts>>

-----------------------------------------------------------------------------
(* The panel and the worker.                                               *)

ByHand == acts < MaxActs /\ acts' = acts + 1

PanelCall(op, e) ==
  /\ web = NoRequest /\ ByHand
  /\ web' = [NoRequest EXCEPT !.call = [op |-> op, ep |-> e, was |-> NULL, from |-> "panel"], !.at = op]
  /\ UNCHANGED <<table, count, torn, importing, file, worker, faults>>

StartImport(E) ==
  /\ ~importing /\ ByHand
  /\ importing' = TRUE /\ file' = E
  /\ UNCHANGED <<table, count, torn, web, worker, faults>>

\* Between two rows of the file the import waits for a host to be checked.
\* An endpoint the table knows is skipped, opted out or not.
Skips(e) == Known(e)

ImportRow(e) ==
  /\ web = NoRequest /\ e \in file /\ file' = file \ {e}
  /\ IF Skips(e) THEN UNCHANGED table ELSE Insert(e)
  /\ UNCHANGED <<count, torn, web, importing, worker, acts, faults>>

EndImport ==
  /\ importing /\ file = {} /\ web = NoRequest
  /\ web' = [NoRequest EXCEPT !.call.op = "import", !.at = "import"]
  /\ UNCHANGED <<table, count, torn, Others, faults>>

\* The push service says an endpoint is gone: its row is flipped, if it is
\* still active, and counted out in a second statement, which loses the
\* subscriber when it is not counted in yet and the count is zero.
Flips_Any(e) == Known(e)
Flips_NeverDead(e) == e \in active /\ ~Dead(e)
Flips(e) == e \in active

EndpointGone(e) ==
  /\ worker = "idle" /\ Flips(e) /\ Kill(e)
  /\ worker' = "flipped"
  /\ Tears(At("storing"), torn)
  /\ UNCHANGED <<count, web, importing, file, acts>>

OneLess == IF count > 0 THEN count - 1 ELSE 0

CountOut ==
  /\ worker = "flipped"
  /\ count' = OneLess
  /\ worker' = "idle"
  /\ Tears(count = 0 /\ At("counting"), torn)
  /\ UNCHANGED <<table, web, importing, file, acts>>

\* The hourly purge deletes what has been dead for long and, having deleted
\* something, recounts in one transaction.
Purge ==
  /\ worker = "idle" /\ old # {}
  /\ old' = {} /\ UNCHANGED <<active, dead>>
  /\ worker' = "purged"
  /\ UNCHANGED <<count, torn, web, importing, file, acts, faults>>

RecomputeCounts ==
  /\ worker = "purged"
  /\ count' = Cardinality(active)
  /\ worker' = "idle"
  /\ Tears(At("counting"), torn /\ At("storing"))
  /\ UNCHANGED <<table, web, importing, file, acts>>

\* The worker dies between the two statements.
WorkerCrash ==
  /\ worker # "idle" /\ Fault
  /\ worker' = "idle"
  /\ torn' = (torn \/ worker = "flipped")
  /\ UNCHANGED <<table, count, web, importing, file, acts>>

\* The retention passes.
Age ==
  /\ dead # {} /\ old' = old \cup dead /\ dead' = {} /\ UNCHANGED active
  /\ UNCHANGED <<count, web, importing, file, worker, torn, acts, faults>>

-----------------------------------------------------------------------------
HandlerStep ==
  \/ SubscribeLookup \/ Save \/ CountOne
  \/ ResubscribeLookup \/ Rotate \/ Refresh \/ Guard
  \/ UnsubscribeLookup \/ Leave \/ Clean
  \/ Recount \/ StoreCount

WorkerStep ==
  \/ \E e \in Endpoints : EndpointGone(e)
  \/ CountOut \/ Purge \/ RecomputeCounts

PanelStep ==
  \/ \E e \in Endpoints : PanelCall("unsubscribe", e)
  \/ PanelCall("clean", NULL) \/ \E E \in SUBSET Endpoints : StartImport(E)

\* Something done by hand, or a request lost, elsewhere.
Elsewhere ==
  /\ (ByHand /\ NoFault) \/ (Fault /\ UNCHANGED acts)
  /\ UNCHANGED <<table, count, web, importing, file, worker, torn>>

ServerNext ==
  \/ \E c \in Posted : Accept(c)
  \/ Answered /\ (NoFault \/ Fault)
  \/ HandlerStep \/ Refuse \/ HandlerThrows \/ ImportThrows
  \/ PanelStep \/ EndImport
  \/ \E e \in Endpoints : ImportRow(e)
  \/ WorkerStep \/ WorkerCrash \/ Age \/ Elsewhere

ServerSpec == ServerInit /\ [][ServerNext]_serverVars

-----------------------------------------------------------------------------
(* What the table promises.                                                *)

AtRest == web.at \in {"idle", "answer"} /\ worker = "idle" /\ ~importing

\* The count shown for a site is the number of its active subscribers
\* whenever neither process is between two statements, unless a recount of
\* one fell between two statements of the other or a process died there
\* (subscribe/route.ts:206-213, sender.ts:783-799, cleanup.ts:72-75).
CountExact == AtRest /\ ~torn => count = Cardinality(active)

\* An endpoint whose rows are all dead becomes active again only by a
\* subscribe or by the rotation of another active row onto it, never by a
\* page-load sync, a rotation without an active row or an import
\* (resubscribe/route.ts:141-151, actions.ts:249-257).
OnlySubscribeRevives ==
  [][\A e \in Endpoints :
       Dead(e) /\ e \notin active /\ e \in active'
       => web.call.op = "subscribe" \/ (At("rotating") /\ was \in active)]_serverVars
=============================================================================
