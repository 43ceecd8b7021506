------------------------------ MODULE Browser ------------------------------
(***************************************************************************)
(* One visitor of a site: the page with the SDK (packages/sdk-client), the *)
(* service worker (apps/web/public/sw.js) and the push service behind the  *)
(* browser, calling the routes of module Subscribers over a network that   *)
(* loses requests and answers.                                             *)
(*                                                                         *)
(* Endpoints are numbered in the order in which the push service gives     *)
(* them out.  A step of the browser reads and writes nothing of the        *)
(* server's, so it commutes with the statements of a handler and of the    *)
(* worker and is taken between them.                                       *)
(***************************************************************************)
EXTENDS Subscribers

CONSTANTS
  PromptType    \* prompt.type: "auto", "firstVisit", "bell" or "none"

ASSUME BrowserAssumption ==
  /\ Endpoints \subseteq Nat \ {0}
  /\ PromptType \in {"auto", "firstVisit", "bell", "none"}

VARIABLES
  sub,         \* endpoint of the browser's push subscription, or NULL
  last,        \* the last endpoint the push service gave out
  permission,  \* Notification.permission
  page,        \* "closed", or the SDK's state of the open page
  prompt,      \* the prompt of the page
  dismissed,   \* localStorage: prompt dismissed
  timer,       \* the sync of this page load is still to come
  throttled,   \* localStorage: a sync within the last twelve hours
  queue,       \* localStorage: endpoint of the pending subscription
  doing,       \* the SDK call the page awaits
  calls,       \* requests on their way
  wish         \* what the visitor last asked for

storage     == <<dismissed, throttled, queue>>
pageVars    == <<page, prompt, timer, doing>>
browserVars == <<sub, last, permission, pageVars, storage, calls, wish>>
vars        == <<serverVars, browserVars>>

-----------------------------------------------------------------------------
TypeOK ==
  /\ ServerTypeOK
  /\ sub \in Endpoints \cup {NULL} /\ last \in Endpoints \cup {0}
  /\ permission \in {"default", "granted", "denied"}
  /\ page \in {"closed", "idle", "subscribed", "error", "denied", "dismissed"}
  /\ prompt \in {"none", "shown"}
  /\ dismissed \in BOOLEAN /\ timer \in BOOLEAN /\ throttled \in BOOLEAN
  /\ queue \in Endpoints \cup {NULL}
  /\ doing \in {"nothing", "subscribe", "unsubscribe"}
  /\ calls \subseteq Posted
  /\ wish \in {"none", "in", "out"}

Init ==
  /\ ServerInit
  /\ sub = NULL /\ last = 0 /\ permission = "default"
  /\ page = "closed" /\ prompt = "none" /\ timer = FALSE /\ doing = "nothing"
  /\ dismissed = FALSE /\ throttled = FALSE /\ queue = NULL
  /\ calls = {}
  /\ wish = "none"

-----------------------------------------------------------------------------
Between    == web = NoRequest /\ worker = "idle"
              /\ UNCHANGED <<table, count, web, importing, file, worker, torn, faults>>
Gesture(w) == acts < MaxActs /\ acts' = acts + 1 /\ wish' = w
Fresh      == last + 1
IsOpen     == page # "closed"

Post(op, e, from)      == [op |-> op, ep |-> e, was |-> NULL, from |-> from]
PostRotation(e, prior)  == [op |-> "resubscribe", ep |-> e, was |-> prior, from |-> "worker"]
FromPage               == {c \in calls : c.from # "worker"}

\* init(): sends what is queued, decides on the prompt and arms the sync,
\* whose throttle is set before it has happened.
Prompts ==
  /\ PromptType # "none" /\ permission = "default"
  /\ PromptType = "firstVisit" => ~dismissed

FlushCalls_Never == {}
FlushCalls == IF queue = NULL THEN {} ELSE {Post("subscribe", queue, "flush")}

OpenPage ==
  /\ page = "closed" /\ FromPage = {} /\ Between /\ UNCHANGED acts
  /\ page' = "idle" /\ doing' = "nothing"
  /\ prompt' = IF Prompts THEN "shown" ELSE "none"
  /\ calls' = calls \cup FlushCalls
  /\ timer' = ~throttled /\ throttled' = TRUE
  /\ UNCHANGED <<sub, last, permission, dismissed, queue, wish>>

ClosePage ==
  /\ IsOpen /\ worker = "idle" /\ web.at \in {"idle", "answer"} /\ UNCHANGED serverVars
  /\ page' = "closed" /\ prompt' = "none" /\ timer' = FALSE /\ doing' = "nothing"
  /\ UNCHANGED <<sub, last, permission, storage, calls, wish>>

\* A card has a button for "not now"; the bell has none.
Dismiss ==
  /\ prompt = "shown" /\ PromptType # "bell" /\ doing = "nothing" /\ Between /\ UNCHANGED acts
  /\ prompt' = "none" /\ page' = "dismissed" /\ dismissed' = TRUE
  /\ UNCHANGED <<sub, last, permission, timer, doing, throttled, queue, calls, wish>>

\* subscribe(), from the prompt or from the site's own button.  A
\* subscription the browser already has is used again.
Reuses == sub # NULL

Subscribe ==
  /\ IsOpen /\ doing = "nothing" /\ Gesture("in") /\ Between
  /\ \/ /\ permission # "denied" /\ permission' = "granted"
        /\ Reuses \/ Fresh \in Endpoints
        /\ sub' = IF Reuses THEN sub ELSE Fresh
        /\ last' = IF Reuses THEN last ELSE Fresh
        /\ doing' = "subscribe" /\ calls' = calls \cup {Post("subscribe", sub', "subscribe")}
        /\ UNCHANGED <<page, prompt>>
     \/ /\ permission # "granted" /\ permission' = "denied"
        /\ page' = "denied" /\ prompt' = "none"
        /\ UNCHANGED <<sub, last, doing, calls>>
  /\ UNCHANGED <<timer, storage>>

\* unsubscribe() forgets what is queued, tells the panel and then the browser.
Forgets == NULL

Unsubscribe ==
  /\ IsOpen /\ doing = "nothing" /\ Gesture("out") /\ Between
  /\ queue' = Forgets
  /\ IF sub = NULL
     THEN page' = "idle" /\ UNCHANGED <<doing, calls>>
     ELSE /\ doing' = "unsubscribe" /\ calls' = calls \cup {Post("unsubscribe", sub, "unsubscribe")}
          /\ UNCHANGED page
  /\ UNCHANGED <<sub, last, permission, prompt, timer, dismissed, throttled>>

\* The sync five seconds after the page load.
SyncTimer ==
  /\ timer /\ timer' = FALSE /\ Between /\ UNCHANGED acts
  /\ calls' = calls \cup (IF permission = "granted" /\ page = "subscribed" /\ sub # NULL
                          THEN {Post("resubscribe", sub, "sync")} ELSE {})
  /\ UNCHANGED <<sub, last, permission, page, prompt, doing, storage, wish>>

ThrottleExpires ==
  /\ throttled /\ throttled' = FALSE /\ ~IsOpen /\ Between /\ UNCHANGED acts
  /\ UNCHANGED <<sub, last, permission, pageVars, dismissed, queue, calls, wish>>

\* The push service replaces the endpoint and the browser tells the service
\* worker so, with or without the old subscription, or does not.
RotateEndpoint ==
  /\ sub # NULL /\ Fresh \in Endpoints /\ Between /\ UNCHANGED acts
  /\ sub' = Fresh /\ last' = Fresh
  /\ \E told \in {{PostRotation(Fresh, sub)}, {PostRotation(Fresh, NULL)}, {}} : calls' = calls \cup told
  /\ UNCHANGED <<permission, pageVars, storage, wish>>

\* The visitor blocks notifications in the browser.
Block ==
  /\ permission = "granted" /\ Gesture("out") /\ Between
  /\ permission' = "denied" /\ sub' = NULL
  /\ UNCHANGED <<last, pageVars, storage, calls>>

\* What the SDK makes of the answer r to c, or of no answer.
Queues(r) == r \in {"none", "busy"}

Continue(c, r) ==
  \/ /\ c.from = "subscribe" /\ doing = "subscribe"
     /\ page' = IF r = "ok" THEN "subscribed" ELSE "error"
     /\ queue' = IF Queues(r) THEN c.ep ELSE queue
     /\ doing' = "nothing" /\ prompt' = IF PromptType = "bell" /\ r # "ok" THEN prompt ELSE "none"
     /\ UNCHANGED sub
  \/ /\ c.from = "flush" /\ IsOpen /\ r = "ok"
     /\ page' = "subscribed" /\ queue' = NULL
     /\ UNCHANGED <<doing, prompt, sub>>
  \/ /\ c.from = "unsubscribe" /\ doing = "unsubscribe"
     /\ page' = "idle" /\ sub' = NULL /\ doing' = "nothing"
     /\ UNCHANGED <<queue, prompt>>
  \/ /\ c.from = "subscribe" => doing # "subscribe"
     /\ c.from = "flush" => ~IsOpen \/ r # "ok"
     /\ c.from = "unsubscribe" => doing # "unsubscribe"
     /\ UNCHANGED <<page, queue, doing, prompt, sub>>

Unheard == <<last, permission, timer, dismissed, throttled, wish>>

Deliver(c) ==
  /\ c \in calls /\ calls' = calls \ {c} /\ Accept(c)
  /\ UNCHANGED <<sub, last, permission, pageVars, storage, wish>>

LoseRequest(c) ==
  /\ c \in calls /\ web = NoRequest /\ calls' = calls \ {c}
  /\ Fault /\ Continue(c, "none")
  /\ UNCHANGED <<table, count, web, importing, file, worker, torn, acts, Unheard>>

DeliverAnswer == Answered /\ NoFault /\ Continue(web.call, web.reply) /\ UNCHANGED <<calls, Unheard>>

LoseAnswer == Answered /\ Fault /\ Continue(web.call, "none") /\ UNCHANGED <<calls, Unheard>>

-----------------------------------------------------------------------------
\* The push service reports an endpoint that is not the browser's any more.
PushFails == \E e \in Endpoints \ {sub} : EndpointGone(e)

\* An import brings back endpoints the site has known.
ImportKnown == \E e \in Endpoints : ImportRow(e)

Server ==
  \/ HandlerStep \/ Refuse \/ HandlerThrows \/ ImportThrows
  \/ PanelCall("clean", NULL) \/ StartImport(1..last) \/ ImportKnown \/ EndImport
  \/ PushFails \/ CountOut \/ Purge \/ RecomputeCounts \/ WorkerCrash
  \/ web = NoRequest /\ worker = "idle" /\ Age

\* The operator unsubscribes somebody, this visitor for example.
PanelUnsubscribes ==
  \E e \in Endpoints :
    /\ PanelCall("unsubscribe", e)
    /\ wish' = IF e = sub THEN "out" ELSE wish
    /\ UNCHANGED <<sub, last, permission, pageVars, storage, calls>>

Visit == OpenPage \/ ClosePage \/ SyncTimer \/ ThrottleExpires
Visitor == Dismiss \/ Subscribe \/ Unsubscribe \/ Block
DeliverFrom(s) == \E c \in calls : c.from = s /\ Deliver(c)
Network ==
  \/ \E s \in Sources : DeliverFrom(s)
  \/ \E c \in calls : LoseRequest(c)
  \/ DeliverAnswer \/ LoseAnswer

Next ==
  \/ Server /\ UNCHANGED browserVars
  \/ PanelUnsubscribes
  \/ Visit \/ Visitor \/ RotateEndpoint \/ Network

Spec == Init /\ [][Next]_vars

\* Both processes finish what they have begun, the network delivers, the
\* site keeps sending pushes, and the visitor comes to the site again and
\* again.
Progress == \/ (HandlerStep \/ CountOut \/ RecomputeCounts) /\ UNCHANGED browserVars
            \/ DeliverAnswer

Fairness ==
  /\ WF_vars(Progress)
  /\ WF_vars(PushFails /\ UNCHANGED browserVars)
  /\ WF_vars(\E s \in Sources \ {"worker"} : DeliverFrom(s))
  /\ WF_vars(OpenPage) /\ WF_vars(ClosePage)

FairSpec == Spec /\ Fairness

-----------------------------------------------------------------------------
(* What the visitor is promised.                                           *)

\* Types, and the count the panel shows.
SiteInvariant == TypeOK /\ CountExact

\* A subscription the panel did not take in is sent again on later visits
\* until it is in the table (index.ts:404-408), unless the visitor leaves or
\* the site is full.
PendingArrives == \A e \in Endpoints : queue = e ~> e \in active \/ queue # e \/ Full

\* Who has left, in the page or by blocking notifications, is out of the
\* table in the end, also when the request was lost or an earlier one is
\* still on its way: the push service reports the endpoint gone
\* (sender.ts:763-811).
OptOutLands == wish = "out" /\ sub = NULL ~> active = {} \/ wish = "in"
=============================================================================
