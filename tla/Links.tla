------------------------------- MODULE Links -------------------------------
(***************************************************************************)
(* Landing links and YouTube channels, and a visitor's landing page: the   *)
(* page counts the visit and may ask for the push permission before it     *)
(* sends the visitor on; a forced link offers no way around the question.  *)
(***************************************************************************)
EXTENDS Catalogue

VARIABLES
  landing,     \* [link id -> what only links have]
  byHand,      \* history: links deleted by hand
  visit        \* the landing page of a visitor, or NULL

linkVars  == <<landing, byHand, visit>>
linksVars == <<catalogueVars, linkVars>>

Landing == [forced : BOOLEAN, fallback : BOOLEAN, dead : BOOLEAN, clicks : Nat, subs : Nat]
\* key: the site's VAPID key is on the page; trying: the page itself is
\* going to ask; asks: questions under way; wait: moved on in four seconds.
Page == [link : 1..MaxRows, forced : BOOLEAN, key : BOOLEAN, sdk : BOOLEAN, trying : BOOLEAN,
         asks : 0..2, busy : BOOLEAN, wait : BOOLEAN, threw : BOOLEAN]

LinksTypeOK ==
  /\ DOMAIN landing = {x.id : x \in {y \in rows : y.kind = "link"}}
  /\ \A i \in DOMAIN landing : landing[i] \in Landing
  /\ visit = NULL \/ visit \in Page

WithLink(i, l) == landing' = [j \in DOMAIN landing \cup {i} |-> IF j = i THEN l ELSE landing[j]]
DropLink(i)    == landing' = [j \in DOMAIN landing \ {i} |-> landing[j]]
NewLanding(forced, fallback) ==
  [forced |-> forced, fallback |-> fallback, dead |-> FALSE, clicks |-> 0, subs |-> 0]
LinksKept == UNCHANGED linkVars

-----------------------------------------------------------------------------
(* Links.                                                                  *)

CreateLink(s) ==
  LET r == requests[s]  a == r.arg IN
  /\ Handle(s, "create link") /\ UNCHANGED <<byHand, visit>>
  /\ IF Edits(r) /\ MayName(r, "link", a.site) /\ lastRow < MaxRows
     THEN /\ Insert(NewRow("link", r.ws, a.site, NULL, "panel")) /\ SitesKept
          /\ WithLink(lastRow', NewLanding(a.forced, a.fallback))
     ELSE Nothing /\ UNCHANGED landing

\* With a fallback the link becomes a tombstone that leads there.
DeleteLink(s) ==
  LET r == requests[s] IN
  /\ Handle(s, "delete link") /\ UNCHANGED visit
  /\ IF Edits(r) /\ OwnRow(r, "link", r.arg)
     THEN /\ byHand' = byHand \cup {r.arg} /\ UNCHANGED lastRow /\ SitesKept
          /\ IF landing[r.arg].fallback
             THEN /\ WithLink(r.arg, [landing[r.arg] EXCEPT !.dead = TRUE, !.forced = FALSE])
                  /\ UNCHANGED rows
             ELSE Remove(r.arg) /\ DropLink(r.arg)
     ELSE Nothing /\ UNCHANGED <<landing, byHand>>

-----------------------------------------------------------------------------
(* A channel has a link of its own: two statements, in the order that      *)
(* leaves a link without a channel when the process stops in between.      *)

Continues(s, place, arg) ==
  /\ requests' = [requests EXCEPT ![s].at = place, ![s].arg = arg] /\ Kept /\ UNCHANGED <<people, vault>>

CreateChannel(s) ==
  LET r == requests[s] IN
  /\ At(s, "create channel", "act") /\ UNCHANGED <<byHand, visit>>
  /\ IF Edits(r) /\ lastRow + 1 < MaxRows
     THEN /\ Continues(s, "second", lastRow + 1)
          /\ Insert(NewRow("link", r.ws, NULL, NULL, "panel")) /\ SitesKept
          /\ WithLink(lastRow', NewLanding(FALSE, FALSE))
     ELSE Handle(s, "create channel") /\ Nothing /\ UNCHANGED landing

\* A failing insert takes the link back.  An automation may have taken a row
\* of the bound meanwhile.
InsertChannelRow(s) ==
  LET r == requests[s] IN
  /\ At(s, "create channel", "second") /\ Done(s) /\ Kept /\ UNCHANGED <<people, vault, byHand, visit>>
  /\ \/ /\ lastRow < MaxRows /\ Insert(NewRow("channel", r.ws, NULL, r.arg, "panel"))
        /\ SitesKept /\ UNCHANGED landing
     \/ Remove(r.arg) /\ DropLink(r.arg) /\ UNCHANGED lastRow /\ SitesKept

DeleteChannel_LinkFirst(s) ==
  LET r == requests[s] IN
  /\ At(s, "delete channel", "act") /\ UNCHANGED <<byHand, visit>>
  /\ IF Edits(r) /\ OwnRow(r, "channel", r.arg)
     THEN LET link == RowOf(r.arg).ref IN
          /\ Continues(s, "second", r.arg)
          /\ Remove(link) /\ UNCHANGED lastRow /\ SitesKept
          /\ IF link \in DOMAIN landing THEN DropLink(link) ELSE UNCHANGED landing
     ELSE Handle(s, "delete channel") /\ Nothing /\ UNCHANGED landing

DeleteChannel(s) ==
  LET r == requests[s] IN
  /\ At(s, "delete channel", "act") /\ LinksKept
  /\ IF Edits(r) /\ OwnRow(r, "channel", r.arg)
     THEN /\ Continues(s, "second", RowOf(r.arg).ref)
          /\ Remove(r.arg) /\ UNCHANGED lastRow /\ SitesKept
     ELSE Handle(s, "delete channel") /\ Nothing

DropChannelLink(s) ==
  LET link == Arg(s) IN
  /\ At(s, "delete channel", "second") /\ Done(s) /\ Kept /\ UNCHANGED <<people, vault, byHand, visit>>
  /\ IF OwnRow(requests[s], "link", link)
     THEN Remove(link) /\ DropLink(link) /\ UNCHANGED lastRow /\ SitesKept
     ELSE Nothing /\ UNCHANGED landing

ToggleChannel(s) ==
  LET r == requests[s] IN
  /\ Handle(s, "toggle channel") /\ LinksKept
  /\ IF Edits(r) /\ OwnRow(r, "channel", r.arg)
     THEN Edit(r.arg, [RowOf(r.arg) EXCEPT !.on = ~@]) /\ UNCHANGED lastRow /\ SitesKept ELSE Nothing

-----------------------------------------------------------------------------
(* The landing page.  The server awaits between the reading of the link,   *)
(* the counting of the visit and the rendering.                            *)

VisitLink(s, i) ==
  /\ visit = NULL
  /\ Arrive(s, "links", [Idle EXCEPT !.op = "visit", !.at = "act", !.arg = i,
                          !.row = [link |-> landing[i], site |-> RowOf(i).site]])
  /\ UNCHANGED vault /\ Nothing /\ LinksKept

\* Robots are not counted; a tombstone redirects.
CountVisit(s) ==
  LET r == requests[s] IN
  /\ At(s, "visit", "act") /\ Kept /\ UNCHANGED <<people, vault, byHand, visit>> /\ Nothing
  /\ IF r.row.link.dead THEN Done(s) ELSE Goto(s, "render")
  /\ \/ r.arg \in DOMAIN landing /\ WithLink(r.arg, [landing[r.arg] EXCEPT !.clicks = @ + 1])
     \/ UNCHANGED landing

\* The site's key is read before the last await, the link before the first.
SiteKey(d) == d \in DOMAIN sites /\ sites[d].active

Render(s) ==
  LET r == requests[s] IN
  /\ At(s, "visit", "render") /\ Done(s) /\ Kept /\ UNCHANGED <<people, vault, landing, byHand>> /\ Nothing
  /\ visit' = [link |-> r.arg, forced |-> r.row.link.forced, key |-> SiteKey(r.row.site), sdk |-> FALSE,
               trying |-> r.row.link.forced, asks |-> 0, busy |-> FALSE, wait |-> FALSE, threw |-> FALSE]

OnPage   == visit # NULL /\ UNCHANGED <<catalogueVars, landing, byHand>>
Leave    == visit' = NULL
SdkLoads == OnPage /\ ~visit.sdk /\ visit' = [visit EXCEPT !.sdk = TRUE]

\* subscribe(): without a key the visitor is sent on, without the SDK only
\* from a link that does not force.
Ask(v) ==
  IF ~v.key THEN Leave
  ELSE IF v.sdk THEN v.asks < 2 /\ visit' = [v EXCEPT !.asks = @ + 1, !.busy = TRUE]
  ELSE IF v.forced THEN visit' = [v EXCEPT !.busy = FALSE] ELSE Leave

Press == OnPage /\ ~visit.busy /\ Ask(visit)
Skip  == OnPage /\ ~visit.forced /\ Leave

\* A forced page asks as soon as the SDK is there, and gives up after five
\* seconds without it.
Attempt ==
  /\ OnPage /\ visit.trying
  /\ visit.key => visit.sdk
  /\ Ask([visit EXCEPT !.trying = FALSE])

GiveUp == OnPage /\ visit.trying /\ visit.key /\ ~visit.sdk /\ Leave

Refused ==
  /\ OnPage /\ visit.asks > 0
  /\ \/ ~visit.forced /\ Leave
     \/ visit.forced /\ visit' = [visit EXCEPT !.asks = @ - 1, !.busy = FALSE, !.wait = TRUE]
MoveOn == OnPage /\ visit.wait /\ Leave
AskFails == OnPage /\ visit.asks > 0 /\ Leave
AskThrows ==
  /\ OnPage /\ visit.asks > 0
  /\ IF visit.forced THEN visit' = [visit EXCEPT !.asks = @ - 1, !.busy = FALSE, !.threw = TRUE] ELSE Leave

\* finish(true): the page reports and goes on whatever the answer.
Subscribed(s) ==
  /\ visit # NULL /\ visit.asks > 0 /\ Leave
  /\ Arrive(s, "links", [Idle EXCEPT !.op = "report", !.at = "act", !.arg = visit.link])
  /\ UNCHANGED <<vault, landing, byHand>> /\ Nothing

CountSubscriber(s) ==
  LET i == Arg(s) IN
  /\ At(s, "report", "act") /\ Done(s) /\ Kept /\ UNCHANGED <<people, vault, byHand, visit>> /\ Nothing
  /\ IF i \in DOMAIN landing THEN WithLink(i, [landing[i] EXCEPT !.subs = @ + 1]) ELSE UNCHANGED landing

-----------------------------------------------------------------------------
LinksInit(ls) == landing = ls /\ byHand = {} /\ visit = NULL

Wants(s, op, arg) == Authenticate(s, "links", op, arg) /\ UNCHANGED vault /\ Nothing /\ LinksKept

Request(s) ==
  \/ \E d \in DOMAIN sites \cup {NULL}, forced, fallback \in BOOLEAN :
       Wants(s, "create link", [site |-> d, forced |-> forced, fallback |-> fallback])
  \/ \E i \in DOMAIN landing : Wants(s, "delete link", i) \/ VisitLink(s, i)
  \/ Wants(s, "create channel", NULL)
  \/ \E x \in rows, op \in {"toggle channel", "delete channel"} : x.kind = "channel" /\ Wants(s, op, x.id)

PageStep ==
  SdkLoads \/ Press \/ Skip \/ Attempt \/ GiveUp \/ Refused \/ MoveOn \/ AskFails \/ AskThrows

LinksNext ==
  \/ \E s \in Slots :
       \/ Request(s) \/ CreateLink(s) \/ DeleteLink(s)
       \/ CreateChannel(s) \/ InsertChannelRow(s) \/ DeleteChannel(s) \/ DropChannelLink(s)
       \/ ToggleChannel(s) \/ CountVisit(s) \/ Render(s) \/ Subscribed(s) \/ CountSubscriber(s)
  \/ PageStep

-----------------------------------------------------------------------------
\* A channel's landing link exists as long as the channel, wherever the
\* process stops, unless somebody deleted the link itself.
ChannelLinked ==
  \A x \in rows : x.kind = "channel" => x.ref \in DOMAIN landing \cup byHand

\* A forced page with nothing left to wait for is one whose question threw:
\* in every other case the visitor is moved on to the target.
ForcedMovesOn ==
  visit # NULL /\ visit.forced =>
    visit.trying \/ visit.asks > 0 \/ visit.wait \/ visit.threw

\* A link leads somewhere: its channel finds it, its visitor gets past it.
LinksLead == ChannelLinked /\ ForcedMovesOn

=============================================================================
