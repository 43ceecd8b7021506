----------------------------- MODULE Catalogue -----------------------------
(***************************************************************************)
(* What a workspace owns: its sites and the campaigns, automations, API    *)
(* keys, segments, templates, landing links and channels that may name     *)
(* one.  None of these names a site through a foreign key: that a row      *)
(* never outlives its site, nor points into another workspace, rests on    *)
(* the handlers, on the API route whose key is read before the body        *)
(* arrives, and on the worker's run of an automation it read before.       *)
(***************************************************************************)
EXTENDS Settings

CONSTANTS
  Names,       \* host names
  MaxSites,    \* bound: sites made
  MaxRows      \* bound: other rows made

ASSUME CatalogueAssumption == MaxSites \in Nat /\ MaxRows \in Nat

VARIABLES
  sites,       \* [id -> row]; ids are never used again
  lastSite,
  rows,        \* rows of the other tables
  lastRow,
  run          \* the automation the worker is running, or NULL

ownings       == <<sites, lastSite, rows, lastRow>>
catalogueVars == <<settingsVars, ownings, run>>

-----------------------------------------------------------------------------
Kinds == {"campaign", "automation", "key", "segment", "template", "link", "channel"}
Site  == [ws : 1..MaxIds, name : Names, active : BOOLEAN, prompt : {"auto", "edited"}]

\* ref: a campaign's segment, a channel's link; on: paused or not, and for a
\* template which of two contents; by: who made it.
Rows == [kind : Kinds, id : 1..MaxRows, ws : 1..MaxIds, site : 1..MaxSites \cup {NULL},
         ref : 1..MaxRows \cup {NULL}, on : BOOLEAN, by : {"panel", "api", "automation"}]

CatalogueTypeOK ==
  /\ lastSite \in 0..MaxSites /\ DOMAIN sites \subseteq 1..lastSite
  /\ \A d \in DOMAIN sites : sites[d] \in Site
  /\ lastRow \in 0..MaxRows /\ rows \subseteq Rows
  /\ \A x, y \in rows : x.id = y.id => x = y
  /\ run \in Rows \cup {NULL}

Edits(r)       == r.role # "viewer"
Own(r, d)      == d \in DOMAIN sites /\ sites[d].ws = r.ws
OwnActive(r, d) == Own(r, d) /\ sites[d].active
Taken(r, name) == \E d \in DOMAIN sites : sites[d].ws = r.ws /\ sites[d].name = name
OwnRow_Anywhere(r, kind, id) == \E x \in rows : x.kind = kind /\ x.id = id
OwnRow(r, kind, id) == \E x \in rows : x.kind = kind /\ x.id = id /\ x.ws = r.ws

NewRow(kind, ws, d, ref, by) ==
  [kind |-> kind, id |-> lastRow + 1, ws |-> ws, site |-> d, ref |-> ref, on |-> TRUE, by |-> by]
Insert(x) == rows' = rows \cup {x} /\ lastRow' = x.id
Edit(id, x) == rows' = {IF y.id = id THEN x ELSE y : y \in rows}
Remove(id)  == rows' = {y \in rows : y.id # id}
RowOf(id)   == CHOOSE x \in rows : x.id = id

\* A handler that looks, decides and writes between two awaits.
Handle(s, op) == At(s, op, "act") /\ Done(s) /\ Kept /\ UNCHANGED <<people, vault>>
Nothing == UNCHANGED <<ownings, run>>
SitesKept == UNCHANGED <<sites, lastSite, run>>
RowsKept  == UNCHANGED <<rows, lastRow, run>>

-----------------------------------------------------------------------------
(* Sites.                                                                  *)

AddSite(ws, name, prompt) ==
  /\ lastSite' = lastSite + 1
  /\ sites' = [d \in DOMAIN sites \cup {lastSite'} |->
                IF d = lastSite' THEN [ws |-> ws, name |-> name, active |-> TRUE, prompt |-> prompt]
                ELSE sites[d]]

CreateDomain(s) ==
  LET r == requests[s] IN
  /\ Handle(s, "create site")
  /\ IF Edits(r) /\ ~Taken(r, r.arg) /\ lastSite < MaxSites
     THEN AddSite(r.ws, r.arg, "auto") /\ RowsKept ELSE Nothing

\* The prompt is copied; nothing else of the source is.
CloneDomain(s) ==
  LET r == requests[s] IN
  /\ Handle(s, "clone site")
  /\ IF Edits(r) /\ Own(r, r.arg.site) /\ ~Taken(r, r.arg.name) /\ lastSite < MaxSites
     THEN AddSite(r.ws, r.arg.name, sites[r.arg.site].prompt) /\ RowsKept ELSE Nothing

ChangeSite(s, op, row) ==
  LET r == requests[s] IN
  /\ Handle(s, op)
  /\ IF Edits(r) /\ Own(r, r.arg)
     THEN sites' = [sites EXCEPT ![r.arg] = row] /\ UNCHANGED lastSite /\ RowsKept ELSE Nothing

UpdatePrompt(s) == ChangeSite(s, "prompt", [sites[requests[s].arg] EXCEPT !.prompt = "edited"])
SetDomainStatus(s) == ChangeSite(s, "status", [sites[requests[s].arg] EXCEPT !.active = ~@])

\* One transaction: what lives for the site goes, links and channels stay
\* and forget it.
Purged == {"campaign", "automation", "key"}

DeleteDomain(s) ==
  LET r == requests[s]  ofSite(x) == x.site = r.arg /\ x.ws = r.ws IN
  /\ Handle(s, "delete site")
  /\ IF Edits(r) /\ Own(r, r.arg)
     THEN /\ sites' = [d \in DOMAIN sites \ {r.arg} |-> sites[d]]
          /\ rows' = {IF ofSite(x) /\ x.kind \in {"link", "channel"} THEN [x EXCEPT !.site = NULL] ELSE x :
                       x \in {y \in rows : ~(ofSite(y) /\ y.kind \in Purged)}}
          /\ UNCHANGED <<lastSite, lastRow, run>>
     ELSE Nothing

-----------------------------------------------------------------------------
(* The rows of a workspace.                                                *)

\* Campaigns ask for a running site, automations for any of one's own, keys
\* and links for none or one of one's own, templates for none.
MayName(r, kind, d) ==
  CASE kind = "campaign"   -> OwnActive(r, d)
    [] kind = "automation" -> Own(r, d)
    [] kind \in {"key", "link"} -> d = NULL \/ Own(r, d)
    [] kind \in {"template", "segment", "channel"} -> d = NULL
MayMake(r, kind) == IF kind = "key" THEN Manages(r) ELSE Edits(r)

\* createCampaignAction, createAutomationAction, createApiKeyAction,
\* createTemplateAction.
Create(s) ==
  LET r == requests[s]  a == r.arg IN
  /\ Handle(s, "create")
  /\ IF /\ MayMake(r, a.kind) /\ MayName(r, a.kind, a.site) /\ lastRow < MaxRows
        /\ a.ref = NULL \/ OwnRow(r, "segment", a.ref)
     THEN Insert(NewRow(a.kind, r.ws, a.site, a.ref, "panel")) /\ SitesKept ELSE Nothing

\* A test push is a campaign that is sending from its first moment; its
\* deliveries are those of an immediate campaign in module Fanout.
TestPush(s) ==
  LET r == requests[s] IN
  /\ Handle(s, "test push")
  /\ IF Edits(r) /\ OwnActive(r, r.arg) /\ lastRow < MaxRows
     THEN Insert(NewRow("campaign", r.ws, r.arg, NULL, "panel")) /\ SitesKept ELSE Nothing

\* updateTemplateAction, and pausing or resuming an automation or channel.
Update(s) ==
  LET r == requests[s]  a == r.arg IN
  /\ Handle(s, "update")
  /\ IF Edits(r) /\ OwnRow(r, a.kind, a.id)
     THEN Edit(a.id, [RowOf(a.id) EXCEPT !.on = ~@]) /\ UNCHANGED lastRow /\ SitesKept ELSE Nothing

\* deleteTemplateAction, revokeApiKeyAction.
Delete(s) ==
  LET r == requests[s]  a == r.arg IN
  /\ Handle(s, "delete")
  /\ IF MayMake(r, a.kind) /\ OwnRow(r, a.kind, a.id)
     THEN Remove(a.id) /\ UNCHANGED lastRow /\ SitesKept ELSE Nothing

\* POST /api/v1/send: the key gives workspace and scope, then the body is
\* awaited; the key may be revoked and the site deleted meanwhile.  role is
\* that of somebody who may write.
ApiSend(s, k, d) ==
  /\ k.kind = "key"
  /\ Arrive(s, "catalogue", [Idle EXCEPT !.op = "send", !.at = "act", !.ws = k.ws, !.role = "editor",
                                         !.arg = [scope |-> k.site, site |-> d]])
  /\ UNCHANGED vault /\ Nothing

CreateCampaign(s) ==
  LET r == requests[s] IN
  /\ Handle(s, "send")
  /\ IF OwnActive(r, r.arg.site) /\ r.arg.scope \in {NULL, r.arg.site} /\ lastRow < MaxRows
     THEN Insert(NewRow("campaign", r.ws, r.arg.site, NULL, "api")) /\ SitesKept ELSE Nothing

\* The worker reads the automation, and makes its campaign statements later.
RunAutomation(x) ==
  /\ x.kind = "automation" /\ x.on /\ run = NULL /\ Own(x, x.site)
  /\ budget["catalogue"] > 0 /\ run' = x
  /\ UNCHANGED <<settingsVars, ownings>>

Enqueue ==
  /\ run # NULL /\ run' = NULL
  /\ IF lastRow < MaxRows THEN Insert(NewRow("campaign", run.ws, run.site, NULL, "automation"))
     ELSE UNCHANGED <<rows, lastRow>>
  /\ UNCHANGED <<settingsVars, sites, lastSite>>

-----------------------------------------------------------------------------
CatalogueInit(ss, rs) ==
  /\ sites = ss /\ lastSite = Cardinality(DOMAIN ss)
  /\ rows = rs /\ lastRow = Cardinality(rs)
  /\ run = NULL

Demands(s, op, arg) == Authenticate(s, "catalogue", op, arg) /\ UNCHANGED vault /\ Nothing

Asked(s) ==
  \/ \E n \in Names : Demands(s, "create site", n)
  \/ \E d \in DOMAIN sites, n \in Names : Demands(s, "clone site", [site |-> d, name |-> n])
  \/ \E op \in {"prompt", "status", "delete site", "test push"}, d \in DOMAIN sites : Demands(s, op, d)
  \/ \E k \in {"campaign", "automation", "key", "template"}, d \in DOMAIN sites \cup {NULL},
        ref \in {x.id : x \in {y \in rows : y.kind = "segment"}} \cup {NULL} :
       /\ ref # NULL => k = "campaign"
       /\ Demands(s, "create", [kind |-> k, site |-> d, ref |-> ref])
  \/ \E x \in rows : x.kind \in {"template", "automation"} /\ Demands(s, "update", x)
  \/ \E x \in rows : x.kind \in {"template", "key"} /\ Demands(s, "delete", x)
  \/ \E k \in rows, d \in DOMAIN sites : ApiSend(s, k, d)

CatalogueNext ==
  \/ \E s \in Slots :
       \/ Asked(s)
       \/ CreateDomain(s) \/ CloneDomain(s) \/ UpdatePrompt(s) \/ SetDomainStatus(s) \/ DeleteDomain(s)
       \/ Create(s) \/ TestPush(s) \/ Update(s) \/ Delete(s) \/ CreateCampaign(s)
  \/ \E x \in rows : RunAutomation(x)
  \/ Enqueue

-----------------------------------------------------------------------------
\* No row names a site that is gone or belongs to another workspace, except
\* the campaign of an automation that was running while its site was deleted.
NoStrays ==
  \A x \in rows : x.site # NULL /\ ~(x.kind = "campaign" /\ x.by = "automation") => Own(x, x.site)

\* A request changes sites and rows of the workspace of its session or key
\* only, though its user may be moved to another one meanwhile, and a viewer
\* changes none.
Changed == {x.ws : x \in (rows \ rows') \cup (rows' \ rows)}
           \cup {sites[d].ws : d \in {e \in DOMAIN sites : e \notin DOMAIN sites' \/ sites'[e] # sites[e]}}
           \cup {sites'[d].ws : d \in DOMAIN sites' \ DOMAIN sites}
WorkspaceWall ==
  [][run = NULL \/ run' = run =>
       \A w \in Changed : \E s \in Slots : requests[s].ws = w /\ Edits(requests[s])
                                           /\ requests'[s] # requests[s]]_catalogueVars

\* What is in a workspace stays in it: its rows name its sites, and requests
\* of others leave them alone.
Tenancy == []NoStrays /\ WorkspaceWall

=============================================================================
