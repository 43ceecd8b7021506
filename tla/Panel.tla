------------------------------- MODULE Panel -------------------------------
(***************************************************************************)
(* The panel as a whole: accounts, settings, what a workspace owns, links  *)
(* and segments, which share the requests of one web process and the       *)
(* rows of one database.                                                   *)
(***************************************************************************)
EXTENDS Segments

\* The panel starts on a database at rest: what its handlers and migrations
\* have left there, with no request under way.
AccountsCoherent ==
  /\ DOMAIN users \subseteq Emails /\ workspaces \in 0..MaxIds
  /\ \A e \in DOMAIN users : /\ users[e] \in Row /\ users[e].ws <= workspaces
                             /\ users[e].plain => users[e].secret = Legacy
  /\ \A e, f \in DOMAIN users : users[e].id = users[f].id => e = f
  /\ \A e \in DOMAIN users : users[e].id <= Cardinality(DOMAIN users)
  /\ IF DOMAIN users = {} THEN workspaces <= 1 ELSE \E e \in DOMAIN users : users[e].id = 1
  /\ Cardinality(DOMAIN users) <= MaxIds + 1 /\ budget \in [Parts -> Nat]

\* Templates, segments and channels belong to no site; a channel has a link
\* of its own.
Siteless == \A x \in rows : x.kind \in {"template", "segment", "channel"} => x.site = NULL
OwnLinks ==
  /\ \A x \in rows : x.kind = "channel" => x.ref \in 1..lastRow
  /\ \A x, y \in rows : x.kind = "channel" /\ y.kind = "channel" /\ x.ref = y.ref => x = y
Numbered == \A x \in rows : x.id <= lastRow

RowsCoherent == CatalogueTypeOK /\ Numbered /\ Siteless /\ NoStrays /\ OwnLinks

ValidRules == \A i \in DOMAIN stored : NormalizeRules(stored[i].rules)

PanelInit ==
  /\ AccountsInit(users, workspaces) /\ CatalogueInit(sites, rows)
  /\ LinksInit(landing) /\ SegmentsInit(stored)
  /\ AccountsCoherent /\ SettingsTypeOK /\ RowsCoherent
  /\ LinksTypeOK /\ ChannelLinked /\ SegmentsTypeOK /\ ValidRules

\* A step of the catalogue leaves what only links and segments have alone:
\* no request of its own touches a link, a channel or a segment's rules.
PanelNext ==
  \/ AccountsNext /\ UNCHANGED <<vault, ownings, run, linkVars, stored>>
  \/ SettingsNext /\ UNCHANGED <<ownings, run, linkVars, stored>>
  \/ CatalogueNext /\ UNCHANGED <<linkVars, stored>>
  \/ LinksNext /\ UNCHANGED stored
  \/ SegmentsNext

PanelSpec == PanelInit /\ [][PanelNext]_segmentVars

-----------------------------------------------------------------------------
\* The types of the parts that share requests; of the accounts also that
\* everybody works in a workspace there is, whoever switches and whoever is
\* moved by an invite.
PanelTypeOK == AccountsTypeOK /\ SettingsTypeOK /\ CatalogueTypeOK /\ LinksTypeOK /\ SegmentsTypeOK

\* Types, and who belongs to the panel and where.
PanelInvariant == PanelTypeOK /\ Membership

=============================================================================
