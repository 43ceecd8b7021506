------------------------------ MODULE MCPanel ------------------------------
(***************************************************************************)
(* The panel for TLC.  One run checks several scenes: each starts from     *)
(* states of its own and grants every part of the panel a number of        *)
(* requests, so that the parts that meet in the code meet in a scene while *)
(* the state space is the sum of the scenes, not their product.            *)
(***************************************************************************)
EXTENDS Panel, Clicks, Limiter, TLC

CONSTANTS ann, bob, s1, s2, h1, h2, d1, buy, quick, slow, rare

Symmetry == Permutations(Slots)

Windows == quick :> 1 @@ slow :> 2 @@ rare :> 3

-----------------------------------------------------------------------------
Empty == [x \in {} |-> 0]
User(i, role, ws) ==
  [id |-> i, role |-> role, ws |-> ws, password |-> 1, secret |-> NULL, plain |-> FALSE, enabled |-> FALSE]
Founder == ann :> User(1, "owner", 1)
Ancient == ann :> [User(1, "owner", 1) EXCEPT !.secret = Legacy, !.plain = TRUE, !.enabled = TRUE]
Members2 == Founder @@ bob :> User(2, "editor", 2)
Viewer  == Founder @@ bob :> User(2, "viewer", 1)

SiteIn(ws, name) == [ws |-> ws, name |-> name, active |-> TRUE, prompt |-> "auto"]
TwoSites   == 1 :> SiteIn(1, h1) @@ 2 :> SiteIn(2, h2)
SameOwner  == 1 :> SiteIn(1, h1) @@ 2 :> SiteIn(1, h2)
RowFor(kind, i, ws, d, ref) ==
  [kind |-> kind, id |-> i, ws |-> ws, site |-> d, ref |-> ref, on |-> TRUE, by |-> "panel"]
OneOfEach == {RowFor("key", 1, 1, 1, NULL), RowFor("automation", 2, 2, 2, NULL),
              RowFor("template", 3, 1, NULL, NULL), RowFor("segment", 4, 2, NULL, NULL)}
LinkRows  == {RowFor("link", 1, 1, 1, NULL), RowFor("link", 2, 1, NULL, NULL), RowFor("channel", 3, 1, NULL, 2)}
LinkData  == 1 :> NewLanding(TRUE, TRUE) @@ 2 :> NewLanding(FALSE, FALSE)

\* Four subscribers, of different rules and sites.
People ==
  {[site |-> 1, active |-> TRUE, country |-> "de", seen |-> 2, opens |-> 3, tags |-> {"vip"}],
   [site |-> 1, active |-> TRUE, country |-> NULL, seen |-> NULL, opens |-> 0, tags |-> {}],
   [site |-> 2, active |-> TRUE, country |-> "fr", seen |-> 1, opens |-> 0, tags |-> {"vip", "new"}],
   [site |-> 2, active |-> FALSE, country |-> "de", seen |-> 2, opens |-> 3, tags |-> {"new"}]}
Where(field, op, value) == [field |-> field, op |-> op, value |-> value]
Group(logic, conditions) == [logic |-> logic, conditions |-> conditions]
German == Where("country", "equals", "de")
SeenLately == Where("seen", "gt", 1)
Opens  == Where("opens", "lte", 0)
Vip    == Where("tag", "in", {"vip"})
Rules  == {<<>>, <<Group("AND", <<Opens>>)>>, <<Group("AND", <<German, SeenLately>>)>>, <<Group("OR", <<German, Opens>>), Group("AND", <<Vip>>)>>,
           <<Group("OR", <<SeenLately>>), Group("OR", <<Vip, Opens>>)>>,
           <<Group("AND", <<>>)>>, <<Group("AND", <<Where("seen", "gt", Garbage)>>)>>,
           <<Group("AND", <<Where("seen", "equals", 1)>>)>>}
AllPeople == [listed |-> {}, rules |-> <<Group("AND", <<Opens>>)>>, estimate |-> 0]

-----------------------------------------------------------------------------
Grant(g) == budget = [p \in Parts |-> IF p \in DOMAIN g THEN g[p] ELSE 0]
Scene(us, ss, rs, ls, segs, g) ==
  /\ AccountsInit(us, IF us = Members2 THEN 2 ELSE 1) /\ vault = Sealed \cup {"url"}
  /\ CatalogueInit(ss, rs) /\ LinksInit(ls) /\ SegmentsInit(segs) /\ ClicksInit /\ LimiterInit
  /\ Grant(g) /\ PanelInit
People0(us, g) == Scene(us, Empty, {}, Empty, Empty, g)

Init ==
  \/ People0(Empty, [accounts |-> 4])
  \/ People0(Founder, [accounts |-> 5, faults |-> 1])
  \/ People0(Ancient, [accounts |-> 6])
  \/ People0(Founder, [accounts |-> 2, team |-> 2])
  \/ People0(Members2, [settings |-> 2, faults |-> 1])
  \/ Scene(Members2, TwoSites, OneOfEach, Empty, 4 :> AllPeople, [catalogue |-> 2])
  \/ Scene(Members2, TwoSites, OneOfEach, Empty, 4 :> AllPeople, [catalogue |-> 1, team |-> 1])
  \/ Scene(Viewer, SameOwner, LinkRows, LinkData, Empty, [links |-> 2, faults |-> 1])
  \/ Scene(Viewer, SameOwner, LinkRows, LinkData, Empty, [links |-> 2, catalogue |-> 1])
  \/ Scene(Founder, SameOwner, {RowFor("segment", 1, 1, NULL, NULL)}, Empty, 1 :> AllPeople,
           [segments |-> 2])
  \/ Scene(Founder, SameOwner, {RowFor("segment", 1, 1, NULL, NULL)}, Empty, 1 :> AllPeople,
           [segments |-> 1, catalogue |-> 1])
  \/ People0(Empty, [clicks |-> 1])
  \/ People0(Empty, [limits |-> 1])

Next ==
  \/ PanelNext /\ UNCHANGED <<clicksVars, limiterVars>>
  \/ budget["clicks"] > 0 /\ ClicksNext /\ UNCHANGED <<segmentVars, limiterVars>>
  \/ budget["limits"] > 0 /\ LimiterNext /\ UNCHANGED <<segmentVars, clicksVars>>

Spec == Init /\ [][Next]_<<segmentVars, clicksVars, limiterVars>>
=============================================================================
