------------------------------ MODULE Segments ------------------------------
(***************************************************************************)
(* Segments: rules over subscribers, compiled to SQL, and a list of sites. *)
(* What is stored is validated when it is saved and again whenever it is   *)
(* read; in between the sites it lists may be deleted, and a campaign      *)
(* narrows it to its own site.                                             *)
(***************************************************************************)
EXTENDS Links

CONSTANTS
  Members,     \* subscribers of the sites there are at the start
  Drafts,      \* rules a form may hold
  Garbage      \* what is neither a date nor a number

\* A site list is a set of numbers; the count of opens always has a value.
ASSUME SegmentsAssumption ==
  /\ \A listed \in SUBSET (-1..MaxSites) : NULL # listed
  /\ IsFiniteSet(Members) /\ \A m \in Members : m.opens # NULL
  /\ \A d \in Drafts : /\ DOMAIN d = 1..Len(d)
                       /\ \A i \in DOMAIN d : DOMAIN d[i].conditions = 1..Len(d[i].conditions)

VARIABLE
  stored       \* [segment id -> [listed, rules, estimate]]

segmentVars == <<linksVars, stored>>

-----------------------------------------------------------------------------
(* Rules.  A condition is [field, op, value]; values of dates and counts   *)
(* are numbers, or Garbage; a list names each of its values once.  Groups  *)
(* are sequences of conditions.                                            *)

FieldOps == [country |-> {"equals", "in"}, seen |-> {"gt", "gte"},
             opens |-> {"equals", "gt", "gte", "lt", "lte"}, tag |-> {"equals", "in"}]
Dates    == {"seen"}
Counts   == {"opens"}

\* Off the whitelist, an empty list, or a date or number that is none.
NormalizeCondition(c) ==
  /\ c.field \in DOMAIN FieldOps /\ c.op \in FieldOps[c.field]
  /\ c.op = "in" => c.value # {} /\ Cardinality(c.value) <= 200
  /\ c.field \in Dates \cup Counts => c.value # Garbage

\* Where the conditions of a ruleset stand, and what they bind: the values of
\* a list one by one.
Places(rules) == {p \in (DOMAIN rules) \X (1..25) : p[2] <= Len(rules[p[1]].conditions)}
Parameters(rules) ==
  UNION {LET c == rules[p[1]].conditions[p[2]] IN {p} \X (IF c.op = "in" THEN c.value ELSE {c.value}) :
           p \in Places(rules)}

\* No group at all is everybody; a group without conditions is nothing valid.
NormalizeRules(rules) ==
  /\ Len(rules) <= 10
  /\ \A i \in DOMAIN rules :
       /\ rules[i].logic \in {"AND", "OR"}
       /\ Len(rules[i].conditions) \in 1..25
       /\ \A j \in DOMAIN rules[i].conditions : NormalizeCondition(rules[i].conditions[j])
  /\ Cardinality(Places(rules)) <= 50 /\ Cardinality(Parameters(rules)) <= 500

\* SQL compares with three truth values: 0 false, 1 unknown, 2 true.  A
\* column without a value makes its comparison unknown; counts and tags come
\* from subqueries, which always have one.
Truth(b) == IF b THEN 2 ELSE 0
Compares(op, x, y) ==
  CASE op = "equals" -> x = y [] op = "in" -> x \in y
    [] op = "gt" -> x > y [] op = "gte" -> x >= y [] op = "lt" -> x < y [] op = "lte" -> x <= y

CompileCondition(c, m) ==
  IF c.field = "tag"
  THEN Truth(\E t \in m.tags : Compares(c.op, t, c.value))
  ELSE IF c.field \in {"country", "seen"} /\ m[c.field] = NULL THEN 1
  ELSE Truth(Compares(c.op, m[c.field], c.value))

Least(S)    == CHOOSE x \in S : \A y \in S : x <= y
Greatest(S) == CHOOSE x \in S : \A y \in S : y <= x
GroupValue(g, m) ==
  LET values == {CompileCondition(g.conditions[j], m) : j \in DOMAIN g.conditions} IN
  IF g.logic = "AND" THEN Least(values) ELSE Greatest(values)

\* (c OR c) AND (c AND c): the parentheses keep a group together.
SegmentWhere_NoParens(rules, m) ==
  LET flat[i \in 0..Len(rules)] ==
        IF i = 0 THEN <<>>
        ELSE flat[i - 1] \o [j \in DOMAIN rules[i].conditions |->
               [is |-> CompileCondition(rules[i].conditions[j], m),
                next |-> IF j < Len(rules[i].conditions) THEN rules[i].logic ELSE "AND"]]
      terms == flat[Len(rules)] IN
  \/ terms = <<>>
  \/ \E i \in DOMAIN terms : \E j \in i..Len(terms) :
       /\ i = 1 \/ terms[i - 1].next = "OR"
       /\ j = Len(terms) \/ terms[j].next = "OR"
       /\ \A k \in i..j : terms[k].is = 2
SegmentWhere(rules, m) ==
  LET values == {GroupValue(rules[i], m) : i \in DOMAIN rules} IN
  values = {} \/ Least(values) = 2

-----------------------------------------------------------------------------
(* Sites.                                                                  *)

\* NULL: no filter.  A campaign's site outside the list is a filter that
\* nothing passes, since an empty list counts as no filter below.
DomainFilter(listed, site) ==
  IF listed = {} THEN IF site = NULL THEN NULL ELSE {site}
  ELSE IF site = NULL THEN listed ELSE IF site \in listed THEN {site} ELSE {-1}

\* Deleting a site deletes its subscribers.
Present == {m \in Members : m.site \in DOMAIN sites}

Matches(ws, rules, filter) ==
  {m \in Present :
     /\ m.active /\ sites[m.site].ws = ws
     /\ filter \notin {NULL, {}} => m.site \in filter
     /\ NormalizeRules(rules) /\ SegmentWhere(rules, m)}

ResolveSegment(i, site) ==
  Matches(RowOf(i).ws, stored[i].rules, DomainFilter(stored[i].listed, site))

-----------------------------------------------------------------------------
Store1(i, x) == stored' = [j \in DOMAIN stored \cup {i} |-> IF j = i THEN x ELSE stored[j]]
OwnedDomains(r) == \A d \in r.arg.listed : Own(r, d)

\* The form is checked and stored, and the estimate refreshed from what is
\* stored, in one go.
Saved(r) ==
  [listed |-> r.arg.listed, rules |-> r.arg.rules,
   estimate |-> Cardinality(Matches(r.ws, r.arg.rules, DomainFilter(r.arg.listed, NULL)))]
Acceptable(r) ==
  Edits(r) /\ r.arg.rules # <<>> /\ OwnedDomains(r) /\ NormalizeRules(r.arg.rules)

CreateSegment(s) ==
  LET r == requests[s] IN
  /\ Handle(s, "create segment") /\ LinksKept
  /\ IF Acceptable(r) /\ lastRow < MaxRows
     THEN Insert(NewRow("segment", r.ws, NULL, NULL, "panel")) /\ SitesKept /\ Store1(lastRow', Saved(r))
     ELSE Nothing /\ UNCHANGED stored

UpdateSegment(s) ==
  LET r == requests[s] IN
  /\ Handle(s, "update segment") /\ LinksKept /\ Nothing
  /\ IF Acceptable(r) /\ OwnRow(r, "segment", r.arg.id)
     THEN Store1(r.arg.id, Saved(r)) ELSE UNCHANGED stored

DeleteSegment(s) ==
  LET r == requests[s] IN
  /\ Handle(s, "delete segment") /\ LinksKept
  /\ IF Edits(r) /\ OwnRow(r, "segment", r.arg)
     THEN /\ Remove(r.arg) /\ UNCHANGED lastRow /\ SitesKept
          /\ stored' = [j \in DOMAIN stored \ {r.arg} |-> stored[j]]
     ELSE Nothing /\ UNCHANGED stored

-----------------------------------------------------------------------------
SegmentForm(s, op, i) ==
  \E d \in Drafts, listed \in SUBSET DOMAIN sites :
    Authenticate(s, "segments", op, [id |-> i, rules |-> d, listed |-> listed])

SegmentsInit(ss) == stored = ss

SegmentsNext ==
  \E s \in Slots :
    \/ /\ \/ SegmentForm(s, "create segment", 0)
          \/ \E i \in DOMAIN stored : SegmentForm(s, "update segment", i)
          \/ \E i \in DOMAIN stored : Authenticate(s, "segments", "delete segment", i)
       /\ UNCHANGED <<vault, stored>> /\ Nothing /\ LinksKept
    \/ CreateSegment(s) \/ UpdateSegment(s) \/ DeleteSegment(s)

-----------------------------------------------------------------------------
SegmentsTypeOK ==
  /\ DOMAIN stored = {x.id : x \in {y \in rows : y.kind = "segment"}}
  /\ \A i \in DOMAIN stored : /\ stored[i].listed \subseteq 1..MaxSites /\ stored[i].rules \in Drafts
                              /\ stored[i].estimate \in Nat

\* What a segment resolves to, for the whole workspace or for the site of a
\* campaign, are active subscribers of its own workspace, of a site it lists
\* if it lists any - also after sites it lists were deleted - and of the
\* campaign's site.
AudienceInside ==
  \A i \in DOMAIN stored, d \in DOMAIN sites \cup {NULL} : \A m \in ResolveSegment(i, d) :
    /\ m.active /\ m.site \in DOMAIN sites /\ sites[m.site].ws = RowOf(i).ws
    /\ stored[i].listed # {} => m.site \in stored[i].listed
    /\ d # NULL => m.site = d

\* The rules of a stored segment hold of exactly the subscribers they
\* describe: every group holds, an AND group through all its conditions, an
\* OR group through one; a condition on something unknown does not hold.
Holds(c, m) ==
  IF c.field = "tag" THEN \E t \in m.tags : Compares(c.op, t, c.value)
  ELSE m[c.field] # NULL /\ Compares(c.op, m[c.field], c.value)
RulesDescribe ==
  \A i \in DOMAIN stored : \A m \in Present :
    SegmentWhere(stored[i].rules, m) <=>
      \A g \in {stored[i].rules[k] : k \in DOMAIN stored[i].rules} :
        LET cs == {g.conditions[j] : j \in DOMAIN g.conditions} IN
        IF g.logic = "AND" THEN \A c \in cs : Holds(c, m) ELSE \E c \in cs : Holds(c, m)

\* A segment resolves to those its rules describe, within its bounds.
SegmentsResolve == AudienceInside /\ RulesDescribe

=============================================================================
