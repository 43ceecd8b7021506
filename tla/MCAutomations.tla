--------------------------- MODULE MCAutomations ---------------------------
(***************************************************************************)
(* Instances of Automations for TLC: one automation of any type.           *)
(***************************************************************************)
EXTENDS Automations, TLC

CONSTANTS w1, w2

OneWorker  == {w1}
TwoWorkers == {w1, w2}
Of(type, list, steps) == [type |-> type, list |-> list, steps |-> steps, site |-> TRUE]
Siteless(c) == [c EXCEPT !.site = FALSE]

\* Drips without steps, with two, and with more than may be queued; a
\* rotation list that is empty and one that is not; a feed whose site is not set.
AllConfigs ==
  {Of(t, 0, 0) : t \in {"feed", "push_on_publish", "automagic_dynamic"}}
  \cup {Of("automagic_static", n, 0) : n \in {0, 2}}
  \cup {Of("drip", 0, n) : n \in {0, 2, 3}}
  \cup {Siteless(Of("feed", 0, 0))}
=============================================================================
