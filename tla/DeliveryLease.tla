--------------------------- MODULE DeliveryLease ---------------------------
(***************************************************************************)
(* What apps/worker/src/sender.ts promises of the deliveries table, with   *)
(* cycles, statements, tokens and clocks left out: a row is leased to at   *)
(* most one worker, only the lease holder records an outcome or hands the  *)
(* row back, a lease that lost its holder is recovered, and a delivered    *)
(* row is final.  Any number of rows may move in one step.                 *)
(***************************************************************************)
CONSTANTS Workers, Deliveries, NULL

VARIABLES
  stage,   \* open: waiting; taken: claimed; delivered; closed: given up
  holder   \* the worker that holds the row's lease

Stage == {"open", "taken", "delivered", "closed"}

Init ==
  /\ stage = [d \in Deliveries |-> "open"]
  /\ holder = [d \in Deliveries |-> NULL]

Becomes(d, s, h) == stage'[d] = s /\ holder'[d] = h

Take(d) ==
  /\ stage[d] = "open" /\ holder[d] = NULL
  /\ \E w \in Workers : Becomes(d, "taken", w)

\* The holder's last word on the row: delivered, given up or handed back.
Resolve(d) ==
  /\ holder[d] # NULL
  /\ \E s \in {"delivered", "closed", "open"} : Becomes(d, s, NULL)

\* The operator, or a terminated campaign, withdraws the row; a holder that
\* is already sending keeps its lease and may still report.
Withdraw(d) ==
  /\ stage[d] \in {"open", "taken"}
  /\ Becomes(d, "closed", holder[d])

\* The holder dies or gives up without a word.
Abandon(d) ==
  /\ holder[d] # NULL
  /\ Becomes(d, stage[d], NULL)

Recover(d) ==
  /\ stage[d] = "taken" /\ holder[d] = NULL
  /\ Becomes(d, "open", NULL)

\* The operator asks for another attempt at a row that was given up.
Reopen(d) ==
  /\ stage[d] = "closed" /\ holder[d] = NULL
  /\ Becomes(d, "open", NULL)

RowStep(d) ==
  \/ Take(d) \/ Resolve(d) \/ Withdraw(d) \/ Abandon(d) \/ Recover(d) \/ Reopen(d)
  \/ Becomes(d, stage[d], holder[d])

Next ==
  /\ stage' \in [Deliveries -> Stage]
  /\ holder' \in [Deliveries -> Workers \cup {NULL}]
  /\ \A d \in Deliveries : RowStep(d)

Spec == Init /\ [][Next]_<<stage, holder>>
=============================================================================
