--------------------------- MODULE Browser_proofs ---------------------------
(***************************************************************************)
(* Theorems about the subscriber table, for every set of endpoints and     *)
(* every cap - the count is exact at rest, and the dead stay dead - and    *)
(* about its composition with the visitor's browser and the network, which *)
(* drive the server only through its own actions.                          *)
(***************************************************************************)
EXTENDS Browser, FiniteSetTheorems, TLAPS

-----------------------------------------------------------------------------
(* Types.  The table holds finitely many rows though endpoints need not be *)
(* finitely many.                                                          *)

\* A request is at a statement of its own route, and knows its endpoint.
Shape ==
  /\ web.at \in Ops => web.call.op = web.at
  /\ web.at \in {"rotating", "refreshing", "guarding"} => web.call.op = "resubscribe"
  /\ web.at \in {"saving", "counting"} => web.call.op \in {"subscribe", "resubscribe"}
  /\ web.at = "leaving" => web.call.op = "unsubscribe"
  /\ web.call.op \in {"subscribe", "resubscribe", "unsubscribe"} => ep \in Endpoints

TypeInvariant == ServerTypeOK /\ IsFiniteSet(active) /\ Shape

LEMMA CountIsNat == TypeInvariant => Cardinality(active) \in Nat
  BY FS_CardinalityType DEF TypeInvariant

LEMMA NoRequestType == NoRequest \in Requests
<1>1. NoCall \in Calls
  BY DEF NoCall, Calls, Ops, Sources
<1>2. "idle" \in Statements
  BY DEF Statements
<1> QED  BY <1>1, <1>2 DEF NoRequest, Requests

LEMMA TypeInit == ServerInit => TypeInvariant
<1> SUFFICES ASSUME ServerInit PROVE TypeInvariant
  OBVIOUS
<1>1. active \subseteq Endpoints /\ dead \subseteq Endpoints /\ old \subseteq Endpoints /\ file \subseteq Endpoints
  BY DEF ServerInit
<1>2. count \in Nat /\ acts \in 0..MaxActs /\ faults \in 0..MaxFaults
  BY SubscriberAssumption DEF ServerInit
<1>3. web \in Requests /\ worker \in {"idle", "flipped", "purged"}
  BY NoRequestType DEF ServerInit
<1>4. importing \in BOOLEAN /\ torn \in BOOLEAN
  BY Zenon DEF ServerInit
<1>5. IsFiniteSet(active) /\ Shape
  BY FS_EmptySet DEF ServerInit, Shape, NoRequest, NoCall, Ops
<1> QED  BY <1>1, <1>2, <1>3, <1>4, <1>5 DEF TypeInvariant, ServerTypeOK

\* The rows an action adds or removes are few.
LEMMA FiniteRows ==
  ASSUME IsFiniteSet(active), NEW e,
         \/ active' = active \/ active' = active \cup {e} \/ active' = active \ {e}
         \/ \E f : active' = (active \ {f}) \cup {e}
  PROVE  IsFiniteSet(active')
<1>1. CASE active' = active
  BY <1>1
<1>2. CASE active' = active \cup {e}
  BY <1>2, FS_AddElement
<1>3. CASE active' = active \ {e}
  BY <1>3, FS_RemoveElement
<1>4. CASE \E f : active' = (active \ {f}) \cup {e}
  <2>1. PICK f : active' = (active \ {f}) \cup {e}
    BY <1>4
  <2>2. IsFiniteSet(active \ {f})
    BY FS_RemoveElement
  <2> QED  BY <2>1, <2>2, FS_AddElement
<1> QED  BY <1>1, <1>2, <1>3, <1>4

\* How a request moves on.
Route(s) ==
  CASE s \in {"rotating", "refreshing", "guarding"} -> {"resubscribe"}
    [] s \in {"saving", "counting"} -> {"subscribe", "resubscribe"}
    [] s = "leaving" -> {"unsubscribe"}
    [] OTHER -> Ops

LEMMA GotoType ==
  ASSUME TypeInvariant, NEW s \in Statements \ Ops, Goto(s), web.call.op \in Route(s)
  PROVE  web' \in Requests /\ Shape'
<1>1. web' \in Requests
  BY DEF TypeInvariant, ServerTypeOK, Requests, Goto
<1>2. web'.at = s /\ web'.call = web.call
  BY DEF TypeInvariant, ServerTypeOK, Requests, Goto
<1> QED  BY <1>1, <1>2 DEF TypeInvariant, Shape, Route, ep

LEMMA ReplyType ==
  ASSUME TypeInvariant, NEW r \in {"ok", "busy", "refused"}, Reply(r)
  PROVE  web' \in Requests /\ Shape' /\ web'.at = "answer"
<1>1. web' \in Requests
  BY DEF TypeInvariant, ServerTypeOK, Requests, Reply, Statements
<1>2. web'.at = "answer" /\ web'.call = web.call
  BY DEF TypeInvariant, ServerTypeOK, Requests, Reply
<1> QED  BY <1>1, <1>2 DEF TypeInvariant, Shape, Ops, ep

LEMMA FoundType ==
  ASSUME web \in Requests, NEW b \in BOOLEAN, web' = [web EXCEPT !.at = "saving", !.found = b]
  PROVE  web' \in Requests /\ web'.at = "saving" /\ web'.call = web.call
  BY DEF Requests, Statements

LEMMA TearsType ==
  ASSUME TypeInvariant, NEW yes \in BOOLEAN, NEW after \in BOOLEAN, Tears(yes, after)
  PROVE  torn' \in BOOLEAN /\ faults' \in 0..MaxFaults
<1>1. faults \in 0..MaxFaults /\ MaxFaults \in Nat
  BY SubscriberAssumption DEF TypeInvariant, ServerTypeOK
<1>2. CASE yes
  <2>1. torn' = TRUE /\ Fault
    BY <1>2 DEF Tears
  <2> QED  BY <1>1, <2>1 DEF Fault
<1>3. CASE ~yes
  <2>1. torn' = after /\ NoFault
    BY <1>3 DEF Tears
  <2> QED  BY <1>1, <2>1 DEF NoFault
<1> QED  BY <1>2, <1>3

LEMMA EpType == ServerTypeOK => ep \in Endpoints \cup {NULL} /\ was \in Endpoints \cup {NULL}
  BY DEF ServerTypeOK, Requests, Calls, ep, was

LEMMA InsertType ==
  ASSUME TypeInvariant, NEW e \in Endpoints, Insert(e)
  PROVE  /\ active' \subseteq Endpoints /\ dead' \subseteq Endpoints /\ old' \subseteq Endpoints
         /\ IsFiniteSet(active')
  BY FiniteRows DEF TypeInvariant, ServerTypeOK, Insert

LEMMA KillType ==
  ASSUME TypeInvariant, NEW e \in Endpoints, Kill(e)
  PROVE  /\ active' \subseteq Endpoints /\ dead' \subseteq Endpoints /\ old' \subseteq Endpoints
         /\ IsFiniteSet(active')
  BY FiniteRows DEF TypeInvariant, ServerTypeOK, Kill

-----------------------------------------------------------------------------
(* Each kind of step keeps the types.                                      *)

\* What a step of a handler leaves alone.
LEMMA HandlerTypes ==
  ASSUME TypeInvariant, HandlerStep
  PROVE  TypeInvariant'
<1> USE DEF At
<1>0. ServerTypeOK /\ Shape /\ web \in Requests /\ Cardinality(active) \in Nat
  BY CountIsNat DEF TypeInvariant, ServerTypeOK
<1> DEFINE Kept == UNCHANGED <<count, torn, Others, faults>>
<1> DEFINE Rest == UNCHANGED <<torn, Others, faults>> /\ count' \in Nat
<1>r. ASSUME Rest, web' \in Requests, Shape',
             active' \subseteq Endpoints, dead' \subseteq Endpoints, old' \subseteq Endpoints,
             IsFiniteSet(active')
      PROVE  TypeInvariant'
  BY <1>0, <1>r DEF TypeInvariant, ServerTypeOK, Others
<1>t. ASSUME UNCHANGED table
      PROVE  /\ active' \subseteq Endpoints /\ dead' \subseteq Endpoints /\ old' \subseteq Endpoints
             /\ IsFiniteSet(active')
  BY <1>0, <1>t DEF TypeInvariant, ServerTypeOK, table
<1>k. Kept => Rest
  BY <1>0 DEF ServerTypeOK
<1> HIDE DEF Rest, Kept
<1>1. CASE SubscribeLookup
  <2>1. Kept /\ UNCHANGED table /\ web.call.op = "subscribe"
    BY <1>0, <1>1 DEF SubscribeLookup, Kept, Shape, Ops
  <2>2. CASE Reply("busy")
    BY <2>1, <2>2, <1>r, <1>t, <1>k, ReplyType
  <2>3. CASE web' = [web EXCEPT !.at = "saving", !.found = ep \in active]
    <3>1. web' \in Requests /\ web'.at = "saving" /\ web'.call = web.call
      <4> DEFINE b == ep \in active
      <4>1. b \in BOOLEAN /\ web' = [web EXCEPT !.at = "saving", !.found = b]
        BY <2>3
      <4> HIDE DEF b
      <4> QED  BY <1>0, <4>1, FoundType
    <3>2. Shape'
      BY <1>0, <2>1, <3>1 DEF Shape, Ops, ep
    <3> QED  BY <2>1, <3>1, <3>2, <1>r, <1>t, <1>k
  <2> QED  BY <1>1, <2>2, <2>3 DEF SubscribeLookup
<1>2. CASE Save
  <2>1. Kept /\ web.call.op \in {"subscribe", "resubscribe"} /\ ep \in Endpoints
    BY <1>0, <1>2 DEF Save, Kept, Shape
  <2>2. CASE Reply("ok") /\ UNCHANGED table
    BY <2>1, <2>2, <1>r, <1>t, <1>k, ReplyType
  <2>3. CASE Insert(ep) /\ Goto("counting")
    <3>1. web' \in Requests /\ Shape'
      BY <2>1, <2>3, GotoType DEF Route, Statements, Ops
    <3> QED  BY <2>1, <2>3, <3>1, <1>r, <1>k, InsertType
  <2> QED  BY <1>2, <2>2, <2>3 DEF Save
<1>3. CASE CountOne
  <2>1. Rest /\ UNCHANGED table /\ Reply("ok")
    BY <1>0, <1>3 DEF CountOne, Rest, ServerTypeOK
  <2> QED  BY <2>1, <1>r, <1>t, ReplyType
<1>4. CASE ResubscribeLookup
  <2>1. Kept /\ UNCHANGED table /\ web.call.op = "resubscribe"
    BY <1>0, <1>4 DEF ResubscribeLookup, Kept, Shape, Ops
  <2>2. CASE Reply("ok")
    BY <2>1, <2>2, <1>r, <1>t, <1>k, ReplyType
  <2>3. ASSUME NEW s \in {"refreshing", "rotating"}, Goto(s)
        PROVE  TypeInvariant'
    <3>1. web' \in Requests /\ Shape'
      BY <2>1, <2>3, GotoType DEF Route, Statements, Ops
    <3> QED  BY <2>1, <3>1, <1>r, <1>t, <1>k
  <2> QED  BY <1>4, <2>2, <2>3 DEF ResubscribeLookup
<1>5. CASE Rotate
  <2>1. Kept /\ web.call.op = "resubscribe" /\ ep \in Endpoints /\ dead' = dead /\ old' = old
    BY <1>0, <1>5 DEF Rotate, Kept, Shape
  <2>2. CASE active' = (active \ {was}) \cup {ep} /\ Reply("ok")
    <3>1. IsFiniteSet(active')
      BY <2>2, FiniteRows DEF TypeInvariant
    <3>2. active' \subseteq Endpoints /\ dead' \subseteq Endpoints /\ old' \subseteq Endpoints
      BY <1>0, <2>1, <2>2 DEF ServerTypeOK
    <3> QED  BY <2>1, <2>2, <3>1, <3>2, <1>r, <1>k, ReplyType
  <2>3. CASE Goto("refreshing") /\ UNCHANGED active
    <3>1. web' \in Requests /\ Shape'
      BY <2>1, <2>3, GotoType DEF Route, Statements, Ops
    <3>2. UNCHANGED table
      BY <2>1, <2>3 DEF table
    <3> QED  BY <2>1, <3>1, <3>2, <1>r, <1>t, <1>k
  <2> QED  BY <1>5, <2>2, <2>3 DEF Rotate
<1>6. CASE Refresh
  <2>1. Kept /\ UNCHANGED table /\ web.call.op = "resubscribe"
    BY <1>0, <1>6 DEF Refresh, Kept, Shape
  <2>2. CASE Reply("ok")
    BY <2>1, <2>2, <1>r, <1>t, <1>k, ReplyType
  <2>3. CASE Goto("guarding")
    <3>1. web' \in Requests /\ Shape'
      BY <2>1, <2>3, GotoType DEF Route, Statements, Ops
    <3> QED  BY <2>1, <3>1, <1>r, <1>t, <1>k
  <2> QED  BY <1>6, <2>2, <2>3 DEF Refresh
<1>7. CASE Guard
  <2>1. Kept /\ UNCHANGED table /\ web.call.op = "resubscribe"
    BY <1>0, <1>7 DEF Guard, Kept, Shape
  <2>2. CASE Reply("ok") \/ Reply("busy")
    BY <2>1, <2>2, <1>r, <1>t, <1>k, ReplyType
  <2>3. CASE Goto("saving")
    <3>1. web' \in Requests /\ Shape'
      BY <2>1, <2>3, GotoType DEF Route, Statements, Ops
    <3> QED  BY <2>1, <3>1, <1>r, <1>t, <1>k
  <2> QED  BY <1>7, <2>2, <2>3 DEF Guard
<1>8. CASE UnsubscribeLookup
  <2>1. Kept /\ UNCHANGED table /\ web.call.op = "unsubscribe"
    BY <1>0, <1>8 DEF UnsubscribeLookup, Kept, Shape, Ops
  <2>2. CASE Reply("refused")
    BY <2>1, <2>2, <1>r, <1>t, <1>k, ReplyType
  <2>3. CASE Goto("leaving")
    <3>1. web' \in Requests /\ Shape'
      BY <2>1, <2>3, GotoType DEF Route, Statements, Ops
    <3> QED  BY <2>1, <3>1, <1>r, <1>t, <1>k
  <2> QED  BY <1>8, <2>2, <2>3 DEF UnsubscribeLookup
<1>9. CASE Leave
  <2>1. Kept /\ web.call.op \in Ops /\ ep \in Endpoints /\ Goto("recounting") /\ (Kill(ep) \/ UNCHANGED table)
    BY <1>0, <1>9 DEF Leave, Kept, Shape, Ops
  <2>2. web' \in Requests /\ Shape'
    BY <2>1, GotoType DEF Route, Statements, Ops
  <2> QED  BY <2>1, <2>2, <1>r, <1>t, <1>k, KillType
<1>10. CASE Clean
  <2>1. Kept /\ web.call.op \in Ops /\ Goto("recounting") /\ active' = active /\ dead' = {} /\ old' = {}
    BY <1>0, <1>10 DEF Clean, Kept, Shape, Ops
  <2>2. web' \in Requests /\ Shape'
    BY <2>1, GotoType DEF Route, Statements, Ops
  <2>3. active' \subseteq Endpoints /\ dead' \subseteq Endpoints /\ old' \subseteq Endpoints /\ IsFiniteSet(active')
    BY <2>1, <1>0 DEF TypeInvariant, ServerTypeOK
  <2> QED  BY <2>1, <2>2, <2>3, <1>r, <1>k
<1>11. CASE Recount
  <2>1. web' \in Requests /\ web'.at = "storing" /\ web'.call = web.call
    BY <1>0, <1>11 DEF Recount, Requests, Statements
  <2>2. Shape'
    BY <1>0, <2>1 DEF Shape, Ops, ep
  <2>3. torn' \in BOOLEAN /\ faults' \in 0..MaxFaults
    BY <1>11, TearsType DEF Recount
  <2>4. importing' \in BOOLEAN
    BY <1>11 DEF Recount
  <2>5. UNCHANGED <<table, count, file, worker, acts>>
    BY <1>11 DEF Recount
  <2>6. ServerTypeOK'
    BY <1>0, <2>1, <2>3, <2>4, <2>5 DEF ServerTypeOK, table
  <2> QED  BY <2>2, <2>5, <2>6 DEF TypeInvariant, table
<1>12. CASE StoreCount
  <2>1. Rest /\ UNCHANGED table /\ Reply("ok")
    BY <1>0, <1>12 DEF StoreCount, Rest, Requests
  <2> QED  BY <2>1, <1>r, <1>t, ReplyType
<1> QED
  BY <1>1, <1>2, <1>3, <1>4, <1>5, <1>6, <1>7, <1>8, <1>9, <1>10, <1>11, <1>12 DEF HandlerStep

LEMMA NewCall ==
  ASSUME NEW c \in Calls, c.op \in {"subscribe", "resubscribe", "unsubscribe"} => c.ep \in Endpoints,
         web' = [NoRequest EXCEPT !.call = c, !.at = c.op]
  PROVE  web' \in Requests /\ Shape' /\ web'.at = c.op /\ web'.call = c
<1>1. web' \in Requests /\ web'.at = c.op /\ web'.call = c
  BY NoRequestType DEF NoRequest, Requests, Calls, Statements
<1> QED  BY <1>1 DEF Shape, ep, Ops, Calls

LEMMA PanelCallType ==
  ASSUME NEW op \in {"unsubscribe", "clean"}, NEW e \in Endpoints \cup {NULL},
         op = "unsubscribe" => e \in Endpoints, PanelCall(op, e)
  PROVE  web' \in Requests /\ Shape' /\ web'.at = op /\ web'.call.op = op
<1> DEFINE c == [op |-> op, ep |-> e, was |-> NULL, from |-> "panel"]
<1>1. c \in Calls /\ c.op = op /\ c.ep = e
  BY DEF Calls, Ops, Sources
<1>2. web' = [NoRequest EXCEPT !.call = c, !.at = c.op]
  BY <1>1 DEF PanelCall
<1> HIDE DEF c
<1> QED  BY <1>1, <1>2, NewCall

LEMMA EndImportType ==
  ASSUME EndImport
  PROVE  web' \in Requests /\ Shape' /\ web'.at = "import" /\ web'.call.op = "import"
<1> DEFINE c == [NoCall EXCEPT !.op = "import"]
<1>1. c \in Calls /\ c.op = "import"
  BY DEF NoCall, Calls, Ops, Sources
<1>2. web' = [NoRequest EXCEPT !.call = c, !.at = c.op]
  BY <1>1 DEF EndImport, NoRequest, NoCall
<1> HIDE DEF c
<1> QED  BY <1>1, <1>2, NewCall

LEMMA IdleShape == web = NoRequest => Shape
  BY DEF Shape, NoRequest, NoCall, Ops

\* What requests the web process takes up and gives back.
LEMMA RequestTypes ==
  ASSUME TypeInvariant,
         \/ \E c \in Posted : Accept(c)
         \/ Answered /\ (NoFault \/ Fault)
         \/ Refuse \/ HandlerThrows \/ PanelStep \/ EndImport
  PROVE  TypeInvariant'
<1>0. ServerTypeOK /\ Shape /\ IsFiniteSet(active) /\ faults \in 0..MaxFaults /\ MaxFaults \in Nat /\ MaxActs \in Nat
  BY SubscriberAssumption DEF TypeInvariant, ServerTypeOK
<1>f. NoFault \/ Fault => faults' \in 0..MaxFaults
  BY <1>0 DEF NoFault, Fault
<1>a. ByHand => acts' \in 0..MaxActs
  BY <1>0 DEF ByHand, ServerTypeOK
<1>t. ASSUME UNCHANGED <<table, count>>, web' \in Requests, Shape', importing' \in BOOLEAN,
             file' \subseteq Endpoints, worker' = worker, torn' \in BOOLEAN,
             acts' \in 0..MaxActs, faults' \in 0..MaxFaults
      PROVE  TypeInvariant'
  BY <1>0, <1>t DEF TypeInvariant, ServerTypeOK, table
<1>k. ASSUME UNCHANGED <<table, count, torn, importing, file, worker>>, web' \in Requests, Shape',
             acts' \in 0..MaxActs, faults' \in 0..MaxFaults
      PROVE  TypeInvariant'
  BY <1>0, <1>k DEF TypeInvariant, ServerTypeOK, table
<1>1. ASSUME NEW c \in Posted, Accept(c) PROVE TypeInvariant'
  <2>1. c \in Calls /\ c.ep \in Endpoints
    BY DEF Posted, Calls, Ops
  <2>2. web' \in Requests /\ Shape'
    BY <1>1, <2>1, NewCall DEF Accept
  <2>3. UNCHANGED <<table, count, torn, importing, file, worker, acts, faults>>
    BY <1>1 DEF Accept, Others
  <2> QED  BY <1>0, <1>k, <2>2, <2>3 DEF ServerTypeOK
<1>2. CASE Answered /\ (NoFault \/ Fault)
  <2>1. web' \in Requests /\ Shape'
    BY <1>2, NoRequestType DEF Answered, Shape, NoRequest, NoCall, Ops
  <2>2. UNCHANGED <<table, count, torn, importing, file, worker, acts>>
    BY <1>2 DEF Answered, Others
  <2> QED  BY <1>0, <1>2, <1>f, <1>k, <2>1, <2>2 DEF ServerTypeOK
<1>3. CASE Refuse
  <2>1. web' \in Requests /\ Shape'
    BY <1>3, ReplyType DEF Refuse
  <2>2. UNCHANGED <<table, count, torn, importing, file, worker, acts>> /\ Fault
    BY <1>3 DEF Refuse, Others
  <2> QED  BY <1>0, <1>f, <1>k, <2>1, <2>2 DEF ServerTypeOK
<1>4. CASE HandlerThrows
  <2>1. web' \in Requests /\ Shape'
    BY <1>4, ReplyType DEF HandlerThrows
  <2>2. UNCHANGED <<table, count, file, worker, acts>> /\ Fault
    BY <1>4 DEF HandlerThrows
  <2>3. torn' \in BOOLEAN /\ importing' \in BOOLEAN
    BY <1>4, Zenon DEF HandlerThrows
  <2> QED  BY <1>0, <1>f, <1>t, <2>1, <2>2, <2>3 DEF ServerTypeOK
<1>5. ASSUME NEW e \in Endpoints, PanelCall("unsubscribe", e) PROVE TypeInvariant'
  <2>1. web' \in Requests /\ Shape'
    BY <1>5, PanelCallType
  <2>2. UNCHANGED <<table, count, torn, importing, file, worker, faults>> /\ ByHand
    BY <1>5 DEF PanelCall
  <2> QED  BY <1>0, <1>a, <1>k, <2>1, <2>2
<1>6. CASE PanelCall("clean", NULL)
  <2>1. web' \in Requests /\ Shape'
    BY <1>6, PanelCallType
  <2>2. UNCHANGED <<table, count, torn, importing, file, worker, faults>> /\ ByHand
    BY <1>6 DEF PanelCall
  <2> QED  BY <1>0, <1>a, <1>k, <2>1, <2>2
<1>7. ASSUME NEW E \in SUBSET Endpoints, StartImport(E) PROVE TypeInvariant'
  <2>1. UNCHANGED <<table, count, torn, web, worker, faults>> /\ ByHand
    BY <1>7 DEF StartImport
  <2>2. importing' \in BOOLEAN /\ file' \subseteq Endpoints
    BY <1>7 DEF StartImport
  <2>3. Shape' /\ web' \in Requests
    BY <1>0, <2>1 DEF Shape, ep, ServerTypeOK
  <2> QED  BY <1>0, <1>a, <1>t, <2>1, <2>2, <2>3 DEF ServerTypeOK
<1>8. CASE EndImport
  <2>1. web' \in Requests /\ Shape'
    BY <1>8, EndImportType
  <2>2. UNCHANGED <<table, count, torn, importing, file, worker, acts, faults>>
    BY <1>8 DEF EndImport, Others
  <2> QED  BY <1>0, <1>k, <2>1, <2>2 DEF ServerTypeOK
<1> QED  BY <1>1, <1>2, <1>3, <1>4, <1>5, <1>6, <1>7, <1>8 DEF PanelStep

\* What the import and the worker do between the steps of a request.
LEMMA BackgroundTypes ==
  ASSUME TypeInvariant,
         \/ ImportThrows \/ \E e \in Endpoints : ImportRow(e)
         \/ WorkerStep \/ WorkerCrash \/ Age \/ Elsewhere
  PROVE  TypeInvariant'
<1>0. ServerTypeOK /\ Shape /\ IsFiniteSet(active) /\ faults \in 0..MaxFaults /\ MaxFaults \in Nat
      /\ MaxActs \in Nat /\ Cardinality(active) \in Nat
  BY SubscriberAssumption, CountIsNat DEF TypeInvariant, ServerTypeOK
<1>f. NoFault \/ Fault => faults' \in 0..MaxFaults
  BY <1>0 DEF NoFault, Fault
<1>s. UNCHANGED web => Shape'
  BY <1>0 DEF Shape, ep
<1>t. ASSUME active' \subseteq Endpoints, dead' \subseteq Endpoints, old' \subseteq Endpoints,
             IsFiniteSet(active'), count' \in Nat, UNCHANGED web, importing' \in BOOLEAN,
             file' \subseteq Endpoints, worker' \in {"idle", "flipped", "purged"}, torn' \in BOOLEAN,
             acts' \in 0..MaxActs, faults' \in 0..MaxFaults
      PROVE  TypeInvariant'
  BY <1>0, <1>s, <1>t DEF TypeInvariant, ServerTypeOK
<1>u. UNCHANGED table => /\ active' \subseteq Endpoints /\ dead' \subseteq Endpoints /\ old' \subseteq Endpoints
                         /\ IsFiniteSet(active')
  BY <1>0 DEF ServerTypeOK, table
<1>1. CASE ImportThrows
  <2>1. UNCHANGED <<table, count, web, worker, acts>> /\ Fault /\ importing' \in BOOLEAN /\ torn' \in BOOLEAN
        /\ file' = {}
    BY <1>1 DEF ImportThrows
  <2> QED  BY <1>0, <1>f, <1>t, <1>u, <2>1 DEF ServerTypeOK
<1>2. ASSUME NEW e \in Endpoints, ImportRow(e) PROVE TypeInvariant'
  <2>1. UNCHANGED <<count, torn, web, importing, worker, acts, faults>> /\ file' = file \ {e}
    BY <1>2 DEF ImportRow
  <2>2. UNCHANGED table \/ Insert(e)
    BY <1>2 DEF ImportRow
  <2>3. /\ active' \subseteq Endpoints /\ dead' \subseteq Endpoints /\ old' \subseteq Endpoints
        /\ IsFiniteSet(active')
    BY <1>u, <2>2, InsertType
  <2> QED  BY <1>0, <1>t, <2>1, <2>3 DEF ServerTypeOK
<1>3. ASSUME NEW e \in Endpoints, EndpointGone(e) PROVE TypeInvariant'
  <2>1. UNCHANGED <<count, web, importing, file, acts>> /\ worker' = "flipped" /\ Kill(e)
    BY <1>3 DEF EndpointGone
  <2>2. /\ active' \subseteq Endpoints /\ dead' \subseteq Endpoints /\ old' \subseteq Endpoints
        /\ IsFiniteSet(active')
    BY <2>1, KillType
  <2>3. torn' \in BOOLEAN /\ faults' \in 0..MaxFaults
    <3>1. torn \in BOOLEAN /\ At("storing") \in BOOLEAN
      BY <1>0 DEF ServerTypeOK, At
    <3>2. Tears(At("storing"), torn)
      BY <1>3 DEF EndpointGone
    <3> QED  BY <3>1, <3>2, TearsType
  <2> QED  BY <1>0, <1>t, <2>1, <2>2, <2>3 DEF ServerTypeOK
<1>4. CASE CountOut
  <2>1. UNCHANGED <<table, web, importing, file, acts>> /\ worker' = "idle" /\ count' \in Nat
    BY <1>0, <1>4 DEF CountOut, OneLess, ServerTypeOK
  <2>2. torn' \in BOOLEAN /\ faults' \in 0..MaxFaults
    <3> DEFINE yes == count = 0 /\ At("counting")
    <3>1. torn \in BOOLEAN /\ yes \in BOOLEAN
      BY <1>0 DEF ServerTypeOK
    <3>2. Tears(yes, torn)
      BY <1>4 DEF CountOut
    <3> HIDE DEF yes
    <3> QED  BY <3>1, <3>2, TearsType
  <2> QED  BY <1>0, <1>t, <1>u, <2>1, <2>2 DEF ServerTypeOK
<1>5. CASE Purge
  <2>1. UNCHANGED <<active, dead, count, torn, web, importing, file, acts, faults>> /\ worker' = "purged" /\ old' = {}
    BY <1>5 DEF Purge
  <2> QED  BY <1>0, <1>t, <2>1 DEF ServerTypeOK
<1>6. CASE RecomputeCounts
  <2>1. UNCHANGED <<table, web, importing, file, acts>> /\ worker' = "idle" /\ count' \in Nat
    BY <1>0, <1>6 DEF RecomputeCounts
  <2>2. torn' \in BOOLEAN /\ faults' \in 0..MaxFaults
    <3> DEFINE yes == At("counting")  after == torn /\ At("storing")
    <3>1. yes \in BOOLEAN /\ after \in BOOLEAN
      BY DEF At
    <3>2. Tears(yes, after)
      BY <1>6 DEF RecomputeCounts
    <3> HIDE DEF yes, after
    <3> QED  BY <3>1, <3>2, TearsType
  <2> QED  BY <1>0, <1>t, <1>u, <2>1, <2>2 DEF ServerTypeOK
<1>7. CASE WorkerCrash
  <2>1. UNCHANGED <<table, count, web, importing, file, acts>> /\ worker' = "idle" /\ Fault
    BY <1>7 DEF WorkerCrash
  <2>2. torn' \in BOOLEAN
    BY <1>7, Zenon DEF WorkerCrash
  <2> QED  BY <1>0, <1>f, <1>t, <1>u, <2>1, <2>2 DEF ServerTypeOK
<1>8. CASE Age
  <2>1. UNCHANGED <<active, count, torn, web, importing, file, worker, acts, faults>> /\ dead' = {} /\ old' = old \cup dead
    BY <1>8 DEF Age
  <2> QED  BY <1>0, <1>t, <2>1 DEF ServerTypeOK
<1>9. CASE Elsewhere
  <2>1. UNCHANGED <<table, count, web, importing, file, worker, torn>>
    BY <1>9 DEF Elsewhere
  <2>2. acts' \in 0..MaxActs /\ faults' \in 0..MaxFaults
    BY <1>0, <1>9 DEF Elsewhere, ByHand, NoFault, Fault, ServerTypeOK
  <2> QED  BY <1>0, <1>t, <1>u, <2>1, <2>2 DEF ServerTypeOK
<1> QED  BY <1>1, <1>2, <1>3, <1>4, <1>5, <1>6, <1>7, <1>8, <1>9 DEF WorkerStep

LEMMA TypeNext == TypeInvariant /\ [ServerNext]_serverVars => TypeInvariant'
<1> SUFFICES ASSUME TypeInvariant, [ServerNext]_serverVars PROVE TypeInvariant'
  OBVIOUS
<1>1. CASE UNCHANGED serverVars
  BY <1>1 DEF serverVars, table, TypeInvariant, ServerTypeOK, Shape, ep
<1> QED  BY <1>1, HandlerTypes, RequestTypes, BackgroundTypes DEF ServerNext

-----------------------------------------------------------------------------
(* The dead stay dead.                                                     *)

\* A background call past the guard is for an endpoint nobody knows.
Guarded ==
  /\ web.at = "guarding" => ep \notin active
  /\ web.at = "saving" /\ web.call.op = "resubscribe" => ~Known(ep)

ReviveInvariant == TypeInvariant /\ Guarded

LEMMA ReviveInit == ServerInit => ReviveInvariant
  BY TypeInit DEF ServerInit, ReviveInvariant, Guarded, NoRequest

\* While a handler is between two statements the other process adds nothing.
LEMMA NothingAdded ==
  ASSUME TypeInvariant, ServerNext, web.at \in {"guarding", "saving"}, UNCHANGED web
  PROVE  active' \subseteq active /\ dead' \cup old' \subseteq dead \cup old \cup active
<1>1. web # NoRequest
  BY DEF NoRequest
<1>2. UNCHANGED table \/ (\E e \in active : Kill(e)) \/ Purge \/ Age
  <2>1. ~HandlerStep
    BY DEF HandlerStep, TypeInvariant, ServerTypeOK, Requests, SubscribeLookup, Save, CountOne,
      ResubscribeLookup, Rotate, Refresh, Guard, UnsubscribeLookup, Leave, Clean, Recount,
      StoreCount, At, Reply, Goto
  <2> QED  BY <1>1, <2>1 DEF ServerNext, Accept, Answered, Refuse, HandlerThrows, ImportThrows, PanelStep,
    PanelCall, StartImport, EndImport, ImportRow, WorkerStep, EndpointGone, Flips, CountOut,
    RecomputeCounts, WorkerCrash, Elsewhere
<1> QED  BY <1>2 DEF table, Kill, Purge, Age

\* Only a step of its own brings a request to these two statements.
LEMMA Arrives ==
  ASSUME TypeInvariant, ServerNext, ~UNCHANGED web, web'.at \in {"guarding", "saving"}
  PROVE  Refresh \/ Guard \/ SubscribeLookup
<1>0. web \in Requests
  BY DEF TypeInvariant, ServerTypeOK
<1>1. ASSUME NEW r \in {"ok", "busy", "refused"}, Reply(r) PROVE FALSE
  BY <1>1, ReplyType
<1>2. ASSUME NEW t \in Statements \ {"guarding", "saving"}, Goto(t) PROVE FALSE
  BY <1>0, <1>2 DEF Goto, Requests
<1>3. HandlerStep
  <2>1. ASSUME NEW c \in Posted, Accept(c) PROVE FALSE
    <3>1. c \in Calls /\ c.ep \in Endpoints /\ c.op \in {"subscribe", "resubscribe", "unsubscribe"}
      BY DEF Posted, Calls, Ops
    <3> QED  BY <2>1, <3>1, NewCall DEF Accept
  <2>2. CASE Answered
    BY <2>2 DEF Answered, NoRequest
  <2>3. CASE Refuse
    BY <1>1, <2>3 DEF Refuse
  <2>4. CASE HandlerThrows
    BY <1>1, <2>4 DEF HandlerThrows
  <2>5. CASE PanelStep
    <3>1. ASSUME NEW op \in {"unsubscribe", "clean"}, NEW e \in Endpoints \cup {NULL},
                 op = "unsubscribe" => e \in Endpoints, PanelCall(op, e)
          PROVE  FALSE
      BY <3>1, PanelCallType
    <3>2. \A E : ~StartImport(E)
      BY DEF StartImport
    <3> QED  BY <2>5, <3>1, <3>2 DEF PanelStep
  <2>6. CASE EndImport
    BY <2>6, EndImportType
  <2>7. ~(ImportThrows \/ (\E e \in Endpoints : ImportRow(e)) \/ WorkerStep \/ WorkerCrash \/ Age \/ Elsewhere)
    BY DEF ImportThrows, ImportRow, WorkerStep, EndpointGone, CountOut, Purge, RecomputeCounts, WorkerCrash, Age, Elsewhere
  <2> QED  BY <2>1, <2>2, <2>3, <2>4, <2>5, <2>6, <2>7 DEF ServerNext
<1>4. ~(Save \/ CountOne \/ ResubscribeLookup \/ Rotate)
  BY <1>1, <1>2 DEF Save, CountOne, ResubscribeLookup, Rotate, Statements
<1>5. ~(UnsubscribeLookup \/ Leave \/ Clean \/ Recount)
  BY <1>0, <1>1, <1>2 DEF UnsubscribeLookup, Leave, Clean, Recount, Statements, Requests
<1>6. ~StoreCount
  BY <1>0, <1>1 DEF StoreCount, Requests
<1> QED  BY <1>3, <1>4, <1>5, <1>6 DEF HandlerStep

LEMMA GuardedNext ==
  ASSUME ReviveInvariant, ServerNext
  PROVE  Guarded'
<1> USE DEF ReviveInvariant
<1>0. web \in Requests
  BY DEF TypeInvariant, ServerTypeOK
<1>1. CASE UNCHANGED web
  <2>1. web.at \in {"guarding", "saving"} =>
          active' \subseteq active /\ dead' \cup old' \subseteq dead \cup old \cup active
    BY <1>1, NothingAdded
  <2> QED  BY <1>1, <2>1 DEF Guarded, Known, Dead, ep
<1>2. ASSUME ~UNCHANGED web, web'.at = "guarding" PROVE ep' \notin active'
  <2>1. Refresh
    <3>1. Refresh \/ Guard \/ SubscribeLookup
      BY <1>2, Arrives
    <3> QED  BY <1>0, <1>2, <3>1 DEF Guard, SubscribeLookup, Reply, Goto, Requests
  <2> QED  BY <1>0, <1>2, <2>1 DEF Refresh, Reply, Goto, Requests, ep, table
<1>3. ASSUME ~UNCHANGED web, web'.at = "saving", web'.call.op = "resubscribe" PROVE ~Known(ep)'
  <2>1. Guard \/ SubscribeLookup
    <3>1. Refresh \/ Guard \/ SubscribeLookup
      BY <1>3, Arrives
    <3> QED  BY <1>0, <1>3, <3>1 DEF Refresh, Reply, Goto, Requests
  <2>2. ~SubscribeLookup
    <3>1. SUFFICES ASSUME SubscribeLookup PROVE FALSE
      OBVIOUS
    <3>2. web.call.op = "subscribe"
      BY <3>1 DEF SubscribeLookup, At, TypeInvariant, Shape, Ops
    <3>3. web'.call = web.call
      BY <1>0, <3>1 DEF SubscribeLookup, Reply, Requests
    <3> QED  BY <1>3, <3>2, <3>3
  <2>3. Guard
    BY <2>1, <2>2
  <2>4. web'.call = web.call /\ UNCHANGED table /\ ep \notin active /\ ~OptedOut(ep)
    BY <1>0, <1>3, <2>3 DEF Guard, Guarded, At, Reply, Goto, Requests
  <2> QED  BY <2>4 DEF OptedOut, Known, Dead, ep, table
<1> QED  BY <1>1, <1>2, <1>3 DEF Guarded

LEMMA ReviveNext == ReviveInvariant /\ [ServerNext]_serverVars => ReviveInvariant'
<1> SUFFICES ASSUME ReviveInvariant, [ServerNext]_serverVars PROVE ReviveInvariant'
  OBVIOUS
<1>1. CASE UNCHANGED serverVars
  BY <1>1, TypeNext DEF ReviveInvariant, serverVars, table, Guarded, Known, Dead, ep
<1>2. CASE ServerNext
  BY <1>2, TypeNext, GuardedNext DEF ReviveInvariant
<1> QED  BY <1>1, <1>2

LEMMA Revival ==
  ASSUME ReviveInvariant, ServerNext, NEW e \in Endpoints, Dead(e), e \notin active, e \in active'
  PROVE  web.call.op = "subscribe" \/ (At("rotating") /\ was \in active)
<1>1. Save \/ Rotate \/ \E f \in Endpoints : ImportRow(f)
  BY DEF ServerNext, HandlerStep, SubscribeLookup, CountOne, ResubscribeLookup, Refresh, Guard,
    UnsubscribeLookup, Leave, Kill, Clean, Recount, StoreCount, Accept, Answered, Refuse, HandlerThrows,
    ImportThrows, PanelStep, PanelCall, StartImport, EndImport, WorkerStep, EndpointGone,
    CountOut, Purge, RecomputeCounts, WorkerCrash, Age, Elsewhere, table
<1>2. CASE Save
  <2>1. e = ep /\ At("saving")
    BY <1>2 DEF Save, Insert, table
  <2>2. web.call.op \in {"subscribe", "resubscribe"}
    BY <2>1 DEF ReviveInvariant, TypeInvariant, Shape, At
  <2> QED  BY <2>1, <2>2 DEF ReviveInvariant, Guarded, Known, At
<1>3. CASE Rotate
  BY <1>3 DEF Rotate
<1>4. ASSUME NEW f \in Endpoints, ImportRow(f) PROVE FALSE
  BY <1>4 DEF ImportRow, Skips, Known, Insert, table
<1> QED  BY <1>1, <1>2, <1>3, <1>4

\* Whatever the routes, the import, the worker and the purge do in whatever
\* order, a background call never revives a visitor who left.
THEOREM ServerRevives == ServerSpec => OnlySubscribeRevives
<1>1. ReviveInvariant /\ [ServerNext]_serverVars =>
        [\A e \in Endpoints :
           Dead(e) /\ e \notin active /\ e \in active'
           => web.call.op = "subscribe" \/ (At("rotating") /\ was \in active)]_serverVars
  BY Revival
<1> QED  BY <1>1, ReviveInit, ReviveNext, PTL DEF ServerSpec, OnlySubscribeRevives

-----------------------------------------------------------------------------
(* The count.                                                              *)

\* Rows the table has lost or won and the count does not know of yet.
CountedIn  == IF web.at = "counting" THEN 1 ELSE 0
CountedOut == IF worker = "flipped" THEN 1 ELSE 0

\* Only an import has a file to read, and it ends when it has read it.
Imports ==
  /\ web.at = "import" => importing /\ file = {}
  /\ importing \/ file = {}

\* What was read for a recount is still so when it is stored, and otherwise
\* the count differs from the table by the steps under way.
Counted ==
  ~torn =>
    /\ web.at = "storing" => web.seen = Cardinality(active) /\ worker # "flipped"
    /\ web.at \notin {"recounting", "storing"} /\ ~importing
         => count + CountedIn = Cardinality(active) + CountedOut

CountInvariant == TypeInvariant /\ Imports /\ Counted

LEMMA CountInit == ServerInit => CountInvariant
  BY TypeInit, FS_EmptySet
  DEF ServerInit, CountInvariant, Imports, Counted, NoRequest, NoCall, CountedIn, CountedOut

\* The request after a reply or a move.
LEMMA Moved ==
  ASSUME web \in Requests
  PROVE  /\ \A r : Reply(r) => web'.at = "answer"
         /\ \A t : Goto(t) => web'.at = t /\ web'.seen = web.seen
  BY DEF Requests, Reply, Goto

\* Steps of a handler that touch neither the table nor the count.
LEMMA CountReads ==
  ASSUME CountInvariant,
         \/ SubscribeLookup \/ ResubscribeLookup \/ Refresh \/ Guard \/ UnsubscribeLookup
  PROVE  CountInvariant'
<1>0. web \in Requests
  BY DEF CountInvariant, TypeInvariant, ServerTypeOK
<1>1. UNCHANGED <<table, count, torn, importing, file, worker>>
  BY DEF SubscribeLookup, ResubscribeLookup, Refresh, Guard, UnsubscribeLookup, Others
<1>2. web.at \in {"subscribe", "resubscribe", "refreshing", "guarding", "unsubscribe"}
  BY DEF SubscribeLookup, ResubscribeLookup, Refresh, Guard, UnsubscribeLookup, At
<1>3. web'.at \in {"answer", "saving", "refreshing", "rotating", "guarding", "leaving"}
  <2>1. CASE SubscribeLookup
    BY <1>0, <2>1, Moved DEF SubscribeLookup, Requests
  <2>2. CASE ~SubscribeLookup
    BY <1>0, <2>2, Moved DEF ResubscribeLookup, Refresh, Guard, UnsubscribeLookup
  <2> QED  BY <2>1, <2>2
<1>4. TypeInvariant'
  BY HandlerTypes DEF CountInvariant, HandlerStep
<1>5. UNCHANGED active
  BY <1>1 DEF table
<1> QED  BY <1>1, <1>2, <1>3, <1>4, <1>5 DEF CountInvariant, Imports, Counted, CountedIn, CountedOut

\* Steps of a handler that write.
LEMMA CountWrites ==
  ASSUME CountInvariant,
         \/ Save \/ CountOne \/ Rotate \/ Leave \/ Clean \/ Recount \/ StoreCount
  PROVE  CountInvariant'
<1>0. web \in Requests /\ IsFiniteSet(active) /\ Cardinality(active) \in Nat /\ count \in Nat /\ TypeInvariant
  BY CountIsNat DEF CountInvariant, TypeInvariant, ServerTypeOK
<1>t. TypeInvariant'
  BY HandlerTypes DEF CountInvariant, HandlerStep
<1> USE DEF At
<1>1. CASE Save
  <2>1. UNCHANGED <<count, torn, importing, file, worker>> /\ web.at = "saving"
    BY <1>1 DEF Save, Others
  <2>2. CASE UNCHANGED table /\ Reply("ok")
    BY <1>0, <1>t, <2>1, <2>2, Moved DEF CountInvariant, Imports, Counted, CountedIn, CountedOut, table
  <2>3. CASE ep \notin active /\ Insert(ep) /\ Goto("counting")
    <3>1. Cardinality(active') = Cardinality(active) + 1
      BY <1>0, <2>3, FS_AddElement DEF Insert
    <3>2. web'.at = "counting"
      BY <1>0, <2>3, Moved
    <3> QED  BY <1>0, <1>t, <2>1, <3>1, <3>2 DEF CountInvariant, Imports, Counted, CountedIn, CountedOut
  <2> QED  BY <1>1, <2>2, <2>3 DEF Save
<1>2. CASE CountOne
  <2>1. UNCHANGED <<active, torn, importing, file, worker>> /\ web.at = "counting" /\ count' = count + 1
    BY <1>2 DEF CountOne, Others, table
  <2>2. web'.at = "answer"
    BY <1>0, <1>2, Moved DEF CountOne
  <2> QED  BY <1>0, <1>t, <2>1, <2>2 DEF CountInvariant, Imports, Counted, CountedIn, CountedOut
<1>3. CASE Rotate
  <2>1. UNCHANGED <<count, torn, importing, file, worker>> /\ web.at = "rotating"
    BY <1>3 DEF Rotate, Others
  <2>2. web'.at \in {"answer", "refreshing"}
    BY <1>0, <1>3, Moved DEF Rotate
  <2>3. Cardinality(active') = Cardinality(active)
    <3>1. CASE was \in active /\ ep \notin active
      <4>1. active' = (active \ {was}) \cup {ep}
        BY <1>3, <3>1 DEF Rotate
      <4>2. IsFiniteSet(active \ {was}) /\ Cardinality(active \ {was}) = Cardinality(active) - 1
        BY <1>0, <3>1, FS_RemoveElement
      <4>3. ep \notin active \ {was}
        BY <3>1
      <4>4. Cardinality((active \ {was}) \cup {ep}) = Cardinality(active \ {was}) + 1
        BY <4>2, <4>3, FS_AddElement
      <4> QED  BY <1>0, <4>1, <4>2, <4>4
    <3>2. CASE ~(was \in active /\ ep \notin active)
      BY <1>3, <3>2 DEF Rotate
    <3> QED  BY <3>1, <3>2
  <2> QED  BY <1>0, <1>t, <2>1, <2>2, <2>3 DEF CountInvariant, Imports, Counted, CountedIn, CountedOut
<1>4. CASE Leave \/ Clean
  <2>1. UNCHANGED <<torn, importing, file>> /\ web'.at = "recounting"
    BY <1>0, <1>4, Moved DEF Leave, Clean, Others
  <2> QED  BY <1>t, <2>1 DEF CountInvariant, Imports, Counted
<1>5. CASE Recount
  <2>1. UNCHANGED <<active, count, file, worker>> /\ web'.at = "storing" /\ web'.seen = Cardinality(active)
    BY <1>0, <1>5 DEF Recount, table, Requests
  <2>2. torn' \/ worker # "flipped"
    BY <1>5 DEF Recount, Tears
  <2>3. importing' \/ file' = {}
    BY <1>5, <2>1, Zenon DEF Recount, CountInvariant, Imports
  <2> QED  BY <1>t, <2>1, <2>2, <2>3 DEF CountInvariant, Imports, Counted
<1>6. CASE StoreCount
  <2>1. UNCHANGED <<active, torn, importing, file, worker>> /\ web.at = "storing" /\ count' = web.seen
    BY <1>6 DEF StoreCount, Others, table
  <2>2. web'.at = "answer"
    BY <1>0, <1>6, Moved DEF StoreCount
  <2> QED  BY <1>0, <1>t, <2>1, <2>2 DEF CountInvariant, Imports, Counted, CountedIn, CountedOut
<1> QED  BY <1>1, <1>2, <1>3, <1>4, <1>5, <1>6

\* Requests come and go, and may die on the way.
LEMMA CountRequests ==
  ASSUME CountInvariant,
         \/ \E c \in Posted : Accept(c)
         \/ Answered /\ (NoFault \/ Fault)
         \/ Refuse \/ HandlerThrows \/ PanelStep \/ EndImport
  PROVE  CountInvariant'
<1>0. web \in Requests /\ TypeInvariant /\ Imports /\ Counted
  BY DEF CountInvariant, TypeInvariant, ServerTypeOK
<1>t. TypeInvariant'
  BY RequestTypes DEF CountInvariant
<1>n. web = NoRequest => web.at = "idle"
  BY DEF NoRequest
\* A request that moves between two points at rest changes nothing.
<1>k. ASSUME UNCHANGED <<table, count, torn, worker>>,
             web.at \notin {"counting", "recounting", "storing"},
             web'.at \notin {"counting", "recounting", "storing", "import"},
             importing' = importing /\ file' = file
      PROVE  CountInvariant'
  <2>1. active' = active
    BY <1>k DEF table
  <2> QED  BY <1>0, <1>k, <1>t, <2>1 DEF CountInvariant, Imports, Counted, CountedIn, CountedOut
<1>1. ASSUME NEW c \in Posted, Accept(c) PROVE CountInvariant'
  <2>1. c \in Calls /\ c.ep \in Endpoints /\ c.op \in {"subscribe", "resubscribe", "unsubscribe"}
    BY DEF Posted, Calls, Ops
  <2>2. web'.at = c.op
    BY <1>1, <2>1, NewCall DEF Accept
  <2> QED  BY <1>1, <1>k, <1>n, <2>1, <2>2 DEF Accept, Others
<1>2. CASE Answered
  <2>1. web.at = "answer" /\ web'.at = "idle"
    BY <1>2 DEF Answered, At, NoRequest
  <2> QED  BY <1>2, <1>k, <2>1 DEF Answered, Others
<1>3. CASE Refuse
  <2>1. web'.at = "answer"
    BY <1>0, <1>3, Moved DEF Refuse
  <2> QED  BY <1>3, <1>k, <2>1 DEF Refuse, Others
<1>4. CASE HandlerThrows
  <2>1. web'.at = "answer" /\ UNCHANGED <<active, count, file, worker>>
    BY <1>0, <1>4, Moved DEF HandlerThrows, table
  <2>2. CASE web.at \in {"counting", "recounting", "storing", "import"}
    <3>1. torn'
      BY <1>4, <2>2 DEF HandlerThrows
    <3>2. importing' \/ file' = {}
      BY <1>0, <1>4, <2>1, Zenon DEF HandlerThrows, Imports
    <3> QED  BY <1>t, <2>1, <3>1, <3>2 DEF CountInvariant, Imports, Counted
  <2>3. CASE web.at \notin {"counting", "recounting", "storing", "import"}
    <3>1. importing \in BOOLEAN /\ torn \in BOOLEAN
      BY <1>0 DEF TypeInvariant, ServerTypeOK
    <3>2. importing' = importing /\ torn' = torn
      BY <1>4, <2>3, <3>1, Zenon DEF HandlerThrows
    <3> QED  BY <1>4, <1>k, <2>1, <2>3, <3>2 DEF HandlerThrows
  <2> QED  BY <2>2, <2>3
<1>5. ASSUME NEW op \in {"unsubscribe", "clean"}, NEW e \in Endpoints \cup {NULL},
             op = "unsubscribe" => e \in Endpoints, PanelCall(op, e)
      PROVE  CountInvariant'
  <2>1. web'.at = op
    BY <1>5, PanelCallType
  <2> QED  BY <1>5, <1>k, <1>n, <2>1 DEF PanelCall
<1>6. ASSUME NEW E \in SUBSET Endpoints, StartImport(E) PROVE CountInvariant'
  <2>1. UNCHANGED <<active, count, torn, web, worker>> /\ importing' /\ ~importing
    BY <1>6 DEF StartImport, table
  <2>2. web.at # "import"
    BY <1>0, <2>1 DEF Imports
  <2> QED  BY <1>0, <1>t, <2>1, <2>2 DEF CountInvariant, Imports, Counted
<1>7. CASE EndImport
  <2>1. web'.at = "import" /\ UNCHANGED <<active, count, torn, importing, file, worker>> /\ importing /\ file = {}
    BY <1>7, EndImportType DEF EndImport, Others, table
  <2> QED  BY <1>0, <1>t, <2>1 DEF CountInvariant, Imports, Counted
<1> QED  BY <1>1, <1>2, <1>3, <1>4, <1>5, <1>6, <1>7 DEF PanelStep

\* What the other process, the import and time do meanwhile.
LEMMA CountBackground ==
  ASSUME CountInvariant,
         \/ ImportThrows \/ \E e \in Endpoints : ImportRow(e)
         \/ WorkerStep \/ WorkerCrash \/ Age \/ Elsewhere
  PROVE  CountInvariant'
<1>0. IsFiniteSet(active) /\ Cardinality(active) \in Nat /\ count \in Nat /\ TypeInvariant /\ Imports /\ Counted
  BY CountIsNat DEF CountInvariant, TypeInvariant, ServerTypeOK
<1>t. TypeInvariant'
  BY BackgroundTypes DEF CountInvariant
<1> USE DEF At
<1>1. CASE ImportThrows
  <2>1. web.at = "idle" /\ UNCHANGED web /\ file' = {} /\ torn'
    BY <1>1 DEF ImportThrows, NoRequest
  <2> QED  BY <1>t, <2>1 DEF CountInvariant, Imports, Counted
<1>2. ASSUME NEW e \in Endpoints, ImportRow(e) PROVE CountInvariant'
  <2>1. UNCHANGED <<count, torn, web, importing, worker>> /\ e \in file /\ web.at = "idle"
    BY <1>2 DEF ImportRow, NoRequest
  <2>2. importing
    BY <1>0, <2>1 DEF Imports
  <2> QED  BY <1>t, <2>1, <2>2 DEF CountInvariant, Imports, Counted
<1>3. ASSUME NEW e \in Endpoints, EndpointGone(e) PROVE CountInvariant'
  <2>1. UNCHANGED <<count, web, importing, file>> /\ worker = "idle" /\ worker' = "flipped"
    BY <1>3 DEF EndpointGone
  <2>2. Cardinality(active') = Cardinality(active) - 1
    BY <1>0, <1>3, FS_RemoveElement DEF EndpointGone, Flips, Kill
  <2>3. web.at = "storing" => torn'
    BY <1>3 DEF EndpointGone, Tears
  <2>4. ~torn' => ~torn
    BY <1>3 DEF EndpointGone, Tears
  <2> QED  BY <1>0, <1>t, <2>1, <2>2, <2>3, <2>4 DEF CountInvariant, Imports, Counted, CountedIn, CountedOut
<1>4. CASE CountOut
  <2>1. UNCHANGED <<active, web, importing, file>> /\ worker = "flipped" /\ worker' = "idle" /\ count' = OneLess
    BY <1>4 DEF CountOut, table
  <2>2. ~torn' => ~torn /\ ~(count = 0 /\ web.at = "counting")
    BY <1>4 DEF CountOut, Tears
  <2> QED  BY <1>0, <1>t, <2>1, <2>2 DEF CountInvariant, Imports, Counted, CountedIn, CountedOut, OneLess
<1>5. CASE Purge \/ Age
  <2>1. UNCHANGED <<active, count, torn, web, importing, file>> /\ (worker' = "flipped" <=> worker = "flipped")
    BY <1>5 DEF Purge, Age
  <2> QED  BY <1>0, <1>t, <2>1 DEF CountInvariant, Imports, Counted, CountedIn, CountedOut
<1>6. CASE RecomputeCounts
  <2>1. UNCHANGED <<active, web, importing, file>> /\ worker' = "idle" /\ count' = Cardinality(active)
    BY <1>6 DEF RecomputeCounts, table
  <2>2. ~torn' => web.at # "counting" /\ (web.at = "storing" => ~torn)
    BY <1>6 DEF RecomputeCounts, Tears
  <2> QED  BY <1>0, <1>t, <2>1, <2>2 DEF CountInvariant, Imports, Counted, CountedIn, CountedOut
<1>7. CASE WorkerCrash
  <2>1. UNCHANGED <<active, count, web, importing, file>> /\ worker' = "idle"
    BY <1>7 DEF WorkerCrash, table
  <2>2. ~torn' => ~torn /\ worker # "flipped"
    BY <1>7 DEF WorkerCrash
  <2> QED  BY <1>0, <1>t, <2>1, <2>2 DEF CountInvariant, Imports, Counted, CountedIn, CountedOut
<1>8. CASE Elsewhere
  <2>1. UNCHANGED <<active, count, web, importing, file, worker, torn>>
    BY <1>8 DEF Elsewhere, table
  <2> QED  BY <1>0, <1>t, <2>1 DEF CountInvariant, Imports, Counted, CountedIn, CountedOut
<1> QED  BY <1>1, <1>2, <1>3, <1>4, <1>5, <1>6, <1>7, <1>8 DEF WorkerStep

LEMMA CountNext == CountInvariant /\ [ServerNext]_serverVars => CountInvariant'
<1> SUFFICES ASSUME CountInvariant, [ServerNext]_serverVars PROVE CountInvariant'
  OBVIOUS
<1>1. CASE UNCHANGED serverVars
  <2>1. TypeInvariant'
    BY TypeNext DEF CountInvariant
  <2> QED  BY <1>1, <2>1 DEF CountInvariant, serverVars, table, Imports, Counted, CountedIn, CountedOut
<1>2. CASE ServerNext
  BY <1>2, CountReads, CountWrites, CountRequests, CountBackground DEF ServerNext, HandlerStep
<1> QED  BY <1>1, <1>2

LEMMA CountRests == CountInvariant => CountExact
<1> SUFFICES ASSUME CountInvariant, AtRest, ~torn PROVE count = Cardinality(active)
  BY DEF CountExact
<1>1. count \in Nat /\ Cardinality(active) \in Nat
  BY CountIsNat DEF CountInvariant, TypeInvariant, ServerTypeOK
<1> QED  BY <1>1 DEF CountInvariant, AtRest, Counted, CountedIn, CountedOut

\* Whenever neither process is between two statements the count shown is the
\* number of active subscribers, unless one tore the other's recount.
THEOREM CountIsExact == ServerSpec => []CountExact
  BY CountInit, CountNext, CountRests, PTL DEF ServerSpec

-----------------------------------------------------------------------------
(* The composition: what is proved of the server holds of the whole.       *)

\* The push service gives its endpoints out in their order.
InOrder == 1..last \subseteq Endpoints

BrowserType == TypeOK /\ InOrder

LEMMA LastIsNat == TypeOK => last \in Nat
  BY BrowserAssumption DEF TypeOK

LEMMA BrowserInit == Init => BrowserType
<1> SUFFICES ASSUME Init PROVE BrowserType
  OBVIOUS
<1>1. ServerTypeOK
  BY TypeInit DEF Init, TypeInvariant
<1>2. 1..last = {}
  BY DEF Init
<1> QED  BY <1>1, <1>2 DEF Init, BrowserType, TypeOK, InOrder

\* Between two steps of the server the browser only uses up acts and faults.
LEMMA BrowserIsElsewhere ==
  ASSUME Between, acts' = acts \/ (acts < MaxActs /\ acts' = acts + 1)
  PROVE  UNCHANGED serverVars \/ Elsewhere
<1>1. CASE acts' = acts
  BY <1>1 DEF Between, serverVars, table
<1>2. CASE acts < MaxActs /\ acts' = acts + 1
  BY <1>2 DEF Between, Elsewhere, ByHand, NoFault, table
<1> QED  BY <1>1, <1>2

\* Every step of the whole is one of the server, or none.
LEMMA ServerSees ==
  ASSUME BrowserType, [Next]_vars
  PROVE  [ServerNext]_serverVars
<1>1. CASE UNCHANGED vars
  BY <1>1 DEF vars
<1>2. CASE Server
  <2>1. 1..last \in SUBSET Endpoints
    BY DEF BrowserType, InOrder
  <2> QED  BY <1>2, <2>1 DEF Server, ServerNext, PanelStep, ImportKnown, PushFails, WorkerStep
<1>3. CASE PanelUnsubscribes
  BY <1>3 DEF PanelUnsubscribes, ServerNext, PanelStep
<1>4. CASE Visit
  BY <1>4, BrowserIsElsewhere DEF Visit, OpenPage, ClosePage, SyncTimer, ThrottleExpires, ServerNext
<1>5. CASE Visitor \/ RotateEndpoint
  BY <1>5, BrowserIsElsewhere DEF Visitor, Dismiss, Subscribe, Unsubscribe, Block, Gesture, RotateEndpoint, ServerNext
<1>6. CASE Network
  <2>1. ASSUME NEW c, Deliver(c) PROVE ServerNext
    <3>1. c \in Posted /\ Accept(c)
      BY <2>1 DEF Deliver, BrowserType, TypeOK
    <3> QED  BY <3>1 DEF ServerNext
  <2>2. ASSUME NEW c, LoseRequest(c) PROVE Elsewhere
    BY <2>2 DEF LoseRequest, Elsewhere
  <2>3. CASE DeliverAnswer \/ LoseAnswer
    BY <2>3 DEF DeliverAnswer, LoseAnswer, ServerNext
  <2> QED  BY <1>6, <2>1, <2>2, <2>3 DEF Network, DeliverFrom, ServerNext
<1> QED  BY <1>1, <1>2, <1>3, <1>4, <1>5, <1>6 DEF Next

-----------------------------------------------------------------------------
(* Types of the browser.                                                   *)

LEMMA PostType ==
  ASSUME NEW e \in Endpoints, NEW op \in {"subscribe", "resubscribe", "unsubscribe"},
         NEW from \in Sources \ {"panel"}, NEW prior \in Endpoints \cup {NULL}
  PROVE  /\ Post(op, e, from) \in Posted
         /\ PostRotation(e, prior) \in Posted
  BY DEF Post, PostRotation, Posted, Sources

ContinueTypes ==
  /\ sub' \in Endpoints \cup {NULL}
  /\ page' \in {"closed", "idle", "subscribed", "error", "denied", "dismissed"}
  /\ prompt' \in {"none", "shown"}
  /\ queue' \in Endpoints \cup {NULL}
  /\ doing' \in {"nothing", "subscribe", "unsubscribe"}

LEMMA ContinueType ==
  ASSUME BrowserType, NEW c, NEW r, Continue(c, r), c.ep \in Endpoints \cup {NULL}
  PROVE  ContinueTypes
  BY DEF BrowserType, TypeOK, Continue, ContinueTypes, IsOpen

\* What is left to show when the server's part is done.
BrowserPart ==
  /\ sub \in Endpoints \cup {NULL} /\ last \in Endpoints \cup {0}
  /\ permission \in {"default", "granted", "denied"}
  /\ page \in {"closed", "idle", "subscribed", "error", "denied", "dismissed"}
  /\ prompt \in {"none", "shown"}
  /\ dismissed \in BOOLEAN /\ timer \in BOOLEAN /\ throttled \in BOOLEAN
  /\ queue \in Endpoints \cup {NULL}
  /\ doing \in {"nothing", "subscribe", "unsubscribe"}
  /\ calls \subseteq Posted
  /\ wish \in {"none", "in", "out"}
  /\ InOrder

LEMMA Parts == BrowserType <=> ServerTypeOK /\ BrowserPart
  BY DEF BrowserType, TypeOK, BrowserPart

\* A fresh endpoint is the next one.
LEMMA FreshType ==
  ASSUME BrowserPart, Fresh \in Endpoints, last' = Fresh
  PROVE  last' \in Endpoints /\ InOrder'
<1>1. last \in Nat
  BY BrowserAssumption DEF BrowserPart
<1>2. 1..last' \subseteq (1..last) \cup {last + 1}
  BY <1>1 DEF Fresh
<1> QED  BY <1>2 DEF BrowserPart, InOrder, Fresh

LEMMA VisitTypes ==
  ASSUME BrowserPart, Visit \/ Dismiss \/ Unsubscribe \/ Block
  PROVE  BrowserPart'
<1> USE DEF BrowserPart
<1>1. CASE OpenPage
  <2>1. FlushCalls \subseteq Posted
    BY PostType DEF FlushCalls, Post, Posted, Sources
  <2>2. timer' \in BOOLEAN /\ throttled' \in BOOLEAN
    BY <1>1 DEF OpenPage
  <2> QED  BY <1>1, <2>1, <2>2 DEF OpenPage, InOrder
<1>2. CASE ClosePage
  BY <1>2 DEF ClosePage, storage, InOrder
<1>3. CASE SyncTimer
  <2>1. calls' \subseteq Posted
    <3>1. sub # NULL => Post("resubscribe", sub, "sync") \in Posted
      BY PostType DEF Sources
    <3> QED  BY <1>3, <3>1 DEF SyncTimer
  <2> QED  BY <1>3, <2>1 DEF SyncTimer, storage, InOrder
<1>4. CASE ThrottleExpires
  BY <1>4 DEF ThrottleExpires, pageVars, InOrder
<1>5. CASE Dismiss
  BY <1>5 DEF Dismiss, InOrder
<1>6. CASE Unsubscribe
  <2>1. calls' \subseteq Posted
    <3>1. sub # NULL => Post("unsubscribe", sub, "unsubscribe") \in Posted
      BY PostType DEF Sources
    <3> QED  BY <1>6, <3>1 DEF Unsubscribe
  <2> QED  BY <1>6, <2>1 DEF Unsubscribe, Gesture, Forgets, InOrder
<1>7. CASE Block
  BY <1>7 DEF Block, Gesture, pageVars, storage, InOrder
<1> QED  BY <1>1, <1>2, <1>3, <1>4, <1>5, <1>6, <1>7 DEF Visit

LEMMA SubscribeTypes ==
  ASSUME BrowserPart, Subscribe
  PROVE  BrowserPart'
<1>0. UNCHANGED <<timer, dismissed, throttled, queue>> /\ wish' = "in"
  BY DEF Subscribe, Gesture, storage
<1>1. CASE permission' = "granted"
  <2>1. /\ Reuses \/ Fresh \in Endpoints
        /\ sub' = IF Reuses THEN sub ELSE Fresh
        /\ last' = IF Reuses THEN last ELSE Fresh
        /\ doing' = "subscribe" /\ calls' = calls \cup {Post("subscribe", sub', "subscribe")}
        /\ UNCHANGED <<page, prompt>>
    BY <1>1 DEF Subscribe
  <2>2. sub' \in Endpoints /\ last' \in Endpoints \cup {0} /\ InOrder'
    <3>1. CASE Reuses
      BY <2>1, <3>1 DEF BrowserPart, Reuses, InOrder
    <3>2. CASE ~Reuses
      BY <2>1, <3>2, FreshType
    <3> QED  BY <3>1, <3>2
  <2>3. calls' \subseteq Posted
    BY <2>1, <2>2, PostType DEF BrowserPart, Sources
  <2> QED  BY <1>0, <1>1, <2>1, <2>2, <2>3 DEF BrowserPart
<1>2. CASE permission' # "granted"
  <2>1. permission' = "denied" /\ page' = "denied" /\ prompt' = "none" /\ UNCHANGED <<sub, last, doing, calls>>
    BY <1>2 DEF Subscribe
  <2> QED  BY <1>0, <2>1 DEF BrowserPart, InOrder
<1> QED  BY <1>1, <1>2

LEMMA NetworkTypes ==
  ASSUME BrowserType, Network \/ RotateEndpoint \/ PanelUnsubscribes
  PROVE  BrowserPart'
<1>0. BrowserPart /\ web \in Requests
  BY Parts DEF BrowserType, TypeOK, ServerTypeOK
<1>h. ASSUME UNCHANGED Unheard, calls' \subseteq calls, NEW c, c.ep \in Endpoints \cup {NULL}, NEW r, Continue(c, r)
      PROVE  BrowserPart'
  <2>1. ContinueTypes
    BY <1>h, ContinueType
  <2>2. InOrder'
    BY <1>0, <1>h DEF BrowserPart, InOrder, Unheard
  <2> QED  BY <1>0, <1>h, <2>1, <2>2 DEF BrowserPart, ContinueTypes, Unheard
<1>1. ASSUME NEW c, Deliver(c) PROVE BrowserPart'
  BY <1>0, <1>1 DEF Deliver, BrowserPart, pageVars, storage, InOrder
<1>2. ASSUME NEW c, LoseRequest(c) PROVE BrowserPart'
  <2>1. c.ep \in Endpoints
    BY <1>0, <1>2 DEF LoseRequest, BrowserPart, Posted
  <2> QED  BY <1>h, <1>2, <2>1 DEF LoseRequest
<1>3. CASE DeliverAnswer \/ LoseAnswer
  <2>1. web.call.ep \in Endpoints \cup {NULL}
    BY <1>0 DEF Requests, Calls
  <2> QED  BY <1>h, <1>3, <2>1 DEF DeliverAnswer, LoseAnswer
<1>4. CASE RotateEndpoint
  <2>1. sub \in Endpoints /\ sub' = Fresh /\ last' = Fresh /\ Fresh \in Endpoints
        /\ UNCHANGED <<permission, pageVars, storage, wish>>
    BY <1>0, <1>4 DEF RotateEndpoint, BrowserPart
  <2>2. calls' \subseteq Posted
    <3>1. PostRotation(Fresh, sub) \in Posted /\ PostRotation(Fresh, NULL) \in Posted
      BY <2>1, PostType DEF Sources
    <3>2. PICK told \in {{PostRotation(Fresh, sub)}, {PostRotation(Fresh, NULL)}, {}} : calls' = calls \cup told
      BY <1>4 DEF RotateEndpoint
    <3> QED  BY <1>0, <3>1, <3>2 DEF BrowserPart
  <2> QED  BY <1>0, <2>1, <2>2, FreshType DEF BrowserPart, pageVars, storage
<1>5. CASE PanelUnsubscribes
  BY <1>0, <1>5 DEF PanelUnsubscribes, BrowserPart, pageVars, storage, InOrder
<1> QED  BY <1>1, <1>2, <1>3, <1>4, <1>5 DEF Network, DeliverFrom

LEMMA BrowserStep ==
  ASSUME BrowserType, [Next]_vars
  PROVE  BrowserPart'
<1>1. BrowserPart
  BY Parts
<1>2. CASE UNCHANGED browserVars
  BY <1>1, <1>2 DEF browserVars, pageVars, storage, BrowserPart, InOrder
<1> QED  BY <1>1, <1>2, VisitTypes, SubscribeTypes, NetworkTypes DEF Next, Visitor, vars

-----------------------------------------------------------------------------
(* What holds of the server holds of the whole.                            *)

SiteInductive == BrowserType /\ CountInvariant /\ ReviveInvariant

LEMMA SiteInit == Init => SiteInductive
  BY BrowserInit, CountInit, ReviveInit DEF Init, SiteInductive

LEMMA SiteNext == SiteInductive /\ [Next]_vars => SiteInductive'
<1> SUFFICES ASSUME SiteInductive, [Next]_vars PROVE SiteInductive'
  OBVIOUS
<1>1. [ServerNext]_serverVars /\ BrowserPart'
  BY ServerSees, BrowserStep DEF SiteInductive
<1>2. CountInvariant' /\ ReviveInvariant'
  BY <1>1, CountNext, ReviveNext DEF SiteInductive
<1>3. ServerTypeOK'
  BY <1>2 DEF CountInvariant, TypeInvariant
<1>4. BrowserType'
  BY <1>1, <1>3 DEF BrowserType, BrowserPart, TypeOK
<1> QED  BY <1>2, <1>4 DEF SiteInductive

\* Types, and the count: at rest it is the number of active subscribers,
\* whatever the visitor, the network, the panel and the worker have done.
THEOREM SiteIsCounted == Spec => []SiteInvariant
<1>1. SiteInductive => SiteInvariant
  BY CountRests DEF SiteInductive, SiteInvariant, BrowserType
<1> QED  BY <1>1, SiteInit, SiteNext, PTL DEF Spec

\* A visitor who left is revived by nothing but his own subscribe, or by the
\* rotation of another active row onto his endpoint.
THEOREM VisitorsStayOut == Spec => OnlySubscribeRevives
<1>1. SiteInductive /\ [Next]_vars =>
        [\A e \in Endpoints :
           Dead(e) /\ e \notin active /\ e \in active'
           => web.call.op = "subscribe" \/ (At("rotating") /\ was \in active)]_serverVars
  <2> SUFFICES ASSUME SiteInductive, [Next]_vars, ~UNCHANGED serverVars
               PROVE  \A e \in Endpoints :
                        Dead(e) /\ e \notin active /\ e \in active'
                        => web.call.op = "subscribe" \/ (At("rotating") /\ was \in active)
    OBVIOUS
  <2>1. ServerNext
    BY ServerSees DEF SiteInductive
  <2> QED  BY <2>1, Revival DEF SiteInductive
<1> QED  BY <1>1, SiteInit, SiteNext, PTL DEF Spec, OnlySubscribeRevives

=============================================================================
