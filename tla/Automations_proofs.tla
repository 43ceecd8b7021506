-------------------------- MODULE Automations_proofs --------------------------
(***************************************************************************)
(* Theorems about the automation runner for every set of workers and       *)
(* automations, every configuration and every bound.                       *)
(***************************************************************************)
EXTENDS Automations, TLAPS

-----------------------------------------------------------------------------
(* Types.                                                                  *)

\* A worker has an automation while it runs one, whose cursor it could read;
\* a request has one as long as there is a request.  Rows never un-exist.
Shape ==
  /\ \A w \in Workers :
       /\ stage[w] \in {"idle", "claiming"} => at[w] = NULL
       /\ stage[w] \notin {"idle", "claiming"} => at[w] \in Automations
       /\ at[w] \in Automations => status[at[w]] # "none"
       /\ stage[w] = "handling" => Parses(snapshot[w][at[w]].cursor)
       /\ \A a \in queue[w] : status[a] # "none"
  /\ request # NoRequest =>
       /\ request.op # "none"
       /\ request.id \in Automations
       /\ status[request.id] # "none"

TypeInvariant == TypeOK /\ Shape

RowTypes ==
  /\ config \in [Automations -> Configs]
  /\ status \in [Automations -> {"none", "active", "paused", "gone"}]
  /\ due \in [Automations -> Nat \cup {NULL}]
  /\ cursor \in [Automations -> Items \cup {0}]
  /\ fails \in [Automations -> Nat]
  /\ seen \in [Automations -> Stamps \cup {0}]
SourceTypes ==
  /\ newest \in [Automations -> Items \cup {0}]
  /\ answer \in [Automations -> [hops : Nat, up : BOOLEAN]]
Saved == [cursor : Items \cup {0}, fails : Nat]
WorkerTypes ==
  /\ stage \in [Workers -> Stages]
  /\ queue \in [Workers -> SUBSET Automations]
  /\ snapshot \in [Workers -> [Automations -> Saved]]
  /\ at \in [Workers -> Automations \cup {NULL}]
  /\ item \in [Workers -> Items \cup {0}]
  /\ left \in [Workers -> Nat]
  /\ outcome \in [Workers -> {"ok", "error"}]
  /\ age \in [Workers -> 0..MaxRun]
Requests == [op : Ops, id : Automations \cup {NULL}, was : {"none", "active", "paused"}, stamp : Stamps \cup {0}]
BudgetTypes == requests \in Nat /\ changes \in Nat /\ faults \in Nat
ObserverTypes ==
  /\ pushed \in [Automations -> Items \cup {0}]
  /\ excused \in [Automations -> BOOLEAN]
  /\ rearmed \in [Automations -> BOOLEAN]
  /\ waiting \in [Automations -> BOOLEAN]

LEMMA TypeParts ==
  TypeOK <=> RowTypes /\ SourceTypes /\ WorkerTypes /\ request \in Requests /\ BudgetTypes /\ ObserverTypes
  BY DEF TypeOK, RowTypes, SourceTypes, WorkerTypes, Requests, BudgetTypes, ObserverTypes, Saved

LEMMA Unchanging ==
  /\ RowTypes /\ UNCHANGED row => RowTypes'
  /\ SourceTypes /\ UNCHANGED source => SourceTypes'
  /\ BudgetTypes /\ UNCHANGED budget => BudgetTypes'
  /\ ObserverTypes /\ UNCHANGED observer => ObserverTypes'
  /\ WorkerTypes /\ UNCHANGED worker => WorkerTypes'
  BY DEF RowTypes, SourceTypes, BudgetTypes, ObserverTypes, WorkerTypes, row, source, budget, observer, worker

LEMMA BlankType == Blank \in [Automations -> Saved]
  BY DEF Blank, Saved

LEMMA NoRequestType == NoRequest \in Requests
  BY DEF NoRequest, Requests, Ops

LEMMA TypeInit == Init => TypeInvariant
<1> SUFFICES ASSUME Init PROVE TypeInvariant
  OBVIOUS
<1> USE AutomationAssumption
<1>1. RowTypes
  <2>1. due \in [Automations -> Nat \cup {NULL}] /\ status \in [Automations -> {"none", "active", "paused", "gone"}]
    BY DEF Init, FirstRun
  <2> QED  BY <2>1 DEF Init, RowTypes
<1>2. SourceTypes /\ BudgetTypes /\ ObserverTypes
  BY DEF Init, SourceTypes, BudgetTypes, ObserverTypes
<1>3. WorkerTypes
  BY BlankType DEF Init, WorkerTypes, Stages
<1>4. request \in Requests
  BY NoRequestType DEF Init
<1>5. Shape
  BY DEF Init, Shape
<1> QED  BY <1>1, <1>2, <1>3, <1>4, <1>5, TypeParts DEF TypeInvariant

LEMMA LeftType ==
  ASSUME WorkerTypes, NEW w \in Workers, NEW d \in Nat
  PROVE  Left(w, d) \in Nat
  BY AutomationAssumption DEF WorkerTypes, Left

LEMMA UnselectType ==
  ASSUME WorkerTypes, NEW a
  PROVE  /\ Unselect(a) \in [Workers -> SUBSET Automations]
         /\ \A w \in Workers : Unselect(a)[w] = queue[w] \ {a}
  BY DEF WorkerTypes, Unselect

LEMMA GotoType ==
  ASSUME WorkerTypes, NEW w \in Workers, NEW s \in Stages, Goto(w, s)
  PROVE  stage' \in [Workers -> Stages] /\ stage'[w] = s /\ \A v \in Workers \ {w} : stage'[v] = stage[v]
  BY DEF WorkerTypes, Goto

LEMMA ConcludeType ==
  ASSUME WorkerTypes, NEW w \in Workers, NEW o \in {"ok", "error"}, Conclude(w, o)
  PROVE  /\ stage' \in [Workers -> Stages] /\ stage'[w] = "booking" /\ \A v \in Workers \ {w} : stage'[v] = stage[v]
         /\ outcome' \in [Workers -> {"ok", "error"}]
  BY DEF WorkerTypes, Conclude, Goto, Stages

\* A flag of an automation.
LEMMA FlagType ==
  ASSUME NEW f \in [Automations -> BOOLEAN], NEW a \in Automations, NEW b \in BOOLEAN
  PROVE  [f EXCEPT ![a] = b] \in [Automations -> BOOLEAN]
  OBVIOUS

LEMMA TypesAgain ==
  ASSUME RowTypes', SourceTypes', WorkerTypes', request' \in Requests, BudgetTypes', ObserverTypes', Shape'
  PROVE  TypeInvariant'
  BY DEF TypeInvariant, TypeOK, RowTypes, SourceTypes, WorkerTypes, Requests, BudgetTypes, ObserverTypes, Saved

LEMMA TypesNow ==
  ASSUME TypeInvariant
  PROVE  RowTypes /\ SourceTypes /\ WorkerTypes /\ request \in Requests /\ BudgetTypes /\ ObserverTypes /\ Shape
  BY TypeParts DEF TypeInvariant

LEMMA SelectType ==
  ASSUME TypeInvariant, NEW w \in Workers, Select(w)
  PROVE  TypeInvariant'
<1> USE AutomationAssumption
<1>1. RowTypes /\ SourceTypes /\ WorkerTypes /\ request \in Requests /\ BudgetTypes /\ ObserverTypes /\ Shape
  BY TypesNow
<1>2. RowTypes' /\ SourceTypes' /\ BudgetTypes' /\ ObserverTypes' /\ request' \in Requests
  BY <1>1, Unchanging DEF Select
<1>3. FirstOf(Due) \subseteq Automations /\ \A a \in FirstOf(Due) : status[a] = "active"
  BY DEF FirstOf, Due
<1>4. /\ stage' \in [Workers -> Stages]
      /\ stage'[w] = "claiming" /\ \A v \in Workers \ {w} : stage'[v] = stage[v]
  BY <1>1, GotoType DEF Select, Stages
<1>5. [a \in Automations |-> IF a \in FirstOf(Due) THEN [cursor |-> cursor[a], fails |-> fails[a]] ELSE Blank[a]]
        \in [Automations -> Saved]
  BY <1>1, BlankType DEF RowTypes, Saved
<1>6. snapshot' \in [Workers -> [Automations -> Saved]] /\ \A v \in Workers \ {w} : snapshot'[v] = snapshot[v]
  BY <1>1, <1>5 DEF Select, WorkerTypes
<1>7. /\ queue' \in [Workers -> SUBSET Automations]
      /\ queue'[w] = FirstOf(Due) /\ \A v \in Workers \ {w} : queue'[v] = queue[v]
  BY <1>1, <1>3 DEF Select, WorkerTypes
<1>8. WorkerTypes'
  BY <1>1, <1>4, <1>6, <1>7 DEF Select, WorkerTypes
<1>9. Shape'
  <2>1. UNCHANGED <<at, status, request>> /\ stage[w] = "idle"
    BY DEF Select, row
  <2> QED  BY <1>1, <1>3, <1>4, <1>6, <1>7, <2>1 DEF Shape
<1> QED  BY <1>1, <1>2, <1>8, <1>9, TypesAgain

LEMMA ClaimType ==
  ASSUME TypeInvariant, NEW w \in Workers, Claim(w)
  PROVE  TypeInvariant'
<1> USE AutomationAssumption
<1>1. RowTypes /\ SourceTypes /\ WorkerTypes /\ request \in Requests /\ BudgetTypes /\ ObserverTypes /\ Shape
  BY TypesNow
<1>2. SourceTypes' /\ BudgetTypes' /\ request' \in Requests
  BY <1>1, Unchanging DEF Claim
<1>3. PICK a \in queue[w] :
       IF status[a] = "active"
       THEN /\ due' = [due EXCEPT ![a] = Sentinel(w)]
            /\ queue' = Unselect(a)
            /\ at' = [at EXCEPT ![w] = a]
            /\ waiting' = [waiting EXCEPT ![a] = FALSE]
            /\ excused' = [excused EXCEPT ![a] = @ \/ Running(a) # {}]
            /\ IF Parses(snapshot[w][a].cursor)
               THEN Goto(w, "handling") /\ UNCHANGED outcome
               ELSE Conclude(w, "error")
       ELSE /\ queue' = [queue EXCEPT ![w] = @ \ {a}]
            /\ UNCHANGED <<due, at, waiting, excused, stage, outcome>>
  BY DEF Claim
<1>4. a \in Automations
  BY <1>1 DEF WorkerTypes
<1>5. CASE status[a] = "active"
  <2>1. Sentinel(w) \in Nat
    BY <1>1, LeftType DEF Sentinel
  <2>2. RowTypes'
    BY <1>1, <1>3, <1>4, <1>5, <2>1 DEF RowTypes, Claim
  <2>3. ObserverTypes'
    <3> DEFINE b == excused[a] \/ Running(a) # {}
    <3>1. b \in BOOLEAN
      OBVIOUS
    <3>2. excused' = [excused EXCEPT ![a] = b] /\ waiting' = [waiting EXCEPT ![a] = FALSE]
      BY <1>3, <1>4, <1>5, <1>1 DEF ObserverTypes
    <3> HIDE DEF b
    <3>3. excused' \in [Automations -> BOOLEAN] /\ waiting' \in [Automations -> BOOLEAN]
      BY <1>1, <1>4, <3>1, <3>2, FlagType DEF ObserverTypes
    <3> QED  BY <1>1, <3>3 DEF ObserverTypes, Claim
  <2>4. /\ queue' \in [Workers -> SUBSET Automations]
        /\ \A v \in Workers : queue'[v] = queue[v] \ {a}
    BY <1>1, <1>3, <1>5, UnselectType
  <2>5. at' \in [Workers -> Automations \cup {NULL}] /\ at'[w] = a /\ \A v \in Workers \ {w} : at'[v] = at[v]
    BY <1>1, <1>3, <1>4, <1>5 DEF WorkerTypes
  <2>6. /\ stage' \in [Workers -> Stages] /\ outcome' \in [Workers -> {"ok", "error"}]
        /\ stage'[w] \in {"handling", "booking"} /\ \A v \in Workers \ {w} : stage'[v] = stage[v]
        /\ stage'[w] = "handling" => Parses(snapshot[w][a].cursor)
    <3>1. CASE Parses(snapshot[w][a].cursor)
      <4>1. Goto(w, "handling") /\ UNCHANGED outcome
        BY <1>3, <1>5, <3>1
      <4>2. stage' \in [Workers -> Stages] /\ stage'[w] = "handling" /\ \A v \in Workers \ {w} : stage'[v] = stage[v]
        BY <1>1, <4>1, GotoType DEF Stages
      <4> QED  BY <1>1, <3>1, <4>1, <4>2 DEF WorkerTypes
    <3>2. CASE ~Parses(snapshot[w][a].cursor)
      <4>1. Conclude(w, "error")
        BY <1>3, <1>5, <3>2
      <4> QED  BY <1>1, <4>1, ConcludeType
    <3> QED  BY <3>1, <3>2
  <2>7. WorkerTypes'
    BY <1>1, <2>4, <2>5, <2>6 DEF WorkerTypes, Claim
  <2>8. Shape'
    <3>1. UNCHANGED <<status, request, snapshot>>
      BY DEF Claim
    <3> QED  BY <1>1, <1>4, <1>5, <2>4, <2>5, <2>6, <3>1 DEF Shape
  <2> QED  BY <1>2, <2>2, <2>3, <2>7, <2>8, TypesAgain
<1>6. CASE status[a] # "active"
  <2>1. RowTypes' /\ ObserverTypes'
    BY <1>1, <1>3, <1>6, Unchanging DEF Claim, row, observer
  <2>2. /\ queue' \in [Workers -> SUBSET Automations]
        /\ \A v \in Workers : queue'[v] \subseteq queue[v]
    <3>1. queue' = [queue EXCEPT ![w] = queue[w] \ {a}] /\ queue[w] \ {a} \subseteq Automations
      BY <1>1, <1>3, <1>6 DEF WorkerTypes
    <3> QED  BY <1>1, <3>1 DEF WorkerTypes
  <2>3. UNCHANGED <<stage, at, status, request, outcome, snapshot, item, left, age>>
    BY <1>3, <1>6 DEF Claim
  <2>4. WorkerTypes'
    BY <1>1, <2>2, <2>3 DEF WorkerTypes
  <2>5. Shape'
    BY <1>1, <2>2, <2>3 DEF Shape
  <2> QED  BY <1>2, <2>1, <2>4, <2>5, TypesAgain
<1> QED  BY <1>5, <1>6

LEMMA FinishType ==
  ASSUME TypeInvariant, NEW w \in Workers, Finish(w)
  PROVE  TypeInvariant'
<1> USE AutomationAssumption
<1>1. RowTypes /\ SourceTypes /\ WorkerTypes /\ request \in Requests /\ BudgetTypes /\ ObserverTypes /\ Shape
  BY TypesNow
<1>2. RowTypes' /\ SourceTypes' /\ BudgetTypes' /\ ObserverTypes' /\ request' \in Requests
  BY <1>1, Unchanging DEF Finish
<1>3. /\ stage' \in [Workers -> Stages]
      /\ stage'[w] = "idle" /\ \A v \in Workers \ {w} : stage'[v] = stage[v]
  BY <1>1, GotoType DEF Finish, Stages
<1>4. snapshot' \in [Workers -> [Automations -> Saved]] /\ \A v \in Workers \ {w} : snapshot'[v] = snapshot[v]
  BY <1>1, BlankType DEF Finish, WorkerTypes
<1>5. WorkerTypes'
  BY <1>1, <1>3, <1>4 DEF Finish, WorkerTypes
<1>6. Shape'
  <2>1. UNCHANGED <<at, status, request, queue>> /\ at[w] = NULL
    BY DEF Finish, row
  <2> QED  BY <1>1, <1>3, <1>4, <2>1 DEF Shape
<1> QED  BY <1>1, <1>2, <1>5, <1>6, TypesAgain

LEMMA SnapshotType ==
  ASSUME WorkerTypes, NEW w \in Workers, NEW a \in Automations
  PROVE  snapshot[w][a] \in Saved
  BY DEF WorkerTypes

LEMMA HandleType ==
  ASSUME TypeInvariant, NEW w \in Workers, Handle(w)
  PROVE  TypeInvariant'
<1> USE AutomationAssumption
<1>1. RowTypes /\ SourceTypes /\ WorkerTypes /\ request \in Requests /\ BudgetTypes /\ ObserverTypes /\ Shape
  BY TypesNow
<1>2. RowTypes' /\ SourceTypes' /\ BudgetTypes' /\ ObserverTypes' /\ request' \in Requests
  BY <1>1, Unchanging DEF Handle
<1> DEFINE a == at[w]
           c == snapshot[w][a].cursor
<1>3. /\ a \in Automations /\ c \in Items \cup {0} /\ Parses(c) /\ status[a] # "none"
      /\ config[a].list \in Nat /\ config[a].steps \in Nat /\ newest[a] \in Items \cup {0}
  <2>1. a \in Automations /\ Parses(c) /\ status[a] # "none"
    BY <1>1 DEF Shape, Handle, Stages
  <2>2. snapshot[w][a] \in Saved /\ config[a] \in Configs /\ newest[a] \in Items \cup {0}
    <3>1. snapshot[w][a] \in Saved
      BY <1>1, <2>1, SnapshotType
    <3>2. config[a] \in Configs
      BY <1>1, <2>1 DEF RowTypes
    <3>3. newest[a] \in Items \cup {0}
      BY <1>1, <2>1 DEF SourceTypes
    <3> QED  BY <3>1, <3>2, <3>3
  <2>3. config[a] \in [type : Kinds, list : Nat, steps : Nat, site : BOOLEAN]
    BY <2>2
  <2> QED  BY <2>1, <2>2, <2>3 DEF Saved
<1>4. LatestItem(a, c) \in Items \cup {0} /\ PickStaticPost(a, c) \in Items \cup {0}
  BY <1>3, TurnAssumption DEF LatestItem, PickStaticPost, Parses
<1>5. UNCHANGED <<queue, snapshot, at, age, status, request>> /\ stage[w] = "handling"
  BY DEF Handle, row
<1>6. \/ Goto(w, "pushing") /\ UNCHANGED outcome
      \/ Conclude(w, "error")
      \/ Conclude(w, "ok")
  BY DEF Handle
<1>7. /\ stage' \in [Workers -> Stages] /\ outcome' \in [Workers -> {"ok", "error"}]
      /\ stage'[w] \in {"pushing", "booking"} /\ \A v \in Workers \ {w} : stage'[v] = stage[v]
  <2>1. CASE Goto(w, "pushing") /\ UNCHANGED outcome
    <3>1. stage' \in [Workers -> Stages] /\ stage'[w] = "pushing" /\ \A v \in Workers \ {w} : stage'[v] = stage[v]
      BY <1>1, <2>1, GotoType DEF Stages
    <3> QED  BY <1>1, <2>1, <3>1 DEF WorkerTypes
  <2>2. CASE Conclude(w, "error")
    BY <1>1, <2>2, ConcludeType
  <2>3. CASE Conclude(w, "ok")
    BY <1>1, <2>3, ConcludeType
  <2> QED  BY <1>6, <2>1, <2>2, <2>3
<1>8. item' \in [Workers -> Items \cup {0}] /\ left' \in [Workers -> Nat]
  <2>1. \/ UNCHANGED item
        \/ item' = [item EXCEPT ![w] = LatestItem(a, c)]
        \/ item' = [item EXCEPT ![w] = PickStaticPost(a, c)]
    BY DEF Handle
  <2>2. UNCHANGED left \/ left' = [left EXCEPT ![w] = config[a].steps]
    BY DEF Handle
  <2> HIDE DEF a, c
  <2> QED  BY <1>1, <1>3, <1>4, <2>1, <2>2 DEF WorkerTypes
<1>9. WorkerTypes'
  BY <1>1, <1>5, <1>7, <1>8 DEF WorkerTypes
<1>10. Shape'
  BY <1>1, <1>3, <1>5, <1>7 DEF Shape
<1> QED  BY <1>1, <1>2, <1>9, <1>10, TypesAgain

LEMMA EnqueueType ==
  ASSUME TypeInvariant, NEW w \in Workers, Enqueue(w)
  PROVE  TypeInvariant'
<1> USE AutomationAssumption
<1>1. RowTypes /\ SourceTypes /\ WorkerTypes /\ request \in Requests /\ BudgetTypes /\ ObserverTypes /\ Shape
  BY TypesNow
<1>2. RowTypes' /\ SourceTypes' /\ BudgetTypes' /\ request' \in Requests
  BY <1>1, Unchanging DEF Enqueue
<1> DEFINE a == at[w]
<1>3. a \in Automations /\ status[a] # "none" /\ item[w] \in Items \cup {0} /\ left[w] \in Nat
  BY <1>1 DEF Shape, WorkerTypes, Enqueue
<1>4. ObserverTypes'
  <2> HIDE DEF a
  <2>1. pushed' = [pushed EXCEPT ![a] = IF a \in Cursored THEN item[w] ELSE pushed[a]]
    BY <1>1, <1>3 DEF Enqueue, a, ObserverTypes
  <2>2. pushed' \in [Automations -> Items \cup {0}]
    BY <1>1, <1>3, <2>1 DEF ObserverTypes
  <2> QED  BY <1>1, <2>2 DEF ObserverTypes, Enqueue
<1>5. UNCHANGED <<queue, snapshot, at, item, age, status, request>> /\ stage[w] = "pushing"
  BY DEF Enqueue, row
<1>6. \/ Goto(w, "saving") /\ UNCHANGED outcome
      \/ UNCHANGED <<stage, outcome>>
      \/ Conclude(w, "ok")
  BY DEF Enqueue
<1>7. /\ stage' \in [Workers -> Stages] /\ outcome' \in [Workers -> {"ok", "error"}]
      /\ stage'[w] \in {"pushing", "saving", "booking"} /\ \A v \in Workers \ {w} : stage'[v] = stage[v]
  <2>1. CASE Goto(w, "saving") /\ UNCHANGED outcome
    <3>1. stage' \in [Workers -> Stages] /\ stage'[w] = "saving" /\ \A v \in Workers \ {w} : stage'[v] = stage[v]
      BY <1>1, <2>1, GotoType DEF Stages
    <3> QED  BY <1>1, <2>1, <3>1 DEF WorkerTypes
  <2>2. CASE UNCHANGED <<stage, outcome>>
    BY <1>1, <1>5, <2>2 DEF WorkerTypes
  <2>3. CASE Conclude(w, "ok")
    BY <1>1, <2>3, ConcludeType
  <2> QED  BY <1>6, <2>1, <2>2, <2>3
<1>8. left' \in [Workers -> Nat]
  <2>1. left' = [left EXCEPT ![w] = IF left[w] > 0 THEN left[w] - 1 ELSE 0]
    BY <1>1 DEF Enqueue, WorkerTypes
  <2> QED  BY <1>1, <1>3, <2>1 DEF WorkerTypes
<1>9. WorkerTypes'
  BY <1>1, <1>5, <1>7, <1>8 DEF WorkerTypes
<1>10. Shape'
  BY <1>1, <1>3, <1>5, <1>7 DEF Shape
<1> QED  BY <1>1, <1>2, <1>4, <1>9, <1>10, TypesAgain

LEMMA EnqueueRefusedType ==
  ASSUME TypeInvariant, NEW w \in Workers, EnqueueRefused(w)
  PROVE  TypeInvariant'
<1> USE AutomationAssumption
<1>1. RowTypes /\ SourceTypes /\ WorkerTypes /\ request \in Requests /\ BudgetTypes /\ ObserverTypes /\ Shape
  BY TypesNow
<1>2. RowTypes' /\ SourceTypes' /\ ObserverTypes' /\ request' \in Requests
  BY <1>1, Unchanging DEF EnqueueRefused
<1>3. BudgetTypes'
  BY <1>1 DEF EnqueueRefused, BudgetTypes, budget
<1>4. UNCHANGED <<queue, snapshot, at, item, age, status, request>> /\ stage[w] = "pushing"
  BY DEF EnqueueRefused, row
<1>5. /\ stage' \in [Workers -> Stages] /\ outcome' \in [Workers -> {"ok", "error"}]
      /\ stage'[w] = "booking" /\ \A v \in Workers \ {w} : stage'[v] = stage[v]
  BY <1>1, ConcludeType DEF EnqueueRefused
<1>6. WorkerTypes'
  BY <1>1, <1>4, <1>5 DEF WorkerTypes, EnqueueRefused
<1>7. Shape'
  BY <1>1, <1>4, <1>5 DEF Shape
<1> QED  BY <1>1, <1>2, <1>3, <1>6, <1>7, TypesAgain

LEMMA SaveType ==
  ASSUME TypeInvariant, NEW w \in Workers, Save(w)
  PROVE  TypeInvariant'
<1> USE AutomationAssumption
<1>1. RowTypes /\ SourceTypes /\ WorkerTypes /\ request \in Requests /\ BudgetTypes /\ ObserverTypes /\ Shape
  BY TypesNow
<1>2. SourceTypes' /\ request' \in Requests
  BY <1>1, Unchanging DEF Save
<1> DEFINE a == at[w]
<1>3. a \in Automations /\ item[w] \in Items \cup {0}
  BY <1>1 DEF Shape, WorkerTypes, Save
<1>4. cursor' = cursor \/ cursor' = [cursor EXCEPT ![a] = item[w]]
  BY DEF Save, SaveCursor
<1>5. BudgetTypes'
  BY <1>1 DEF Save, BudgetTypes, budget
<1>6. RowTypes'
  BY <1>1, <1>3, <1>4 DEF RowTypes, Save
<1>7. ObserverTypes'
  <2> DEFINE b == item[w] # pushed[a] \/ Others(w, a) # {} \/ Selected(a) # {}
  <2>1. b \in BOOLEAN
    OBVIOUS
  <2>2. excused' = [excused EXCEPT ![a] = b] \/ excused' = [excused EXCEPT ![a] = TRUE]
    BY DEF Save
  <2> HIDE DEF a, b
  <2>3. excused' \in [Automations -> BOOLEAN]
    BY <1>1, <1>3, <2>1, <2>2, FlagType DEF ObserverTypes
  <2> QED  BY <1>1, <2>3 DEF ObserverTypes, Save
<1>8. UNCHANGED <<queue, snapshot, at, item, left, age, status, request>> /\ stage[w] = "saving"
  BY DEF Save
<1>9. /\ stage' \in [Workers -> Stages] /\ outcome' \in [Workers -> {"ok", "error"}]
      /\ stage'[w] = "booking" /\ \A v \in Workers \ {w} : stage'[v] = stage[v]
  BY <1>1, ConcludeType DEF Save
<1>10. WorkerTypes'
  BY <1>1, <1>8, <1>9 DEF WorkerTypes
<1>11. Shape'
  BY <1>1, <1>8, <1>9 DEF Shape
<1> QED  BY <1>1, <1>2, <1>5, <1>6, <1>7, <1>10, <1>11, TypesAgain

LEMMA NextRunType ==
  ASSUME WorkerTypes, NEW w \in Workers
  PROVE  NextRun(w) \in Nat \cup {NULL}
  BY AutomationAssumption, LeftType DEF NextRun

LEMMA FailuresType ==
  ASSUME WorkerTypes, NEW w \in Workers, at[w] \in Automations
  PROVE  Failures(w) \in Nat
<1>1. snapshot[w][at[w]] \in Saved
  BY DEF WorkerTypes
<1> QED  BY <1>1 DEF Failures, Saved

\* A worker lets its automation go.
LEMMA ReleaseType ==
  ASSUME TypeInvariant, NEW w \in Workers, at[w] \in Automations, Release(w)
  PROVE  /\ stage' \in [Workers -> Stages] /\ stage'[w] = "claiming" /\ \A v \in Workers \ {w} : stage'[v] = stage[v]
         /\ at' \in [Workers -> Automations \cup {NULL}] /\ at'[w] = NULL /\ \A v \in Workers \ {w} : at'[v] = at[v]
         /\ item' \in [Workers -> Items \cup {0}]
         /\ outcome' \in [Workers -> {"ok", "error"}]
         /\ rearmed' \in [Automations -> BOOLEAN]
         /\ UNCHANGED <<snapshot, left, age>>
<1> USE AutomationAssumption
<1>1. RowTypes /\ SourceTypes /\ WorkerTypes /\ request \in Requests /\ BudgetTypes /\ ObserverTypes /\ Shape
  BY TypesNow
<1>2. stage' \in [Workers -> Stages] /\ stage'[w] = "claiming" /\ \A v \in Workers \ {w} : stage'[v] = stage[v]
  BY <1>1, GotoType DEF Release, Stages
<1>3. rearmed' \in [Automations -> BOOLEAN]
  <2> DEFINE a == at[w]
             b == rearmed[a] /\ Others(w, a) # {}
  <2>1. b \in BOOLEAN
    <3>1. rearmed[a] \in BOOLEAN
      BY <1>1 DEF ObserverTypes
    <3> QED  BY <3>1
  <2>2. rearmed' = [rearmed EXCEPT ![a] = b]
    BY <1>1 DEF Release, ObserverTypes
  <2>3. a \in Automations
    OBVIOUS
  <2> HIDE DEF a, b
  <2> QED  BY <1>1, <2>1, <2>2, <2>3, FlagType DEF ObserverTypes
<1> QED  BY <1>1, <1>2, <1>3 DEF Release, WorkerTypes

LEMMA BookType ==
  ASSUME TypeInvariant, NEW w \in Workers, Book(w)
  PROVE  TypeInvariant'
<1> USE AutomationAssumption
<1>1. RowTypes /\ SourceTypes /\ WorkerTypes /\ request \in Requests /\ BudgetTypes /\ ObserverTypes /\ Shape
  BY TypesNow
<1>2. SourceTypes' /\ BudgetTypes' /\ request' \in Requests
  BY <1>1, Unchanging DEF Book
<1> DEFINE a == at[w]
<1>3. a \in Automations /\ status[a] # "none" /\ stage[w] = "booking"
  BY <1>1 DEF Shape, Book
<1>4. /\ stage' \in [Workers -> Stages] /\ stage'[w] = "claiming" /\ \A v \in Workers \ {w} : stage'[v] = stage[v]
      /\ at' \in [Workers -> Automations \cup {NULL}] /\ at'[w] = NULL /\ \A v \in Workers \ {w} : at'[v] = at[v]
      /\ item' \in [Workers -> Items \cup {0}]
      /\ outcome' \in [Workers -> {"ok", "error"}]
      /\ rearmed' \in [Automations -> BOOLEAN]
      /\ UNCHANGED <<snapshot, left, age>>
  BY <1>3, ReleaseType DEF Book
<1>5. NextRun(w) \in Nat \cup {NULL} /\ Failures(w) \in Nat
  BY <1>1, <1>3, NextRunType, FailuresType
<1>6. \/ UNCHANGED <<status, due, fails, queue>>
      \/ /\ status' = [status EXCEPT ![a] = IF AutoPaused(w) THEN "paused" ELSE "active"]
         /\ due' = [due EXCEPT ![a] = IF AutoPaused(w) THEN NULL ELSE NextRun(w)]
         /\ fails' = [fails EXCEPT ![a] = Failures(w)]
         /\ queue' = Unselect(a)
  BY DEF Book
<1>7. RowTypes' /\ \A x \in Automations : status[x] # "none" => status'[x] # "none"
  <2> HIDE DEF a
  <2>1. UNCHANGED <<config, cursor, seen>>
    BY DEF Book
  <2>2. CASE UNCHANGED <<status, due, fails, queue>>
    BY <1>1, <2>1, <2>2 DEF RowTypes
  <2>3. CASE /\ status' = [status EXCEPT ![a] = IF AutoPaused(w) THEN "paused" ELSE "active"]
             /\ due' = [due EXCEPT ![a] = IF AutoPaused(w) THEN NULL ELSE NextRun(w)]
             /\ fails' = [fails EXCEPT ![a] = Failures(w)]
    BY <1>1, <1>3, <1>5, <2>1, <2>3 DEF RowTypes
  <2> QED  BY <1>6, <2>2, <2>3
<1>8. queue' \in [Workers -> SUBSET Automations] /\ \A v \in Workers : queue'[v] \subseteq queue[v]
  <2>1. Unselect(a) \in [Workers -> SUBSET Automations] /\ \A v \in Workers : Unselect(a)[v] \subseteq queue[v]
    BY <1>1, UnselectType
  <2>2. queue' = queue \/ queue' = Unselect(a)
    BY <1>6
  <2> QED  BY <1>1, <2>1, <2>2 DEF WorkerTypes
<1>9. WorkerTypes'
  BY <1>1, <1>4, <1>8 DEF WorkerTypes
<1>10. ObserverTypes'
  BY <1>1, <1>4 DEF ObserverTypes, Book
<1>11. Shape'
  <2>1. UNCHANGED request
    BY DEF Book
  <2> QED  BY <1>1, <1>4, <1>7, <1>8, <2>1 DEF Shape, WorkerTypes
<1> QED  BY <1>1, <1>2, <1>7, <1>9, <1>10, <1>11, TypesAgain

LEMMA BookFailsType ==
  ASSUME TypeInvariant, NEW w \in Workers, BookFails(w)
  PROVE  TypeInvariant'
<1> USE AutomationAssumption
<1>1. RowTypes /\ SourceTypes /\ WorkerTypes /\ request \in Requests /\ BudgetTypes /\ ObserverTypes /\ Shape
  BY TypesNow
<1>2. RowTypes' /\ SourceTypes' /\ request' \in Requests
  BY <1>1, Unchanging DEF BookFails
<1>3. at[w] \in Automations
  BY <1>1 DEF Shape, BookFails
<1>4. /\ stage' \in [Workers -> Stages] /\ stage'[w] = "claiming" /\ \A v \in Workers \ {w} : stage'[v] = stage[v]
      /\ at' \in [Workers -> Automations \cup {NULL}] /\ at'[w] = NULL /\ \A v \in Workers \ {w} : at'[v] = at[v]
      /\ item' \in [Workers -> Items \cup {0}]
      /\ outcome' \in [Workers -> {"ok", "error"}]
      /\ rearmed' \in [Automations -> BOOLEAN]
      /\ UNCHANGED <<snapshot, left, age>>
  BY <1>3, ReleaseType DEF BookFails
<1>5. BudgetTypes'
  BY <1>1 DEF BookFails, BudgetTypes
<1>6. ObserverTypes'
  <2> DEFINE b == excused[at[w]] \/ Selected(at[w]) # {}
  <2>1. b \in BOOLEAN
    OBVIOUS
  <2>2. excused' = [excused EXCEPT ![at[w]] = b]
    BY <1>1, <1>3 DEF BookFails, ObserverTypes
  <2> HIDE DEF b
  <2>3. excused' \in [Automations -> BOOLEAN]
    BY <1>1, <1>3, <2>1, <2>2, FlagType DEF ObserverTypes
  <2> QED  BY <1>1, <1>4, <2>3 DEF ObserverTypes, BookFails
<1>7. UNCHANGED <<queue, status, request>>
  BY DEF BookFails, row
<1>8. WorkerTypes'
  BY <1>1, <1>4, <1>7 DEF WorkerTypes
<1>9. Shape'
  BY <1>1, <1>4, <1>7 DEF Shape
<1> QED  BY <1>1, <1>2, <1>5, <1>6, <1>8, <1>9, TypesAgain

LEMMA CrashType ==
  ASSUME TypeInvariant, NEW w \in Workers, Crash(w)
  PROVE  TypeInvariant'
<1> USE AutomationAssumption
<1>1. RowTypes /\ SourceTypes /\ WorkerTypes /\ request \in Requests /\ BudgetTypes /\ ObserverTypes /\ Shape
  BY TypesNow
<1>2. RowTypes' /\ SourceTypes' /\ request' \in Requests
  BY <1>1, Unchanging DEF Crash
<1>3. BudgetTypes'
  BY <1>1 DEF Crash, BudgetTypes
<1>4. stage' \in [Workers -> Stages] /\ stage'[w] = "idle" /\ \A v \in Workers \ {w} : stage'[v] = stage[v]
  BY <1>1, GotoType DEF Crash, Stages
<1>5. /\ at' \in [Workers -> Automations \cup {NULL}] /\ at'[w] = NULL /\ \A v \in Workers \ {w} : at'[v] = at[v]
      /\ queue' \in [Workers -> SUBSET Automations] /\ \A v \in Workers : queue'[v] \subseteq queue[v]
      /\ snapshot' \in [Workers -> [Automations -> Saved]] /\ \A v \in Workers \ {w} : snapshot'[v] = snapshot[v]
  BY <1>1, BlankType DEF Crash, WorkerTypes
<1>6. WorkerTypes'
  <2>1. item' \in [Workers -> Items \cup {0}] /\ left' \in [Workers -> Nat]
    BY <1>1 DEF Crash, WorkerTypes
  <2>2. outcome' \in [Workers -> {"ok", "error"}] /\ age' \in [Workers -> 0..MaxRun]
    BY <1>1 DEF Crash, WorkerTypes
  <2> QED  BY <1>4, <1>5, <2>1, <2>2 DEF WorkerTypes
<1>7. ObserverTypes'
  <2>1. UNCHANGED <<pushed, waiting>>
    BY DEF Crash
  <2>2. CASE at[w] = NULL
    <3>1. UNCHANGED <<rearmed, excused>>
      BY <2>2 DEF Crash
    <3> QED  BY <1>1, <2>1, <3>1 DEF ObserverTypes
  <2>3. CASE at[w] # NULL
    <3> DEFINE a == at[w]
               r == rearmed[a] /\ Others(w, a) # {}
               e == excused[a] \/ stage[w] = "saving" \/ Selected(a) # {}
    <3>1. a \in Automations
      BY <1>1, <2>3 DEF WorkerTypes
    <3>2. r \in BOOLEAN /\ e \in BOOLEAN
      <4>1. rearmed[a] \in BOOLEAN
        BY <1>1, <3>1 DEF ObserverTypes
      <4> QED  BY <4>1
    <3>3. rearmed' = [rearmed EXCEPT ![a] = r] /\ excused' = [excused EXCEPT ![a] = e]
      BY <1>1, <2>3, <3>1 DEF Crash, ObserverTypes
    <3> HIDE DEF a, r, e
    <3>4. rearmed' \in [Automations -> BOOLEAN] /\ excused' \in [Automations -> BOOLEAN]
      BY <1>1, <3>1, <3>2, <3>3, FlagType DEF ObserverTypes
    <3> QED  BY <1>1, <2>1, <3>4 DEF ObserverTypes
  <2> QED  BY <2>2, <2>3
<1>8. Shape'
  <2>1. UNCHANGED <<status, request>>
    BY DEF Crash, row
  <2> QED  BY <1>1, <1>4, <1>5, <2>1 DEF Shape
<1> QED  BY <1>2, <1>3, <1>6, <1>7, <1>8, TypesAgain

LEMMA CreateType ==
  ASSUME TypeInvariant, NEW a \in Automations, CreateAutomation(a)
  PROVE  TypeInvariant'
<1> USE AutomationAssumption
<1>1. RowTypes /\ SourceTypes /\ WorkerTypes /\ request \in Requests /\ BudgetTypes /\ ObserverTypes /\ Shape
  BY TypesNow
<1>2. SourceTypes' /\ WorkerTypes' /\ ObserverTypes' /\ request' \in Requests
  BY <1>1, Unchanging DEF CreateAutomation
<1>3. BudgetTypes'
  BY <1>1 DEF CreateAutomation, BudgetTypes, Spend
<1>4. RowTypes' /\ \A x \in Automations : status[x] # "none" => status'[x] # "none"
  <2>1. FirstRun(a) \in Nat \cup {NULL}
    BY DEF FirstRun
  <2> QED  BY <1>1, <2>1 DEF CreateAutomation, RowTypes
<1>5. UNCHANGED <<stage, at, snapshot, queue, request>>
  BY DEF CreateAutomation, worker
<1>6. Shape'
  BY <1>1, <1>4, <1>5 DEF Shape, WorkerTypes
<1> QED  BY <1>2, <1>3, <1>4, <1>6, TypesAgain

LEMMA DeleteType ==
  ASSUME TypeInvariant, NEW a \in Automations, DeleteAutomation(a)
  PROVE  TypeInvariant'
<1> USE AutomationAssumption
<1>1. RowTypes /\ SourceTypes /\ WorkerTypes /\ request \in Requests /\ BudgetTypes /\ ObserverTypes /\ Shape
  BY TypesNow
<1>2. SourceTypes' /\ ObserverTypes' /\ request' \in Requests
  BY <1>1, Unchanging DEF DeleteAutomation
<1>3. BudgetTypes'
  BY <1>1 DEF DeleteAutomation, BudgetTypes, Spend
<1>4. RowTypes' /\ \A x \in Automations : status[x] # "none" => status'[x] # "none"
  BY <1>1 DEF DeleteAutomation, RowTypes
<1>5. queue' \in [Workers -> SUBSET Automations] /\ \A v \in Workers : queue'[v] \subseteq queue[v]
  BY <1>1, UnselectType DEF DeleteAutomation
<1>6. WorkerTypes'
  BY <1>1, <1>5 DEF DeleteAutomation, WorkerTypes
<1>7. UNCHANGED <<stage, at, snapshot, request>>
  BY DEF DeleteAutomation
<1>8. Shape'
  BY <1>1, <1>4, <1>5, <1>7 DEF Shape, WorkerTypes
<1> QED  BY <1>2, <1>3, <1>4, <1>6, <1>8, TypesAgain

LEMMA ReadType ==
  ASSUME TypeInvariant, Read
  PROVE  TypeInvariant'
<1> USE AutomationAssumption
<1>1. RowTypes /\ SourceTypes /\ WorkerTypes /\ request \in Requests /\ BudgetTypes /\ ObserverTypes /\ Shape
  BY TypesNow
<1>2. RowTypes' /\ SourceTypes' /\ WorkerTypes' /\ ObserverTypes'
  BY <1>1, Unchanging DEF Read
<1>3. BudgetTypes'
  BY <1>1 DEF Read, BudgetTypes, Spend
<1>4. PICK a \in Automations : ReadToggle(a) \/ ReadRunNow(a) \/ ReadTrigger(a)
  BY DEF Read
<1>5. \E op \in {"toggle", "run", "trigger"}, ts \in Stamps \cup {0} :
        request' = [op |-> op, id |-> a, was |-> status[a], stamp |-> ts]
  BY <1>4 DEF ReadToggle, ReadRunNow, ReadTrigger, Ask
<1>6. status[a] \in {"active", "paused"}
  BY <1>4 DEF ReadToggle, ReadRunNow, ReadTrigger, Exists
<1>7. request' \in Requests
  BY <1>5, <1>6 DEF Requests, Ops
<1>8. Shape'
  <2>1. UNCHANGED <<stage, at, snapshot, queue, status>>
    BY DEF Read, worker, row
  <2> QED  BY <1>1, <1>5, <1>6, <2>1 DEF Shape
<1> QED  BY <1>2, <1>3, <1>7, <1>8, TypesAgain

\* What an answered request wrote.
LEMMA Written ==
  ASSUME TypeInvariant, Write
  PROVE  /\ request' = NoRequest /\ request.id \in Automations
         /\ \/ UNCHANGED <<status, due, seen, queue, rearmed, waiting>>
            \/ /\ Exists(request.id)
               /\ \E d \in {0, NULL} : Arm(request.id, d)
               /\ \/ UNCHANGED status
                  \/ request.op = "toggle" /\ request.was = "active" /\ Arm(request.id, NULL)
                     /\ status' = [status EXCEPT ![request.id] = "paused"]
                  \/ request.op = "toggle" /\ request.was # "active" /\ Arm(request.id, 0)
                     /\ status' = [status EXCEPT ![request.id] = "active"]
               /\ UNCHANGED seen \/ seen' = [seen EXCEPT ![request.id] = request.stamp]
               /\ \/ UNCHANGED waiting
                  \/ waiting' = [waiting EXCEPT ![request.id] = @ \/ Running(request.id) = {}]
<1>1. request' = NoRequest /\ request.id \in Automations
  BY TypesNow DEF Shape, Write
<1>2. \/ Refused /\ UNCHANGED <<status, due, seen, queue, rearmed, waiting>>
      \/ ~Refused /\ (WriteToggle \/ WriteRunNow \/ WriteTrigger)
  BY DEF Write
<1>3. ~Refused => Exists(request.id)
  BY DEF Refused
<1>4. CASE WriteToggle /\ ~Refused
  BY <1>1, <1>3, <1>4 DEF WriteToggle
<1>5. CASE WriteRunNow /\ ~Refused
  BY <1>1, <1>3, <1>5 DEF WriteRunNow
<1>6. CASE WriteTrigger /\ ~Refused
  BY <1>1, <1>3, <1>6 DEF WriteTrigger, TriggerTime
<1> QED  BY <1>1, <1>2, <1>4, <1>5, <1>6

LEMMA WriteType ==
  ASSUME TypeInvariant, Write
  PROVE  TypeInvariant'
<1> USE AutomationAssumption
<1>1. RowTypes /\ SourceTypes /\ WorkerTypes /\ request \in Requests /\ BudgetTypes /\ ObserverTypes /\ Shape
  BY TypesNow
<1>2. SourceTypes' /\ BudgetTypes'
  BY <1>1, Unchanging DEF Write
<1>3. request' = NoRequest /\ request' \in Requests
  BY NoRequestType DEF Write
<1> DEFINE a == request.id
<1>4. a \in Automations /\ request.stamp \in Stamps \cup {0}
  BY <1>1, Written DEF Requests
<1>5. status' \in [Automations -> {"none", "active", "paused", "gone"}]
      /\ \A x \in Automations : status[x] # "none" => status'[x] # "none"
  <2>1. status' = status \/ status' = [status EXCEPT ![a] = "paused"] \/ status' = [status EXCEPT ![a] = "active"]
    BY Written
  <2> HIDE DEF a
  <2> QED  BY <1>1, <1>4, <2>1 DEF RowTypes
<1>6. due' \in [Automations -> Nat \cup {NULL}]
  <2>1. due' = due \/ \E d \in {0, NULL} : due' = [due EXCEPT ![a] = d]
    BY Written DEF Arm
  <2> HIDE DEF a
  <2> QED  BY <1>1, <1>4, <2>1 DEF RowTypes
<1>7. seen' \in [Automations -> Stamps \cup {0}]
  <2>1. seen' = seen \/ seen' = [seen EXCEPT ![a] = request.stamp]
    BY Written
  <2> HIDE DEF a
  <2> QED  BY <1>1, <1>4, <2>1 DEF RowTypes
<1>8. RowTypes'
  BY <1>1, <1>5, <1>6, <1>7 DEF RowTypes, Write
<1>9. queue' \in [Workers -> SUBSET Automations] /\ \A v \in Workers : queue'[v] \subseteq queue[v]
  <2>1. queue' = queue \/ queue' = Unselect(a)
    BY Written DEF Arm
  <2>2. Unselect(a) \in [Workers -> SUBSET Automations] /\ \A v \in Workers : Unselect(a)[v] \subseteq queue[v]
    BY <1>1, UnselectType
  <2> QED  BY <1>1, <2>1, <2>2 DEF WorkerTypes
<1>10. UNCHANGED <<stage, at, snapshot>>
  BY DEF Write
<1>11. WorkerTypes'
  BY <1>1, <1>9 DEF WorkerTypes, Write
<1>12. ObserverTypes'
  <2>1. \E b \in BOOLEAN : rearmed' = rearmed \/ rearmed' = [rearmed EXCEPT ![a] = b]
    <3>1. \A d : (rearmed[a] \/ (d = 0 /\ Running(a) # {})) \in BOOLEAN
      OBVIOUS
    <3>2. rearmed' = rearmed \/ \E d \in {0, NULL} : rearmed' = [rearmed EXCEPT ![a] = rearmed[a] \/ (d = 0 /\ Running(a) # {})]
      BY <1>1, <1>4, Written DEF Arm, ObserverTypes
    <3> HIDE DEF a
    <3> QED  BY <3>1, <3>2
  <2>2. \E b \in BOOLEAN : waiting' = waiting \/ waiting' = [waiting EXCEPT ![a] = b]
    <3>1. (waiting[a] \/ Running(a) = {}) \in BOOLEAN
      OBVIOUS
    <3>2. waiting' = waiting \/ waiting' = [waiting EXCEPT ![a] = waiting[a] \/ Running(a) = {}]
      BY <1>1, <1>4, Written DEF ObserverTypes
    <3> HIDE DEF a
    <3> QED  BY <3>1, <3>2
  <2> HIDE DEF a
  <2>3. rearmed' \in [Automations -> BOOLEAN]
    BY <1>1, <1>4, <2>1, FlagType DEF ObserverTypes
  <2>4. waiting' \in [Automations -> BOOLEAN]
    BY <1>1, <1>4, <2>2, FlagType DEF ObserverTypes
  <2> QED  BY <1>1, <2>3, <2>4 DEF ObserverTypes, Write
<1>13. Shape'
  BY <1>1, <1>3, <1>5, <1>9, <1>10 DEF Shape, WorkerTypes
<1> QED  BY <1>2, <1>3, <1>8, <1>11, <1>12, <1>13, TypesAgain

LEMMA AnswersType ==
  ASSUME NEW H, NEW U, H \subseteq Nat, U \subseteq BOOLEAN
  PROVE  [hops : H, up : U] \subseteq [hops : Nat, up : BOOLEAN]
  OBVIOUS

LEMMA PublishType ==
  ASSUME TypeInvariant, NEW a \in Automations, Publish(a)
  PROVE  TypeInvariant'
<1> USE AutomationAssumption
<1>1. RowTypes /\ SourceTypes /\ WorkerTypes /\ request \in Requests /\ BudgetTypes /\ ObserverTypes /\ Shape
  BY TypesNow
<1>2. RowTypes' /\ WorkerTypes' /\ ObserverTypes' /\ request' \in Requests
  BY <1>1, Unchanging DEF Publish
<1>3. BudgetTypes'
  BY <1>1 DEF Publish, BudgetTypes
<1>4. SourceTypes'
  <2>1. Answers \subseteq [hops : Nat, up : BOOLEAN]
    <3>1. {MaxRedirects, MaxRedirects + 1} \subseteq Nat /\ {0} \subseteq Nat
      OBVIOUS
    <3>2. {TRUE} \subseteq BOOLEAN /\ {FALSE} \subseteq BOOLEAN
      OBVIOUS
    <3>3. /\ [hops : {MaxRedirects, MaxRedirects + 1}, up : {TRUE}] \subseteq [hops : Nat, up : BOOLEAN]
          /\ [hops : {0}, up : {FALSE}] \subseteq [hops : Nat, up : BOOLEAN]
      BY <3>1, <3>2, AnswersType, Zenon
    <3> QED  BY <3>3, Zenon DEF Answers
  <2>2. CASE \E i \in Items \cup {0} : newest' = [newest EXCEPT ![a] = i] /\ UNCHANGED answer
    BY <1>1, <2>2 DEF SourceTypes
  <2>3. CASE \E r \in Answers : answer' = [answer EXCEPT ![a] = r] /\ UNCHANGED newest
    BY <1>1, <2>1, <2>3 DEF SourceTypes
  <2> QED  BY <2>2, <2>3 DEF Publish
<1>5. Shape'
  <2>1. UNCHANGED <<stage, at, snapshot, queue, status, request>>
    BY DEF Publish, worker, row
  <2> QED  BY <1>1, <2>1 DEF Shape
<1> QED  BY <1>2, <1>3, <1>4, <1>5, TypesAgain

LEMMA TickType ==
  ASSUME TypeInvariant, Tick
  PROVE  TypeInvariant'
<1> USE AutomationAssumption
<1>1. RowTypes /\ SourceTypes /\ WorkerTypes /\ request \in Requests /\ BudgetTypes /\ ObserverTypes /\ Shape
  BY TypesNow
<1>2. SourceTypes' /\ BudgetTypes' /\ ObserverTypes' /\ request' \in Requests
  BY <1>1, Unchanging DEF Tick
<1>3. due' \in [Automations -> Nat \cup {NULL}]
  BY <1>1 DEF Tick, Elapsed, RowTypes
<1>4. RowTypes'
  BY <1>1, <1>3 DEF RowTypes, Tick
<1>5. age' \in [Workers -> 0..MaxRun]
  BY <1>1 DEF Tick, WorkerTypes
<1>6. WorkerTypes'
  BY <1>1, <1>5 DEF WorkerTypes, Tick
<1>7. Shape'
  <2>1. UNCHANGED <<stage, at, snapshot, queue, status, request>>
    BY DEF Tick
  <2> QED  BY <1>1, <2>1 DEF Shape
<1> QED  BY <1>2, <1>4, <1>6, <1>7, TypesAgain

LEMMA TypeStutter == TypeInvariant /\ UNCHANGED vars => TypeInvariant'
<1> SUFFICES ASSUME TypeInvariant, UNCHANGED vars PROVE TypeInvariant'
  OBVIOUS
<1>1. RowTypes' /\ SourceTypes' /\ WorkerTypes' /\ BudgetTypes' /\ ObserverTypes' /\ request' \in Requests
  BY TypesNow, Unchanging DEF vars
<1>2. Shape'
  BY TypesNow DEF Shape, vars, row, worker
<1> QED  BY <1>1, <1>2, TypesAgain

LEMMA TypeNext == TypeInvariant /\ [Next]_vars => TypeInvariant'
<1> SUFFICES ASSUME TypeInvariant, [Next]_vars PROVE TypeInvariant'
  OBVIOUS
<1>1. CASE \E w \in Workers : WorkerStep(w)
  BY <1>1, SelectType, ClaimType, FinishType, HandleType, EnqueueType, SaveType, BookType DEF WorkerStep
<1>2. CASE \E w \in Workers : WorkerFault(w)
  BY <1>2, EnqueueRefusedType, BookFailsType, CrashType DEF WorkerFault
<1>3. CASE \E a \in Automations : CreateAutomation(a) \/ DeleteAutomation(a) \/ Publish(a)
  BY <1>3, CreateType, DeleteType, PublishType
<1>4. CASE Read \/ Write \/ Tick
  BY <1>4, ReadType, WriteType, TickType
<1>5. CASE UNCHANGED vars
  BY <1>5, TypeStutter
<1> QED  BY <1>1, <1>2, <1>3, <1>4, <1>5 DEF Next

\* Every variable of the runner keeps its type, and a stage what it is about.
THEOREM TypeCorrect == Spec => []TypeInvariant
  BY TypeInit, TypeNext, PTL DEF Spec

-----------------------------------------------------------------------------
(* The schedule.                                                           *)

\* What the bookkeeping or a request may make of a row.
LEMMA BookArms ==
  ASSUME TypeInvariant, ActiveIsArmed, NEW w \in Workers, Book(w)
  PROVE  ActiveIsArmed'
<1> USE AutomationAssumption
<1> DEFINE a == at[w]
<1>1. a \in Automations /\ RowTypes /\ WorkerTypes /\ NULL \notin Nat /\ UNCHANGED config
  BY TypesNow DEF Shape, Book
<1>2. CASE MayBook(w)
  <2>1. /\ status' = [status EXCEPT ![a] = IF AutoPaused(w) THEN "paused" ELSE "active"]
        /\ due' = [due EXCEPT ![a] = IF AutoPaused(w) THEN NULL ELSE NextRun(w)]
    BY <1>2 DEF Book
  <2>2. a \in Polled => NextRun(w) \in Nat
    BY <1>1, LeftType DEF NextRun
  <2>3. Polled' = Polled /\ Polled \subseteq Automations
    BY <1>1 DEF Polled
  <2> HIDE DEF a
  <2>4. ASSUME NEW x \in Polled, status'[x] = "active" PROVE due'[x] # NULL
    <3>1. CASE x = a
      BY <1>1, <2>1, <2>2, <2>3, <2>4, <3>1 DEF RowTypes
    <3>2. CASE x # a
      BY <1>1, <2>1, <2>3, <2>4, <3>2 DEF RowTypes, ActiveIsArmed
    <3> QED  BY <3>1, <3>2
  <2> QED  BY <2>3, <2>4 DEF ActiveIsArmed
<1>3. CASE ~MayBook(w)
  <2>1. UNCHANGED <<status, due>>
    BY <1>3 DEF Book
  <2> QED  BY <1>1, <2>1 DEF ActiveIsArmed, Polled
<1> QED  BY <1>2, <1>3

LEMMA ClaimArms ==
  ASSUME TypeInvariant, ActiveIsArmed, NEW w \in Workers, Claim(w)
  PROVE  ActiveIsArmed'
<1> USE AutomationAssumption
<1>1. RowTypes /\ WorkerTypes /\ UNCHANGED <<config, status>>
  BY TypesNow DEF Claim
<1>2. due' = due \/ \E a \in queue[w] : due' = [due EXCEPT ![a] = Sentinel(w)]
  BY DEF Claim
<1>3. Sentinel(w) \in Nat /\ NULL \notin Nat /\ Polled \subseteq Automations /\ Polled' = Polled
  BY <1>1, LeftType DEF Sentinel, Polled
<1> QED  BY <1>1, <1>2, <1>3 DEF ActiveIsArmed, RowTypes

LEMMA RequestArms ==
  ASSUME TypeInvariant, ActiveIsArmed, Write
  PROVE  ActiveIsArmed'
<1> USE AutomationAssumption
<1> DEFINE a == request.id
<1>1. a \in Automations /\ RowTypes /\ UNCHANGED config /\ NULL # 0
  BY TypesNow, Written DEF Write
<1>2. \/ UNCHANGED <<status, due>>
      \/ status' = [status EXCEPT ![a] = "paused"] /\ due' = [due EXCEPT ![a] = NULL]
      \/ /\ status' = status \/ status' = [status EXCEPT ![a] = "active"]
         /\ due' = [due EXCEPT ![a] = 0]
  <2>1. CASE Refused /\ UNCHANGED <<status, due, seen, queue, rearmed, waiting>>
    BY <2>1
  <2>2. CASE WriteToggle
    BY <2>2 DEF WriteToggle, Arm
  <2>3. CASE WriteRunNow
    BY <2>3 DEF WriteRunNow, Arm
  <2>4. CASE WriteTrigger
    BY <2>4 DEF WriteTrigger, TriggerTime, Arm
  <2> QED  BY <2>1, <2>2, <2>3, <2>4 DEF Write
<1>3. Polled' = Polled /\ Polled \subseteq Automations
  BY <1>1 DEF Polled
<1> HIDE DEF a
<1>4. ASSUME NEW x \in Polled, status'[x] = "active" PROVE due'[x] # NULL
  <2>1. CASE x = a
    BY <1>1, <1>2, <1>3, <1>4, <2>1 DEF RowTypes, ActiveIsArmed
  <2>2. CASE x # a
    BY <1>1, <1>2, <1>3, <1>4, <2>2 DEF RowTypes, ActiveIsArmed
  <2> QED  BY <2>1, <2>2
<1> QED  BY <1>3, <1>4 DEF ActiveIsArmed

LEMMA ScheduleInit == Init => ActiveIsArmed
<1> SUFFICES ASSUME Init, NEW a \in Polled, status[a] = "active" PROVE due[a] # NULL
  BY DEF ActiveIsArmed
<1>1. a \in Automations
  BY DEF Polled
<1>2. PICK rows \in Tables :
        /\ status = [x \in Automations |-> IF x \in rows THEN "active" ELSE "none"]
        /\ due = [x \in Automations |-> IF x \in rows THEN FirstRun(x) ELSE NULL]
  BY DEF Init
<1>3. due[a] = 0
  BY <1>1, <1>2 DEF FirstRun
<1> QED  BY <1>3, AutomationAssumption

LEMMA ScheduleNext == TypeInvariant /\ ActiveIsArmed /\ [Next]_vars => ActiveIsArmed'
<1> USE AutomationAssumption
<1> SUFFICES ASSUME TypeInvariant, ActiveIsArmed, [Next]_vars PROVE ActiveIsArmed'
  OBVIOUS
<1>1. RowTypes
  BY TypesNow
<1>2. ASSUME UNCHANGED <<config, status, due>> PROVE ActiveIsArmed'
  BY <1>2 DEF ActiveIsArmed, Polled
<1>3. ASSUME NEW w \in Workers, WorkerStep(w) PROVE ActiveIsArmed'
  <2>1. CASE Select(w) \/ Finish(w) \/ Handle(w) \/ Enqueue(w) \/ Save(w)
    BY <1>2, <2>1 DEF Select, Finish, Handle, Enqueue, Save, row
  <2> QED  BY <1>3, <2>1, ClaimArms, BookArms DEF WorkerStep
<1>4. ASSUME NEW w \in Workers, WorkerFault(w) PROVE ActiveIsArmed'
  BY <1>2, <1>4 DEF WorkerFault, EnqueueRefused, BookFails, Crash, row
<1>5. ASSUME NEW a \in Automations, CreateAutomation(a) PROVE ActiveIsArmed'
  <2>1. /\ status' = [status EXCEPT ![a] = "active"] /\ due' = [due EXCEPT ![a] = FirstRun(a)]
        /\ UNCHANGED config
    BY <1>5 DEF CreateAutomation
  <2>2. a \in Polled => FirstRun(a) # NULL
    BY DEF FirstRun
  <2>3. Polled' = Polled /\ Polled \subseteq Automations
    BY <2>1 DEF Polled
  <2> QED  BY <1>1, <2>1, <2>2, <2>3 DEF ActiveIsArmed, RowTypes
<1>6. ASSUME NEW a \in Automations, DeleteAutomation(a) PROVE ActiveIsArmed'
  <2>1. /\ status' = [status EXCEPT ![a] = "gone"] /\ due' = [due EXCEPT ![a] = NULL]
        /\ UNCHANGED config
    BY <1>6 DEF DeleteAutomation
  <2>2. Polled' = Polled /\ Polled \subseteq Automations
    BY <2>1 DEF Polled
  <2> QED  BY <1>1, <2>1, <2>2 DEF ActiveIsArmed, RowTypes
<1>7. ASSUME NEW a \in Automations, Publish(a) PROVE ActiveIsArmed'
  BY <1>2, <1>7 DEF Publish, row
<1>8. CASE Read \/ UNCHANGED vars
  BY <1>2, <1>8 DEF Read, vars, row
<1>9. CASE Tick
  <2>1. UNCHANGED <<config, status>> /\ due' = Elapsed
    BY <1>9 DEF Tick
  <2>2. Polled' = Polled /\ Polled \subseteq Automations
    BY <2>1 DEF Polled
  <2>3. \A a \in Automations : due[a] # NULL => Elapsed[a] # NULL
    BY <1>1 DEF Elapsed, RowTypes
  <2> QED  BY <2>1, <2>2, <2>3 DEF ActiveIsArmed
<1> QED  BY <1>3, <1>4, <1>5, <1>6, <1>7, <1>8, <1>9, RequestArms DEF Next

\* A type that comes round by itself never drops out of the schedule, whatever
\* the bookkeeping of late runs, operators and webhooks write.
THEOREM StaysInSchedule == Spec => []ScheduleInvariant
<1>1. Init => TypeInvariant /\ ActiveIsArmed
  BY TypeInit, ScheduleInit
<1>2. TypeInvariant /\ ActiveIsArmed /\ [Next]_vars => (TypeInvariant /\ ActiveIsArmed)'
  BY TypeNext, ScheduleNext
<1>3. TypeInvariant /\ ActiveIsArmed => ScheduleInvariant
  BY DEF TypeInvariant, ScheduleInvariant
<1> QED  BY <1>1, <1>2, <1>3, PTL DEF Spec

-----------------------------------------------------------------------------
(* Pauses.                                                                 *)

PauseStep ==
  \A a \in Automations :
    status[a] = "paused" /\ status'[a] = "active" =>
      request.op = "toggle" /\ request.id = a /\ request' = NoRequest

LEMMA PauseNext == TypeInvariant /\ [Next]_vars => PauseStep
<1> SUFFICES ASSUME TypeInvariant, [Next]_vars PROVE PauseStep
  OBVIOUS
<1>1. RowTypes /\ WorkerTypes /\ Shape
  BY TypesNow
<1>2. ASSUME UNCHANGED status PROVE PauseStep
  BY <1>2 DEF PauseStep
<1>3. ASSUME NEW w \in Workers, Book(w) PROVE PauseStep
  <2>1. at[w] \in Automations
    BY <1>1, <1>3 DEF Shape, Book
  <2>2. \/ UNCHANGED status
        \/ /\ status[at[w]] = "active"
           /\ \E s \in {"paused", "active"} : status' = [status EXCEPT ![at[w]] = s]
    BY <1>3 DEF Book, MayBook
  <2> QED  BY <1>1, <2>1, <2>2 DEF PauseStep, RowTypes
<1>4. ASSUME NEW w \in Workers, WorkerStep(w) PROVE PauseStep
  BY <1>2, <1>3, <1>4 DEF WorkerStep, Select, Claim, Finish, Handle, Enqueue, Save, row
<1>5. ASSUME NEW w \in Workers, WorkerFault(w) PROVE PauseStep
  BY <1>2, <1>5 DEF WorkerFault, EnqueueRefused, BookFails, Crash, row
<1>6. ASSUME NEW a \in Automations, CreateAutomation(a) \/ DeleteAutomation(a) PROVE PauseStep
  <2>1. \/ status[a] = "none" /\ status' = [status EXCEPT ![a] = "active"]
        \/ status' = [status EXCEPT ![a] = "gone"]
    BY <1>6 DEF CreateAutomation, DeleteAutomation
  <2> QED  BY <1>1, <2>1 DEF PauseStep, RowTypes
<1>7. ASSUME NEW a \in Automations, Publish(a) PROVE PauseStep
  BY <1>2, <1>7 DEF Publish, row
<1>8. CASE Write
  <2>1. request' = NoRequest /\ request.id \in Automations
    BY <1>8, Written
  <2>2. \/ UNCHANGED status
        \/ request.op = "toggle" /\ \E s \in {"paused", "active"} : status' = [status EXCEPT ![request.id] = s]
    BY <1>8, Written
  <2> QED  BY <1>1, <2>1, <2>2 DEF PauseStep, RowTypes
<1>9. CASE Read \/ Tick \/ UNCHANGED vars
  BY <1>2, <1>9 DEF Read, Tick, vars, row
<1> QED  BY <1>4, <1>5, <1>6, <1>7, <1>8, <1>9 DEF Next

\* A pause in the middle of a run holds: neither the bookkeeping nor a claim
\* makes a paused automation active, only the operator's toggle does.
THEOREM PausesHold == Spec => PauseHolds
<1>1. Spec => []TypeInvariant
  BY TypeCorrect
<1>2. TypeInvariant /\ [Next]_vars => [PauseStep]_vars
  BY PauseNext
<1> QED  BY <1>1, <1>2, PTL DEF Spec, PauseHolds, PauseStep

-----------------------------------------------------------------------------
(* One run at a time.  An automation that runs, and that nobody made due   *)
(* again, has its sentinel or no next run: it is on nobody's list, and the *)
(* sentinel outlasts the run, so nobody will put it there.                 *)

Held ==
  \A w \in Workers, a \in Automations :
    at[w] = a /\ ~rearmed[a] =>
      /\ \A v \in Workers : at[v] = a => v = w
      /\ \A v \in Workers : a \notin queue[v]
      /\ due[a] = NULL \/ due[a] + age[w] >= ClaimWindow

LEMMA HeldInit == Init => Held
  BY AutomationAssumption DEF Init, Held

\* What all steps but a selection, a claim and a tick have in common.
LEMMA HeldFrame ==
  ASSUME Held,
         \A w \in Workers : at'[w] = at[w] \/ at'[w] = NULL,
         \A w \in Workers : queue'[w] \subseteq queue[w],
         \A w \in Workers : at'[w] # NULL => age'[w] = age[w],
         \A a \in Automations :
           \/ due'[a] \in {due[a], NULL} /\ (rearmed[a] => rearmed'[a])
           \/ rearmed'[a]
           \/ \A w \in Workers : at'[w] # a
  PROVE  Held'
<1> SUFFICES ASSUME NEW w \in Workers, NEW a \in Automations, at'[w] = a, ~rearmed'[a]
             PROVE  /\ \A v \in Workers : at'[v] = a => v = w
                    /\ \A v \in Workers : a \notin queue'[v]
                    /\ due'[a] = NULL \/ due'[a] + age'[w] >= ClaimWindow
  BY DEF Held
<1>1. a # NULL
  BY AutomationAssumption
<1>2. at[w] = a /\ ~rearmed[a] /\ due'[a] \in {due[a], NULL} /\ age'[w] = age[w]
  BY <1>1
<1> QED  BY <1>1, <1>2 DEF Held

LEMMA HeldSelect ==
  ASSUME Timely, TypeInvariant, Held, NEW w \in Workers, Select(w)
  PROVE  Held'
<1> USE AutomationAssumption
<1>1. RowTypes /\ WorkerTypes /\ Shape /\ NULL \notin Nat
  BY TypesNow
<1>2. /\ UNCHANGED <<at, due, rearmed>> /\ at[w] = NULL
      /\ queue' = [queue EXCEPT ![w] = FirstOf(Due)] /\ age' = [age EXCEPT ![w] = 0]
  BY <1>1 DEF Select, Shape, row, observer
<1>3. FirstOf(Due) \subseteq {a \in Automations : due[a] = 0}
  BY DEF FirstOf, Due
<1> SUFFICES ASSUME NEW v \in Workers, NEW a \in Automations, at[v] = a, ~rearmed[a]
             PROVE  /\ \A u \in Workers : at[u] = a => u = v
                    /\ \A u \in Workers : a \notin queue'[u]
                    /\ due[a] = NULL \/ due[a] + age'[v] >= ClaimWindow
  BY <1>2 DEF Held
<1>4. v # w
  BY <1>1, <1>2
<1>5. due[a] = NULL \/ due[a] + age[v] >= ClaimWindow
  BY DEF Held
<1>6. age'[v] = age[v] /\ age[v] \in 0..MaxRun
  BY <1>1, <1>2, <1>4 DEF WorkerTypes
<1>7. a \notin FirstOf(Due)
  BY <1>1, <1>3, <1>5, <1>6 DEF Timely
<1> QED  BY <1>1, <1>2, <1>5, <1>6, <1>7 DEF Held, WorkerTypes

LEMMA HeldClaim ==
  ASSUME Timely, TypeInvariant, Held, NEW w \in Workers, Claim(w)
  PROVE  Held'
<1> USE AutomationAssumption
<1>1. RowTypes /\ WorkerTypes /\ Shape /\ NULL \notin Nat
  BY TypesNow
<1>2. UNCHANGED <<rearmed, age>> /\ at[w] = NULL
  BY DEF Claim
<1>3. CASE UNCHANGED <<due, at>> /\ \A v \in Workers : queue'[v] \subseteq queue[v]
  BY <1>2, <1>3, HeldFrame
<1>4. ASSUME NEW a \in queue[w],
             due' = [due EXCEPT ![a] = Sentinel(w)], queue' = Unselect(a), at' = [at EXCEPT ![w] = a]
      PROVE  Held'
  <2>1. a \in Automations
    BY <1>1 DEF WorkerTypes
  <2>2. \A v \in Workers : queue'[v] = queue[v] \ {a}
    BY <1>1, <1>4, UnselectType
  <2>3. at'[w] = a /\ \A v \in Workers \ {w} : at'[v] = at[v]
    BY <1>1, <1>4 DEF WorkerTypes
  <2>4. due'[a] = Sentinel(w) /\ \A x \in Automations \ {a} : due'[x] = due[x]
    BY <1>1, <1>4, <2>1 DEF RowTypes
  <2>5. Sentinel(w) + age[w] >= ClaimWindow /\ age[w] \in 0..MaxRun
    BY <1>1 DEF Sentinel, Left, Timely, WorkerTypes
  <2> SUFFICES ASSUME NEW v \in Workers, NEW x \in Automations, at'[v] = x, ~rearmed[x]
               PROVE  /\ \A u \in Workers : at'[u] = x => u = v
                      /\ \A u \in Workers : x \notin queue'[u]
                      /\ due'[x] = NULL \/ due'[x] + age[v] >= ClaimWindow
    BY <1>2 DEF Held
  <2>6. CASE x = a
    <3>1. ASSUME NEW u \in Workers, at[u] = a PROVE FALSE
      <4>1. ~rearmed[a]
        BY <2>6, Zenon
      <4>2. a \notin queue[w]
        BY <2>1, <3>1, <4>1 DEF Held
      <4> QED  BY <4>2
    <3>2. v = w
      BY <2>3, <2>6, <3>1
    <3> QED  BY <2>2, <2>3, <2>4, <2>5, <2>6, <3>1, <3>2
  <2>7. CASE x # a
    <3>1. v # w /\ at[v] = x
      BY <2>3, <2>7
    <3>2. /\ \A u \in Workers : at[u] = x => u = v
          /\ \A u \in Workers : x \notin queue[u]
          /\ due[x] = NULL \/ due[x] + age[v] >= ClaimWindow
      BY <3>1 DEF Held
    <3> QED  BY <2>2, <2>3, <2>4, <2>7, <3>1, <3>2
  <2> QED  BY <2>6, <2>7
<1>5. PICK a \in queue[w] :
        \/ due' = [due EXCEPT ![a] = Sentinel(w)] /\ queue' = Unselect(a) /\ at' = [at EXCEPT ![w] = a]
        \/ queue' = [queue EXCEPT ![w] = queue[w] \ {a}] /\ UNCHANGED <<due, at>>
  BY <1>1 DEF Claim, WorkerTypes
<1>6. ASSUME queue' = [queue EXCEPT ![w] = queue[w] \ {a}], UNCHANGED <<due, at>>
      PROVE  Held'
  BY <1>1, <1>3, <1>6 DEF WorkerTypes
<1> QED  BY <1>4, <1>5, <1>6

LEMMA HeldTick ==
  ASSUME TypeInvariant, Held, Tick, Timely
  PROVE  Held'
<1> USE AutomationAssumption
<1>1. RowTypes /\ WorkerTypes /\ Shape /\ NULL \notin Nat
  BY TypesNow
<1>2. UNCHANGED <<at, rearmed, queue>> /\ due' = Elapsed
      /\ age' = [w \in Workers |-> IF Busy(w) THEN age[w] + 1 ELSE age[w]]
  BY DEF Tick, observer
<1> SUFFICES ASSUME NEW w \in Workers, NEW a \in Automations, at[w] = a, ~rearmed[a], due'[a] # NULL
             PROVE  due'[a] + age'[w] >= ClaimWindow
  BY <1>2 DEF Held
<1>3. due[a] # NULL /\ due[a] \in Nat
  BY <1>1, <1>2 DEF Elapsed, RowTypes
<1>4. due[a] + age[w] >= ClaimWindow /\ age[w] \in 0..MaxRun
  BY <1>1, <1>3 DEF Held, WorkerTypes
<1>5. due[a] > 0
  BY <1>3, <1>4 DEF Timely
<1>6. due'[a] = due[a] - 1
  BY <1>1, <1>2, <1>3, <1>5 DEF Elapsed
<1>7. Busy(w)
  BY <1>1 DEF Busy, Shape
<1>8. age'[w] = age[w] + 1
  BY <1>2, <1>7
<1> QED  BY <1>3, <1>4, <1>6, <1>8

\* Whoever lets go of an automation that others run too leaves it rearmed.
LEMMA HeldRelease ==
  ASSUME TypeInvariant, Held, NEW w \in Workers, at[w] \in Automations,
         at' = [at EXCEPT ![w] = NULL],
         rearmed' = [rearmed EXCEPT ![at[w]] = @ /\ Others(w, at[w]) # {}],
         \A v \in Workers : queue'[v] \subseteq queue[v],
         \A v \in Workers \ {w} : age'[v] = age[v],
         \A x \in Automations \ {at[w]} : due'[x] = due[x]
  PROVE  Held'
<1> USE AutomationAssumption
<1> DEFINE a == at[w]
<1>1. WorkerTypes /\ ObserverTypes
  BY TypesNow
<1>2. at'[w] = NULL /\ \A v \in Workers \ {w} : at'[v] = at[v]
  BY <1>1 DEF WorkerTypes
<1>3. \A x \in Automations \ {a} : rearmed'[x] = rearmed[x]
  BY <1>1 DEF ObserverTypes
<1>4. rearmed'[a] \/ \A v \in Workers : at'[v] # a
  <2>1. CASE Others(w, a) = {}
    <3>1. \A v \in Workers \ {w} : at[v] # a
      BY <2>1 DEF Others, Running
    <3>2. a # NULL
      OBVIOUS
    <3> QED  BY <1>2, <3>1, <3>2
  <2>2. CASE Others(w, a) # {}
    <3>1. PICK v \in Workers \ {w} : at[v] = a
      BY <2>2 DEF Others, Running
    <3>2. rearmed[a]
      BY <3>1 DEF Held
    <3> QED  BY <1>1, <2>2, <3>2 DEF ObserverTypes
  <2> QED  BY <2>1, <2>2
<1>5. \A x \in Automations :
           \/ due'[x] \in {due[x], NULL} /\ (rearmed[x] => rearmed'[x])
           \/ rearmed'[x]
           \/ \A v \in Workers : at'[v] # x
  BY <1>3, <1>4
<1> QED  BY <1>2, <1>5, HeldFrame

LEMMA HeldNext == Timely /\ TypeInvariant /\ Held /\ [Next]_vars => Held'
<1> USE AutomationAssumption
<1> SUFFICES ASSUME Timely, TypeInvariant, Held, [Next]_vars PROVE Held'
  OBVIOUS
<1>1. RowTypes /\ WorkerTypes /\ ObserverTypes /\ Shape
  BY TypesNow
<1>2. ASSUME UNCHANGED <<at, due, rearmed, queue, age>> PROVE Held'
  BY <1>2 DEF Held
<1>3. ASSUME NEW w \in Workers, Finish(w) PROVE Held'
  <2>1. UNCHANGED <<at, due, rearmed, queue>> /\ at[w] = NULL /\ age' = [age EXCEPT ![w] = 0]
    BY <1>3 DEF Finish, row, observer
  <2>2. \A v \in Workers : at'[v] # NULL => age'[v] = age[v]
    BY <1>1, <2>1 DEF WorkerTypes
  <2> QED  BY <2>1, <2>2, HeldFrame
<1>4. ASSUME NEW w \in Workers, Handle(w) \/ Enqueue(w) \/ EnqueueRefused(w) \/ Save(w) PROVE Held'
  BY <1>2, <1>4 DEF Handle, Enqueue, EnqueueRefused, Save, row, observer
<1>5. ASSUME NEW w \in Workers, Book(w) PROVE Held'
  <2>1. at[w] \in Automations
    BY <1>1, <1>5 DEF Shape, Book
  <2>2. /\ at' = [at EXCEPT ![w] = NULL] /\ UNCHANGED age
        /\ rearmed' = [rearmed EXCEPT ![at[w]] = @ /\ Others(w, at[w]) # {}]
    BY <1>5 DEF Book, Release
  <2>3. \/ UNCHANGED <<due, queue>>
        \/ queue' = Unselect(at[w]) /\ \E d : due' = [due EXCEPT ![at[w]] = d]
    BY <1>5 DEF Book
  <2>4. \A v \in Workers : queue'[v] \subseteq queue[v]
    BY <1>1, <2>3, UnselectType
  <2>5. \A x \in Automations \ {at[w]} : due'[x] = due[x]
    BY <1>1, <2>3 DEF RowTypes
  <2> QED  BY <2>1, <2>2, <2>4, <2>5, HeldRelease
<1>6. ASSUME NEW w \in Workers, BookFails(w) PROVE Held'
  <2>1. at[w] \in Automations
    BY <1>1, <1>6 DEF Shape, BookFails
  <2>2. /\ at' = [at EXCEPT ![w] = NULL] /\ UNCHANGED <<age, due, queue>>
        /\ rearmed' = [rearmed EXCEPT ![at[w]] = @ /\ Others(w, at[w]) # {}]
    BY <1>6 DEF BookFails, Release, row
  <2> QED  BY <2>1, <2>2, HeldRelease
<1>7. ASSUME NEW w \in Workers, Crash(w) PROVE Held'
  <2>1. /\ at' = [at EXCEPT ![w] = NULL] /\ UNCHANGED due
        /\ queue' = [queue EXCEPT ![w] = {}] /\ age' = [age EXCEPT ![w] = 0]
    BY <1>7 DEF Crash, row
  <2>2. /\ \A v \in Workers : queue'[v] \subseteq queue[v]
        /\ \A v \in Workers \ {w} : age'[v] = age[v]
        /\ \A v \in Workers : at'[v] = at[v] \/ at'[v] = NULL
    BY <1>1, <2>1 DEF WorkerTypes
  <2>3. CASE at[w] = NULL
    <3>1. UNCHANGED rearmed
      BY <1>7, <2>3 DEF Crash
    <3>2. \A v \in Workers : at'[v] # NULL => age'[v] = age[v]
      BY <1>1, <2>1, <2>2 DEF WorkerTypes
    <3> QED  BY <2>1, <2>2, <3>1, <3>2, HeldFrame
  <2>4. CASE at[w] # NULL
    <3>1. at[w] \in Automations
      BY <1>1, <2>4 DEF WorkerTypes
    <3>2. rearmed' = [rearmed EXCEPT ![at[w]] = @ /\ Others(w, at[w]) # {}]
      BY <1>7, <2>4 DEF Crash
    <3> QED  BY <2>1, <2>2, <3>1, <3>2, HeldRelease
  <2> QED  BY <2>3, <2>4
<1>8. ASSUME NEW a \in Automations, CreateAutomation(a) PROVE Held'
  <2>1. /\ UNCHANGED <<at, age, queue, rearmed>> /\ status[a] = "none"
        /\ due' = [due EXCEPT ![a] = FirstRun(a)]
    BY <1>8 DEF CreateAutomation, worker, observer
  <2>2. \A w \in Workers : at'[w] # a
    BY <1>1, <2>1 DEF Shape
  <2>3. \A x \in Automations \ {a} : due'[x] = due[x]
    BY <1>1, <2>1 DEF RowTypes
  <2> QED  BY <2>1, <2>2, <2>3, HeldFrame
<1>9. ASSUME NEW a \in Automations, DeleteAutomation(a) PROVE Held'
  <2>1. UNCHANGED <<at, age, rearmed>> /\ due' = [due EXCEPT ![a] = NULL] /\ queue' = Unselect(a)
    BY <1>9 DEF DeleteAutomation, observer
  <2>2. \A v \in Workers : queue'[v] \subseteq queue[v]
    BY <1>1, <2>1, UnselectType
  <2>3. \A x \in Automations : due'[x] \in {due[x], NULL}
    BY <1>1, <2>1 DEF RowTypes
  <2> QED  BY <2>1, <2>2, <2>3, HeldFrame
<1>10. ASSUME NEW a \in Automations, Publish(a) PROVE Held'
  BY <1>2, <1>10 DEF Publish, row, worker, observer
<1>11. CASE Write
  <2> DEFINE a == request.id
  <2>1. a \in Automations /\ UNCHANGED <<at, age>>
    BY <1>11, Written DEF Write
  <2>2. UNCHANGED <<due, queue, rearmed>> \/ \E d \in {0, NULL} : Arm(a, d)
    BY <1>11, Written
  <2>3. CASE UNCHANGED <<due, queue, rearmed>>
    BY <1>2, <2>1, <2>3
  <2>4. ASSUME NEW d \in {0, NULL}, Arm(a, d) PROVE Held'
    <3> HIDE DEF a
    <3>1. /\ due' = [due EXCEPT ![a] = d] /\ queue' = Unselect(a)
          /\ rearmed' = [rearmed EXCEPT ![a] = @ \/ (d = 0 /\ Running(a) # {})]
      BY <2>4 DEF Arm
    <3>2. \A v \in Workers : queue'[v] \subseteq queue[v]
      BY <1>1, <3>1, UnselectType
    <3>3. \A x \in Automations \ {a} : due'[x] = due[x] /\ rearmed'[x] = rearmed[x]
      BY <1>1, <3>1 DEF RowTypes, ObserverTypes
    <3>4. due'[a] = d /\ (rearmed[a] => rearmed'[a]) /\ (d = 0 /\ Running(a) # {} => rearmed'[a])
      BY <1>1, <2>1, <3>1 DEF RowTypes, ObserverTypes
    <3>5. Running(a) = {} => \A w \in Workers : at'[w] # a
      BY <2>1 DEF Running
    <3> QED  BY <2>1, <3>2, <3>3, <3>4, <3>5, HeldFrame
  <2> QED  BY <2>2, <2>3, <2>4
<1>12. CASE Read \/ UNCHANGED vars
  BY <1>2, <1>12 DEF Read, vars, row, worker, observer
<1>13. ASSUME NEW w \in Workers, WorkerStep(w) \/ WorkerFault(w) PROVE Held'
  BY <1>3, <1>4, <1>5, <1>6, <1>7, <1>13, HeldSelect, HeldClaim DEF WorkerStep, WorkerFault
<1> QED  BY <1>8, <1>9, <1>10, <1>11, <1>12, <1>13, HeldTick DEF Next

\* When every run is shorter than the claim window, two workers never run one
\* automation at once, unless an operator or a webhook made it due again.
THEOREM OneRunAtATime == Spec => []ExclusiveRun
<1>1. ASSUME Timely PROVE TypeInvariant /\ Held => ExclusiveRun
  BY TypesNow, AutomationAssumption DEF ExclusiveRun, Held, WorkerTypes
<1>2. ASSUME ~Timely PROVE TypeInvariant => ExclusiveRun
  BY <1>2 DEF ExclusiveRun
<1>3. ASSUME Timely PROVE TypeInvariant /\ Held /\ [Next]_vars => (TypeInvariant /\ Held)'
  BY <1>3, TypeNext, HeldNext
<1>4. CASE Timely
  BY <1>1, <1>3, <1>4, TypeInit, HeldInit, PTL DEF Spec
<1>5. CASE ~Timely
  BY <1>2, <1>5, TypeCorrect, PTL
<1> QED  BY <1>4, <1>5

-----------------------------------------------------------------------------
(* No repetition.  As long as no cursor was lost and no runs overlapped,   *)
(* the cursor is what was sent last, except while the one run that sent    *)
(* something has still to save it; who selected the row read that cursor.  *)

SelectedActive == \A w \in Workers : \A a \in queue[w] : status[a] = "active"

Runs(w, a) == at[w] = a
Idle(a)    == \A w \in Workers : ~Runs(w, a)
InStage(a, S) == \E w \in Workers : Runs(w, a) /\ stage[w] \in S

RunKnows(w, a) ==
  /\ stage[w] = "saving" => item[w] = pushed[a]
  /\ stage[w] = "handling" => snapshot[w][a].cursor = pushed[a]
  /\ stage[w] = "pushing" => item[w] # pushed[a]

TrackedOf(a) ==
  ~excused[a] =>
    /\ \A v, w \in Workers : Runs(v, a) /\ Runs(w, a) => v = w
    /\ \/ InStage(a, {"saving"})
       \/ cursor[a] = pushed[a]
       \/ status[a] = "gone" /\ ~InStage(a, {"handling", "pushing"})
    /\ \A w \in Workers : Runs(w, a) => RunKnows(w, a)
    /\ Idle(a) => \A w \in Workers : a \in queue[w] => snapshot[w][a].cursor = pushed[a]

Tracked == \A a \in Cursored : TrackedOf(a)

\* A step that does not concern a, or only takes it off lists.
Untouched(a) ==
  /\ excused'[a] = excused[a] /\ pushed'[a] = pushed[a] /\ cursor'[a] = cursor[a]
  /\ status[a] = "gone" => status'[a] = "gone"
  /\ \A w \in Workers :
       /\ Runs(w, a)' <=> Runs(w, a)
       /\ Runs(w, a) => stage'[w] = stage[w] /\ item'[w] = item[w] /\ snapshot'[w] = snapshot[w]
       /\ a \in queue'[w] => a \in queue[w] /\ snapshot'[w] = snapshot[w]

LEMMA UntouchedTracked ==
  ASSUME NEW a, TrackedOf(a), Untouched(a)
  PROVE  TrackedOf(a)'
<1> SUFFICES ASSUME ~excused'[a]
             PROVE  /\ \A v, w \in Workers : Runs(v, a)' /\ Runs(w, a)' => v = w
                    /\ \/ InStage(a, {"saving"})'
                       \/ cursor'[a] = pushed'[a]
                       \/ status'[a] = "gone" /\ ~InStage(a, {"handling", "pushing"})'
                    /\ \A w \in Workers : Runs(w, a)' => RunKnows(w, a)'
                    /\ Idle(a)' => \A w \in Workers : a \in queue'[w] => snapshot'[w][a].cursor = pushed'[a]
  BY DEF TrackedOf
<1>1. ~excused[a]
  BY DEF Untouched
<1>2. \A w \in Workers : Runs(w, a)' <=> Runs(w, a)
  BY DEF Untouched
<1>3. \A S : InStage(a, S)' <=> InStage(a, S)
  BY <1>2 DEF InStage, Untouched
<1>4. Idle(a)' <=> Idle(a)
  BY <1>2 DEF Idle
<1>5. \A v, w \in Workers : Runs(v, a)' /\ Runs(w, a)' => v = w
  BY <1>1, <1>2 DEF TrackedOf
<1>6. \/ InStage(a, {"saving"})'
      \/ cursor'[a] = pushed'[a]
      \/ status'[a] = "gone" /\ ~InStage(a, {"handling", "pushing"})'
  BY <1>1, <1>3 DEF TrackedOf, Untouched
<1>7. \A w \in Workers : Runs(w, a)' => RunKnows(w, a)'
  BY <1>1, <1>2 DEF TrackedOf, Untouched, RunKnows
<1>8. Idle(a)' => \A w \in Workers : a \in queue'[w] => snapshot'[w][a].cursor = pushed'[a]
  BY <1>1, <1>4 DEF TrackedOf, Untouched
<1> QED  BY <1>5, <1>6, <1>7, <1>8

LEMMA SelectedInit == Init => SelectedActive /\ Tracked
<1> SUFFICES ASSUME Init PROVE SelectedActive /\ Tracked
  OBVIOUS
<1>1. \A w \in Workers : queue[w] = {}
  BY DEF Init
<1>2. \A w \in Workers, a \in Automations : at[w] # a
  BY AutomationAssumption DEF Init
<1>3. \A a \in Automations : cursor[a] = pushed[a]
  BY DEF Init
<1> QED  BY <1>1, <1>2, <1>3 DEF SelectedActive, Tracked, TrackedOf, Cursored, Runs, Idle

LEMMA SelectedNext == TypeInvariant /\ SelectedActive /\ [Next]_vars => SelectedActive'
<1> SUFFICES ASSUME TypeInvariant, SelectedActive, [Next]_vars PROVE SelectedActive'
  OBVIOUS
<1>1. RowTypes /\ WorkerTypes /\ Shape
  BY TypesNow
<1>2. ASSUME UNCHANGED status, \A w \in Workers : queue'[w] \subseteq queue[w] PROVE SelectedActive'
  BY <1>2 DEF SelectedActive
<1>3. ASSUME NEW a \in Automations, NEW s, status' = [status EXCEPT ![a] = s], queue' = Unselect(a)
      PROVE  SelectedActive'
  <2>1. \A w \in Workers : queue'[w] = queue[w] \ {a}
    BY <1>1, <1>3, UnselectType
  <2>2. \A x \in Automations \ {a} : status'[x] = status[x]
    BY <1>1, <1>3 DEF RowTypes
  <2> QED  BY <1>1, <2>1, <2>2 DEF SelectedActive, WorkerTypes
<1>4. ASSUME NEW w \in Workers, Select(w) PROVE SelectedActive'
  <2>1. UNCHANGED status /\ queue' = [queue EXCEPT ![w] = FirstOf(Due)]
    BY <1>4 DEF Select, row
  <2>2. \A a \in FirstOf(Due) : status[a] = "active"
    BY DEF FirstOf, Due
  <2> QED  BY <1>1, <2>1, <2>2 DEF SelectedActive, WorkerTypes
<1>5. ASSUME NEW w \in Workers, Claim(w) PROVE SelectedActive'
  <2>1. PICK a \in queue[w] : queue' = Unselect(a) \/ queue' = [queue EXCEPT ![w] = queue[w] \ {a}]
    BY <1>1, <1>5 DEF Claim, WorkerTypes
  <2>2. CASE queue' = Unselect(a)
    BY <1>1, <1>2, <1>5, <2>2, UnselectType DEF Claim
  <2>3. CASE queue' = [queue EXCEPT ![w] = queue[w] \ {a}]
    BY <1>1, <1>2, <1>5, <2>3 DEF Claim, WorkerTypes
  <2> QED  BY <2>1, <2>2, <2>3
<1>6. ASSUME NEW w \in Workers, Book(w) PROVE SelectedActive'
  <2>1. at[w] \in Automations
    BY <1>1, <1>6 DEF Shape, Book
  <2>2. CASE MayBook(w)
    BY <1>3, <1>6, <2>1, <2>2 DEF Book
  <2>3. CASE ~MayBook(w)
    BY <1>2, <1>6, <2>3 DEF Book
  <2> QED  BY <2>2, <2>3
<1>7. ASSUME NEW w \in Workers, Crash(w) PROVE SelectedActive'
  BY <1>1, <1>2, <1>7 DEF Crash, row, WorkerTypes
<1>8. ASSUME NEW w \in Workers, WorkerStep(w) \/ WorkerFault(w) PROVE SelectedActive'
  BY <1>2, <1>4, <1>5, <1>6, <1>7, <1>8
     DEF WorkerStep, WorkerFault, Finish, Handle, Enqueue, EnqueueRefused, Save, BookFails, row
<1>9. ASSUME NEW a \in Automations, CreateAutomation(a) PROVE SelectedActive'
  <2>1. UNCHANGED queue /\ status' = [status EXCEPT ![a] = "active"]
    BY <1>9 DEF CreateAutomation, worker
  <2> QED  BY <1>1, <2>1 DEF SelectedActive, RowTypes, WorkerTypes
<1>10. ASSUME NEW a \in Automations, DeleteAutomation(a) PROVE SelectedActive'
  BY <1>3, <1>10 DEF DeleteAutomation
<1>11. ASSUME NEW a \in Automations, Publish(a) PROVE SelectedActive'
  BY <1>2, <1>11 DEF Publish, row, worker
<1>12. CASE Write
  <2> DEFINE a == request.id
  <2>1. a \in Automations
    BY <1>12, Written
  <2>2. \/ UNCHANGED <<status, queue>>
        \/ UNCHANGED status /\ queue' = Unselect(a)
        \/ queue' = Unselect(a) /\ \E s : status' = [status EXCEPT ![a] = s]
    BY <1>12, Written DEF Arm
  <2> HIDE DEF a
  <2> QED  BY <1>1, <1>2, <1>3, <2>1, <2>2, UnselectType
<1>13. CASE Read \/ Tick \/ UNCHANGED vars
  BY <1>2, <1>13 DEF Read, Tick, vars, row, worker
<1> QED  BY <1>8, <1>9, <1>10, <1>11, <1>12, <1>13 DEF Next

LEMMA OtherUntouched ==
  ASSUME NEW w \in Workers, NEW x, ~Runs(w, x), ~Runs(w, x)',
         \A v \in Workers \ {w} :
           at'[v] = at[v] /\ stage'[v] = stage[v] /\ item'[v] = item[v] /\ snapshot'[v] = snapshot[v],
         \A v \in Workers : x \in queue'[v] => x \in queue[v] /\ snapshot'[v] = snapshot[v],
         excused'[x] = excused[x], pushed'[x] = pushed[x], cursor'[x] = cursor[x],
         status[x] = "gone" => status'[x] = "gone"
  PROVE  Untouched(x)
  BY DEF Untouched, Runs

LEMMA TrackedSelect ==
  ASSUME TypeInvariant, Tracked, NEW w \in Workers, Select(w), NEW x \in Cursored
  PROVE  TrackedOf(x)'
<1> USE AutomationAssumption
<1>1. RowTypes /\ WorkerTypes /\ Shape /\ x \in Automations
  BY TypesNow DEF Cursored
<1>2. /\ UNCHANGED <<at, item, excused, pushed, cursor, status>> /\ at[w] = NULL
      /\ queue' = [queue EXCEPT ![w] = FirstOf(Due)]
  BY <1>1 DEF Select, Shape, row, observer
<1>3. \A v \in Workers \ {w} :
        stage'[v] = stage[v] /\ snapshot'[v] = snapshot[v] /\ queue'[v] = queue[v]
  BY <1>1, <1>2 DEF Select, Goto, WorkerTypes
<1>4. queue'[w] = FirstOf(Due) /\ ~Runs(w, x) /\ ~Runs(w, x)'
  BY <1>1, <1>2 DEF WorkerTypes, Runs
<1>5. CASE x \notin FirstOf(Due)
  <2>1. \A v \in Workers : x \in queue'[v] => x \in queue[v] /\ snapshot'[v] = snapshot[v]
    BY <1>3, <1>4, <1>5
  <2>2. Untouched(x)
    BY <1>2, <1>3, <1>4, <2>1, OtherUntouched
  <2> QED  BY <2>2, UntouchedTracked DEF Tracked
<1>6. CASE x \in FirstOf(Due)
  <2> SUFFICES ASSUME ~excused[x] PROVE TrackedOf(x)'
    BY <1>2 DEF TrackedOf
  <2>1. \A v \in Workers : Runs(v, x)' <=> Runs(v, x)
    BY <1>2 DEF Runs
  <2>2. \A v \in Workers : Runs(v, x) => v # w /\ stage'[v] = stage[v] /\ snapshot'[v] = snapshot[v] /\ item'[v] = item[v]
    BY <1>2, <1>3, <1>4
  <2>3. \A S : InStage(x, S)' <=> InStage(x, S)
    BY <2>1, <2>2 DEF InStage
  <2>4. Idle(x)' <=> Idle(x)
    BY <2>1 DEF Idle
  <2>5. \A v \in Workers : Runs(v, x)' => RunKnows(v, x)'
    BY <1>2, <2>1, <2>2 DEF RunKnows, Tracked, TrackedOf
  <2>6. ASSUME Idle(x), NEW v \in Workers, x \in queue'[v] PROVE snapshot'[v][x].cursor = pushed[x]
    <3>1. status[x] = "active"
      BY <1>6 DEF FirstOf, Due
    <3>2. cursor[x] = pushed[x]
      BY <2>6, <3>1 DEF Tracked, TrackedOf, Idle, InStage
    <3>3. CASE v = w
      <4>1. snapshot'[w] = [b \in Automations |-> IF b \in FirstOf(Due) THEN [cursor |-> cursor[b], fails |-> fails[b]] ELSE Blank[b]]
        BY <1>1 DEF Select, WorkerTypes
      <4> QED  BY <1>1, <1>6, <3>2, <3>3, <4>1
    <3>4. CASE v # w
      BY <1>3, <2>6, <3>4 DEF Tracked, TrackedOf
    <3> QED  BY <3>3, <3>4
  <2>7. \A v, u \in Workers : Runs(v, x)' /\ Runs(u, x)' => v = u
    BY <2>1 DEF Tracked, TrackedOf
  <2>8. \/ InStage(x, {"saving"})'
        \/ cursor'[x] = pushed'[x]
        \/ status'[x] = "gone" /\ ~InStage(x, {"handling", "pushing"})'
    BY <1>2, <2>3 DEF Tracked, TrackedOf
  <2> QED  BY <1>2, <2>4, <2>5, <2>6, <2>7, <2>8 DEF TrackedOf
<1> QED  BY <1>5, <1>6

LEMMA TrackedClaim ==
  ASSUME TypeInvariant, Tracked, NEW w \in Workers, Claim(w), NEW x \in Cursored
  PROVE  TrackedOf(x)'
<1> USE AutomationAssumption
<1>1. RowTypes /\ WorkerTypes /\ ObserverTypes /\ Shape /\ x \in Automations
  BY TypesNow DEF Cursored
<1>2. UNCHANGED <<item, snapshot, pushed, cursor, status>> /\ at[w] = NULL /\ ~Runs(w, x)
  BY <1>1 DEF Claim, Runs
<1>3. PICK a \in queue[w] :
       IF status[a] = "active"
       THEN /\ due' = [due EXCEPT ![a] = Sentinel(w)]
            /\ queue' = Unselect(a)
            /\ at' = [at EXCEPT ![w] = a]
            /\ waiting' = [waiting EXCEPT ![a] = FALSE]
            /\ excused' = [excused EXCEPT ![a] = @ \/ Running(a) # {}]
            /\ IF Parses(snapshot[w][a].cursor)
               THEN Goto(w, "handling") /\ UNCHANGED outcome
               ELSE Conclude(w, "error")
       ELSE /\ queue' = [queue EXCEPT ![w] = @ \ {a}]
            /\ UNCHANGED <<due, at, waiting, excused, stage, outcome>>
  BY DEF Claim
<1>4. a \in Automations
  BY <1>1 DEF WorkerTypes
<1>5. CASE status[a] = "active"
  <2>1. \A v \in Workers : queue'[v] = queue[v] \ {a}
    BY <1>1, <1>3, <1>5, UnselectType
  <2>2. at'[w] = a /\ \A v \in Workers \ {w} : at'[v] = at[v]
    BY <1>1, <1>3, <1>5 DEF WorkerTypes
  <2>3. stage'[w] \in {"handling", "booking"} /\ \A v \in Workers \ {w} : stage'[v] = stage[v]
    <3>1. Goto(w, "handling") \/ Goto(w, "booking")
      BY <1>3, <1>5 DEF Conclude
    <3> QED  BY <1>1, <3>1, GotoType DEF Stages
  <2>4. \A y \in Automations \ {a} : excused'[y] = excused[y]
    BY <1>1, <1>3, <1>5 DEF ObserverTypes
  <2>5. CASE x # a
    <3>1. ~Runs(w, x)' /\ excused'[x] = excused[x]
      BY <1>1, <2>2, <2>4, <2>5 DEF Runs
    <3>2. \A v \in Workers : x \in queue'[v] => x \in queue[v] /\ snapshot'[v] = snapshot[v]
      BY <1>2, <2>1
    <3>3. Untouched(x)
      BY <1>2, <2>2, <2>3, <3>1, <3>2, OtherUntouched
    <3> QED  BY <3>3, UntouchedTracked DEF Tracked
  <2>6. CASE x = a
    <3> SUFFICES ASSUME ~excused'[a] PROVE TrackedOf(a)'
      BY <2>6 DEF TrackedOf
    <3>1. ~excused[a] /\ Running(a) = {}
      BY <1>1, <1>3, <1>4, <1>5 DEF ObserverTypes
    <3>2. Idle(a)
      BY <3>1 DEF Idle, Runs, Running
    <3>3. snapshot[w][a].cursor = pushed[a] /\ cursor[a] = pushed[a]
      BY <1>5, <2>6, <3>1, <3>2 DEF Tracked, TrackedOf, Idle, InStage
    <3>4. \A v \in Workers : Runs(v, a)' <=> v = w
      BY <2>2, <3>2 DEF Idle, Runs
    <3>5. RunKnows(w, a)'
      BY <1>2, <2>3, <3>3 DEF RunKnows
    <3>6. ~Idle(a)'
      BY <3>4 DEF Idle
    <3> QED  BY <1>2, <3>3, <3>4, <3>5, <3>6 DEF TrackedOf
  <2> QED  BY <2>5, <2>6
<1>6. CASE status[a] # "active"
  <2>1. UNCHANGED <<at, stage, excused>> /\ queue' = [queue EXCEPT ![w] = queue[w] \ {a}]
    BY <1>1, <1>3, <1>6 DEF WorkerTypes
  <2>2. \A v \in Workers : x \in queue'[v] => x \in queue[v] /\ snapshot'[v] = snapshot[v]
    BY <1>1, <1>2, <2>1 DEF WorkerTypes
  <2>3. Untouched(x)
    BY <1>2, <2>1, <2>2 DEF Untouched, Runs
  <2> QED  BY <2>3, UntouchedTracked DEF Tracked
<1> QED  BY <1>5, <1>6

LEMMA PushedType ==
  ASSUME ObserverTypes, NEW x \in Automations
  PROVE  pushed[x] \in Nat
<1>1. Items \cup {0} \subseteq Nat
  BY AutomationAssumption
<1>2. pushed[x] \in Items \cup {0}
  BY DEF ObserverTypes
<1> QED  BY <1>1, <1>2, Zenon

LEMMA ExcusedAt ==
  ASSUME ObserverTypes, NEW x \in Automations, NEW b \in BOOLEAN, excused' = [excused EXCEPT ![x] = b]
  PROVE  excused'[x] = b /\ \A y \in Automations \ {x} : excused'[y] = excused[y]
<1>1. excused \in [Automations -> BOOLEAN]
  BY DEF ObserverTypes
<1> QED  BY <1>1

LEMMA TrackedHandle ==
  ASSUME TypeInvariant, Tracked, NEW w \in Workers, Handle(w), NEW x \in Cursored
  PROVE  TrackedOf(x)'
<1> USE AutomationAssumption
<1> DEFINE a == at[w]
<1>1. RowTypes /\ WorkerTypes /\ ObserverTypes /\ Shape /\ Cursored \subseteq Automations
  BY TypesNow DEF Cursored
<1>2. /\ UNCHANGED <<at, snapshot, queue, excused, pushed, cursor, status>>
      /\ stage[w] = "handling" /\ a \in Automations
  BY <1>1 DEF Handle, Shape, row, observer
<1>3. \/ Goto(w, "pushing") /\ UNCHANGED outcome
      \/ Conclude(w, "error")
      \/ Conclude(w, "ok")
  BY DEF Handle
<1>4. Goto(w, "pushing") \/ Goto(w, "booking")
  BY <1>3 DEF Conclude
<1>5. stage'[w] \in {"pushing", "booking"} /\ \A v \in Workers \ {w} : stage'[v] = stage[v]
  BY <1>1, <1>4, GotoType DEF Stages
<1>6. \/ UNCHANGED item
      \/ item' = [item EXCEPT ![w] = LatestItem(a, snapshot[w][a].cursor)]
      \/ item' = [item EXCEPT ![w] = PickStaticPost(a, snapshot[w][a].cursor)]
  BY DEF Handle
<1>7. \A v \in Workers \ {w} : item'[v] = item[v]
  BY <1>1, <1>6 DEF WorkerTypes
<1>8. CASE x # a
  <2>1. ~Runs(w, x) /\ ~Runs(w, x)'
    BY <1>2, <1>8 DEF Runs
  <2>2. Untouched(x)
    BY <1>2, <1>5, <1>7, <2>1, OtherUntouched
  <2> QED  BY <2>2, UntouchedTracked DEF Tracked
<1>9. CASE x = a
  <2> SUFFICES ASSUME ~excused[x] PROVE TrackedOf(x)'
    BY <1>2 DEF TrackedOf
  <2>1. \A v \in Workers : Runs(v, x) <=> v = w
    BY <1>9 DEF Tracked, TrackedOf, Runs
  <2>2. \A v \in Workers : Runs(v, x)' <=> v = w
    BY <1>2, <2>1 DEF Runs
  <2>3. snapshot[w][x].cursor = pushed[x]
    BY <1>2, <2>1 DEF Tracked, TrackedOf, RunKnows
  <2>4. cursor[x] = pushed[x]
    <3>1. ~InStage(x, {"saving"}) /\ InStage(x, {"handling", "pushing"})
      BY <1>2, <2>1 DEF InStage
    <3> QED  BY <3>1 DEF Tracked, TrackedOf
  <2>5. RunKnows(w, x)'
    <3>1. CASE stage'[w] = "booking"
      BY <3>1 DEF RunKnows
    <3>2. CASE stage'[w] = "pushing"
      <4>1. stage' = [stage EXCEPT ![w] = "pushing"]
        BY <1>1, <1>4, <3>2 DEF Goto, WorkerTypes
      <4>2. \/ config[x].type = "feed" /\ item' = [item EXCEPT ![w] = LatestItem(x, pushed[x])]
                /\ LatestItem(x, pushed[x]) # 0
            \/ config[x].type = "automagic_static" /\ item' = [item EXCEPT ![w] = PickStaticPost(x, pushed[x])]
                /\ PickStaticPost(x, pushed[x]) # 0
        BY <1>1, <1>9, <2>3, <3>2 DEF Handle, Cursored, Conclude, Goto, WorkerTypes
      <4>3. item'[w] # pushed[x] /\ pushed[x] \in Nat
        <5>1. pushed[x] \in Nat
          <6>1. x \in Automations
            BY <1>1
          <6> QED  BY <1>1, <6>1, PushedType, Zenon
        <5>2. LatestItem(x, pushed[x]) # 0 => LatestItem(x, pushed[x]) # pushed[x]
          BY DEF LatestItem
        <5>3. PickStaticPost(x, pushed[x]) # 0 => PickStaticPost(x, pushed[x]) # pushed[x]
          BY <5>1 DEF PickStaticPost
        <5> QED  BY <1>1, <4>2, <5>1, <5>2, <5>3 DEF WorkerTypes
      <4> QED  BY <1>2, <3>2, <4>3 DEF RunKnows
    <3> QED  BY <1>5, <3>1, <3>2
  <2>6. ~Idle(x)'
    BY <2>2 DEF Idle
  <2> QED  BY <1>2, <2>2, <2>4, <2>5, <2>6 DEF TrackedOf
<1> QED  BY <1>8, <1>9

LEMMA TrackedEnqueue ==
  ASSUME TypeInvariant, Tracked, NEW w \in Workers, Enqueue(w), NEW x \in Cursored
  PROVE  TrackedOf(x)'
<1> USE AutomationAssumption
<1> DEFINE a == at[w]
<1>1. RowTypes /\ WorkerTypes /\ ObserverTypes /\ Shape /\ Cursored \subseteq Automations
  BY TypesNow DEF Cursored
<1>2. /\ UNCHANGED <<at, item, snapshot, queue, excused, cursor, status>>
      /\ stage[w] = "pushing" /\ a \in Automations
  BY <1>1 DEF Enqueue, Shape, row, observer
<1>3. pushed'[a] = (IF a \in Cursored THEN item[w] ELSE pushed[a])
      /\ \A y \in Automations \ {a} : pushed'[y] = pushed[y]
  BY <1>1, <1>2 DEF Enqueue, ObserverTypes
<1>4. /\ \A v \in Workers \ {w} : stage'[v] = stage[v]
      /\ a \in Cursored => stage'[w] = "saving"
  BY <1>1, <1>2 DEF Enqueue, Conclude, Goto, WorkerTypes
<1>5. CASE x # a
  <2>1. ~Runs(w, x) /\ ~Runs(w, x)'
    BY <1>2, <1>5 DEF Runs
  <2>2. Untouched(x)
    BY <1>1, <1>2, <1>3, <1>4, <1>5, <2>1, OtherUntouched
  <2> QED  BY <2>2, UntouchedTracked DEF Tracked
<1>6. CASE x = a
  <2> SUFFICES ASSUME ~excused[x] PROVE TrackedOf(x)'
    BY <1>2 DEF TrackedOf
  <2>1. \A v \in Workers : Runs(v, x) <=> v = w
    BY <1>6 DEF Tracked, TrackedOf, Runs
  <2>2. \A v \in Workers : Runs(v, x)' <=> v = w
    BY <1>2, <2>1 DEF Runs
  <2>3. stage'[w] = "saving" /\ item'[w] = pushed'[x]
    BY <1>2, <1>3, <1>4, <1>6
  <2>4. InStage(x, {"saving"})' /\ ~Idle(x)' /\ RunKnows(w, x)'
    BY <2>2, <2>3 DEF InStage, Idle, RunKnows
  <2> QED  BY <2>2, <2>4 DEF TrackedOf
<1> QED  BY <1>5, <1>6

LEMMA TrackedRefused ==
  ASSUME TypeInvariant, Tracked, NEW w \in Workers, EnqueueRefused(w), NEW x \in Cursored
  PROVE  TrackedOf(x)'
<1> USE AutomationAssumption
<1> DEFINE a == at[w]
<1>1. RowTypes /\ WorkerTypes /\ ObserverTypes /\ Shape /\ Cursored \subseteq Automations
  BY TypesNow DEF Cursored
<1>2. /\ UNCHANGED <<at, item, snapshot, queue, excused, pushed, cursor, status>>
      /\ stage[w] = "pushing" /\ a \in Automations
  BY <1>1 DEF EnqueueRefused, Shape, row, observer
<1>3. stage'[w] = "booking" /\ \A v \in Workers \ {w} : stage'[v] = stage[v]
  BY <1>1 DEF EnqueueRefused, Conclude, Goto, WorkerTypes
<1>4. CASE x # a
  <2>1. ~Runs(w, x) /\ ~Runs(w, x)'
    BY <1>2, <1>4 DEF Runs
  <2>2. Untouched(x)
    BY <1>2, <1>3, <2>1, OtherUntouched
  <2> QED  BY <2>2, UntouchedTracked DEF Tracked
<1>5. CASE x = a
  <2> SUFFICES ASSUME ~excused[x] PROVE TrackedOf(x)'
    BY <1>2 DEF TrackedOf
  <2>1. \A v \in Workers : Runs(v, x) <=> v = w
    BY <1>5 DEF Tracked, TrackedOf, Runs
  <2>2. \A v \in Workers : Runs(v, x)' <=> v = w
    BY <1>2, <2>1 DEF Runs
  <2>3. ~InStage(x, {"saving"}) /\ InStage(x, {"handling", "pushing"})
    BY <1>2, <2>1 DEF InStage
  <2>4. cursor[x] = pushed[x]
    BY <2>3 DEF Tracked, TrackedOf
  <2>5. RunKnows(w, x)' /\ ~Idle(x)'
    BY <1>3, <2>2 DEF RunKnows, Idle
  <2> QED  BY <1>2, <2>2, <2>4, <2>5 DEF TrackedOf
<1> QED  BY <1>4, <1>5

LEMMA TrackedSave ==
  ASSUME TypeInvariant, Tracked, NEW w \in Workers, Save(w), NEW x \in Cursored
  PROVE  TrackedOf(x)'
<1> USE AutomationAssumption
<1> DEFINE a == at[w]
<1>1. RowTypes /\ WorkerTypes /\ ObserverTypes /\ Shape /\ Cursored \subseteq Automations
  BY TypesNow DEF Cursored
<1>2. /\ UNCHANGED <<at, item, snapshot, queue, pushed, status>>
      /\ a \in Automations /\ status[a] # "none"
  BY <1>1 DEF Save, Shape
<1>3. stage'[w] = "booking" /\ \A v \in Workers \ {w} : stage'[v] = stage[v]
  BY <1>1 DEF Save, Conclude, Goto, WorkerTypes
<1>4. \/ /\ cursor' = SaveCursor(a, item[w])
         /\ excused' = [excused EXCEPT ![a] = item[w] # pushed[a] \/ Others(w, a) # {} \/ Selected(a) # {}]
      \/ cursor' = cursor /\ excused' = [excused EXCEPT ![a] = TRUE]
  BY DEF Save
<1>5. CASE x # a
  <2>1. ~Runs(w, x) /\ ~Runs(w, x)'
    BY <1>2, <1>5 DEF Runs
  <2>2. excused'[x] = excused[x] /\ cursor'[x] = cursor[x]
    BY <1>1, <1>4, <1>5 DEF SaveCursor, RowTypes, ObserverTypes
  <2>3. Untouched(x)
    BY <1>2, <1>3, <2>1, <2>2, OtherUntouched
  <2> QED  BY <2>3, UntouchedTracked DEF Tracked
<1>6. CASE x = a
  <2> SUFFICES ASSUME ~excused'[x] PROVE TrackedOf(x)'
    BY DEF TrackedOf
  <2> HIDE DEF a
  <2>1. cursor' = SaveCursor(a, item[w]) /\ item[w] = pushed[a] /\ Others(w, a) = {}
    BY <1>1, <1>2, <1>4, <1>6 DEF ObserverTypes
  <2>2. \A v \in Workers : Runs(v, x)' <=> v = w
    BY <1>2, <1>6, <2>1 DEF Runs, Others, Running, a
  <2>3. cursor'[x] = pushed'[x] \/ status'[x] = "gone"
    BY <1>1, <1>2, <1>6, <2>1 DEF SaveCursor, RowTypes
  <2>4. ~InStage(x, {"handling", "pushing"})' /\ RunKnows(w, x)' /\ ~Idle(x)'
    BY <1>3, <2>2 DEF InStage, RunKnows, Idle
  <2> QED  BY <2>2, <2>3, <2>4 DEF TrackedOf
<1> QED  BY <1>5, <1>6

LEMMA ReleasedTracked ==
  ASSUME NEW w \in Workers, NEW a \in Automations, Runs(w, a), TrackedOf(a),
         \A v \in Workers \ {w} : at'[v] = at[v],
         at'[w] = NULL, pushed'[a] = pushed[a], cursor'[a] = cursor[a],
         status[a] = "gone" => status'[a] = "gone",
         ~excused'[a] => ~excused[a] /\ stage[w] # "saving" /\ \A v \in Workers : a \notin queue'[v]
  PROVE  TrackedOf(a)'
<1> SUFFICES ASSUME ~excused'[a] PROVE TrackedOf(a)'
  BY DEF TrackedOf
<1>1. \A v \in Workers : Runs(v, a) <=> v = w
  BY DEF TrackedOf, Runs
<1>2. \A v \in Workers : ~Runs(v, a)'
  BY <1>1, AutomationAssumption DEF Runs
<1>3. ~InStage(a, {"saving"})
  BY <1>1 DEF InStage
<1>4. cursor'[a] = pushed'[a] \/ status'[a] = "gone"
  BY <1>3 DEF TrackedOf
<1>5. ~InStage(a, {"handling", "pushing"})'
  BY <1>2 DEF InStage
<1> QED  BY <1>2, <1>4, <1>5 DEF TrackedOf

LEMMA TrackedBook ==
  ASSUME TypeInvariant, SelectedActive, Tracked, NEW w \in Workers, Book(w), NEW x \in Cursored
  PROVE  TrackedOf(x)'
<1> USE AutomationAssumption
<1> DEFINE a == at[w]
<1>1. RowTypes /\ WorkerTypes /\ ObserverTypes /\ Shape /\ Cursored \subseteq Automations
  BY TypesNow DEF Cursored
<1>2. UNCHANGED <<snapshot, excused, pushed, cursor>> /\ a \in Automations /\ stage[w] = "booking"
  BY <1>1 DEF Book, Release, Shape
<1>3. \A v \in Workers \ {w} : at'[v] = at[v] /\ stage'[v] = stage[v] /\ item'[v] = item[v]
  BY <1>1 DEF Book, Release, Goto, WorkerTypes
<1>4. at'[w] = NULL
  BY <1>1 DEF Book, Release, WorkerTypes
<1>5. CASE MayBook(w)
  <2>1. /\ status[a] = "active" /\ queue' = Unselect(a)
        /\ status' = [status EXCEPT ![a] = IF AutoPaused(w) THEN "paused" ELSE "active"]
    BY <1>5 DEF Book, MayBook
  <2>2. \A v \in Workers : queue'[v] = queue[v] \ {a}
    BY <1>1, <2>1, UnselectType
  <2>3. \A y \in Automations \ {a} : status'[y] = status[y]
    BY <1>1, <2>1 DEF RowTypes
  <2>4. CASE x = a
    <3>1. TrackedOf(a) /\ Runs(w, a)
      BY <2>4 DEF Tracked, Runs
    <3>2. \A v \in Workers : a \notin queue'[v]
      BY <2>2
    <3>3. status[a] # "gone" /\ stage[w] # "saving"
      BY <1>2, <2>1
    <3> QED  BY <1>2, <1>3, <1>4, <2>4, <3>1, <3>2, <3>3, ReleasedTracked
  <2>5. CASE x # a
    <3>1. ~Runs(w, x) /\ ~Runs(w, x)'
      BY <1>1, <1>4, <2>5 DEF Runs
    <3>2. Untouched(x)
      BY <1>1, <1>2, <1>3, <2>2, <2>3, <2>5, <3>1, OtherUntouched
    <3> QED  BY <3>2, UntouchedTracked DEF Tracked
  <2> QED  BY <2>4, <2>5
<1>6. CASE ~MayBook(w)
  <2>1. UNCHANGED <<status, queue>> /\ status[a] # "active"
    BY <1>6 DEF Book, MayBook
  <2>2. \A v \in Workers : a \notin queue'[v]
    BY <2>1 DEF SelectedActive
  <2>3. CASE x = a
    <3>1. TrackedOf(a) /\ Runs(w, a)
      BY <2>3 DEF Tracked, Runs
    <3> QED  BY <1>2, <1>3, <1>4, <2>1, <2>2, <2>3, <3>1, ReleasedTracked
  <2>4. CASE x # a
    <3>1. ~Runs(w, x) /\ ~Runs(w, x)'
      BY <1>1, <1>4, <2>4 DEF Runs
    <3>2. Untouched(x)
      BY <1>2, <1>3, <2>1, <3>1, OtherUntouched
    <3> QED  BY <3>2, UntouchedTracked DEF Tracked
  <2> QED  BY <2>3, <2>4
<1> QED  BY <1>5, <1>6

LEMMA TrackedBookFails ==
  ASSUME TypeInvariant, Tracked, NEW w \in Workers, BookFails(w), NEW x \in Cursored
  PROVE  TrackedOf(x)'
<1> USE AutomationAssumption
<1> DEFINE a == at[w]
<1>1. RowTypes /\ WorkerTypes /\ ObserverTypes /\ Shape /\ Cursored \subseteq Automations
  BY TypesNow DEF Cursored
<1>2. /\ UNCHANGED <<snapshot, queue, pushed, cursor, status>>
      /\ a \in Automations /\ stage[w] = "booking"
  BY <1>1 DEF BookFails, Release, Shape, row
<1>3. \A v \in Workers \ {w} : at'[v] = at[v] /\ stage'[v] = stage[v] /\ item'[v] = item[v]
  BY <1>1 DEF BookFails, Release, Goto, WorkerTypes
<1>4. at'[w] = NULL
  BY <1>1 DEF BookFails, Release, WorkerTypes
<1>5. excused' = [excused EXCEPT ![a] = @ \/ Selected(a) # {}]
  BY DEF BookFails
<1>6. CASE x = a
  <2>1. TrackedOf(a) /\ Runs(w, a)
    BY <1>6 DEF Tracked, Runs
  <2>2. ~excused'[a] => ~excused[a] /\ \A v \in Workers : a \notin queue'[v]
    BY <1>1, <1>2, <1>5 DEF ObserverTypes, Selected
  <2> QED  BY <1>2, <1>3, <1>4, <1>6, <2>1, <2>2, ReleasedTracked
<1>7. CASE x # a
  <2>1. ~Runs(w, x) /\ ~Runs(w, x)' /\ excused'[x] = excused[x]
    BY <1>1, <1>4, <1>5, <1>7 DEF Runs, ObserverTypes
  <2>2. Untouched(x)
    BY <1>2, <1>3, <2>1, OtherUntouched
  <2> QED  BY <2>2, UntouchedTracked DEF Tracked
<1> QED  BY <1>6, <1>7

LEMMA TrackedCrash ==
  ASSUME TypeInvariant, Tracked, NEW w \in Workers, Crash(w), NEW x \in Cursored
  PROVE  TrackedOf(x)'
<1> USE AutomationAssumption
<1> DEFINE a == at[w]
<1>1. RowTypes /\ WorkerTypes /\ ObserverTypes /\ Shape /\ Cursored \subseteq Automations
  BY TypesNow DEF Cursored
<1>2. UNCHANGED <<pushed, cursor, status>>
  BY DEF Crash, row
<1>3. \A v \in Workers \ {w} :
        /\ at'[v] = at[v] /\ stage'[v] = stage[v] /\ item'[v] = item[v] /\ snapshot'[v] = snapshot[v]
        /\ queue'[v] = queue[v]
  BY <1>1 DEF Crash, Goto, WorkerTypes
<1>4. at'[w] = NULL /\ queue'[w] = {}
  BY <1>1 DEF Crash, WorkerTypes
<1>5. \A y : \A v \in Workers : y \in queue'[v] => y \in queue[v] /\ snapshot'[v] = snapshot[v]
  BY <1>3, <1>4
<1>6. \/ a = NULL /\ UNCHANGED excused
      \/ a \in Automations /\ excused' = [excused EXCEPT ![a] = @ \/ stage[w] = "saving" \/ Selected(a) # {}]
  BY <1>1 DEF Crash, WorkerTypes
<1> DEFINE e == excused[a] \/ stage[w] = "saving" \/ Selected(a) # {}
<1>e. /\ a \in Automations => excused'[a] = e
      /\ \A y \in Automations \ {a} : excused'[y] = excused[y]
  <2>1. CASE a = NULL /\ UNCHANGED excused
    BY <2>1
  <2>2. CASE a \in Automations /\ excused' = [excused EXCEPT ![a] = e]
    <3>1. e \in BOOLEAN
      OBVIOUS
    <3> HIDE DEF e, a
    <3> QED  BY <1>1, <2>2, <3>1, ExcusedAt
  <2> QED  BY <1>6, <2>1, <2>2, Zenon
<1>7. CASE x = a
  <2>1. TrackedOf(a) /\ Runs(w, a) /\ a \in Automations
    BY <1>1, <1>7 DEF Tracked, Runs
  <2>2. ~excused'[a] => ~excused[a] /\ stage[w] # "saving" /\ Selected(a) = {}
    BY <1>e, <2>1
  <2>3. Selected(a) = {} => \A v \in Workers : a \notin queue'[v]
    BY <1>5 DEF Selected
  <2> QED  BY <1>2, <1>3, <1>4, <1>7, <2>1, <2>2, <2>3, ReleasedTracked
<1>8. CASE x # a
  <2>1. ~Runs(w, x) /\ ~Runs(w, x)' /\ excused'[x] = excused[x]
    BY <1>1, <1>4, <1>e, <1>8 DEF Runs
  <2>2. Untouched(x)
    BY <1>2, <1>3, <1>5, <2>1, OtherUntouched
  <2> QED  BY <2>2, UntouchedTracked DEF Tracked
<1> QED  BY <1>7, <1>8

LEMMA TrackedNext == TypeInvariant /\ SelectedActive /\ Tracked /\ [Next]_vars => Tracked'
<1> USE AutomationAssumption
<1> SUFFICES ASSUME TypeInvariant, SelectedActive, Tracked, [Next]_vars PROVE Tracked'
  OBVIOUS
<1>1. RowTypes /\ WorkerTypes /\ Shape
  BY TypesNow
<1>2. UNCHANGED config
  BY DEF Next, WorkerStep, WorkerFault, Select, Claim, Finish, Handle, Enqueue, EnqueueRefused, Save, Book,
         BookFails, Crash, CreateAutomation, DeleteAutomation, Publish, Read, Write, Tick, row, vars
<1> SUFFICES ASSUME NEW x \in Cursored PROVE TrackedOf(x)'
  BY <1>2 DEF Tracked, Cursored
<1>3. x \in Automations
  BY DEF Cursored
<1>4. ASSUME UNCHANGED <<excused, pushed, cursor, at, stage, item, snapshot>>,
             \A w \in Workers : queue'[w] \subseteq queue[w],
             status[x] = "gone" => status'[x] = "gone"
      PROVE  TrackedOf(x)'
  <2>1. Untouched(x)
    BY <1>4 DEF Untouched, Runs
  <2> QED  BY <2>1, UntouchedTracked DEF Tracked
<1>5. ASSUME NEW w \in Workers, Finish(w) PROVE TrackedOf(x)'
  <2>1. /\ UNCHANGED <<excused, pushed, cursor, at, item, queue, status>>
        /\ at[w] = NULL /\ queue[w] = {}
    BY <1>5 DEF Finish, row, observer
  <2>2. \A v \in Workers \ {w} : stage'[v] = stage[v] /\ snapshot'[v] = snapshot[v]
    BY <1>1, <1>5 DEF Finish, Goto, WorkerTypes
  <2>3. ~Runs(w, x) /\ ~Runs(w, x)'
    BY <1>3, <2>1 DEF Runs
  <2>4. \A v \in Workers : x \in queue'[v] => x \in queue[v] /\ snapshot'[v] = snapshot[v]
    BY <2>1, <2>2
  <2>5. Untouched(x)
    BY <2>1, <2>2, <2>3, <2>4, OtherUntouched
  <2> QED  BY <2>5, UntouchedTracked DEF Tracked
<1>6. ASSUME NEW w \in Workers, WorkerStep(w) \/ WorkerFault(w) PROVE TrackedOf(x)'
  BY <1>5, <1>6, TrackedSelect, TrackedClaim, TrackedHandle, TrackedEnqueue, TrackedRefused, TrackedSave,
     TrackedBook, TrackedBookFails, TrackedCrash DEF WorkerStep, WorkerFault
<1>7. ASSUME NEW a \in Automations, CreateAutomation(a) PROVE TrackedOf(x)'
  <2>1. /\ UNCHANGED <<excused, pushed, cursor, at, stage, item, snapshot, queue>>
        /\ status[a] = "none" /\ status' = [status EXCEPT ![a] = "active"]
    BY <1>7 DEF CreateAutomation, worker, observer
  <2> QED  BY <1>1, <1>3, <1>4, <2>1 DEF RowTypes
<1>8. ASSUME NEW a \in Automations, DeleteAutomation(a) PROVE TrackedOf(x)'
  <2>1. /\ UNCHANGED <<excused, pushed, cursor, at, stage, item, snapshot>>
        /\ queue' = Unselect(a) /\ status' = [status EXCEPT ![a] = "gone"]
    BY <1>8 DEF DeleteAutomation, observer
  <2> QED  BY <1>1, <1>3, <1>4, <2>1, UnselectType DEF RowTypes
<1>9. ASSUME NEW a \in Automations, Publish(a) PROVE TrackedOf(x)'
  BY <1>4, <1>9 DEF Publish, row, worker, observer
<1>10. CASE Write
  <2> DEFINE a == request.id
  <2>1. a \in Automations /\ UNCHANGED <<excused, pushed, cursor, at, stage, item, snapshot>>
    BY <1>10, Written DEF Write
  <2>2. \/ UNCHANGED <<status, queue>>
        \/ /\ queue' = Unselect(a) /\ Exists(a)
           /\ UNCHANGED status \/ \E s : status' = [status EXCEPT ![a] = s]
    BY <1>10, Written DEF Arm
  <2> HIDE DEF a
  <2>3. \A w \in Workers : queue'[w] \subseteq queue[w]
    BY <1>1, <2>2, UnselectType
  <2>4. status[x] = "gone" => status'[x] = "gone"
    BY <1>1, <1>3, <2>1, <2>2 DEF Exists, RowTypes
  <2> QED  BY <1>4, <2>1, <2>3, <2>4
<1>11. CASE Read \/ Tick \/ UNCHANGED vars
  BY <1>4, <1>11 DEF Read, Tick, vars, row, worker, observer
<1> QED  BY <1>6, <1>7, <1>8, <1>9, <1>10, <1>11 DEF Next

\* The same entry or rotation turn is not sent twice in a row, unless a crash
\* or a failing statement lost the cursor or two runs overlapped; how long a
\* run takes does not matter.
THEOREM NothingTwice == Spec => []NoRepeat
<1>1. Init => TypeInvariant /\ SelectedActive /\ Tracked
  BY TypeInit, SelectedInit
<1>2. TypeInvariant /\ SelectedActive /\ Tracked /\ [Next]_vars => (TypeInvariant /\ SelectedActive /\ Tracked)'
  BY TypeNext, SelectedNext, TrackedNext
<1>3. Tracked => NoRepeat
  BY DEF Tracked, TrackedOf, RunKnows, Runs, NoRepeat
<1> QED  BY <1>1, <1>2, <1>3, PTL DEF Spec
=============================================================================
