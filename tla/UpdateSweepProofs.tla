-------------------------- MODULE UpdateSweepProofs --------------------------
(***************************************************************************)
(* Proofs about UpdateSweep, for every number of records, dates, requests  *)
(* that fail and, where a theorem does not say otherwise, sweeps that      *)
(* overlap.                                                                *)
(***************************************************************************)
EXTENDS UpdateSweep, FiniteSetTheorems, TLAPS

Left(s) == {todo[s][i] : i \in 1..Len(todo[s])}

(***************************************************************************)
(* What a sweep works on was dated, and what it leaves behind is there:    *)
(* this is the induction hypothesis of both safety properties.             *)
(***************************************************************************)
DatesKept == \A g \in Signals : due[g.subject] = g.due => g \in dated

PlansDated == \A s \in Sweeps : plan[s] \subseteq dated

IssuesKnown == \A g \in Signals : issues[g] > 0 => g \in raised /\ g \in dated

PlansFollowed ==
  \A s \in Sweeps :
    /\ pc[s] = "idle" /\ exit[s] = 0 => plan[s] \subseteq raised
    /\ pc[s] # "idle" /\ ~failed[s] => plan[s] \subseteq raised \cup Left(s)

Raising == DatesKept /\ PlansDated /\ IssuesKnown /\ PlansFollowed

(***************************************************************************)
(* One run at a time: what it is about to create is not there.             *)
(***************************************************************************)
AtMostOne == \A g \in Signals : issues[g] <= 1
PostIsNew == \A s \in Sweeps : pc[s] = "post" => issues[Head(todo[s])] = 0

-----------------------------------------------------------------------------
(***************************************************************************)
(* BuildSignals gives a list of signals that records are due for now.      *)
(***************************************************************************)
LEMMA SignalsBuilt ==
  ASSUME due \in [Entities -> Days \cup {Unscheduled, Malformed}],
         NEW horizon \in Nat, NEW list \in BuildSignals(horizon)
  PROVE  /\ list \in Seq(Signals)
         /\ \A i \in 1..Len(list) : due[list[i].subject] = list[i].due
<1> DEFINE D == DueBy(horizon)
<1>1. IsFiniteSet(D) /\ Cardinality(D) \in Nat
  <2>1. D \subseteq 1..NumEntities
    BY DEF DueBy, Entities
  <2>2. NumEntities \in Nat
    BY SizesAssumption
  <2>3. IsFiniteSet(1..NumEntities)
    BY <2>2, FS_Interval
  <2> QED BY <2>1, <2>3, FS_Subset, FS_CardinalityType
<1>2. PICK f \in InOrder(horizon) : list = [i \in DOMAIN f |-> BuildSignal(f[i], horizon)]
  BY DEF BuildSignals
<1>3. f \in [1..Cardinality(D) -> D]
  BY <1>2 DEF InOrder
<1>4. \A i \in 1..Cardinality(D) :
        /\ BuildSignal(f[i], horizon) \in Signals
        /\ BuildSignal(f[i], horizon).subject = f[i]
        /\ BuildSignal(f[i], horizon).due = due[f[i]]
  BY <1>3 DEF BuildSignal, Signals, DueBy, IsDue
<1>5. /\ list \in [1..Cardinality(D) -> Signals]
      /\ \A i \in 1..Cardinality(D) : list[i] = BuildSignal(f[i], horizon)
  <2> HIDE DEF D
  <2> QED BY <1>2, <1>3, <1>4
<1>6. list \in Seq(Signals) /\ Len(list) = Cardinality(D)
  <2> HIDE DEF D
  <2> QED BY <1>1, <1>5
<1> QED
  <2> HIDE DEF D
  <2> QED BY <1>4, <1>5, <1>6

(***************************************************************************)
(* Going on to the next signal leaves all but the first.                   *)
(***************************************************************************)
LEMMA TailLeaves ==
  ASSUME NEW q \in Seq(Signals), q # <<>>
  PROVE  /\ Tail(q) \in Seq(Signals) /\ Head(q) \in Signals
         /\ {Tail(q)[i] : i \in 1..Len(Tail(q))} \subseteq {q[i] : i \in 1..Len(q)}
         /\ {q[i] : i \in 1..Len(q)} \subseteq {Head(q)} \cup {Tail(q)[i] : i \in 1..Len(Tail(q))}
<1>1. Len(q) \in Nat /\ Len(q) > 0 /\ Len(Tail(q)) = Len(q) - 1
  OBVIOUS
<1>2. \A i \in 1..Len(Tail(q)) : Tail(q)[i] = q[i + 1]
  OBVIOUS
<1>3. \A i \in 1..Len(q) : i = 1 \/ (i - 1 \in 1..Len(Tail(q)) /\ q[i] = Tail(q)[i - 1])
  BY <1>1, <1>2
<1>4. Tail(q) \in Seq(Signals) /\ Head(q) \in Signals /\ Head(q) = q[1]
  OBVIOUS
<1>5. \A i \in 1..Len(Tail(q)) : i + 1 \in 1..Len(q)
  BY <1>1
<1>6. \A i \in 1..Len(Tail(q)) : Tail(q)[i] \in {q[j] : j \in 1..Len(q)}
  BY <1>2, <1>5
<1>7. \A i \in 1..Len(q) : q[i] = Head(q) \/ q[i] \in {Tail(q)[j] : j \in 1..Len(Tail(q))}
  BY <1>3, <1>4
<1> QED BY <1>4, <1>6, <1>7

-----------------------------------------------------------------------------
LEMMA TypeInit == Init => TypeOK
<1> SUFFICES ASSUME Init PROVE TypeOK
  OBVIOUS
<1>1. {NumEntities, MaxDay, MaxFaults, MaxEdits} \subseteq Nat
  BY SizesAssumption
<1>2. today \in Days /\ faults \in 0..MaxFaults /\ edits \in 0..MaxEdits
  BY <1>1 DEF Init, Days
<1>3. due \in [Entities -> Days \cup {Unscheduled, Malformed}]
  BY DEF Init
<1>4. todo \in [Sweeps -> Seq(Signals)] /\ \A s \in Sweeps : todo[s] = <<>>
  BY DEF Init
<1>5. \A s \in Sweeps : Len(todo[s]) = 0
  BY <1>4
<1> QED BY <1>2, <1>3, <1>4, <1>5 DEF Init, TypeOK

LEMMA NextSignalTypes ==
  ASSUME TypeOK, NEW s \in Sweeps, todo[s] # <<>>, NextSignal(s), UNCHANGED plan
  PROVE  /\ pc' \in [Sweeps -> {"idle", "search", "post"}]
         /\ todo' \in [Sweeps -> Seq(Signals)]
         /\ \A t \in Sweeps :
              /\ pc'[t] = "post" => todo'[t] # <<>>
              /\ pc'[t] = "idle" => todo'[t] = <<>>
              /\ \A i \in 1..Len(todo'[t]) : todo'[t][i] \in plan'[t]
<1>1. todo[s] \in Seq(Signals) /\ Tail(todo[s]) \in Seq(Signals)
  BY TailLeaves DEF TypeOK
<1>2. \A i \in 1..Len(Tail(todo[s])) : Tail(todo[s])[i] \in plan[s]
  BY <1>1, TailLeaves DEF TypeOK
<1>3. pc'[s] = "search" /\ todo'[s] = Tail(todo[s])
  BY DEF NextSignal, TypeOK
<1>4. \A t \in Sweeps \ {s} : pc'[t] = pc[t] /\ todo'[t] = todo[t]
  BY DEF NextSignal, TypeOK
<1>5. pc' \in [Sweeps -> {"idle", "search", "post"}] /\ todo' \in [Sweeps -> Seq(Signals)]
  BY <1>1 DEF NextSignal, TypeOK
<1>6. \A t \in Sweeps :
        /\ pc'[t] = "post" => todo'[t] # <<>>
        /\ pc'[t] = "idle" => todo'[t] = <<>>
        /\ \A i \in 1..Len(todo'[t]) : todo'[t][i] \in plan[t]
  BY <1>2, <1>3, <1>4 DEF TypeOK
<1> QED BY <1>5, <1>6

LEMMA CreateTypes ==
  ASSUME TypeOK, NEW g \in Signals, Create(g)
  PROVE  issues' \in [Signals -> Nat] /\ closed' \subseteq Signals /\ raised' \subseteq Signals
BY DEF TypeOK, Create

(***************************************************************************)
(* Every step keeps the types.                                             *)
(***************************************************************************)
LEMMA StartSweepTypes ==
  ASSUME TypeOK, NEW s \in Sweeps, StartSweep(s)
  PROVE  TypeOK'
<1>0. PICK ahead \in Lookaheads : \E list \in BuildSignals(today + ahead) :
        /\ todo' = [todo EXCEPT ![s] = list]
        /\ plan' = [plan EXCEPT ![s] = {list[i] : i \in 1..Len(list)}]
  BY DEF StartSweep
<1>1. PICK list \in BuildSignals(today + ahead) :
        /\ todo' = [todo EXCEPT ![s] = list]
        /\ plan' = [plan EXCEPT ![s] = {list[i] : i \in 1..Len(list)}]
  BY <1>0
<1>2. today + ahead \in Nat
  BY SizesAssumption, LookaheadsAssumption DEF TypeOK, Days
<1>3. list \in Seq(Signals)
  BY <1>2, SignalsBuilt DEF TypeOK
<1>4. {list[i] : i \in 1..Len(list)} \subseteq Signals
  BY <1>3
<1>5. todo' \in [Sweeps -> Seq(Signals)] /\ plan' \in [Sweeps -> SUBSET Signals]
  BY <1>1, <1>3, <1>4 DEF TypeOK
<1>6. pc' \in [Sweeps -> {"idle", "search", "post"}] /\ failed' \in [Sweeps -> BOOLEAN]
  BY DEF StartSweep, TypeOK
<1>7. \A t \in Sweeps :
        /\ pc'[t] = "post" => todo'[t] # <<>>
        /\ pc'[t] = "idle" => todo'[t] = <<>>
        /\ \A i \in 1..Len(todo'[t]) : todo'[t][i] \in plan'[t]
  <2> TAKE t \in Sweeps
  <2>1. CASE t = s
    <3>1. pc'[t] = "search" /\ todo'[t] = list /\ plan'[t] = {list[i] : i \in 1..Len(list)}
      BY <1>1, <2>1 DEF StartSweep, TypeOK
    <3> QED BY <3>1
  <2>2. CASE t # s
    <3>1. pc'[t] = pc[t] /\ todo'[t] = todo[t] /\ plan'[t] = plan[t]
      BY <1>1, <2>2 DEF StartSweep, TypeOK
    <3> QED BY <3>1 DEF TypeOK
  <2> QED BY <2>1, <2>2
<1> QED
  BY <1>5, <1>6, <1>7 DEF StartSweep, TypeOK, recordVars, githubVars

LEMMA StopTypes ==
  ASSUME TypeOK, NEW s \in Sweeps,
         pc' = [pc EXCEPT ![s] = "idle"], todo' = [todo EXCEPT ![s] = <<>>], UNCHANGED plan
  PROVE  /\ pc' \in [Sweeps -> {"idle", "search", "post"}]
         /\ todo' \in [Sweeps -> Seq(Signals)]
         /\ \A t \in Sweeps :
              /\ pc'[t] = "post" => todo'[t] # <<>>
              /\ pc'[t] = "idle" => todo'[t] = <<>>
              /\ \A i \in 1..Len(todo'[t]) : todo'[t][i] \in plan'[t]
<1>1. pc' \in [Sweeps -> {"idle", "search", "post"}] /\ todo' \in [Sweeps -> Seq(Signals)]
  BY DEF TypeOK
<1>2. \A t \in Sweeps : t = s => pc'[t] = "idle" /\ todo'[t] = <<>> /\ Len(todo'[t]) = 0
  BY DEF TypeOK
<1>3. \A t \in Sweeps : t # s => pc'[t] = pc[t] /\ todo'[t] = todo[t] /\ plan'[t] = plan[t]
  BY DEF TypeOK
<1> QED BY <1>1, <1>2, <1>3 DEF TypeOK

LEMMA SweepTypes ==
  ASSUME TypeOK, NEW s \in Sweeps, SweepStep(s) \/ RequestFails(s) \/ Abort(s)
  PROVE  TypeOK'
<1>1. todo[s] # <<>> => Head(todo[s]) \in Signals
  BY TailLeaves DEF TypeOK
<1>2. CASE StartSweep(s)
  BY <1>2, StartSweepTypes
<1>3. CASE RefuseRecords(s)
  <2>1. exit' \in [Sweeps -> 0..2] /\ plan' \in [Sweeps -> SUBSET Signals]
    BY <1>3 DEF RefuseRecords, TypeOK
  <2>2. \A t \in Sweeps : \A i \in 1..Len(todo[t]) : todo[t][i] \in plan'[t]
    <3>1. \A t \in Sweeps : t # s => plan'[t] = plan[t]
      BY <1>3 DEF RefuseRecords, TypeOK
    <3>2. todo[s] = <<>> /\ Len(todo[s]) = 0
      BY <1>3 DEF RefuseRecords, TypeOK
    <3>3. \A t \in Sweeps : t # s => \A i \in 1..Len(todo[t]) : todo[t][i] \in plan'[t]
      BY <3>1 DEF TypeOK
    <3>4. 1..Len(todo[s]) = {}
      BY <3>2
    <3> QED BY <3>3, <3>4
  <2> QED BY <1>3, <2>1, <2>2 DEF RefuseRecords, TypeOK, recordVars, githubVars
<1>4. CASE Search(s)
  <2>1. CASE NextSignal(s)
    BY <1>4, <2>1, NextSignalTypes DEF Search, TypeOK, recordVars, githubVars
  <2>2. CASE pc' = [pc EXCEPT ![s] = "post"] /\ UNCHANGED todo
    BY <1>4, <2>2 DEF Search, TypeOK, recordVars, githubVars
  <2> QED BY <1>4, <2>1, <2>2 DEF Search
<1>5. CASE Post(s)
  <2>1. Create(Head(todo[s])) /\ Head(todo[s]) \in Signals /\ NextSignal(s)
    BY <1>1, <1>5 DEF Post, TypeOK
  <2>2. todo[s] # <<>> /\ UNCHANGED plan
    BY <1>5 DEF Post, TypeOK
  <2> QED BY <1>5, <2>1, <2>2, CreateTypes, NextSignalTypes DEF Post, TypeOK, recordVars
<1>6. CASE Finish(s)
  <2>1. pc' = [pc EXCEPT ![s] = "idle"] /\ todo[s] = <<>> /\ UNCHANGED todo
    BY <1>6 DEF Finish
  <2>2. exit' \in [Sweeps -> 0..2]
    BY <1>6 DEF Finish, TypeOK
  <2> QED BY <1>6, <2>1, <2>2 DEF Finish, TypeOK, recordVars, githubVars
<1>7. ASSUME faults < MaxFaults, faults' = faults + 1
      PROVE  faults' \in 0..MaxFaults
  BY <1>7, SizesAssumption DEF TypeOK
<1>8. ASSUME UNCHANGED githubVars \/ (pc[s] = "post" /\ Create(Head(todo[s])))
      PROVE  issues' \in [Signals -> Nat] /\ closed' \subseteq Signals /\ raised' \subseteq Signals
  BY <1>1, <1>8, CreateTypes DEF githubVars, TypeOK
<1>9. CASE RequestFails(s)
  <2>1. failed' \in [Sweeps -> BOOLEAN]
    BY <1>9 DEF RequestFails, CountFailure, TypeOK
  <2> QED BY <1>7, <1>8, <1>9, <2>1, NextSignalTypes DEF RequestFails, TypeOK, recordVars
<1>10. CASE Abort(s)
  <2>1. exit' \in [Sweeps -> 0..2]
    BY <1>10 DEF Abort, TypeOK
  <2> QED BY <1>7, <1>8, <1>10, <2>1, StopTypes DEF Abort, TypeOK, recordVars
<1> QED BY <1>2, <1>3, <1>4, <1>5, <1>6, <1>9, <1>10 DEF SweepStep

LEMMA PeopleTypes ==
  ASSUME TypeOK,
         \/ NextDay
         \/ \E e \in Entities, d \in Days \cup {Unscheduled, Malformed} : EditRecord(e, d)
         \/ \E g \in Signals : CloseIssue(g) \/ DeleteIssue(g)
  PROVE  TypeOK'
<1>1. MaxDay \in Nat /\ MaxEdits \in Nat
  BY SizesAssumption
<1>2. CASE NextDay
  <2>1. today' \in Days
    BY <1>1, <1>2 DEF NextDay, TypeOK, Days
  <2> QED BY <1>2, <2>1 DEF NextDay, TypeOK, githubVars, sweepVars
<1>3. ASSUME edits < MaxEdits, edits' = edits + 1
      PROVE  edits' \in 0..MaxEdits
  BY <1>1, <1>3 DEF TypeOK
<1>4. ASSUME NEW e \in Entities, NEW d \in Days \cup {Unscheduled, Malformed}, EditRecord(e, d)
      PROVE  TypeOK'
  <2>1. due' \in [Entities -> Days \cup {Unscheduled, Malformed}] /\ dated' \subseteq Signals
    BY <1>4 DEF EditRecord, TypeOK
  <2> QED BY <1>3, <1>4, <2>1 DEF EditRecord, TypeOK, githubVars, sweepVars
<1>5. ASSUME NEW g \in Signals, CloseIssue(g)
      PROVE  TypeOK'
  BY <1>5 DEF CloseIssue, TypeOK, recordVars, sweepVars
<1>6. ASSUME NEW g \in Signals, DeleteIssue(g)
      PROVE  TypeOK'
  <2>1. issues' \in [Signals -> Nat]
    BY <1>6 DEF DeleteIssue, TypeOK
  <2> QED BY <1>3, <1>6, <2>1 DEF DeleteIssue, TypeOK, recordVars, sweepVars
<1> QED BY <1>2, <1>4, <1>5, <1>6

(***************************************************************************)
(* A run has a signal in hand exactly when it is about to create an issue, *)
(* and what is left of its list is of its list (create_issue, main).       *)
(***************************************************************************)
THEOREM TypeCorrect == Spec => []TypeOK
<1>1. ASSUME TypeOK, [Next]_vars
      PROVE  TypeOK'
  <2>1. CASE UNCHANGED vars
    BY <1>1, <2>1 DEF vars, recordVars, githubVars, sweepVars, TypeOK
  <2>2. CASE Next
    BY <1>1, <2>2, SweepTypes, PeopleTypes DEF Next
  <2> QED BY <1>1, <2>1, <2>2
<1> QED BY <1>1, TypeInit, PTL DEF Spec

-----------------------------------------------------------------------------
LEMMA RaisingInit == Init => Raising
<1> SUFFICES ASSUME Init PROVE Raising
  OBVIOUS
<1>1. DatesKept
  BY DEF Init, DatesKept
<1>2. PlansDated /\ PlansFollowed
  BY DEF Init, PlansDated, PlansFollowed
<1>3. IssuesKnown
  BY DEF Init, IssuesKnown
<1> QED BY <1>1, <1>2, <1>3 DEF Raising

(***************************************************************************)
(* A signal that is found or created may be left.                          *)
(***************************************************************************)
LEMMA SignalDone ==
  ASSUME TypeOK, PlansFollowed, NEW s \in Sweeps, todo[s] # <<>>, pc[s] # "idle", NextSignal(s),
         UNCHANGED <<plan, exit>>, raised \subseteq raised',
         \A t \in Sweeps : t # s => failed'[t] = failed[t],
         \/ failed'[s] = TRUE
         \/ failed'[s] = failed[s] /\ Head(todo[s]) \in raised'
  PROVE  PlansFollowed'
<1>1. Left(s) \subseteq {Head(todo[s])} \cup {Tail(todo[s])[i] : i \in 1..Len(Tail(todo[s]))}
  BY TailLeaves DEF TypeOK, Left
<1>2. pc'[s] = "search" /\ todo'[s] = Tail(todo[s])
  BY DEF NextSignal, TypeOK
<1>3. Left(s)' = {Tail(todo[s])[i] : i \in 1..Len(Tail(todo[s]))}
  BY <1>2 DEF Left
<1>4. ~failed'[s] => plan'[s] \subseteq raised' \cup Left(s)'
  BY <1>1, <1>3 DEF PlansFollowed
<1>5. \A t \in Sweeps : t # s => pc'[t] = pc[t] /\ todo'[t] = todo[t]
  BY DEF NextSignal, TypeOK
<1>6. \A t \in Sweeps : t # s => Left(t)' = Left(t)
  BY <1>5 DEF Left
<1> QED BY <1>2, <1>4, <1>5, <1>6 DEF PlansFollowed

LEMMA CreateKnown ==
  ASSUME TypeOK, Raising, NEW g \in Signals, Create(g), g \in dated, UNCHANGED dated
  PROVE  IssuesKnown' /\ raised \subseteq raised' /\ g \in raised'
<1>1. \A h \in Signals : h # g => issues'[h] = issues[h]
  BY DEF Create, TypeOK
<1> QED BY <1>1 DEF Create, Raising, IssuesKnown

(***************************************************************************)
(* What a run is at is of its list, and therefore dated.                   *)
(***************************************************************************)
LEMMA HeadDated ==
  ASSUME TypeOK, PlansDated, NEW s \in Sweeps, todo[s] # <<>>
  PROVE  Head(todo[s]) \in Signals /\ Head(todo[s]) \in dated
<1>1. todo[s] \in Seq(Signals) /\ Head(todo[s]) = todo[s][1] /\ 1 \in 1..Len(todo[s])
  BY DEF TypeOK
<1>2. todo[s][1] \in plan[s]
  BY <1>1 DEF TypeOK
<1> QED BY <1>1, <1>2 DEF PlansDated, TypeOK

LEMMA StartSweepRaising ==
  ASSUME TypeOK, Raising, NEW s \in Sweeps, StartSweep(s)
  PROVE  Raising'
<1>0. PICK ahead \in Lookaheads : \E list \in BuildSignals(today + ahead) :
        /\ todo' = [todo EXCEPT ![s] = list]
        /\ plan' = [plan EXCEPT ![s] = {list[i] : i \in 1..Len(list)}]
  BY DEF StartSweep
<1>1. PICK list \in BuildSignals(today + ahead) :
        /\ todo' = [todo EXCEPT ![s] = list]
        /\ plan' = [plan EXCEPT ![s] = {list[i] : i \in 1..Len(list)}]
  BY <1>0
<1>2. today + ahead \in Nat
  BY SizesAssumption, LookaheadsAssumption DEF TypeOK, Days
<1>3. list \in Seq(Signals) /\ \A i \in 1..Len(list) : due[list[i].subject] = list[i].due
  BY <1>2, SignalsBuilt DEF TypeOK
<1>4. {list[i] : i \in 1..Len(list)} \subseteq dated
  <2>1. \A i \in 1..Len(list) : list[i] \in Signals
    BY <1>3
  <2> QED BY <1>3, <2>1 DEF Raising, DatesKept
<1>5. UNCHANGED <<due, dated, issues, raised, exit>>
  BY DEF StartSweep, recordVars, githubVars
<1>6. PlansDated'
  BY <1>1, <1>4, <1>5 DEF Raising, PlansDated, TypeOK
<1>7. pc'[s] = "search" /\ todo'[s] = list /\ plan'[s] = {list[i] : i \in 1..Len(list)}
  BY <1>1 DEF StartSweep, TypeOK
<1>8. plan'[s] = Left(s)'
  BY <1>7 DEF Left
<1>9. \A t \in Sweeps : t # s => /\ pc'[t] = pc[t] /\ todo'[t] = todo[t]
                                 /\ plan'[t] = plan[t] /\ failed'[t] = failed[t]
  BY <1>1 DEF StartSweep, TypeOK
<1>10. \A t \in Sweeps : t # s => Left(t)' = Left(t)
  BY <1>9 DEF Left
<1>11. PlansFollowed'
  BY <1>5, <1>7, <1>8, <1>9, <1>10 DEF Raising, PlansFollowed
<1> QED BY <1>5, <1>6, <1>11 DEF Raising, DatesKept, IssuesKnown

LEMMA SweepRaising ==
  ASSUME TypeOK, Raising, NEW s \in Sweeps, SweepStep(s) \/ RequestFails(s) \/ Abort(s)
  PROVE  Raising'
<1>1. CASE StartSweep(s)
  BY <1>1, StartSweepRaising
<1>2. CASE RefuseRecords(s)
  <2>1. /\ UNCHANGED <<due, dated, issues, raised, pc, todo, failed>>
        /\ exit'[s] = 2 /\ plan'[s] = {}
        /\ \A t \in Sweeps : t # s => exit'[t] = exit[t] /\ plan'[t] = plan[t]
    BY <1>2 DEF RefuseRecords, TypeOK, recordVars, githubVars
  <2>2. \A t \in Sweeps : Left(t)' = Left(t)
    BY <2>1 DEF Left
  <2>3. PlansDated'
    BY <2>1 DEF Raising, PlansDated
  <2>4. PlansFollowed'
    BY <2>1, <2>2 DEF Raising, PlansFollowed
  <2> QED BY <2>1, <2>3, <2>4 DEF Raising, DatesKept, IssuesKnown
<1>3. CASE Search(s)
  <2>1. UNCHANGED <<due, dated, issues, raised, exit, plan, failed>> /\ todo[s] # <<>> /\ pc[s] = "search"
    BY <1>3 DEF Search, recordVars, githubVars
  <2>2. ASSUME Found(Head(todo[s])), NextSignal(s)
        PROVE  PlansFollowed'
    <3>1. Head(todo[s]) \in raised'
      BY <2>1, <2>2, HeadDated DEF Found, Raising, IssuesKnown
    <3> QED BY <2>1, <2>2, <3>1, SignalDone DEF Raising
  <2>3. ASSUME pc' = [pc EXCEPT ![s] = "post"], UNCHANGED todo
        PROVE  PlansFollowed'
    <3>1. \A t \in Sweeps : Left(t)' = Left(t)
      BY <2>3 DEF Left
    <3>2. \A t \in Sweeps : (pc'[t] = "idle" <=> pc[t] = "idle")
      BY <2>1, <2>3 DEF TypeOK
    <3> QED BY <2>1, <3>1, <3>2 DEF Raising, PlansFollowed
  <2>4. PlansFollowed'
    BY <1>3, <2>2, <2>3 DEF Search
  <2> QED BY <2>1, <2>4 DEF Raising, DatesKept, PlansDated, IssuesKnown
<1>4. CASE Post(s)
  <2>1. /\ UNCHANGED <<due, dated, exit, plan, failed>> /\ todo[s] # <<>> /\ pc[s] = "post"
        /\ Create(Head(todo[s])) /\ NextSignal(s)
    BY <1>4 DEF Post, TypeOK, recordVars
  <2>2. Head(todo[s]) \in Signals /\ Head(todo[s]) \in dated
    BY <2>1, HeadDated DEF Raising
  <2>3. IssuesKnown' /\ raised \subseteq raised' /\ Head(todo[s]) \in raised'
    BY <2>1, <2>2, CreateKnown
  <2>4. PlansFollowed'
    BY <2>1, <2>3, SignalDone DEF Raising
  <2> QED BY <2>1, <2>3, <2>4 DEF Raising, DatesKept, PlansDated
<1>5. CASE Finish(s)
  <2>1. /\ UNCHANGED <<due, dated, issues, raised, plan, todo, failed>>
        /\ todo[s] = <<>> /\ pc[s] = "search" /\ pc'[s] = "idle"
        /\ exit'[s] = IF failed[s] THEN 1 ELSE 0
        /\ \A t \in Sweeps : t # s => pc'[t] = pc[t] /\ exit'[t] = exit[t]
    BY <1>5 DEF Finish, TypeOK, recordVars, githubVars
  <2>2. Left(s) = {}
    <3>1. Len(todo[s]) = 0
      BY <2>1
    <3> QED BY <3>1 DEF Left
  <2>3. \A t \in Sweeps : Left(t)' = Left(t)
    BY <2>1 DEF Left
  <2>4. PlansFollowed'
    <3>1. failed[s] \in BOOLEAN
      BY DEF TypeOK
    <3> QED BY <2>1, <2>2, <2>3, <3>1 DEF Raising, PlansFollowed
  <2> QED BY <2>1, <2>4 DEF Raising, DatesKept, PlansDated, IssuesKnown
<1>6. ASSUME todo[s] # <<>>, UNCHANGED dated,
             UNCHANGED githubVars \/ (pc[s] = "post" /\ Create(Head(todo[s])))
      PROVE  IssuesKnown' /\ raised \subseteq raised'
  <2>1. CASE UNCHANGED githubVars
    BY <1>6, <2>1 DEF githubVars, Raising, IssuesKnown
  <2>2. CASE Create(Head(todo[s]))
    BY <1>6, <2>2, HeadDated, CreateKnown DEF Raising
  <2> QED BY <1>6, <2>1, <2>2
<1>7. CASE RequestFails(s)
  <2>1. /\ UNCHANGED <<due, dated, exit, plan>> /\ todo[s] # <<>> /\ pc[s] # "idle"
        /\ UNCHANGED githubVars \/ (pc[s] = "post" /\ Create(Head(todo[s])))
        /\ NextSignal(s) /\ failed'[s] = TRUE
        /\ \A t \in Sweeps : t # s => failed'[t] = failed[t]
    BY <1>7 DEF RequestFails, CountFailure, TypeOK, recordVars
  <2>2. IssuesKnown' /\ raised \subseteq raised'
    BY <1>6, <2>1
  <2>3. PlansFollowed'
    BY <2>1, <2>2, SignalDone DEF Raising
  <2> QED BY <2>1, <2>2, <2>3 DEF Raising, DatesKept, PlansDated
<1>8. CASE Abort(s)
  <2>1. /\ UNCHANGED <<due, dated, failed, plan>> /\ pc[s] # "idle"
        /\ UNCHANGED githubVars \/ (pc[s] = "post" /\ Create(Head(todo[s])))
        /\ pc'[s] = "idle" /\ exit'[s] = 1
        /\ \A t \in Sweeps : t # s => pc'[t] = pc[t] /\ exit'[t] = exit[t] /\ todo'[t] = todo[t]
    BY <1>8 DEF Abort, TypeOK, recordVars
  <2>2. IssuesKnown' /\ raised \subseteq raised'
    <3>1. CASE todo[s] # <<>>
      BY <1>6, <2>1, <3>1
    <3>2. CASE todo[s] = <<>>
      BY <2>1, <3>2 DEF TypeOK, githubVars, Raising, IssuesKnown
    <3> QED BY <3>1, <3>2
  <2>3. \A t \in Sweeps : t # s => Left(t)' = Left(t)
    BY <2>1 DEF Left
  <2>4. PlansFollowed'
    BY <2>1, <2>2, <2>3 DEF Raising, PlansFollowed
  <2> QED BY <2>1, <2>2, <2>4 DEF Raising, DatesKept, PlansDated
<1> QED BY <1>1, <1>2, <1>3, <1>4, <1>5, <1>7, <1>8 DEF SweepStep

LEMMA PeopleRaising ==
  ASSUME TypeOK, Raising,
         \/ NextDay
         \/ \E e \in Entities, d \in Days \cup {Unscheduled, Malformed} : EditRecord(e, d)
         \/ \E g \in Signals : CloseIssue(g) \/ DeleteIssue(g)
  PROVE  Raising'
<1>1. UNCHANGED sweepVars /\ UNCHANGED raised
  BY DEF NextDay, EditRecord, CloseIssue, DeleteIssue, githubVars
<1>2. UNCHANGED <<pc, todo, failed, exit, plan>>
  BY <1>1 DEF sweepVars
<1>3. \A s \in Sweeps : Left(s)' = Left(s)
  BY <1>2 DEF Left
<1>4. PlansFollowed'
  BY <1>1, <1>2, <1>3 DEF Raising, PlansFollowed
<1>5. dated \subseteq dated'
  BY DEF NextDay, EditRecord, CloseIssue, DeleteIssue, recordVars
<1>6. PlansDated'
  BY <1>2, <1>5 DEF Raising, PlansDated
<1>7. DatesKept'
  <2>1. CASE UNCHANGED <<due, dated>>
    BY <2>1 DEF Raising, DatesKept
  <2>2. ASSUME NEW e \in Entities, NEW d \in Days \cup {Unscheduled, Malformed}, EditRecord(e, d)
        PROVE  DatesKept'
    <3>1. \A g \in Signals : g.subject \in Entities /\ g.due \in Days
      BY DEF Signals
    <3>2. \A x \in Entities : x # e => due'[x] = due[x]
      BY <2>2 DEF EditRecord, TypeOK
    <3>3. due'[e] = d /\ dated' = dated \cup {g \in Signals : g.subject = e /\ g.due = d}
      BY <2>2 DEF EditRecord, TypeOK
    <3> QED BY <3>1, <3>2, <3>3 DEF Raising, DatesKept
  <2> QED BY <2>1, <2>2 DEF NextDay, CloseIssue, DeleteIssue, recordVars
<1>8. IssuesKnown'
  <2>1. \A g \in Signals : issues'[g] > 0 => issues[g] > 0
    <3>1. CASE UNCHANGED issues
      BY <3>1
    <3>2. ASSUME NEW g \in Signals, DeleteIssue(g)
          PROVE  \A h \in Signals : issues'[h] > 0 => issues[h] > 0
      BY <3>2 DEF DeleteIssue, TypeOK
    <3> QED BY <3>1, <3>2 DEF NextDay, EditRecord, CloseIssue, githubVars
  <2> QED BY <1>1, <1>5, <2>1 DEF Raising, IssuesKnown
<1> QED BY <1>4, <1>6, <1>7, <1>8 DEF Raising

LEMMA RaisingInvariant == Spec => [](TypeOK /\ Raising)
<1>1. ASSUME TypeOK, Raising, [Next]_vars
      PROVE  Raising'
  <2>1. CASE UNCHANGED vars
    <3>1. \A s \in Sweeps : Left(s)' = Left(s)
      BY <2>1 DEF vars, sweepVars, Left
    <3> QED BY <1>1, <2>1, <3>1 DEF vars, recordVars, githubVars, sweepVars, Raising, DatesKept,
                                   PlansDated, IssuesKnown, PlansFollowed
  <2>2. CASE Next
    BY <1>1, <2>2, SweepRaising, PeopleRaising DEF Next
  <2> QED BY <1>1, <2>1, <2>2
<1> QED BY <1>1, RaisingInit, TypeCorrect, PTL DEF Spec

(***************************************************************************)
(* Exit code 0 means that every signal of the run has had its issue,       *)
(* however many sweeps overlap and requests fail (main, create_issue).     *)
(***************************************************************************)
THEOREM CleanExitIsHonest == Spec => []CleanExitMeansRaised
<1>1. Raising => CleanExitMeansRaised
  BY DEF Raising, PlansFollowed, CleanExitMeansRaised
<1> QED BY <1>1, RaisingInvariant, PTL

-----------------------------------------------------------------------------
(***************************************************************************)
(* One run of the workflow at a time.                                      *)
(***************************************************************************)
LEMMA CreateOnce ==
  ASSUME TypeOK, AtMostOne, NEW g \in Signals, Create(g), issues[g] = 0
  PROVE  AtMostOne'
BY DEF AtMostOne, Create, TypeOK

LEMMA OnceStep ==
  ASSUME TypeOK, AtMostOne, PostIsNew, [Next]_vars, \A s, t \in Sweeps : s = t
  PROVE  AtMostOne' /\ PostIsNew'
<1>1. ASSUME UNCHANGED <<issues, pc, todo>>
      PROVE  AtMostOne' /\ PostIsNew'
  BY <1>1 DEF AtMostOne, PostIsNew
<1>2. ASSUME NEW s \in Sweeps, SweepStep(s) \/ RequestFails(s) \/ Abort(s)
      PROVE  AtMostOne' /\ PostIsNew'
  <2>1. Head(todo[s]) \in Signals \/ todo[s] = <<>>
    BY TailLeaves DEF TypeOK
  <2>2. ASSUME pc'[s] # "post" PROVE PostIsNew'
    BY <2>2 DEF PostIsNew
  <2>3. ASSUME UNCHANGED issues PROVE AtMostOne'
    BY <2>3 DEF AtMostOne
  <2>4. CASE StartSweep(s)
    <3>1. pc'[s] # "post" /\ UNCHANGED issues
      BY <2>4 DEF StartSweep, TypeOK, githubVars
    <3> QED BY <2>2, <2>3, <3>1
  <2>5. CASE RefuseRecords(s)
    BY <1>1, <2>5 DEF RefuseRecords, githubVars
  <2>6. CASE Search(s)
    <3>1. UNCHANGED issues
      BY <2>6 DEF Search, githubVars
    <3>2. CASE Found(Head(todo[s])) /\ NextSignal(s)
      BY <2>2, <2>3, <3>1, <3>2 DEF NextSignal, TypeOK
    <3>3. CASE ~Found(Head(todo[s])) /\ UNCHANGED todo
      <4>1. Head(todo[s]) \in Signals
        BY <2>1, <2>6 DEF Search
      <4>2. issues[Head(todo[s])] = 0
        BY <3>3, <4>1 DEF Found, TypeOK
      <4>3. PostIsNew'
        BY <3>1, <3>3, <4>2 DEF PostIsNew
      <4> QED BY <2>3, <3>1, <4>3
    <3> QED BY <2>6, <3>2, <3>3 DEF Search
  <2>7. ASSUME pc[s] = "post", Create(Head(todo[s]))
        PROVE  AtMostOne'
    <3>1. Head(todo[s]) \in Signals
      BY <2>1, <2>7 DEF TypeOK
    <3>2. issues[Head(todo[s])] = 0
      BY <2>7 DEF PostIsNew
    <3> QED BY <2>7, <3>1, <3>2, CreateOnce
  <2>8. CASE Post(s)
    <3>1. pc'[s] # "post"
      BY <2>8 DEF Post, NextSignal, TypeOK
    <3> QED BY <2>2, <2>7, <2>8, <3>1 DEF Post
  <2>9. CASE Finish(s)
    <3>1. pc'[s] # "post" /\ UNCHANGED issues
      BY <2>9 DEF Finish, TypeOK, githubVars
    <3> QED BY <2>2, <2>3, <3>1
  <2>10. CASE RequestFails(s)
    <3>1. pc'[s] # "post"
      BY <2>10 DEF RequestFails, NextSignal, TypeOK
    <3> QED BY <2>2, <2>3, <2>7, <2>10, <3>1 DEF RequestFails, githubVars
  <2>11. CASE Abort(s)
    <3>1. pc'[s] # "post"
      BY <2>11 DEF Abort, TypeOK
    <3> QED BY <2>2, <2>3, <2>7, <2>11, <3>1 DEF Abort, githubVars
  <2> QED BY <1>2, <2>4, <2>5, <2>6, <2>8, <2>9, <2>10, <2>11 DEF SweepStep
<1>3. ASSUME NEW g \in Signals, DeleteIssue(g)
      PROVE  AtMostOne' /\ PostIsNew'
  <2>1. /\ issues' = [issues EXCEPT ![g] = @ - 1] /\ issues[g] > 0
        /\ UNCHANGED <<pc, todo>>
    BY <1>3 DEF DeleteIssue, sweepVars
  <2>2. \A h \in Signals : issues'[h] <= issues[h] /\ (issues[h] = 0 => issues'[h] = 0)
    BY <2>1 DEF TypeOK
  <2>3. AtMostOne'
    <3>1. \A h \in Signals : issues[h] \in Nat /\ issues'[h] \in Int
      BY <2>1 DEF TypeOK
    <3> QED BY <2>2, <3>1 DEF AtMostOne
  <2>4. PostIsNew'
    <3>1. \A s \in Sweeps : pc[s] = "post" => Head(todo[s]) \in Signals
      BY TailLeaves DEF TypeOK
    <3> QED BY <2>1, <2>2, <3>1 DEF PostIsNew
  <2> QED BY <2>3, <2>4
<1>4. CASE UNCHANGED vars
  BY <1>1, <1>4 DEF vars, githubVars, sweepVars
<1>5. CASE NextDay \/ \E e \in Entities, d \in Days \cup {Unscheduled, Malformed} : EditRecord(e, d)
  BY <1>1, <1>5 DEF NextDay, EditRecord, githubVars, sweepVars
<1>6. CASE \E g \in Signals : CloseIssue(g)
  BY <1>1, <1>6 DEF CloseIssue, sweepVars
<1> QED BY <1>2, <1>3, <1>4, <1>5, <1>6 DEF Next

(***************************************************************************)
(* "Generate deduplicated ECL living-review signals": where no two runs    *)
(* overlap, a due date a record had gives at most one issue, whatever      *)
(* fails and whatever people do (issue_exists, create_issue).              *)
(***************************************************************************)
THEOREM OneIssueWithoutOverlap ==
  ASSUME \A s, t \in Sweeps : s = t
  PROVE  Spec => []OneIssuePerDueDate
<1>1. Init => AtMostOne /\ PostIsNew
  BY DEF Init, AtMostOne, PostIsNew
<1>2. TypeOK /\ AtMostOne /\ PostIsNew /\ [Next]_vars => AtMostOne' /\ PostIsNew'
  BY OnceStep
<1>3. Raising /\ AtMostOne => OneIssuePerDueDate
  BY DEF Raising, IssuesKnown, AtMostOne, OneIssuePerDueDate
<1> QED BY <1>1, <1>2, <1>3, RaisingInvariant, PTL DEF Spec

=============================================================================
