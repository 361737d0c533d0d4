---------------------------- MODULE UpdateSweep ----------------------------
(***************************************************************************)
(* tools/update_ticket_sweep.py, run by the daily schedule and by hand     *)
(* (.github/workflows/living-review-sweep.yml): every entity record whose  *)
(* review is due becomes one GitHub issue, found again by a fingerprint of *)
(* subject and due date.  Two runs of the workflow may overlap.            *)
(*                                                                         *)
(* GitHub is external: an issue is the fingerprint in its body and whether *)
(* it is open, and a search finds every issue that exists.                 *)
(***************************************************************************)
EXTENDS Naturals, Sequences, FiniteSets

CONSTANTS
  Sweeps,      \* runs of the workflow that may be in progress together
  Unscheduled, \* no reviewDue, in a record of class "manual"
  Malformed,   \* a reviewDue that is no date, or none in another class
  NumEntities, \* entity records, in the order of their paths
  MaxDay,      \* bound on dates
  Lookaheads,  \* values of --lookahead-days
  MaxFaults,   \* bound on failing requests and killed runs
  MaxEdits     \* bound on edits of records and of issues

ASSUME SizesAssumption ==
  {NumEntities, MaxDay, MaxFaults, MaxEdits} \subseteq Nat
ASSUME LookaheadsAssumption == Lookaheads \subseteq Nat /\ 0 \in Lookaheads

Entities == 1..NumEntities
Days     == 0..MaxDay
Signals  == [subject : Entities, due : Days]

VARIABLES
  today,
  due,      \* due[e]: the entity record's reviewDue
  issues,   \* issues[g]: issues whose body holds the fingerprint of g
  closed,   \* signals whose issues have been closed
  pc,       \* pc[s]: "idle", "search" or "post"
  todo,     \* todo[s]: signals left, the first one in progress
  failed,   \* failed[s]: a request of this run failed
  exit,     \* exit[s]: the last exit code of s
  plan,     \* plan[s]: the signals of the last run of s
  dated,    \* signals whose date some record once had
  raised,   \* signals an issue was created for
  faults, edits

recordVars == <<today, due, dated>>
githubVars == <<issues, closed, raised>>
sweepVars  == <<pc, todo, failed, exit, plan>>
vars       == <<recordVars, githubVars, sweepVars, faults, edits>>

Init ==
  /\ today = 0
  /\ due \in [Entities -> Days \cup {Unscheduled}]
  /\ issues = [g \in Signals |-> 0]
  /\ closed = {}
  /\ pc = [s \in Sweeps |-> "idle"]
  /\ todo = [s \in Sweeps |-> <<>>]
  /\ failed = [s \in Sweeps |-> FALSE]
  /\ exit = [s \in Sweeps |-> 0]
  /\ plan = [s \in Sweeps |-> {}]
  /\ dated = {g \in Signals : due[g.subject] = g.due}
  /\ raised = {}
  /\ faults = 0
  /\ edits = 0

-----------------------------------------------------------------------------

(* Seeded fault for DueReviewIsRaised: a review is due on one day only.    *)
IsDueThatDay(e, horizon) == due[e] \in Days /\ due[e] = horizon

(***************************************************************************)
(* A sweep.                                                                *)
(***************************************************************************)
IsDue(e, horizon) == due[e] \in Days /\ due[e] <= horizon

BuildSignal(e, horizon) == [subject |-> e, due |-> due[e]]

(***************************************************************************)
(* All signals are built, from one checkout and in the order of the        *)
(* records, before the first request; one record that is refused ends the  *)
(* run with exit code 2 and no signal.                                     *)
(***************************************************************************)
DueBy(horizon) == {e \in Entities : IsDue(e, horizon)}
InOrder(horizon) ==
  {f \in [1..Cardinality(DueBy(horizon)) -> DueBy(horizon)] :
     \A i, j \in DOMAIN f : i < j => f[i] < f[j]}
BuildSignals(horizon) ==
  {[i \in DOMAIN f |-> BuildSignal(f[i], horizon)] : f \in InOrder(horizon)}

StartSweep(s) ==
  /\ pc[s] = "idle"
  /\ \A e \in Entities : due[e] # Malformed
  /\ \E ahead \in Lookaheads : \E list \in BuildSignals(today + ahead) :
       /\ todo' = [todo EXCEPT ![s] = list]
       /\ plan' = [plan EXCEPT ![s] = {list[i] : i \in 1..Len(list)}]
  /\ pc' = [pc EXCEPT ![s] = "search"]
  /\ failed' = [failed EXCEPT ![s] = FALSE]
  /\ UNCHANGED <<exit, recordVars, githubVars, faults, edits>>

RefuseRecords(s) ==
  /\ pc[s] = "idle"
  /\ \E e \in Entities : due[e] = Malformed
  /\ exit' = [exit EXCEPT ![s] = 2]
  /\ plan' = [plan EXCEPT ![s] = {}]
  /\ UNCHANGED <<pc, todo, failed, recordVars, githubVars, faults, edits>>

NextSignal(s) ==
  /\ pc' = [pc EXCEPT ![s] = "search"]
  /\ todo' = [todo EXCEPT ![s] = Tail(@)]

(* Seeded fault for OneIssuePerDueDate: only open issues are searched.      *)
FoundOpen(g) == issues[g] > 0 /\ g \notin closed

(***************************************************************************)
(* issue_exists: open and closed issues alike.                             *)
(***************************************************************************)
Found(g) == issues[g] > 0

Search(s) ==
  /\ pc[s] = "search"
  /\ todo[s] # <<>>
  /\ IF Found(Head(todo[s]))
       THEN NextSignal(s)
       ELSE pc' = [pc EXCEPT ![s] = "post"] /\ UNCHANGED todo
  /\ UNCHANGED <<failed, exit, plan, recordVars, githubVars, faults, edits>>

Create(g) ==
  /\ issues' = [issues EXCEPT ![g] = @ + 1]
  /\ closed' = closed \ {g}
  /\ raised' = raised \cup {g}

Post(s) ==
  /\ pc[s] = "post"
  /\ Create(Head(todo[s]))
  /\ NextSignal(s)
  /\ UNCHANGED <<failed, exit, plan, recordVars, faults, edits>>

(* Seeded fault for CleanExitMeansRaised: the failure is only reported.     *)
ForgetFailure(s) == UNCHANGED failed

(***************************************************************************)
(* An HTTP error of the search or of the creation, which may have had its  *)
(* effect all the same: the signal is counted as failed, the loop goes on. *)
(***************************************************************************)
CountFailure(s) == failed' = [failed EXCEPT ![s] = TRUE]

RequestFails(s) ==
  /\ pc[s] # "idle"
  /\ todo[s] # <<>>
  /\ faults < MaxFaults
  /\ faults' = faults + 1
  /\ \/ UNCHANGED githubVars
     \/ pc[s] = "post" /\ Create(Head(todo[s]))
  /\ CountFailure(s)
  /\ NextSignal(s)
  /\ UNCHANGED <<exit, plan, recordVars, edits>>

(***************************************************************************)
(* Any other exception (no connection, a timeout, an unreadable answer) is *)
(* not caught, and a runner may be stopped: the rest of the list is lost.  *)
(***************************************************************************)
Abort(s) ==
  /\ pc[s] # "idle"
  /\ faults < MaxFaults
  /\ faults' = faults + 1
  /\ \/ UNCHANGED githubVars
     \/ pc[s] = "post" /\ Create(Head(todo[s]))
  /\ pc' = [pc EXCEPT ![s] = "idle"]
  /\ todo' = [todo EXCEPT ![s] = <<>>]
  /\ exit' = [exit EXCEPT ![s] = 1]
  /\ UNCHANGED <<failed, plan, recordVars, edits>>

Finish(s) ==
  /\ pc[s] = "search"
  /\ todo[s] = <<>>
  /\ pc' = [pc EXCEPT ![s] = "idle"]
  /\ exit' = [exit EXCEPT ![s] = IF failed[s] THEN 1 ELSE 0]
  /\ UNCHANGED <<todo, failed, plan, recordVars, githubVars, faults, edits>>

-----------------------------------------------------------------------------
(***************************************************************************)
(* Time, and the people who review.                                        *)
(***************************************************************************)
NextDay ==
  /\ today < MaxDay
  /\ today' = today + 1
  /\ UNCHANGED <<due, dated, githubVars, sweepVars, faults, edits>>

EditRecord(e, d) ==
  /\ edits < MaxEdits
  /\ due[e] # d
  /\ due' = [due EXCEPT ![e] = d]
  /\ dated' = dated \cup {g \in Signals : g.subject = e /\ g.due = d}
  /\ edits' = edits + 1
  /\ UNCHANGED <<today, githubVars, sweepVars, faults>>

CloseIssue(g) ==
  /\ issues[g] > 0
  /\ g \notin closed
  /\ closed' = closed \cup {g}
  /\ UNCHANGED <<issues, raised, recordVars, sweepVars, faults, edits>>

DeleteIssue(g) ==
  /\ edits < MaxEdits
  /\ issues[g] > 0
  /\ issues' = [issues EXCEPT ![g] = @ - 1]
  /\ edits' = edits + 1
  /\ UNCHANGED <<closed, raised, recordVars, sweepVars, faults>>

SweepStep(s) ==
  StartSweep(s) \/ RefuseRecords(s) \/ Search(s) \/ Post(s) \/ Finish(s)

Next ==
  \/ \E s \in Sweeps : SweepStep(s) \/ RequestFails(s) \/ Abort(s)
  \/ NextDay
  \/ \E e \in Entities, d \in Days \cup {Unscheduled, Malformed} : EditRecord(e, d)
  \/ \E g \in Signals : CloseIssue(g) \/ DeleteIssue(g)

Spec == Init /\ [][Next]_vars

(***************************************************************************)
(* The workflow is started every day, a run that is started goes on, and   *)
(* days pass.                                                              *)
(***************************************************************************)
FairSpec ==
  /\ Spec
  /\ \A s \in Sweeps : WF_vars(SweepStep(s))
  /\ WF_vars(NextDay)

-----------------------------------------------------------------------------
(***************************************************************************)
(* Properties.                                                             *)
(***************************************************************************)

(***************************************************************************)
(* Types; a run has a signal in hand when it is about to create an issue,  *)
(* and what is left of its list is of its list.                            *)
(***************************************************************************)
TypeOK ==
  /\ today \in Days
  /\ due \in [Entities -> Days \cup {Unscheduled, Malformed}]
  /\ issues \in [Signals -> Nat]
  /\ closed \subseteq Signals
  /\ pc \in [Sweeps -> {"idle", "search", "post"}]
  /\ todo \in [Sweeps -> Seq(Signals)]
  /\ failed \in [Sweeps -> BOOLEAN]
  /\ exit \in [Sweeps -> 0..2]
  /\ plan \in [Sweeps -> SUBSET Signals]
  /\ dated \subseteq Signals
  /\ raised \subseteq Signals
  /\ faults \in 0..MaxFaults
  /\ edits \in 0..MaxEdits
  /\ \A s \in Sweeps :
       /\ pc[s] = "post" => todo[s] # <<>>
       /\ pc[s] = "idle" => todo[s] = <<>>
       /\ \A i \in 1..Len(todo[s]) : todo[s][i] \in plan[s]

(***************************************************************************)
(* "Generate deduplicated ECL living-review signals": a due date a record  *)
(* had gives at most one issue, however often sweeps run, requests fail    *)
(* after their effect, look-aheads overlap, or the issue is closed; and no *)
(* other date gives any.                                                   *)
(***************************************************************************)
OneIssuePerDueDate ==
  \A g \in Signals : issues[g] <= 1 /\ (issues[g] > 0 => g \in dated)

(***************************************************************************)
(* Exit code 0 means that every signal of the run has had its issue, from  *)
(* this run or an earlier one.                                             *)
(***************************************************************************)
CleanExitMeansRaised ==
  \A s \in Sweeps : pc[s] = "idle" /\ exit[s] = 0 => plan[s] \subseteq raised

(***************************************************************************)
(* A review that has fallen due gets its issue, unless the date is moved   *)
(* or some record is malformed, which stops every sweep.                   *)
(***************************************************************************)
DueReviewIsRaised ==
  \A g \in Signals :
    due[g.subject] = g.due /\ g.due <= today
      ~> \/ g \in raised
         \/ due[g.subject] # g.due
         \/ \E e \in Entities : due[e] = Malformed
=============================================================================
