--------------------------- MODULE ReviewSurface ---------------------------
(***************************************************************************)
(* tools/migrate_state_review_issues.py --apply, as the workflow           *)
(* .github/workflows/state-public-review-migration.yml runs it: the GitHub *)
(* issue of every State is rewritten from its dossier, while reviewers     *)
(* edit the same issues.                                                   *)
(*                                                                         *)
(* A body is a sequence of tokens: the marker, the two delimiters of the   *)
(* generated metadata, the metadata themselves, the two delimiters of the  *)
(* historical body, a checkbox, a reviewer's note, the old body.  The      *)
(* metadata of a dossier are the number of the push that last changed it.  *)
(***************************************************************************)
EXTENDS Naturals, Sequences, FiniteSets

CONSTANTS
  NumIssues,   \* States, in the order of their dossiers
  Edited,      \* the States whose issues people edit
  MaxPushes,   \* bound on pushes to main
  MaxEdits,    \* bound on edits of issues
  MaxFaults,   \* bound on failing requests and jobs
  None

ASSUME SizesAssumption == {NumIssues, MaxPushes, MaxEdits, MaxFaults} \subseteq Nat
ASSUME EditedAssumption == Edited \subseteq 1..NumIssues

Issues    == 1..NumIssues
Pushes    == 0..MaxPushes
Delimiter == {"marker", "start", "end", "open", "close"}
Kinds     == Delimiter \cup {"meta", "box", "checked", "note", "old"}
Tokens    == [is : Kinds, v : Pushes]
Labels    == {"review", "other"}
Surfaces  == [titled : BOOLEAN, body : Seq(Tokens), labels : SUBSET Labels]

ASSUME NoneAssumption == None \notin Surfaces

T(k) == [is |-> k, v |-> 0]

VARIABLES
  pushes,      \* pushes[n]: the State whose dossier push n changed
  validating,  \* pushes and dispatches whose validate job is running
  pending,     \* the apply job that waits in the concurrency group, or None
  job,         \* the commit the running apply job has checked out, or None
  pc,          \* "idle", "labels", "fetch" or "patch"
  at,          \* the issue the job is at
  read,        \* that issue as fetched, or None
  failed,      \* an issue failed in this job
  issue,       \* issue[i]: [titled, body, labels]
  edits, faults,
  last,        \* the newest commit that entered the concurrency group
  disordered,  \* an older commit entered after a newer one
  damaged,     \* issues somebody removed a delimiter from
  touched,     \* issues edited since the job fetched them
  settled      \* the last job exited with 0, of the commit job was at

queue  == <<validating, pending, last, disordered>>
worker == <<job, pc, at, read, failed>>
vars   == <<pushes, queue, worker, issue, edits, faults, damaged, touched, settled>>

-----------------------------------------------------------------------------
(***************************************************************************)
(* Searching a body.                                                       *)
(***************************************************************************)
Places(body, k) == {i \in DOMAIN body : body[i].is = k}
First(S)        == CHOOSE i \in S : \A j \in S : i <= j
Last(S)         == CHOOSE i \in S : \A j \in S : j <= i
Has(body, k)    == Places(body, k) # {}

(***************************************************************************)
(* What dossier d says at commit n.                                        *)
(***************************************************************************)
Version(n, d) ==
  LET changes == {k \in 1..n : pushes[k] = d}
  IN  IF changes = {} THEN 0 ELSE Last(changes)

RenderMetadata(v) == << T("start"), [is |-> "meta", v |-> v], T("end") >>

RenderBody(v, history) ==
  << T("marker") >> \o RenderMetadata(v) \o << T("box"), T("open") >>
    \o history \o << T("close") >>

(***************************************************************************)
(* extract_historical_body: from the first opening to the last closing.    *)
(***************************************************************************)
HistoryIsThere(body) ==
  Has(body, "open") /\ Has(body, "close")
    /\ First(Places(body, "open")) < Last(Places(body, "close"))

History(body) ==
  SubSeq(body, First(Places(body, "open")) + 1, Last(Places(body, "close")) - 1)

(***************************************************************************)
(* The metadata block: the first start, and the first end after it.        *)
(***************************************************************************)
EndsAfter(body, s) == {i \in Places(body, "end") : i > s}

Delimited(body) == Has(body, "start") /\ Has(body, "end")

(***************************************************************************)
(* synchronize_review_body, where it raises no ValueError.                 *)
(***************************************************************************)
Synchronizable(body) ==
  \/ ~Has(body, "marker")
  \/ ~Delimited(body) /\ HistoryIsThere(body)
  \/ Delimited(body) /\ EndsAfter(body, First(Places(body, "start"))) # {}

ReplaceMetadata(v, body) ==
  LET s == First(Places(body, "start"))
      e == First(EndsAfter(body, s))
  IN  SubSeq(body, 1, s - 1) \o RenderMetadata(v) \o SubSeq(body, e + 1, Len(body))

\* Seeded fault: without an end delimiter the block reaches to the end.
SynchronizedToTheEnd(v, body) ==
  IF ~Has(body, "marker") THEN RenderBody(v, body)
  ELSE IF ~Has(body, "start") THEN RenderBody(v, History(body))
  ELSE IF ~Has(body, "end")
       THEN SubSeq(body, 1, First(Places(body, "start")) - 1) \o RenderMetadata(v)
  ELSE ReplaceMetadata(v, body)

\* Seeded fault: a surface is rendered afresh from its historical body.
SynchronizedAfresh(v, body) ==
  IF ~Has(body, "marker") THEN RenderBody(v, body)
  ELSE IF HistoryIsThere(body) THEN RenderBody(v, History(body))
  ELSE ReplaceMetadata(v, body)

Synchronized(v, body) ==
  IF ~Has(body, "marker") THEN RenderBody(v, body)
  ELSE IF ~Delimited(body) THEN RenderBody(v, History(body))
  ELSE ReplaceMetadata(v, body)

(***************************************************************************)
(* migrate_one: labels are added to those the issue has, the title is the  *)
(* dossier's, and an issue that is as desired is not patched.              *)
(***************************************************************************)
Desired(v, it) ==
  [titled |-> TRUE, body |-> Synchronized(v, it.body),
   labels |-> it.labels \cup {"review"}]

-----------------------------------------------------------------------------
(***************************************************************************)
(* Before the first run a body is what people wrote, or a surface of the   *)
(* first version of the tool, which had no metadata delimiters.            *)
(***************************************************************************)
Unmigrated == << T("old") >>
LegacyBody == << T("marker"), T("open"), T("old"), T("close") >>

Init ==
  /\ pushes = <<>>
  /\ validating = {} /\ pending = None /\ last = 0 /\ disordered = FALSE
  /\ job = None /\ pc = "idle" /\ at = 1 /\ read = None /\ failed = FALSE
  /\ issue \in [Issues -> [titled : {FALSE}, body : {Unmigrated, LegacyBody},
                           labels : {{"other"}}]]
  /\ edits = 0 /\ faults = 0 /\ damaged = {} /\ touched = {} /\ settled = None

(***************************************************************************)
(* The workflow.  A push to main that changes a dossier, or a dispatch,    *)
(* validates its own commit; the apply job then enters the concurrency     *)
(* group, where GitHub keeps one waiting job: the one that came last.      *)
(***************************************************************************)
Push(d) ==
  /\ Len(pushes) < MaxPushes
  /\ pushes' = Append(pushes, d)
  /\ validating' = validating \cup {Len(pushes')}
  /\ UNCHANGED <<pending, last, disordered, worker, issue, edits, faults,
                 damaged, touched, settled>>

\* Only after a first push and when nothing waits: a first migration by
\* dispatch and dispatches that pile up are left out of the instances.
Dispatch ==
  /\ Len(pushes) # 0 /\ validating = {} /\ pending = None
  /\ validating' = {Len(pushes)}
  /\ UNCHANGED <<pushes, pending, last, disordered, worker, issue, edits,
                 faults, damaged, touched, settled>>

Validated(n) ==
  /\ n \in validating
  /\ validating' = validating \ {n}
  /\ pending' = n
  /\ last' = IF n > last THEN n ELSE last
  /\ disordered' = (disordered \/ n < last)
  /\ UNCHANGED <<pushes, worker, issue, edits, faults, damaged, touched, settled>>

ValidationFails(n) ==
  /\ n \in validating
  /\ faults < MaxFaults
  /\ faults' = faults + 1
  /\ validating' = validating \ {n}
  /\ UNCHANGED <<pushes, pending, last, disordered, worker, issue, edits,
                 damaged, touched, settled>>

StartJob ==
  /\ pc = "idle"
  /\ pending # None
  /\ job' = pending /\ pc' = "labels" /\ at' = 1 /\ read' = None /\ failed' = FALSE
  /\ pending' = None /\ settled' = None /\ touched' = {}
  /\ UNCHANGED <<pushes, validating, last, disordered, issue, edits, faults, damaged>>

(***************************************************************************)
(* main.  The labels exist from ensure_labels on; then the issues in the   *)
(* order of their dossiers.  A RuntimeError ends one issue, any other      *)
(* exception, and every one of ensure_labels, the job.                     *)
(***************************************************************************)
EnsureLabels ==
  /\ pc = "labels"
  /\ pc' = "fetch"
  /\ UNCHANGED <<pushes, queue, job, at, read, failed, issue, edits, faults,
                 damaged, touched, settled>>

EndJob ==
  /\ job' = None /\ pc' = "idle" /\ at' = 1 /\ read' = None /\ failed' = FALSE

NextIssue(f) ==
  /\ at' = at + 1 /\ pc' = "fetch" /\ read' = None /\ failed' = f
  /\ UNCHANGED job

\* Seeded fault: an issue that cannot be synchronized ends the job.
FetchIssueOrStop ==
  /\ pc = "fetch" /\ at \in Issues
  /\ LET it == issue[at]
         v  == Version(job, at)
     IN  CASE ~Synchronizable(it.body) -> EndJob
           [] Synchronizable(it.body) /\ Desired(v, it) = it -> NextIssue(failed)
           [] OTHER -> /\ read' = it /\ pc' = "patch"
                       /\ UNCHANGED <<job, at, failed>>
  /\ touched' = touched \ {at}
  /\ UNCHANGED <<pushes, queue, issue, edits, faults, damaged, settled>>

FetchIssue ==
  /\ pc = "fetch" /\ at \in Issues
  /\ LET it == issue[at]
         v  == Version(job, at)
     IN  CASE ~Synchronizable(it.body) -> NextIssue(TRUE)
           [] Synchronizable(it.body) /\ Desired(v, it) = it -> NextIssue(failed)
           [] OTHER -> /\ read' = it /\ pc' = "patch"
                       /\ UNCHANGED <<job, at, failed>>
  /\ touched' = touched \ {at}
  /\ UNCHANGED <<pushes, queue, issue, edits, faults, damaged, settled>>

PatchIssue ==
  /\ pc = "patch"
  /\ issue' = [issue EXCEPT ![at] = Desired(Version(job, at), read)]
  /\ NextIssue(failed)
  /\ UNCHANGED <<pushes, queue, edits, faults, damaged, touched, settled>>

\* Seeded fault: the error is recorded in the results only.
RequestFailsUncounted ==
  /\ pc \in {"fetch", "patch"} /\ at \in Issues
  /\ faults < MaxFaults
  /\ faults' = faults + 1
  /\ NextIssue(failed)
  /\ \/ UNCHANGED issue
     \/ /\ pc = "patch"
        /\ issue' = [issue EXCEPT ![at] = Desired(Version(job, at), read)]
  /\ UNCHANGED <<pushes, queue, edits, damaged, touched, settled>>

\* An HTTP error; that of a PATCH may follow its effect.
RequestFails ==
  /\ pc \in {"fetch", "patch"} /\ at \in Issues
  /\ faults < MaxFaults
  /\ faults' = faults + 1
  /\ NextIssue(TRUE)
  /\ \/ UNCHANGED issue
     \/ /\ pc = "patch"
        /\ issue' = [issue EXCEPT ![at] = Desired(Version(job, at), read)]
  /\ UNCHANGED <<pushes, queue, edits, damaged, touched, settled>>

\* No answer at all (URLError), a killed runner, an error of ensure_labels.
Abort ==
  /\ pc # "idle"
  /\ faults < MaxFaults
  /\ faults' = faults + 1
  /\ EndJob
  /\ UNCHANGED <<pushes, queue, issue, edits, damaged, touched, settled>>

Finish ==
  /\ pc = "fetch" /\ at \notin Issues
  /\ settled' = IF failed THEN None ELSE job
  /\ EndJob
  /\ UNCHANGED <<pushes, queue, issue, edits, faults, damaged, touched>>

(***************************************************************************)
(* Reviewers and maintainers edit the issue.                               *)
(***************************************************************************)
Edit(i, it) ==
  /\ edits < MaxEdits
  /\ edits' = edits + 1
  /\ issue' = [issue EXCEPT ![i] = it]
  /\ touched' = touched \cup {i}
  /\ UNCHANGED <<pushes, queue, worker, faults, settled>>

CheckBox(i) ==
  /\ \E k \in Places(issue[i].body, "box") :
       Edit(i, [issue[i] EXCEPT !.body[k] = T("checked")])
  /\ UNCHANGED damaged

\* just below a generated block, or at the end
AddNote(i) ==
  LET body == issue[i].body
  IN  /\ \E k \in DOMAIN body :
           /\ body[k].is = "end" \/ k = Len(body)
           /\ Edit(i, [issue[i] EXCEPT !.body =
                SubSeq(body, 1, k) \o << T("note") >> \o SubSeq(body, k + 1, Len(body))])
      /\ UNCHANGED damaged

EditHeader(i) ==
  /\ \/ Edit(i, [issue[i] EXCEPT !.titled = FALSE])
     \/ \E l \in issue[i].labels : Edit(i, [issue[i] EXCEPT !.labels = @ \ {l}])
  /\ UNCHANGED damaged

RemoveDelimiter(i) ==
  LET body == issue[i].body
  IN  /\ \E k \in DOMAIN body :
           /\ body[k].is \in Delimiter
           /\ Edit(i, [issue[i] EXCEPT !.body =
                SubSeq(body, 1, k - 1) \o SubSeq(body, k + 1, Len(body))])
      /\ damaged' = damaged \cup {i}

JobStep == EnsureLabels \/ FetchIssue \/ PatchIssue \/ Finish

Next ==
  \/ \E d \in Issues : Push(d)
  \/ Dispatch
  \/ \E n \in Pushes : Validated(n) \/ ValidationFails(n)
  \/ StartJob \/ JobStep \/ RequestFails \/ Abort
  \/ \E i \in Edited : CheckBox(i) \/ AddNote(i) \/ EditHeader(i) \/ RemoveDelimiter(i)

Spec == Init /\ [][Next]_vars

FairSpec ==
  /\ Spec
  /\ \A n \in Pushes : WF_vars(Validated(n))
  /\ WF_vars(StartJob)
  /\ WF_vars(JobStep)

-----------------------------------------------------------------------------
(* Every variable keeps its type, a job exists exactly while one runs, and *)
(* what has been read is the issue the job is at.                          *)
TypeOK ==
  /\ pushes \in Seq(Issues) /\ Len(pushes) <= MaxPushes
  /\ validating \subseteq 1..Len(pushes)
  /\ pending \in (1..Len(pushes)) \cup {None}
  /\ job \in (1..Len(pushes)) \cup {None}
  /\ pc \in {"idle", "labels", "fetch", "patch"}
  /\ (pc = "idle") <=> (job = None)
  /\ at \in 1..(NumIssues + 1)
  /\ (pc = "patch") <=> (read # None)
  /\ read \in Surfaces \cup {None}
  /\ failed \in BOOLEAN
  /\ issue \in [Issues -> Surfaces]
  /\ edits \in 0..MaxEdits /\ faults \in 0..MaxFaults
  /\ last \in 0..Len(pushes) /\ disordered \in BOOLEAN
  /\ damaged \subseteq Issues /\ touched \subseteq Issues
  /\ settled \in (1..Len(pushes)) \cup {None}

(* What people wrote before the first run is never lost, whatever becomes  *)
(* of the delimiters around it: a surface the tool cannot read is left     *)
(* alone, one it takes for a new issue is wrapped whole.                   *)
HistoryKept == \A i \in Issues : Cardinality(Places(issue[i].body, "old")) = 1

(* An answer that settles is honest: after exit code 0 another run on the  *)
(* same commit would leave every issue that was not edited meanwhile as it *)
(* is, repaired and re-wrapped surfaces included.                          *)
CleanRunSettles ==
  settled # None =>
    \A i \in Issues \ touched : Desired(Version(settled, i), issue[i]) = issue[i]

(* What a reviewer writes outside the block, the boxes ticked and labels   *)
(* survive a PATCH, unless the edit falls between its GET and the PATCH or *)
(* the surface was of the first version.                                   *)
ByPeople == {"checked", "note", "old"}

Written(body) ==
  LET written[n \in 0..Len(body)] ==
        IF n = 0 THEN <<>>
        ELSE IF body[n].is \in ByPeople THEN Append(written[n - 1], body[n])
        ELSE written[n - 1]
  IN  written[Len(body)]

EditsSurvive ==
  [][\A i \in Issues \ (touched \cup damaged) :
       (issue'[i] # issue[i] /\ touched' = touched
          /\ (Has(issue[i].body, "marker") => Delimited(issue[i].body)))
       => /\ Written(issue'[i].body) = Written(issue[i].body)
          /\ issue[i].labels \subseteq issue'[i].labels]_vars

(* Once something was pushed, every issue comes to show its dossier as it  *)
(* is on main, whatever reviewers write and however other issues are       *)
(* damaged, unless its own delimiters were removed, a request or job       *)
(* failed, or an older commit's job entered the queue after a newer one's. *)
Shows(i) ==
  LET body == issue[i].body
  IN  /\ Synchronizable(body)
      /\ Synchronized(Version(Len(pushes), i), body) = body

Converges ==
  \A i \in Issues :
    \/ <>[](pushes = <<>>)
    \/ <>[]Shows(i)
    \/ <>(disordered \/ faults > 0 \/ i \in damaged)

=============================================================================
