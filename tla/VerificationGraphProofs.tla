------------------------ MODULE VerificationGraphProofs ------------------------
(* What a passing verdict of the verification graph rests on, for any policy, *)
(* any set of heads and any number of pushes, cancellations and failed jobs.  *)
EXTENDS VerificationGraph, SequenceTheorems, TLAPS

(* A run that may conclude has a list of paths, and a run that passed is over *)
(* and was judged by that list.                                               *)
Judged(r) ==
    /\ r.verdict # "NONE" => r.phase = "ended"
    /\ r.phase = "recollected" \/ r.verdict # "NONE" => r.paths # {}
    /\ Passed(r) =>
          /\ \A n \in Required(r.paths) \cap CiNodes : r.results[n] = "SUCCESS"
          /\ r.verdict = "PASS" => Required(r.paths) \cap ExternalNodes = {}
RunInv(r) == r \in WorkflowRun /\ Judged(r)

IInv ==
    /\ head \in Heads
    /\ runs \in Seq(WorkflowRun)
    /\ Len(runs) <= MaxRuns
    /\ \A i \in DOMAIN runs : RunInv(runs[i])

(* A finite set of depths has a greatest one. *)
LEMMA DeepestExists ==
    ASSUME NEW D \in SUBSET Depths, D # {}
    PROVE  \E d \in D : \A e \in D : e <= d
<1>1. CASE 4 \in D
  BY <1>1 DEF Depths
<1>2. CASE 4 \notin D /\ 3 \in D
  BY <1>2 DEF Depths
<1>3. CASE 4 \notin D /\ 3 \notin D /\ 2 \in D
  BY <1>3 DEF Depths
<1>4. CASE 4 \notin D /\ 3 \notin D /\ 2 \notin D
  <2>1. \A e \in D : e = 1
    <3>1. \A e \in D : e \in 1..4 /\ e # 4 /\ e # 3 /\ e # 2
      BY <1>4 DEF Depths
    <3> QED
      BY <3>1
  <2> QED
    BY <2>1
<1> QED
  BY <1>1, <1>2, <1>3, <1>4

(* Every path has a depth, and the depth of a change is one of them. *)
LEMMA DepthIsOne ==
    ASSUME NEW changed \in SUBSET Paths, changed # {}
    PROVE  Depth(changed) \in Depths
<1>1. ASSUME NEW p \in changed PROVE PathDepth(p) \in Depths
  <2>1. RuleDepths[p] \in SUBSET Depths
    BY PolicyAssumption
  <2>2. CASE RuleDepths[p] = {}
    BY <2>2, PolicyAssumption DEF PathDepth
  <2>3. CASE RuleDepths[p] # {}
    <3>1. \E d \in RuleDepths[p] : \A e \in RuleDepths[p] : e <= d
      BY <2>1, <2>3, DeepestExists
    <3> QED
      BY <2>1, <2>3, <3>1 DEF PathDepth
  <2> QED
    BY <2>2, <2>3
<1> DEFINE D == {PathDepth(p) : p \in changed}
<1>2. D \in SUBSET Depths /\ D # {}
  BY <1>1
<1>3. \E d \in D : \A e \in D : e <= d
  BY <1>2, DeepestExists
<1>4. \E d \in D : \A p \in changed : PathDepth(p) <= d
  BY <1>3
<1>5. Depth(changed) \in D
  BY <1>4 DEF Depth
<1> QED
  BY <1>2, <1>5

(* The jobs without a condition are required whatever has changed. *)
LEMMA CoreIsRequired ==
    ASSUME NEW changed \in SUBSET Paths, changed # {}
    PROVE  CiNodes \ Conditional \subseteq Required(changed)
<1>1. ASSUME NEW n \in CiNodes \ Conditional PROVE n \in Required(changed)
  <2>1. MinimumDepth[n] = 1 /\ n \in Nodes
    BY PolicyAssumption DEF Nodes
  <2>2. Depth(changed) \in 1..4
    BY DepthIsOne DEF Depths
  <2>3. MinimumDepth[n] <= Depth(changed)
    BY <2>1, <2>2
  <2> QED
    BY <2>1, <2>3 DEF Required
<1> QED
  BY <1>1

-----------------------------------------------------------------------------
(* A step that replaces one run by another good one keeps the invariant. *)
LEMMA OneRunChanges ==
    ASSUME IInv, NEW i \in DOMAIN runs, NEW r, RunInv(r),
           runs' = [runs EXCEPT ![i] = r], head' = head
    PROVE  IInv'
<1> USE DEF IInv, RunInv
<1>1. i \in 1..Len(runs) /\ r \in WorkflowRun
  BY LenProperties
<1>2. runs' \in Seq(WorkflowRun) /\ Len(runs') = Len(runs) /\ DOMAIN runs' = DOMAIN runs
  BY <1>1, ExceptSeq
<1>3. ASSUME NEW k \in DOMAIN runs' PROVE RunInv(runs'[k])
  <2>1. CASE k = i
    BY <2>1, <1>2
  <2>2. CASE k # i
    <3>1. runs'[k] = runs[k] /\ k \in DOMAIN runs
      BY <2>2, <1>2
    <3> QED
      BY <3>1
  <2> QED
    BY <2>1, <2>2
<1> QED
  BY <1>2, <1>3 DEF Judged, Passed, Required

(* The initial state has no run; every action keeps the invariant. *)
LEMMA Invariance == Spec => []IInv
<1>1. Init => IInv
  BY PolicyAssumption, EmptySeq DEF Init, IInv
<1>2. IInv /\ [Next]_vars => IInv'
  <2> SUFFICES ASSUME IInv, [Next]_vars PROVE IInv'
    OBVIOUS
  <2>1. ASSUME NEW h \in Heads, Push(h) PROVE IInv'
    <3> DEFINE kept == [i \in DOMAIN runs |->
                          IF runs[i].phase = "queued"
                          THEN [runs[i] EXCEPT !.phase = "ended"] ELSE runs[i]]
               new == [head |-> h, phase |-> "queued",
                       results |-> [n \in CiNodes |-> "PENDING"],
                       paths |-> {}, verdict |-> "NONE"]
    <3>1. runs' = Append(kept, new) /\ head' = h /\ Len(runs) < MaxRuns
      BY <2>1 DEF Push
    <3>2. RunInv(new)
      BY DEF RunInv, Judged, Passed, WorkflowRun, Phases, Results, Verdicts
    <3>3. ASSUME NEW i \in DOMAIN runs PROVE RunInv(kept[i])
      BY DEF IInv, RunInv, Judged, Passed, WorkflowRun, Phases
    <3>4. kept \in Seq(WorkflowRun) /\ Len(kept) = Len(runs) /\ DOMAIN kept = 1..Len(runs)
      <4>1. DOMAIN runs = 1..Len(runs) /\ Len(runs) \in Nat
        BY LenProperties DEF IInv
      <4>2. kept \in [1..Len(runs) -> WorkflowRun]
        BY <3>3, <4>1 DEF RunInv
      <4> HIDE DEF kept
      <4> QED
        BY <4>1, <4>2
    <3> HIDE DEF kept, new
    <3>5. /\ runs' \in Seq(WorkflowRun) /\ Len(runs') = Len(runs) + 1
          /\ DOMAIN runs' = 1..(Len(runs) + 1)
          /\ \A i \in 1..Len(runs) : runs'[i] = kept[i]
          /\ runs'[Len(runs) + 1] = new
      <4>1. new \in WorkflowRun
        BY <3>2 DEF RunInv
      <4>2. runs' \in Seq(WorkflowRun) /\ Len(runs') = Len(runs) + 1
        BY <3>1, <3>4, <4>1, AppendProperties
      <4>3. DOMAIN runs' = 1..(Len(runs) + 1)
        BY <4>2, LenProperties
      <4> QED
        BY <3>1, <3>4, <4>1, <4>2, <4>3, AppendProperties
    <3>6. ASSUME NEW k \in DOMAIN runs' PROVE RunInv(runs'[k])
      <4>1. DOMAIN runs = 1..Len(runs) /\ Len(runs) \in Nat
        BY LenProperties DEF IInv
      <4>2. CASE k = Len(runs) + 1
        BY <4>2, <3>2, <3>5
      <4>3. CASE k \in 1..Len(runs)
        BY <4>1, <4>3, <3>3, <3>5
      <4> QED
        BY <4>1, <4>2, <4>3, <3>5
    <3>7. Len(runs') <= MaxRuns
      BY <3>1, <3>5, LenProperties, PolicyAssumption DEF IInv
    <3> QED
      BY <3>1, <3>5, <3>6, <3>7 DEF IInv, Judged, Passed, Required, RunInv
  <2>2. ASSUME NEW i \in DOMAIN runs, Progress(i) \/ Setback(i) PROVE IInv'
    <3> DEFINE r == runs[i]
    <3>0. RunInv(r) /\ r \in WorkflowRun
      BY DEF IInv, RunInv
    <3>1. CASE StartRun(i)
      <4> DEFINE s == [r EXCEPT !.phase = "planning"]
      <4>1. runs' = [runs EXCEPT ![i] = s] /\ head' = head /\ r.phase = "queued"
        BY <3>1 DEF StartRun
      <4>2. RunInv(s)
        BY <3>0, <4>1 DEF RunInv, Judged, Passed, WorkflowRun, Phases
      <4> QED
        BY <4>1, <4>2, OneRunChanges
    <3>2. ASSUME NEW results \in [CiNodes -> Results], r.phase = "planning",
                 head' = head, runs' = [runs EXCEPT ![i].phase = "jobs",
                                                    ![i].results = results]
          PROVE  IInv'
      <4> DEFINE s == [r EXCEPT !.phase = "jobs", !.results = results]
      <4>1. runs' = [runs EXCEPT ![i] = s]
        BY <3>2
      <4>2. RunInv(s)
        BY <3>0, <3>2 DEF RunInv, Judged, Passed, WorkflowRun, Phases
      <4> QED
        BY <3>2, <4>1, <4>2, OneRunChanges
    <3>3. NothingRan \in [CiNodes -> Results]
      BY DEF NothingRan, Results
    <3>4. CASE Plan(i)
      <4>1. Scheduled(PathsOf[head]) \in [CiNodes -> Results]
        BY DEF Scheduled, Results
      <4> QED
        BY <3>2, <3>3, <3>4, <4>1 DEF Plan
    <3>5. CASE PlanFails(i)
      BY <3>2, <3>3, <3>5 DEF PlanFails
    <3>6. ASSUME NEW results \in [CiNodes -> Results], r.phase = "jobs",
                 head' = head, runs' = [runs EXCEPT ![i].results = results]
          PROVE  IInv'
      <4> DEFINE s == [r EXCEPT !.results = results]
      <4>1. runs' = [runs EXCEPT ![i] = s]
        BY <3>6
      <4>2. RunInv(s)
        BY <3>0, <3>6 DEF RunInv, Judged, Passed, WorkflowRun, Phases
      <4> QED
        BY <3>6, <4>1, <4>2, OneRunChanges
    <3>7. ASSUME NEW n \in CiNodes, NEW result \in {"SUCCESS", "FAILURE"},
                 JobEnds(i, n, result)
          PROVE  IInv'
      <4> DEFINE results == [r.results EXCEPT ![n] = result]
      <4>1. results \in [CiNodes -> Results]
        BY <3>0 DEF WorkflowRun, Results
      <4>2. runs' = [runs EXCEPT ![i].results = results] /\ r.phase = "jobs" /\ head' = head
        BY <3>7 DEF JobEnds
      <4> QED
        BY <4>1, <4>2, <3>6
    <3>8. CASE Cancel(i)
      <4> DEFINE results == [n \in CiNodes |-> IF r.results[n] = "PENDING"
                                               THEN "CANCELLED" ELSE r.results[n]]
      <4>1. results \in [CiNodes -> Results]
        BY <3>0 DEF WorkflowRun, Results
      <4>2. CASE r.phase = "planning"
        BY <3>2, <3>3, <3>8, <4>2 DEF Cancel
      <4>3. CASE r.phase = "jobs"
        <5>1. runs' = [runs EXCEPT ![i].results = results] /\ head' = head
          BY <3>8, <4>3 DEF Cancel
        <5> QED
          BY <4>1, <4>3, <5>1, <3>6
      <4> QED
        BY <3>8, <4>2, <4>3 DEF Cancel
    <3>9. CASE Recollect(i)
      <4> DEFINE s == [r EXCEPT !.paths = PathsOf[head],
                                !.phase = IF PathsOf[head] = {} THEN "ended"
                                          ELSE "recollected"]
      <4>1. runs' = [runs EXCEPT ![i] = s] /\ head' = head /\ r.phase = "jobs"
        BY <3>9 DEF Recollect
      <4>2. PathsOf[head] \in SUBSET Paths
        BY PolicyAssumption DEF IInv
      <4>3. RunInv(s)
        BY <3>0, <4>1, <4>2 DEF RunInv, Judged, Passed, WorkflowRun, Phases
      <4> QED
        BY <4>1, <4>3, OneRunChanges
    <3>10. CASE Conclude(i)
      <4> DEFINE v == Finalize(r.paths, r.results)
                 s == [r EXCEPT !.phase = "ended", !.verdict = v]
      <4>1. runs' = [runs EXCEPT ![i] = s] /\ head' = head /\ r.phase = "recollected"
        BY <3>10 DEF Conclude
      <4>2. v \in Verdicts \ {"NONE"}
        BY DEF Finalize, Verdicts
      <4>3. v \in {"PASS", "PASS_WITH_EXTERNAL_GATE"} =>
              /\ \A n \in Required(r.paths) \cap CiNodes : r.results[n] = "SUCCESS"
              /\ v = "PASS" => Required(r.paths) \cap ExternalNodes = {}
        BY DEF Finalize
      <4> HIDE DEF v
      <4>4. s \in WorkflowRun
        BY <3>0, <4>2 DEF WorkflowRun, Phases
      <4>5. s.paths = r.paths /\ s.results = r.results /\ s.verdict = v /\ s.phase = "ended"
        BY <3>0 DEF WorkflowRun
      <4>6. r.paths # {}
        BY <3>0, <4>1 DEF RunInv, Judged
      <4> HIDE DEF s
      <4>7. Judged(s)
        BY <4>3, <4>5, <4>6 DEF Judged, Passed
      <4> QED
        BY <4>1, <4>4, <4>7, OneRunChanges DEF RunInv
    <3>11. CASE VerdictJobFails(i)
      <4> DEFINE s == [r EXCEPT !.phase = "ended"]
      <4>1. runs' = [runs EXCEPT ![i] = s] /\ head' = head
            /\ r.phase \in {"jobs", "recollected"}
        BY <3>11 DEF VerdictJobFails
      <4>2. RunInv(s)
        BY <3>0, <4>1 DEF RunInv, Judged, Passed, WorkflowRun, Phases
      <4> QED
        BY <4>1, <4>2, OneRunChanges
    <3> QED
      BY <2>2, <3>1, <3>4, <3>5, <3>7, <3>8, <3>9, <3>10, <3>11 DEF Progress, Setback
  <2>3. CASE UNCHANGED vars
    BY <2>3 DEF vars, IInv, RunInv, Judged, Passed, Required
  <2> QED
    BY <2>1, <2>2, <2>3 DEF Next
<1> QED
  BY <1>1, <1>2, PTL DEF Spec

-----------------------------------------------------------------------------
(* Every run of the workflow is a well-formed record, and there are no more   *)
(* of them than pushes.                                                       *)
THEOREM GraphTypeCorrect == Spec => []TypeOK
<1>1. IInv => TypeOK
  BY DEF IInv, TypeOK
<1> QED
  BY <1>1, Invariance, PTL

(* Whatever the two listings returned and however a newer push interfered, a  *)
(* run passes only if every unconditional job succeeded: a cancelled or a     *)
(* skipped job never counts as done.                                          *)
THEOREM PassRestsOnCore == Spec => []PassMeansCoreRan
<1>1. IInv => PassMeansCoreRan
  <2> SUFFICES ASSUME IInv, NEW i \in DOMAIN runs, Passed(runs[i]),
                      NEW n \in CiNodes \ Conditional
               PROVE  runs[i].results[n] = "SUCCESS"
    BY DEF PassMeansCoreRan
  <2>1. RunInv(runs[i])
    BY DEF IInv
  <2>2. runs[i].paths \in SUBSET Paths /\ runs[i].paths # {}
    BY <2>1 DEF RunInv, Judged, Passed, WorkflowRun
  <2>3. n \in Required(runs[i].paths) \cap CiNodes
    BY <2>2, CoreIsRequired
  <2> QED
    BY <2>1, <2>3 DEF RunInv, Judged
<1> QED
  BY <1>1, Invariance, PTL

(* A pass whose paths are those of the head it names is right about that      *)
(* head, whatever head the plan job had seen.                                 *)
THEOREM SteadyPassSound == Spec => []SteadyPassIsRight
<1>1. IInv => SteadyPassIsRight
  <2> SUFFICES ASSUME IInv, NEW i \in DOMAIN runs, Passed(runs[i]),
                      runs[i].paths = PathsOf[runs[i].head]
               PROVE  RightAbout(runs[i], runs[i].head)
    BY DEF SteadyPassIsRight
  <2>1. Judged(runs[i])
    BY DEF IInv, RunInv
  <2> QED
    BY <2>1 DEF Judged, RightAbout
<1> QED
  BY <1>1, Invariance, PTL
=============================================================================
