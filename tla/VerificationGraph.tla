----------------------------- MODULE VerificationGraph -----------------------------
(***************************************************************************)
(* The verification graph of one pull request.  Every push starts a run    *)
(* for the head it pushed.  The plan job lists the paths the pull request  *)
(* changes and derives the depth and the nodes it requires; each node is a *)
(* job; the verdict job, which runs whatever happened, lists the paths     *)
(* again, rebuilds the plan and binds the results of the jobs to it.       *)
(*                                                                         *)
(* Both listings ask GitHub for the paths of the pull request, which are   *)
(* those of its head at that moment and not of the head of the run.  The   *)
(* runs share a concurrency group: one is in progress, a waiting one is    *)
(* dropped when a newer one arrives, and the one in progress is cancelled, *)
(* some time after the push, except for its verdict job.                   *)
(***************************************************************************)
EXTENDS Naturals, Sequences, FiniteSets

CONSTANTS
    Heads,          \* commits the pull request may point to
    Paths,          \* repository paths
    PathsOf,        \* what the pull request changes when it points to a head
    RuleDepths,     \* the depths of the policy rules that match a path
    DefaultDepth,   \* depth of a path no rule matches
    CiNodes,        \* graph nodes that are jobs of the workflow
    ExternalNodes,  \* graph nodes outside of it: the human review
    Conditional,    \* the jobs that run only when the plan requires them
    MinimumDepth,   \* depth from which a node is required
    MaxRuns         \* bound: pushes, each of which starts a run

Depths == 1..4
Nodes == CiNodes \cup ExternalNodes

\* load_policy: depths are declared ones, every node has a minimum depth and
\* one execution class.  The policy (qa/ibex-verification-graph.json) gives the
\* jobs the workflow runs unconditionally the least depth.
ASSUME PolicyAssumption ==
    /\ PathsOf \in [Heads -> SUBSET Paths]
    /\ RuleDepths \in [Paths -> SUBSET Depths]
    /\ DefaultDepth \in Depths
    /\ CiNodes \cap ExternalNodes = {}
    /\ Conditional \subseteq CiNodes
    /\ MinimumDepth \in [Nodes -> Depths]
    /\ \A n \in CiNodes \ Conditional : MinimumDepth[n] = 1
    /\ MaxRuns \in Nat

VARIABLES
    head,   \* the commit the pull request points to
    runs    \* the runs of the workflow, oldest first

vars == <<head, runs>>

Results == {"PENDING", "SUCCESS", "FAILURE", "CANCELLED", "SKIPPED"}
Phases == {"queued", "planning", "jobs", "recollected", "ended"}
Verdicts == {"NONE", "BLOCK", "PASS", "PASS_WITH_EXTERNAL_GATE"}
WorkflowRun == [head: Heads, phase: Phases, results: [CiNodes -> Results],
                paths: SUBSET Paths, verdict: Verdicts]

-----------------------------------------------------------------------------
(* The policy                                                              *)

(* The deepest rule that matches a path; no rule, the default depth.       *)
PathDepth(p) ==
    IF RuleDepths[p] = {} THEN DefaultDepth
    ELSE CHOOSE d \in RuleDepths[p] : \A e \in RuleDepths[p] : e <= d

(* The deepest changed path decides.                                       *)
Depth(changed) ==
    CHOOSE d \in {PathDepth(p) : p \in changed} : \A p \in changed : PathDepth(p) <= d

Required(changed) == {n \in Nodes : MinimumDepth[n] <= Depth(changed)}

FinalizeTolerant(changed, results) ==
    IF \E n \in Required(changed) \cap CiNodes : results[n] = "FAILURE" THEN "BLOCK"
    ELSE IF Required(changed) \cap ExternalNodes # {} THEN "PASS_WITH_EXTERNAL_GATE"
    ELSE "PASS"

FinalizeUnreviewed(changed, results) ==
    IF \E n \in Required(changed) \cap CiNodes : results[n] # "SUCCESS" THEN "BLOCK"
    ELSE "PASS"

(* A node without a successful result blocks; otherwise a required         *)
(* external node leaves the gate to a human.                               *)
Finalize(changed, results) ==
    IF \E n \in Required(changed) \cap CiNodes : results[n] # "SUCCESS" THEN "BLOCK"
    ELSE IF Required(changed) \cap ExternalNodes # {} THEN "PASS_WITH_EXTERNAL_GATE"
    ELSE "PASS"

ScheduledRequired(changed) == [n \in Required(changed) \cap CiNodes |-> "PENDING"]

(* Job outputs: a conditional job the plan does not require is skipped.    *)
Scheduled(changed) ==
    [n \in CiNodes |-> IF n \in Conditional \ Required(changed)
                       THEN "SKIPPED" ELSE "PENDING"]
NothingRan == [n \in CiNodes |-> "SKIPPED"]

-----------------------------------------------------------------------------
(* The workflow                                                            *)

Push(h) ==
    /\ Len(runs) < MaxRuns
    /\ head' = h
    /\ runs' = Append([i \in DOMAIN runs |->
                          IF runs[i].phase = "queued"
                          THEN [runs[i] EXCEPT !.phase = "ended"] ELSE runs[i]],
                      [head |-> h, phase |-> "queued",
                       results |-> [n \in CiNodes |-> "PENDING"],
                       paths |-> {}, verdict |-> "NONE"])

StartRun(i) ==
    /\ runs[i].phase = "queued"
    /\ \A k \in 1..(i - 1) : runs[k].phase = "ended"
    /\ runs' = [runs EXCEPT ![i].phase = "planning"]
    /\ UNCHANGED head

(* The plan job; no changed path at all fails it, and then no job runs.    *)
Plan(i) ==
    /\ runs[i].phase = "planning"
    /\ LET changed == PathsOf[head] IN
       runs' = [runs EXCEPT ![i].phase = "jobs",
                            ![i].results = IF changed = {} THEN NothingRan
                                           ELSE Scheduled(changed)]
    /\ UNCHANGED head

PlanFails(i) ==
    /\ runs[i].phase = "planning"
    /\ runs' = [runs EXCEPT ![i].phase = "jobs", ![i].results = NothingRan]
    /\ UNCHANGED head

JobEnds(i, n, result) ==
    /\ runs[i].phase = "jobs"
    /\ runs[i].results[n] = "PENDING"
    /\ runs' = [runs EXCEPT ![i].results[n] = result]
    /\ UNCHANGED head

(* A newer push cancels what the run in progress still has to do.          *)
Cancel(i) ==
    /\ i < Len(runs)
    /\ \/ /\ runs[i].phase = "planning"
          /\ runs' = [runs EXCEPT ![i].phase = "jobs", ![i].results = NothingRan]
       \/ /\ runs[i].phase = "jobs"
          /\ \E n \in CiNodes : runs[i].results[n] = "PENDING"
          /\ runs' = [runs EXCEPT ![i].results =
                [n \in CiNodes |-> IF @[n] = "PENDING" THEN "CANCELLED" ELSE @[n]]]
    /\ UNCHANGED head

RecollectWaits(i) ==
    /\ runs[i].phase = "jobs"
    /\ \A n \in CiNodes : runs[i].results[n] # "PENDING"
    /\ PathsOf[head] # {}
    /\ runs' = [runs EXCEPT ![i].paths = PathsOf[head], ![i].phase = "recollected"]
    /\ UNCHANGED head

(* The verdict job lists the paths again; an empty listing fails it.       *)
Recollect(i) ==
    /\ runs[i].phase = "jobs"
    /\ \A n \in CiNodes : runs[i].results[n] # "PENDING"
    /\ runs' = [runs EXCEPT ![i].paths = PathsOf[head],
                            ![i].phase = IF PathsOf[head] = {} THEN "ended"
                                         ELSE "recollected"]
    /\ UNCHANGED head

(* The verdict is published under the head of the run.                     *)
Conclude(i) ==
    /\ runs[i].phase = "recollected"
    /\ runs' = [runs EXCEPT ![i].phase = "ended",
                            ![i].verdict = Finalize(runs[i].paths, runs[i].results)]
    /\ UNCHANGED head

VerdictJobFails(i) ==
    /\ runs[i].phase \in {"jobs", "recollected"}
    /\ \A n \in CiNodes : runs[i].results[n] # "PENDING"
    /\ runs' = [runs EXCEPT ![i].phase = "ended"]
    /\ UNCHANGED head

Init == head \in Heads /\ runs = <<>>

Progress(i) ==
    \/ StartRun(i) \/ Plan(i) \/ Recollect(i) \/ Conclude(i)
    \/ \E n \in CiNodes : JobEnds(i, n, "SUCCESS")

Setback(i) ==
    \/ PlanFails(i) \/ VerdictJobFails(i) \/ Cancel(i)
    \/ \E n \in CiNodes : JobEnds(i, n, "FAILURE")

Next ==
    \/ \E h \in Heads : Push(h)
    \/ \E i \in DOMAIN runs : Progress(i) \/ Setback(i)

Spec == Init /\ [][Next]_vars

(* Every job has a timeout, so a run in progress goes on and a waiting one *)
(* starts when its group is free.                                          *)
FairSpec == Spec /\ WF_vars(\E i \in DOMAIN runs : Progress(i))

-----------------------------------------------------------------------------
TypeOK ==
    /\ head \in Heads
    /\ runs \in Seq(WorkflowRun)
    /\ Len(runs) <= MaxRuns

(* When the verdict was derived from the paths of the head it names, it is *)
(* right about that head, whatever head the plan job had listed: a pass    *)
(* means every job its own paths require succeeded, and without a gate     *)
(* that no human review is required.                                       *)
Passed(r) == r.verdict \in {"PASS", "PASS_WITH_EXTERNAL_GATE"}
RightAbout(r, h) ==
    /\ \A n \in Required(PathsOf[h]) \cap CiNodes : r.results[n] = "SUCCESS"
    /\ r.verdict = "PASS" => Required(PathsOf[h]) \cap ExternalNodes = {}
SteadyPassIsRight ==
    \A i \in DOMAIN runs :
        Passed(runs[i]) /\ runs[i].paths = PathsOf[runs[i].head]
            => RightAbout(runs[i], runs[i].head)

(* Whatever either listing returned and whenever a newer push cancelled    *)
(* it, a run passes only if every job that every plan requires succeeded.  *)
PassMeansCoreRan ==
    \A i \in DOMAIN runs : Passed(runs[i]) =>
        \A n \in CiNodes \ Conditional : runs[i].results[n] = "SUCCESS"

(* The run of the last push ends, however many runs it had to wait for or  *)
(* cancel.                                                                 *)
LastRunEnds ==
    <>[](runs # <<>>) => <>[](runs # <<>> /\ runs[Len(runs)].phase = "ended")

(* What a pass says of the head it names.                                  *)
PassIsRightAboutItsHead ==
    \A i \in DOMAIN runs : Passed(runs[i]) => RightAbout(runs[i], runs[i].head)
=============================================================================
