------------------------------ MODULE ReleasePipeline ------------------------------
(***************************************************************************)
(* The release pipeline of one commit: the Ibex end-to-end run uploads     *)
(* evidence, the promotion turns it into a six-file transition source, the *)
(* deployment publishes that source as the one asset of the commit's       *)
(* release, the runtime verification installs the package, verifies the    *)
(* published bytes with it, and its sign job publishes a receipt.          *)
(*                                                                         *)
(* Artifact names, tags and concurrency groups all carry the commit, so    *)
(* commits share nothing and one of them is enough.  What the scripts      *)
(* accept is in ReleaseEvidence; this module is who runs them, and when.   *)
(* GitHub runs at most one attempt per stage and keeps at most one waiting *)
(* (a newer one cancels it, even one whose jobs are then skipped); a run   *)
(* may be re-run, killed anywhere, and a maintainer may delete artifacts   *)
(* and edit the release.                                                   *)
(***************************************************************************)
EXTENDS ReleaseEvidence

CONSTANTS
    MaxAttempts,    \* attempts of one run
    MaxReruns,      \* re-runs asked for, over all stages
    MaxKills,       \* attempts killed, and look-ups of the release that fail
    MaxEdits,       \* deletions, expiries and edits of the release
    EvidenceFaults, \* what an end-to-end run may upload
    AssetFaults,    \* what may be wrong with the archive of an edited release
    Claims,         \* the promotion or other attempt such an archive declares
    Executions      \* what an execution of the package may show

ASSUME BoundsAssumption ==
    /\ {MaxAttempts, MaxReruns, MaxKills, MaxEdits} \subseteq Nat
    /\ EvidenceFaults \subseteq EvidenceFault /\ AssetFaults \subseteq SourceFault
    /\ Claims \subseteq {c \in Id : c.run > 0 /\ c.attempt > 0}
    /\ Executions \subseteq Execution \ {"unrun"}

VARIABLES
    artifacts,  \* archives the artifacts API lists, those of every attempt
    expired,    \* identifiers of the listed archives past their retention
    release,    \* the release of the commit's tag
    pending,    \* per stage, the run that waits for its concurrency group
    job,        \* per stage, the attempt that runs
    done,       \* the attempts that ended
    receipts,   \* receipts published by the sign job
    made,       \* history: every archive ever uploaded
    lived,      \* history: archives that were the live asset
    reruns, kills, edits    \* what was used of the bounds

vars == <<artifacts, expired, release, pending, job, done, receipts, made,
          lived, reruns, kills, edits>>
history == <<made, lived>>
budget == <<reruns, kills, edits>>

Trigger == [run: Nat, attempt: Nat, cause: Run, from: {"none", "start", "sign"}]
NoTrigger == [run |-> 0, attempt |-> 0, cause |-> NoRun, from |-> "none"]

Steps == {"idle", "select", "download", "lookup", "publish", "fetch", "pull",
          "extract", "execute", "build", "upload", "observe", "seal", "audit",
          "receipt", "complete"}
Job == [pc: Steps, run: Nat, attempt: Nat, cause: Run, sel: SelectionType,
        rel: Release, bytes: Archive, exec: Execution, chain: Chain,
        signing: BOOLEAN]
Idle == [pc |-> "idle", run |-> 0, attempt |-> 0, cause |-> NoRun,
         sel |-> NoSelection, rel |-> NoRelease, bytes |-> NoArchive,
         exec |-> "unrun", chain |-> NoChain, signing |-> FALSE]

Outcome == {"success", "refused", "unavailable", "killed", "cancelled", "displaced"}
Ended == [stage: Stages, run: Nat, attempt: Nat, cause: Run, outcome: Outcome,
          built: BOOLEAN, exec: Execution]
Receipt == [run: Nat, attempt: Nat, source: Archive, chain: Chain]

-----------------------------------------------------------------------------
(* The run and attempt a job expects of the artifact it selects, and the   *)
(* archives the artifacts API lists for that run.                          *)
Own(s) == [run |-> job[s].run, attempt |-> job[s].attempt]
Expected(s) == IF s = "runtime" THEN Own(s) ELSE job[s].cause
Source(s) == IF s = "promotion" THEN "e2e"
             ELSE IF s = "deployment" THEN "promotion" ELSE "runtime"
Listing(s) == {a \in artifacts : a.id.stage = Source(s) /\ a.id.run = Expected(s).run}

Available(a) == a \in artifacts /\ a.id \notin expired

(* What the attempt of stage s uploads.                                    *)
Built(s) ==
    LET j == job[s] IN
    IF s = "promotion" THEN PromotedSource(Own(s), j.sel.artifact, j.cause)
    ELSE IF s = "deployment" THEN DeployedSource(Own(s), j.bytes, j.cause)
    ELSE ExecutedSource(Own(s), j.bytes, j.cause, j.exec)

-----------------------------------------------------------------------------
(* Runs, attempts and their concurrency groups                             *)

At(s, pc) == job[s].pc = pc
Move(s, pc) == job' = [job EXCEPT ![s].pc = pc]

EndOf(s, outcome) ==
    [stage |-> s, run |-> job[s].run, attempt |-> job[s].attempt,
     cause |-> job[s].cause, outcome |-> outcome, built |-> job[s].signing,
     exec |-> job[s].exec]
End(s, outcome) ==
    /\ job' = [job EXCEPT ![s] = Idle]
    /\ done' = done \cup {EndOf(s, outcome)}

(* A step of the script exits 2: the attempt fails and nothing else moves. *)
Refuse(s) == End(s, "refused") /\ UNCHANGED release

(* The run that waits in a group is cancelled when another one enters it.  *)
Waiting(s, outcome) ==
    IF pending[s] = NoTrigger THEN {}
    ELSE {[stage |-> s, run |-> pending[s].run, attempt |-> pending[s].attempt,
           cause |-> pending[s].cause, outcome |-> outcome,
           built |-> pending[s].from = "sign", exec |-> "unrun"]}
Cancelled(s) == Waiting(s, "cancelled")
Enqueue(s, t) ==
    /\ pending' = [pending EXCEPT ![s] = t]
    /\ done' = done \cup Cancelled(s)

RunsOf(s) == {d.run : d \in {x \in done : x.stage = s}}
                \cup {job[s].run, pending[s].run}
FirstAttempt(s, cause) ==
    [run |-> Cardinality(RunsOf(s) \cup {0}), attempt |-> 1, cause |-> cause,
     from |-> "start"]

Start(s) ==
    /\ At(s, "idle")
    /\ pending[s] # NoTrigger
    /\ job' = [job EXCEPT ![s] =
                [Idle EXCEPT !.run = pending[s].run, !.attempt = pending[s].attempt,
                             !.cause = pending[s].cause,
                             !.signing = pending[s].from = "sign",
                             !.pc = IF s = "runtime" /\ pending[s].from = "start"
                                    THEN "fetch" ELSE "select"]]
    /\ pending' = [pending EXCEPT ![s] = NoTrigger]
    /\ UNCHANGED <<artifacts, expired, release, done, receipts, history, budget>>

(* All jobs of a run again, or, when only its sign job failed, that one.   *)
Rerun(d, from) ==
    /\ reruns < MaxReruns
    /\ d.attempt < MaxAttempts
    /\ \A x \in done : x.stage = d.stage /\ x.run = d.run => x.attempt <= d.attempt
    /\ d.run \notin {job[d.stage].run, pending[d.stage].run}
    /\ from = "sign" => d.stage = "runtime" /\ d.built /\ d.outcome # "success"
    /\ Enqueue(d.stage, [run |-> d.run, attempt |-> d.attempt + 1,
                         cause |-> d.cause, from |-> from])
    /\ reruns' = reruns + 1
    /\ UNCHANGED <<artifacts, expired, release, job, receipts, history, kills, edits>>

E2EArchives == {a \in made : a.id.stage = "e2e"}

(* An attempt of the end-to-end run: it uploads whatever it has, even when *)
(* it fails, and its success starts a promotion.                           *)
RunE2E(fault, success) ==
    LET n == Cardinality(E2EArchives) + 1
        r == [run |-> 1, attempt |-> n]
        a == [SourceOf("e2e", r, NoId, NoRun) EXCEPT !.fault = fault]
    IN /\ n <= MaxAttempts
       /\ n > 1 => reruns < MaxReruns
       /\ success => fault \in GreenFaults
       /\ artifacts' = artifacts \cup {a}
       /\ made' = made \cup {a}
       /\ reruns' = IF n > 1 THEN reruns + 1 ELSE reruns
       /\ IF success
          THEN Enqueue("promotion", FirstAttempt("promotion", r))
          ELSE UNCHANGED <<pending, done>>
       /\ UNCHANGED <<expired, release, job, receipts, lived, kills, edits>>

(* A run that ends without success completes all the same, and the         *)
(* workflow after it starts a run whose jobs are skipped.  That run, and   *)
(* those its own completion starts, do nothing but enter the concurrency   *)
(* group of their stage, where they take the place of the run that waits.  *)
Earlier(s) == IF s = "promotion" THEN {}
              ELSE IF s = "deployment" THEN {"promotion"} ELSE {"promotion", "deployment"}
Unsuccessful(s) == {d \in done : d.stage \in Earlier(s) /\ d.outcome # "success"}
FailedE2E == Cardinality(E2EArchives) - Cardinality(RunsOf("promotion") \ {0})
Displaced(s) == {d \in done : d.stage = s /\ d.outcome = "displaced"}

SkippedRun(s) ==
    /\ ~At(s, "idle") /\ pending[s] # NoTrigger
    /\ Cardinality(Displaced(s)) < Cardinality(Unsuccessful(s)) + FailedE2E
    /\ pending' = [pending EXCEPT ![s] = NoTrigger]
    /\ done' = done \cup Waiting(s, "displaced")
    /\ UNCHANGED <<artifacts, expired, release, job, receipts, history, budget>>

-----------------------------------------------------------------------------
(* Steps several stages share                                              *)

Select(s) ==
    /\ At(s, "select")
    /\ IF Selectable(Listing(s), expired)
       THEN /\ job' = [job EXCEPT ![s].sel = Selection(Listing(s), Expected(s)),
                                  ![s].pc = IF s = "runtime" THEN "observe"
                                            ELSE "download"]
            /\ UNCHANGED <<release, done>>
       ELSE Refuse(s)
    /\ UNCHANGED <<artifacts, expired, pending, receipts, history, budget>>

(* GET of the release by its tag.                                          *)
FetchRelease(s) ==
    /\ At(s, "fetch")
    /\ IF release.exists
       THEN /\ job' = [job EXCEPT ![s].rel = release, ![s].pc = "pull"]
            /\ UNCHANGED <<release, done>>
       ELSE Refuse(s)
    /\ UNCHANGED <<artifacts, expired, pending, receipts, history, budget>>

(* Download of the asset of that name, whatever it is by now.              *)
PullAsset(s) ==
    /\ At(s, "pull")
    /\ IF release.asset.state = "uploaded"
       THEN /\ job' = [job EXCEPT ![s].bytes = release.asset.bytes,
                           ![s].pc = IF s = "runtime" THEN "extract" ELSE "build"]
            /\ UNCHANGED <<release, done>>
       ELSE Refuse(s)
    /\ UNCHANGED <<artifacts, expired, pending, receipts, history, budget>>

Upload(s) ==
    /\ At(s, "upload")
    /\ artifacts' = artifacts \cup {Built(s)}
    /\ made' = made \cup {Built(s)}
    /\ job' = [job EXCEPT ![s].pc = IF s = "runtime" THEN "select" ELSE "complete",
                          ![s].signing = s = "runtime"]
    /\ UNCHANGED <<expired, release, pending, done, receipts, lived, budget>>

CompleteSilently(s) ==
    /\ At(s, "complete")
    /\ End(s, "success")
    /\ UNCHANGED <<artifacts, expired, release, pending, receipts, history, budget>>

(* The run ends with success, which starts the next stage.                 *)
Complete(s) ==
    /\ At(s, "complete")
    /\ job' = [job EXCEPT ![s] = Idle]
    /\ IF s = "runtime"
       THEN done' = done \cup {EndOf(s, "success")} /\ UNCHANGED pending
       ELSE LET next == IF s = "promotion" THEN "deployment" ELSE "runtime"
                cause == [run |-> job[s].run, attempt |-> job[s].attempt]
            IN /\ pending' = [pending EXCEPT ![next] = FirstAttempt(next, cause)]
               /\ done' = done \cup {EndOf(s, "success")} \cup Cancelled(next)
    /\ UNCHANGED <<artifacts, expired, release, receipts, history, budget>>

-----------------------------------------------------------------------------
(* Promotion and deployment                                                *)

Promote ==
    /\ At("promotion", "download")
    /\ LET j == job["promotion"] IN
       IF Available(j.sel.artifact) /\ Promotable(j.sel.artifact, j.sel, j.cause)
       THEN Move("promotion", "upload") /\ UNCHANGED <<release, done>>
       ELSE Refuse("promotion")
    /\ UNCHANGED <<artifacts, expired, pending, receipts, history, budget>>

(* The promoted source is validated before anything is published.          *)
Preflight ==
    /\ At("deployment", "download")
    /\ LET j == job["deployment"] IN
       IF /\ Available(j.sel.artifact)
          /\ Extracted(j.sel.artifact, j.sel)
          /\ ValidSource(j.sel.artifact, "promotion", j.cause)
       THEN Move("deployment", "lookup") /\ UNCHANGED <<release, done>>
       ELSE Refuse("deployment")
    /\ UNCHANGED <<artifacts, expired, pending, receipts, history, budget>>

(* The release of the tag is reused, or created when the look-up fails,    *)
(* for whatever reason it does; GitHub refuses a second one.               *)
Lookup(fails) ==
    /\ At("deployment", "lookup")
    /\ fails => release.exists /\ kills < MaxKills
    /\ kills' = IF fails THEN kills + 1 ELSE kills
    /\ LET new == [NoRelease EXCEPT !.exists = TRUE, !.plain = TRUE]
           found == IF release.exists THEN release ELSE new
       IN IF fails
          THEN End("deployment", "unavailable") /\ UNCHANGED release
          ELSE /\ release' = found
               /\ job' = [job EXCEPT !["deployment"].rel = found,
                                     !["deployment"].pc = "publish"]
               /\ UNCHANGED done
    /\ UNCHANGED <<artifacts, expired, pending, receipts, history, reruns, edits>>

PublishOnce ==
    /\ At("deployment", "publish")
    /\ LET j == job["deployment"]
           empty == j.rel.asset.state = "none" /\ ~j.rel.extra
       IN \/ /\ empty
             /\ release.asset.state = "none"
             /\ \E listed \in BOOLEAN :
                   release' = [release EXCEPT !.asset =
                        [bytes |-> j.sel.artifact, state |-> "uploaded", listed |-> listed]]
             /\ lived' = lived \cup {j.sel.artifact}
             /\ Move("deployment", "fetch")
             /\ UNCHANGED done
          \/ /\ ~(empty /\ release.asset.state = "none")
             /\ Refuse("deployment")
             /\ UNCHANGED lived
    /\ UNCHANGED <<artifacts, expired, pending, receipts, made, budget>>

PublishOver ==
    /\ At("deployment", "publish")
    /\ \E listed \in BOOLEAN :
          release' = [release EXCEPT !.asset =
                        [bytes |-> job["deployment"].sel.artifact, state |-> "uploaded",
                         listed |-> listed]]
    /\ lived' = lived \cup {job["deployment"].sel.artifact}
    /\ Move("deployment", "fetch")
    /\ UNCHANGED <<artifacts, expired, pending, done, receipts, made, budget>>

(* Decided on the release as the look-up saw it: no asset yet, upload (an  *)
(* asset of that name is never replaced); the one asset, leave it alone;   *)
(* anything else, stop.                                                    *)
Publish ==
    /\ At("deployment", "publish")
    /\ LET j == job["deployment"]
           empty == j.rel.asset.state = "none" /\ ~j.rel.extra
           single == j.rel.asset.state # "none" /\ ~j.rel.extra
       IN \/ /\ empty
             /\ release.asset.state = "none"
             /\ \E listed \in BOOLEAN :
                   release' = [release EXCEPT !.asset =
                        [bytes |-> j.sel.artifact, state |-> "uploaded", listed |-> listed]]
             /\ lived' = lived \cup {j.sel.artifact}
             /\ Move("deployment", "fetch")
             /\ UNCHANGED done
          \/ /\ single
             /\ Move("deployment", "fetch")
             /\ UNCHANGED <<release, done, lived>>
          \/ /\ ~single
             /\ ~(empty /\ release.asset.state = "none")
             /\ Refuse("deployment")
             /\ UNCHANGED lived
    /\ UNCHANGED <<artifacts, expired, pending, receipts, made, budget>>

(* Live bytes and release must be those of the promoted archive.           *)
BuildProduction ==
    /\ At("deployment", "build")
    /\ LET j == job["deployment"] IN
       IF ProductionAccepted(j.sel.artifact, j.sel, j.cause, j.rel, j.bytes)
       THEN Move("deployment", "upload") /\ UNCHANGED <<release, done>>
       ELSE Refuse("deployment")
    /\ UNCHANGED <<artifacts, expired, pending, receipts, history, budget>>

-----------------------------------------------------------------------------
(* Runtime verification and its sign job                                   *)

ExtractLive ==
    /\ At("runtime", "extract")
    /\ LET j == job["runtime"] IN
       IF LiveExtracted(j.rel, j.bytes)
       THEN Move("runtime", "execute") /\ UNCHANGED <<release, done>>
       ELSE Refuse("runtime")
    /\ UNCHANGED <<artifacts, expired, pending, receipts, history, budget>>

Execute(e) ==
    /\ At("runtime", "execute")
    /\ job' = [job EXCEPT !["runtime"].exec = e, !["runtime"].pc = "build"]
    /\ UNCHANGED <<artifacts, expired, release, pending, done, receipts, history, budget>>

BuildRuntime ==
    /\ At("runtime", "build")
    /\ LET j == job["runtime"] IN
       IF RuntimeAccepted(j.rel, j.bytes, j.exec)
       THEN Move("runtime", "upload") /\ UNCHANGED <<release, done>>
       ELSE Refuse("runtime")
    /\ UNCHANGED <<artifacts, expired, pending, receipts, history, budget>>

(* The sign job starts from the artifact its run uploaded and reads the    *)
(* release again.                                                          *)
Observe ==
    /\ At("runtime", "observe")
    /\ LET j == job["runtime"]
           a == j.sel.artifact
           r == Own("runtime")
       IN IF /\ Available(a)
             /\ Extracted(a, j.sel)
             /\ RuntimeObserved(a, r, release)
             /\ ValidSource(a, "runtime", r)
          THEN /\ job' = [job EXCEPT !["runtime"].rel = release,
                                     !["runtime"].pc = "seal"]
               /\ UNCHANGED <<release, done>>
          ELSE Refuse("runtime")
    /\ UNCHANGED <<artifacts, expired, pending, receipts, history, budget>>

(* The manifest over the source and the signer's reports is attested.      *)
Seal ==
    /\ At("runtime", "seal")
    /\ LET j == job["runtime"] IN
       job' = [job EXCEPT !["runtime"].chain =
                            ChainOf(j.sel, j.sel.artifact, Own("runtime"), j.rel),
                          !["runtime"].pc = "audit"]
    /\ UNCHANGED <<artifacts, expired, release, pending, done, receipts, history, budget>>

(* The gate and the audit read the chain back, against the same run.       *)
Audit ==
    /\ At("runtime", "audit")
    /\ IF Audited(job["runtime"].chain, Own("runtime"))
       THEN Move("runtime", "receipt") /\ UNCHANGED <<release, done>>
       ELSE Refuse("runtime")
    /\ UNCHANGED <<artifacts, expired, pending, receipts, history, budget>>

PostReceipt ==
    /\ At("runtime", "receipt")
    /\ LET j == job["runtime"] IN
       receipts' = receipts \cup {[run |-> j.run, attempt |-> j.attempt,
                                   source |-> j.sel.artifact, chain |-> j.chain]}
    /\ Move("runtime", "complete")
    /\ UNCHANGED <<artifacts, expired, release, pending, done, history, budget>>

-----------------------------------------------------------------------------
(* What happens around the pipeline                                        *)

(* An attempt is cancelled or times out; in the middle of the upload it    *)
(* leaves an asset GitHub has not finished.                                *)
Kill(s, midUpload) ==
    /\ ~At(s, "idle")
    /\ kills < MaxKills
    /\ midUpload => /\ At("deployment", "publish") /\ s = "deployment"
                    /\ job[s].rel.asset.state = "none" /\ ~job[s].rel.extra
                    /\ release.asset.state = "none"
    /\ release' = IF midUpload
                  THEN [release EXCEPT !.asset.bytes = job[s].sel.artifact,
                                       !.asset.state = "starter"]
                  ELSE release
    /\ End(s, "killed")
    /\ kills' = kills + 1
    /\ UNCHANGED <<artifacts, expired, pending, receipts, history, reruns, edits>>

Edit ==
    /\ edits < MaxEdits
    /\ edits' = edits + 1
    /\ UNCHANGED <<pending, job, done, receipts, made, reruns, kills>>

DeleteArtifact(a) ==
    /\ Edit
    /\ artifacts' = artifacts \ {a}
    /\ UNCHANGED <<expired, release, lived>>

ExpireArtifact(a) ==
    /\ Edit
    /\ expired' = expired \cup {a.id}
    /\ UNCHANGED <<artifacts, release, lived>>

EditRelease(rel) ==
    /\ Edit
    /\ release.exists
    /\ release' = rel
    /\ lived' = IF rel.asset.state = "uploaded" THEN lived \cup {rel.asset.bytes}
                ELSE lived
    /\ UNCHANGED <<artifacts, expired>>

EditedBytes == {Foreign(edits + 1, c, f) : c \in Claims, f \in AssetFaults}
                 \cup {a \in made : a.id.stage = "promotion"}
EditedReleases ==
    {[release EXCEPT !.asset = NoAsset], [release EXCEPT !.extra = TRUE],
     [release EXCEPT !.plain = FALSE]} \cup
    {[release EXCEPT !.asset = [bytes |-> b, state |-> "uploaded", listed |-> l]] :
        b \in EditedBytes, l \in BOOLEAN}

-----------------------------------------------------------------------------
Init ==
    /\ artifacts = {} /\ expired = {}
    /\ release = NoRelease
    /\ pending = [s \in Stages |-> NoTrigger]
    /\ job = [s \in Stages |-> Idle]
    /\ done = {} /\ receipts = {}
    /\ made = {} /\ lived = {}
    /\ reruns = 0 /\ kills = 0 /\ edits = 0

(* The steps GitHub takes by itself.                                       *)
Work(s) == Start(s) \/ Select(s) \/ FetchRelease(s) \/ PullAsset(s)
              \/ Upload(s) \/ Complete(s)
Publishing == Promote \/ Preflight \/ Lookup(FALSE) \/ Publish \/ BuildProduction
Running == ExtractLive \/ (\E e \in Executions : Execute(e)) \/ BuildRuntime
              \/ Observe \/ Seal \/ Audit \/ PostReceipt

Disturb ==
    \/ \E fault \in EvidenceFaults, success \in BOOLEAN : RunE2E(fault, success)
    \/ Lookup(TRUE)
    \/ \E s \in Stages, midUpload \in BOOLEAN : Kill(s, midUpload)
    \/ \E d \in done, from \in {"start", "sign"} : Rerun(d, from)
    \/ \E s \in Stages : SkippedRun(s)
    \/ \E a \in artifacts : DeleteArtifact(a) \/ ExpireArtifact(a)
    \/ \E rel \in EditedReleases : EditRelease(rel)

Next == (\E s \in Stages : Work(s)) \/ Publishing \/ Running \/ Disturb

Spec == Init /\ [][Next]_vars

(* A step that can be taken is taken in the end: GitHub starts a waiting   *)
(* run and goes on with the steps of a running one.                        *)
FairSpec == Spec /\ (\A s \in Stages : WF_vars(Work(s))) /\ WF_vars(Publishing)
                 /\ WF_vars(Running)

-----------------------------------------------------------------------------
TypeOK ==
    /\ artifacts \subseteq Archive /\ made \subseteq Archive
    /\ expired \subseteq Id /\ lived \subseteq Archive
    /\ release \in Release
    /\ pending \in [Stages -> Trigger]
    /\ job \in [Stages -> Job]
    /\ done \subseteq Ended
    /\ receipts \subseteq Receipt
    /\ reruns \in 0..MaxReruns /\ kills \in 0..MaxKills /\ edits \in 0..MaxEdits

(* A receipt is for the source its own run and attempt built, from bytes   *)
(* that were the uploaded asset of the release, had no fault, declared to  *)
(* be a promotion's and were executed as required; where GitHub lists a    *)
(* digest, these bytes are still the published ones at signing, however    *)
(* often runs were re-run and whatever was edited in between.              *)
ReceiptIsWhole ==
    \A r \in receipts :
        /\ r.source.id = [stage |-> "runtime", run |-> r.run, attempt |-> r.attempt]
        /\ \E b \in lived : /\ b.id = r.source.subject
                            /\ b.fault = "none" /\ b.says.stage = "promotion"
        /\ r.source.exec = "good"
        /\ r.chain.live.listed => r.chain.live.bytes.id = r.source.subject

(* Every receipt leads back to evidence of the end-to-end run that was     *)
(* complete and accepted (receipt, executed source, published source,      *)
(* promoted evidence), unless a maintainer put up an archive that no       *)
(* workflow made: the scripts go by what the archive declares, and nothing *)
(* in the chain tells such a one from a promoted source.                   *)
ReceiptReachesEvidence ==
    \A r \in receipts :
        \/ \E p, e \in made :
              /\ p.id = r.source.subject
              /\ e.id = p.subject
              /\ e.id.stage = "e2e" /\ e.fault = "none"
        \/ edits > 0 /\ r.source.subject.stage = "foreign"

(* A deployment speaks of the bytes of the very promotion attempt that     *)
(* triggered it, and these were published: a re-run promotion, a deleted   *)
(* artifact or an older asset never slip in.                               *)
DeployedIsTriggering ==
    \A a \in made : a.id.stage = "deployment" =>
        /\ a.subject = [stage |-> "promotion", run |-> a.cause.run,
                        attempt |-> a.cause.attempt]
        /\ \E b \in lived : b.id = a.subject

(* An attempt refuses only for a reason: somebody edited artifacts or the  *)
(* release, its source was uploaded by several attempts, a kill left half  *)
(* an asset, or (runtime) the execution failed or the sign job ran again.  *)
(* Hence an attempt killed anywhere else can be repeated.                  *)
Misjudged == \E a \in E2EArchives : a.fault # "none"
Several(stage) == \E a, b \in made : a # b /\ a.id.stage = stage /\ b.id.stage = stage
RefusalHasCause ==
    \A d \in done : d.outcome = "refused" =>
        \/ edits > 0
        \/ d.stage = "promotion" /\ (Several("e2e") \/ Misjudged)
        \/ d.stage = "deployment" /\ Several("promotion")
        \/ d.stage = "deployment" /\ release.asset.state = "starter"
        \/ d.stage = "runtime" /\ (d.built => d.attempt > 1)
                               /\ (~d.built => d.exec \notin {"good", "unrun"})

(* The pipeline writes the published asset once: it never replaces, drops  *)
(* or joins another asset to it; only a maintainer's edit does.            *)
PublishedIsFinal ==
    [][release.asset.state = "uploaded" =>
         release' = release \/ edits' = edits + 1]_vars

(* If nobody interferes, successful evidence ends in a receipt, unless the *)
(* execution itself fails.                                                 *)
Interfered == reruns + kills + edits > 0
ExecutionFailed == \E d \in done : d.stage = "runtime" /\ d.exec # "good"
CalmRunIsSigned ==
    [](pending["promotion"] # NoTrigger =>
         <>(receipts # {} \/ Interfered \/ ExecutionFailed \/ Misjudged))

(* The attempt a promotion records is the attempt that made the evidence.  *)
PromotionNamesProducer ==
    \A a \in made : a.id.stage = "promotion" =>
        a.subject = [stage |-> "e2e", run |-> a.cause.run, attempt |-> a.cause.attempt]

(* The bytes of a receipt are the published ones when it is signed.        *)
SignedBytesAreLive ==
    \A r \in receipts : r.chain.live.bytes.id = r.source.subject
=============================================================================
