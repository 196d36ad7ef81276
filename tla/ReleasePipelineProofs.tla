-------------------------- MODULE ReleasePipelineProofs --------------------------
(***************************************************************************)
(* What the release pipeline guarantees for any number of runs, attempts,  *)
(* re-runs, kills and edits, and for any faults of the evidence.           *)
(*                                                                         *)
(* SafeInv follows an archive on its way: what every archive ever made     *)
(* speaks of, what was ever live, what each attempt has established at     *)
(* the step it is at, and what every receipt says.  Most steps of an       *)
(* attempt only move it on, so that each proof names the fields the step   *)
(* changes and leaves the rest to a lemma about steps of that shape.       *)
(*                                                                         *)
(* CalmInv is about what holds while nobody edits artifacts or release:    *)
(* which archives stand behind a run, that what an attempt saw of the      *)
(* release is still so, and which attempts of a run came before.  A        *)
(* refusal that had no reason would contradict it.                         *)
(***************************************************************************)
EXTENDS ReleasePipeline, FiniteSetTheorems, TLAPS

(* The steps of each stage. *)
StepsOf(s) ==
    IF s = "promotion" THEN {"idle", "select", "download", "upload", "complete"}
    ELSE IF s = "deployment"
    THEN {"idle", "select", "download", "lookup", "publish", "fetch", "pull", "build", "upload",
          "complete"}
    ELSE {"idle", "fetch", "pull", "extract", "execute", "build", "upload", "select", "observe",
          "seal", "audit", "receipt", "complete"}

TypeInv ==
    /\ TypeOK
    /\ IsFiniteSet(done) /\ IsFiniteSet(made)
    /\ \A s \in Stages : job[s].pc \in StepsOf(s)

(* Evidence that was complete and accepted.                                *)
Accepted(e) == e \in made /\ e.id.stage = "e2e" /\ e.fault = "none"

(* An archive without a fault that declares to be a promotion's.           *)
Sound(b) == b.fault = "none" /\ b.says.stage = "promotion"

(* What every archive ever made speaks of.                                 *)
MadeInv ==
    /\ artifacts \subseteq made
    /\ \A a \in made : a.says = a.id
    /\ \A a \in made : a.id.stage = "e2e" => a.fault \in EvidenceFault
    /\ \A a \in made : a.id.stage \in Stages => a.fault = "none"
    /\ \A a \in made : a.id.stage = "promotion" => \E e \in made : Accepted(e) /\ e.id = a.subject
    /\ \A a \in made : a.id.stage = "deployment" =>
          /\ a.subject = [stage |-> "promotion", run |-> a.cause.run, attempt |-> a.cause.attempt]
          /\ \E b \in lived : b.id = a.subject
    /\ \A a \in made : a.id.stage = "runtime" =>
          (\E b \in lived : b.id = a.subject /\ Sound(b)) /\ a.exec = "good"

(* The live asset, and what was ever live.                                 *)
ReleaseInv ==
    /\ release.asset.state # "none" => release.exists
    /\ release.asset.state = "uploaded" => release.asset.bytes \in lived
    /\ \A b \in lived : b.id.stage \in {"promotion", "foreign"} /\ b.fault \in SourceFault
    /\ \A b \in lived : b.id.stage = "promotion" => \E p \in made : p.id = b.id

(* What an attempt has established by the step it is at.                   *)
PromotionInv ==
    LET j == job["promotion"] IN
    /\ j.pc \in {"download", "upload"} =>
          /\ j.sel.artifact \in made /\ j.sel.artifact.id.stage = "e2e"
          /\ SelectionNames(j.sel, j.cause)
    /\ j.pc = "upload" => j.sel.artifact.fault = "none"

DeploymentInv ==
    LET j == job["deployment"] IN
    /\ j.pc \in {"download", "lookup", "publish", "fetch", "pull", "build"} =>
          /\ j.sel.artifact \in made /\ j.sel.artifact.id.stage = "promotion"
          /\ SelectionNames(j.sel, j.cause)
    /\ j.pc \in {"lookup", "publish", "fetch", "pull", "build"} =>
          ValidSource(j.sel.artifact, "promotion", j.cause)
    /\ j.pc = "publish" => release.exists
    /\ j.pc \in {"build", "upload"} => j.bytes \in lived
    /\ j.pc = "upload" =>
          j.bytes.id = [stage |-> "promotion", run |-> j.cause.run, attempt |-> j.cause.attempt]

RuntimeInv ==
    LET j == job["runtime"] IN
    /\ j.pc \in {"extract", "execute", "build", "upload"} => j.bytes \in lived
    /\ j.pc = "build" => j.exec \in Executions
    /\ j.pc = "upload" => Sound(j.bytes) /\ j.exec = "good"
    /\ j.pc \in {"observe", "seal", "audit", "receipt"} =>
          /\ j.sel.artifact \in made /\ j.sel.artifact.id.stage = "runtime"
          /\ SelectionNames(j.sel, Own("runtime"))
          /\ j.sel.artifact.id.run = j.run
    /\ j.pc \in {"seal", "audit", "receipt"} =>
          /\ j.sel.artifact.id = [stage |-> "runtime", run |-> j.run, attempt |-> j.attempt]
          /\ j.rel.asset.listed => j.rel.asset.bytes.id = j.sel.artifact.subject
    /\ j.pc \in {"audit", "receipt"} =>
          j.chain = ChainOf(j.sel, j.sel.artifact, Own("runtime"), j.rel)

ReceiptInv == ReceiptIsWhole /\ \A r \in receipts : r.source \in made

SafeInv ==
    /\ MadeInv /\ ReleaseInv /\ PromotionInv /\ DeploymentInv /\ RuntimeInv /\ ReceiptInv

(* While nobody edited anything: every archive is listed, the release is   *)
(* the one the deployment made, its asset is a promoted archive, and what  *)
(* an attempt has seen of the release is still so.                         *)
ReleaseCalm ==
    edits = 0 =>
        /\ artifacts = made /\ expired = {}
        /\ ~release.extra /\ (release.exists => release.plain)
        /\ release.asset.state # "none" =>
              release.asset.bytes \in made /\ release.asset.bytes.id.stage = "promotion"
        /\ \A a \in made : a.id.stage = "runtime" =>
              release.asset.state = "uploaded" /\ a.subject = release.asset.bytes.id
DeploymentCalm ==
    LET j == job["deployment"] IN
    edits = 0 =>
        /\ j.pc \in {"publish", "pull", "build"} => j.rel = release
        /\ j.pc \in {"fetch", "pull"} => release.asset.state # "none"
        /\ j.pc \in {"build", "upload", "complete"} => release.asset.state = "uploaded"
        /\ j.pc = "build" => j.bytes = release.asset.bytes
RuntimeCalm ==
    LET j == job["runtime"] IN
    edits = 0 =>
        /\ j.pc \in {"pull", "extract", "execute", "build"} => j.rel = release
        /\ j.pc \in {"extract", "execute", "build", "upload"} => j.bytes = release.asset.bytes

(* What stands behind a run of a stage: the archive its trigger made, or,  *)
(* for a runtime verification, the published asset.                        *)
Caused(s, c) ==
    /\ s = "promotion" => \E a \in made : a.id = [stage |-> "e2e", run |-> c.run, attempt |-> c.attempt]
    /\ s = "deployment" =>
          \E a \in made : a.id = [stage |-> "promotion", run |-> c.run, attempt |-> c.attempt]
    /\ s = "runtime" /\ edits = 0 => release.asset.state = "uploaded"
CauseInv ==
    /\ \A s \in Stages : pending[s] # NoTrigger => Caused(s, pending[s].cause)
    /\ \A s \in Stages : job[s].pc # "idle" => Caused(s, job[s].cause)
    /\ \A d \in done : Caused(d.stage, d.cause)
    /\ job["promotion"].pc = "complete" =>
          Caused("deployment", [run |-> job["promotion"].run, attempt |-> job["promotion"].attempt])

(* Runs of the runtime verification are numbered from 1 without a gap.     *)
Runs == RunsOf("runtime") \cup {0}
RunsInv ==
    /\ \E last \in Nat : Runs = 0 .. last
    /\ job["runtime"].pc = "idle" => job["runtime"].run = 0

(* The steps of the runtime verification after its upload.                *)
Signing == {"select", "observe", "seal", "audit", "receipt", "complete"}

(* Attempts of a run follow each other, and the first attempt finds no     *)
(* artifact of its run until it uploads one.                               *)
UploadsOf(run) == {a \in made : a.id.stage = "runtime" /\ a.id.run = run}
WaitingInv ==
    LET p == pending["runtime"] IN
    p # NoTrigger =>
        /\ p.attempt >= 1 /\ p.from \in {"start", "sign"}
        /\ p.attempt = 1 => p.from = "start" /\ UploadsOf(p.run) = {}
        /\ job["runtime"].pc # "idle" => p.run # job["runtime"].run
SigningInv ==
    LET j == job["runtime"] IN
    j.pc # "idle" =>
        /\ j.attempt >= 1
        /\ j.signing <=> j.pc \in Signing
        /\ j.attempt = 1 /\ ~j.signing => UploadsOf(j.run) = {}
        /\ j.attempt = 1 /\ j.signing => \E a \in made :
              /\ UploadsOf(j.run) = {a}
              /\ a.id = [stage |-> "runtime", run |-> j.run, attempt |-> 1]
FirstInv ==
    /\ RunsInv /\ WaitingInv /\ SigningInv
    /\ \A a \in made : a.id.stage = "runtime" => a.id.run \in Runs
    /\ \A d \in done : d.stage = "runtime" => d.attempt >= 1

CalmInv ==
    ReleaseCalm /\ DeploymentCalm /\ RuntimeCalm /\ CauseInv /\ FirstInv /\ RefusalHasCause

----------------------------------------------------------------------------
(* Records                                                                  *)

(* An attempt with its fields at another step. *)
With(j, pc, sel, rel, bytes, exec, chain, signing) ==
    [pc |-> pc, run |-> j.run, attempt |-> j.attempt, cause |-> j.cause, sel |-> sel,
     rel |-> rel, bytes |-> bytes, exec |-> exec, chain |-> chain, signing |-> signing]

(* Attempt s goes on to step pc; no other attempt does anything. *)
Goes(s, pc, sel, rel, bytes, exec, chain, signing) ==
    job' = [job EXCEPT ![s] = With(job[s], pc, sel, rel, bytes, exec, chain, signing)]

LEMMA EmptyRecords ==
    /\ NoRun \in Run /\ NoId \in Id /\ NoArchive \in Archive /\ NoAsset \in Asset
    /\ NoRelease \in Release /\ NoSelection \in SelectionType /\ NoChain \in Chain
    /\ NoTrigger \in Trigger /\ Idle \in Job
<1>1. NoRun \in Run /\ NoId \in Id
  BY DEF NoRun, Run, NoId, Id
<1>2. NoArchive \in Archive
  BY <1>1 DEF NoArchive, Archive, Fault, EvidenceFault, Execution
<1>3. NoAsset \in Asset
  BY <1>2 DEF NoAsset, Asset
<1>4. NoRelease \in Release
  BY <1>3 DEF NoRelease, Release
<1>5. NoSelection \in SelectionType
  BY <1>2 DEF NoSelection, SelectionType
<1>6. NoChain \in Chain
  BY <1>1, <1>3, <1>5 DEF NoChain, Chain
<1>7. NoTrigger \in Trigger
  BY <1>1 DEF NoTrigger, Trigger
<1>8. "idle" \in Steps /\ "unrun" \in Execution
  BY DEF Steps, Execution
<1>9. Idle \in Job
  BY <1>1, <1>2, <1>4, <1>5, <1>6, <1>8 DEF Idle, Job
<1> QED
  BY <1>1, <1>2, <1>3, <1>4, <1>5, <1>6, <1>7, <1>9

(* The fields of an attempt are of their types. *)
LEMMA JobFields ==
  ASSUME NEW j \in Job
  PROVE  /\ j.pc \in Steps /\ j.run \in Nat /\ j.attempt \in Nat /\ j.cause \in Run
         /\ j.sel \in SelectionType /\ j.rel \in Release /\ j.bytes \in Archive
         /\ j.exec \in Execution /\ j.chain \in Chain /\ j.signing \in BOOLEAN
BY DEF Job

LEMMA WithIsJob ==
  ASSUME NEW j \in Job, NEW pc \in Steps, NEW sel \in SelectionType, NEW rel \in Release,
         NEW bytes \in Archive, NEW exec \in Execution, NEW chain \in Chain,
         NEW signing \in BOOLEAN
  PROVE  With(j, pc, sel, rel, bytes, exec, chain, signing) \in Job
BY JobFields DEF With, Job

(* A step of one attempt leaves the others alone. *)
LEMMA OneAttempt ==
  ASSUME NEW s \in Stages, NEW j, job \in [Stages -> Job], job' = [job EXCEPT ![s] = j]
  PROVE  job'[s] = j /\ \A t \in Stages : t # s => job'[t] = job[t]
OBVIOUS

LEMMA UpdateOfWith ==
  ASSUME NEW j, NEW pc, NEW sel, NEW rel, NEW bytes, NEW exec, NEW chain, NEW signing, NEW new
  PROVE  /\ [With(j, pc, sel, rel, bytes, exec, chain, signing) EXCEPT !.pc = new]
              = With(j, new, sel, rel, bytes, exec, chain, signing)
         /\ [With(j, pc, sel, rel, bytes, exec, chain, signing) EXCEPT !.signing = new]
              = With(j, pc, sel, rel, bytes, exec, chain, new)
BY DEF With

LEMMA JobTyped ==
  ASSUME TypeInv, NEW s \in Stages
  PROVE  job \in [Stages -> Job] /\ job[s] \in Job /\ pending[s] \in Trigger
BY DEF TypeInv, TypeOK

LEMMA TriggerFields ==
  ASSUME NEW t \in Trigger
  PROVE  /\ t.run \in Nat /\ t.attempt \in Nat /\ t.cause \in Run
         /\ t.from \in {"none", "start", "sign"}
BY DEF Trigger

(* The assignments of the actions, as the whole record they lead to. *)
LEMMA GoesSel ==
  ASSUME TypeInv, NEW s \in Stages, NEW pc, NEW sel,
         job' = [job EXCEPT ![s].sel = sel, ![s].pc = pc]
  PROVE  Goes(s, pc, sel, job[s].rel, job[s].bytes, job[s].exec, job[s].chain, job[s].signing)
<1> DEFINE j == job[s]
<1>1. job \in [Stages -> Job] /\ j \in Job
  BY DEF TypeInv, TypeOK
<1>2. [j EXCEPT !.sel = sel, !.pc = pc]
        = With(j, pc, sel, j.rel, j.bytes, j.exec, j.chain, j.signing)
  <2>1. [j EXCEPT !.sel = sel] = With(j, j.pc, sel, j.rel, j.bytes, j.exec, j.chain, j.signing)
    BY <1>1 DEF With, Job
  <2>2. [With(j, j.pc, sel, j.rel, j.bytes, j.exec, j.chain, j.signing) EXCEPT !.pc = pc]
          = With(j, pc, sel, j.rel, j.bytes, j.exec, j.chain, j.signing)
    BY UpdateOfWith
  <2>3. [j EXCEPT !.sel = sel, !.pc = pc] = [[j EXCEPT !.sel = sel] EXCEPT !.pc = pc]
    OBVIOUS
  <2> QED
    BY <2>1, <2>2, <2>3, Zenon
<1>3. [job EXCEPT ![s].sel = sel, ![s].pc = pc] = [job EXCEPT ![s] = [j EXCEPT !.sel = sel, !.pc = pc]]
  BY <1>1
<1> QED
  BY <1>2, <1>3, Zenon DEF Goes

LEMMA GoesRel ==
  ASSUME TypeInv, NEW s \in Stages, NEW pc, NEW rel,
         job' = [job EXCEPT ![s].rel = rel, ![s].pc = pc]
  PROVE  Goes(s, pc, job[s].sel, rel, job[s].bytes, job[s].exec, job[s].chain, job[s].signing)
<1> DEFINE j == job[s]
<1>1. job \in [Stages -> Job] /\ j \in Job
  BY DEF TypeInv, TypeOK
<1>2. [j EXCEPT !.rel = rel, !.pc = pc]
        = With(j, pc, j.sel, rel, j.bytes, j.exec, j.chain, j.signing)
  <2>1. [j EXCEPT !.rel = rel] = With(j, j.pc, j.sel, rel, j.bytes, j.exec, j.chain, j.signing)
    BY <1>1 DEF With, Job
  <2>2. [With(j, j.pc, j.sel, rel, j.bytes, j.exec, j.chain, j.signing) EXCEPT !.pc = pc]
          = With(j, pc, j.sel, rel, j.bytes, j.exec, j.chain, j.signing)
    BY UpdateOfWith
  <2>3. [j EXCEPT !.rel = rel, !.pc = pc] = [[j EXCEPT !.rel = rel] EXCEPT !.pc = pc]
    OBVIOUS
  <2> QED
    BY <2>1, <2>2, <2>3, Zenon
<1>3. [job EXCEPT ![s].rel = rel, ![s].pc = pc] = [job EXCEPT ![s] = [j EXCEPT !.rel = rel, !.pc = pc]]
  BY <1>1
<1> QED
  BY <1>2, <1>3, Zenon DEF Goes

LEMMA GoesBytes ==
  ASSUME TypeInv, NEW s \in Stages, NEW pc, NEW bytes,
         job' = [job EXCEPT ![s].bytes = bytes, ![s].pc = pc]
  PROVE  Goes(s, pc, job[s].sel, job[s].rel, bytes, job[s].exec, job[s].chain, job[s].signing)
<1> DEFINE j == job[s]
<1>1. job \in [Stages -> Job] /\ j \in Job
  BY DEF TypeInv, TypeOK
<1>2. [j EXCEPT !.bytes = bytes, !.pc = pc]
        = With(j, pc, j.sel, j.rel, bytes, j.exec, j.chain, j.signing)
  <2>1. [j EXCEPT !.bytes = bytes] = With(j, j.pc, j.sel, j.rel, bytes, j.exec, j.chain, j.signing)
    BY <1>1 DEF With, Job
  <2>2. [With(j, j.pc, j.sel, j.rel, bytes, j.exec, j.chain, j.signing) EXCEPT !.pc = pc]
          = With(j, pc, j.sel, j.rel, bytes, j.exec, j.chain, j.signing)
    BY UpdateOfWith
  <2>3. [j EXCEPT !.bytes = bytes, !.pc = pc] = [[j EXCEPT !.bytes = bytes] EXCEPT !.pc = pc]
    OBVIOUS
  <2> QED
    BY <2>1, <2>2, <2>3, Zenon
<1>3. [job EXCEPT ![s].bytes = bytes, ![s].pc = pc] = [job EXCEPT ![s] = [j EXCEPT !.bytes = bytes, !.pc = pc]]
  BY <1>1
<1> QED
  BY <1>2, <1>3, Zenon DEF Goes

LEMMA GoesExec ==
  ASSUME TypeInv, NEW s \in Stages, NEW pc, NEW exec,
         job' = [job EXCEPT ![s].exec = exec, ![s].pc = pc]
  PROVE  Goes(s, pc, job[s].sel, job[s].rel, job[s].bytes, exec, job[s].chain, job[s].signing)
<1> DEFINE j == job[s]
<1>1. job \in [Stages -> Job] /\ j \in Job
  BY DEF TypeInv, TypeOK
<1>2. [j EXCEPT !.exec = exec, !.pc = pc]
        = With(j, pc, j.sel, j.rel, j.bytes, exec, j.chain, j.signing)
  <2>1. [j EXCEPT !.exec = exec] = With(j, j.pc, j.sel, j.rel, j.bytes, exec, j.chain, j.signing)
    BY <1>1 DEF With, Job
  <2>2. [With(j, j.pc, j.sel, j.rel, j.bytes, exec, j.chain, j.signing) EXCEPT !.pc = pc]
          = With(j, pc, j.sel, j.rel, j.bytes, exec, j.chain, j.signing)
    BY UpdateOfWith
  <2>3. [j EXCEPT !.exec = exec, !.pc = pc] = [[j EXCEPT !.exec = exec] EXCEPT !.pc = pc]
    OBVIOUS
  <2> QED
    BY <2>1, <2>2, <2>3, Zenon
<1>3. [job EXCEPT ![s].exec = exec, ![s].pc = pc] = [job EXCEPT ![s] = [j EXCEPT !.exec = exec, !.pc = pc]]
  BY <1>1
<1> QED
  BY <1>2, <1>3, Zenon DEF Goes

LEMMA GoesChain ==
  ASSUME TypeInv, NEW s \in Stages, NEW pc, NEW chain,
         job' = [job EXCEPT ![s].chain = chain, ![s].pc = pc]
  PROVE  Goes(s, pc, job[s].sel, job[s].rel, job[s].bytes, job[s].exec, chain, job[s].signing)
<1> DEFINE j == job[s]
<1>1. job \in [Stages -> Job] /\ j \in Job
  BY DEF TypeInv, TypeOK
<1>2. [j EXCEPT !.chain = chain, !.pc = pc]
        = With(j, pc, j.sel, j.rel, j.bytes, j.exec, chain, j.signing)
  <2>1. [j EXCEPT !.chain = chain] = With(j, j.pc, j.sel, j.rel, j.bytes, j.exec, chain, j.signing)
    BY <1>1 DEF With, Job
  <2>2. [With(j, j.pc, j.sel, j.rel, j.bytes, j.exec, chain, j.signing) EXCEPT !.pc = pc]
          = With(j, pc, j.sel, j.rel, j.bytes, j.exec, chain, j.signing)
    BY UpdateOfWith
  <2>3. [j EXCEPT !.chain = chain, !.pc = pc] = [[j EXCEPT !.chain = chain] EXCEPT !.pc = pc]
    OBVIOUS
  <2> QED
    BY <2>1, <2>2, <2>3, Zenon
<1>3. [job EXCEPT ![s].chain = chain, ![s].pc = pc] = [job EXCEPT ![s] = [j EXCEPT !.chain = chain, !.pc = pc]]
  BY <1>1
<1> QED
  BY <1>2, <1>3, Zenon DEF Goes

LEMMA GoesSigning ==
  ASSUME TypeInv, NEW s \in Stages, NEW pc, NEW signing,
         job' = [job EXCEPT ![s].pc = pc, ![s].signing = signing]
  PROVE  Goes(s, pc, job[s].sel, job[s].rel, job[s].bytes, job[s].exec, job[s].chain, signing)
<1> DEFINE j == job[s]
<1>1. job \in [Stages -> Job] /\ j \in Job
  BY DEF TypeInv, TypeOK
<1>2. [j EXCEPT !.pc = pc, !.signing = signing]
        = With(j, pc, j.sel, j.rel, j.bytes, j.exec, j.chain, signing)
  <2>1. [j EXCEPT !.pc = pc] = With(j, pc, j.sel, j.rel, j.bytes, j.exec, j.chain, j.signing)
    BY <1>1 DEF With, Job
  <2>2. [With(j, pc, j.sel, j.rel, j.bytes, j.exec, j.chain, j.signing) EXCEPT !.signing = signing]
          = With(j, pc, j.sel, j.rel, j.bytes, j.exec, j.chain, signing)
    BY DEF With
  <2>3. [j EXCEPT !.pc = pc, !.signing = signing] = [[j EXCEPT !.pc = pc] EXCEPT !.signing = signing]
    OBVIOUS
  <2> QED
    BY <2>1, <2>2, <2>3, Zenon
<1>3. [job EXCEPT ![s].pc = pc, ![s].signing = signing] = [job EXCEPT ![s] = [j EXCEPT !.pc = pc, !.signing = signing]]
  BY <1>1
<1> QED
  BY <1>2, <1>3, Zenon DEF Goes

(* An attempt that moves on without finding anything out. *)
LEMMA MoveGoes ==
  ASSUME TypeInv, NEW s \in Stages, NEW pc, Move(s, pc)
  PROVE  Goes(s, pc, job[s].sel, job[s].rel, job[s].bytes, job[s].exec, job[s].chain,
              job[s].signing)
<1> DEFINE j == job[s]
<1>1. job \in [Stages -> Job] /\ j \in Job
  BY DEF TypeInv, TypeOK
<1>2. [j EXCEPT !.pc = pc] = With(j, pc, j.sel, j.rel, j.bytes, j.exec, j.chain, j.signing)
  BY <1>1 DEF With, Job
<1>3. [job EXCEPT ![s].pc = pc] = [job EXCEPT ![s] = [j EXCEPT !.pc = pc]]
  BY <1>1
<1> QED
  BY <1>2, <1>3, Zenon DEF Goes, Move

(* An attempt that has not found anything out. *)
Fresh(pc, run, attempt, cause, signing) ==
    [pc |-> pc, run |-> run, attempt |-> attempt, cause |-> cause, sel |-> NoSelection,
     rel |-> NoRelease, bytes |-> NoArchive, exec |-> "unrun", chain |-> NoChain,
     signing |-> signing]

LEMMA StartDoes ==
  ASSUME TypeInv, NEW s \in Stages, Start(s)
  PROVE  job' = [job EXCEPT ![s] =
                   Fresh(IF s = "runtime" /\ pending[s].from = "start" THEN "fetch" ELSE "select",
                         pending[s].run, pending[s].attempt, pending[s].cause,
                         pending[s].from = "sign")]
<1> DEFINE pc == IF s = "runtime" /\ pending[s].from = "start" THEN "fetch" ELSE "select"
           run == pending[s].run
           attempt == pending[s].attempt
           cause == pending[s].cause
           signing == pending[s].from = "sign"
<1>1. job' = [job EXCEPT ![s] = [Idle EXCEPT !.run = run, !.attempt = attempt, !.cause = cause,
                                             !.signing = signing, !.pc = pc]]
  BY Zenon DEF Start
<1> HIDE DEF pc, run, attempt, cause, signing
<1>2. Idle = Fresh("idle", 0, 0, NoRun, FALSE)
  BY DEF Idle, Fresh
<1>3. PICK p, r, a, c, g : Idle = Fresh(p, r, a, c, g)
  BY <1>2
<1>4. [Fresh(p, r, a, c, g) EXCEPT !.run = run, !.attempt = attempt, !.cause = cause,
                                    !.signing = signing, !.pc = pc]
        = Fresh(pc, run, attempt, cause, signing)
  <2>1. [Fresh(p, r, a, c, g) EXCEPT !.run = run] = Fresh(p, run, a, c, g)
    BY DEF Fresh
  <2>2. [Fresh(p, run, a, c, g) EXCEPT !.attempt = attempt] = Fresh(p, run, attempt, c, g)
    BY DEF Fresh
  <2>3. [Fresh(p, run, attempt, c, g) EXCEPT !.cause = cause] = Fresh(p, run, attempt, cause, g)
    BY DEF Fresh
  <2>4. [Fresh(p, run, attempt, cause, g) EXCEPT !.signing = signing]
          = Fresh(p, run, attempt, cause, signing)
    BY DEF Fresh
  <2>5. [Fresh(p, run, attempt, cause, signing) EXCEPT !.pc = pc]
          = Fresh(pc, run, attempt, cause, signing)
    BY DEF Fresh
  <2>6. [Fresh(p, r, a, c, g) EXCEPT !.run = run, !.attempt = attempt]
          = Fresh(p, run, attempt, c, g)
    <3>1. [Fresh(p, r, a, c, g) EXCEPT !.run = run, !.attempt = attempt]
            = [[Fresh(p, r, a, c, g) EXCEPT !.run = run] EXCEPT !.attempt = attempt]
      OBVIOUS
    <3> QED
      BY <2>1, <2>2, <3>1, Zenon
  <2>7. [Fresh(p, r, a, c, g) EXCEPT !.run = run, !.attempt = attempt, !.cause = cause]
          = Fresh(p, run, attempt, cause, g)
    <3>1. [Fresh(p, r, a, c, g) EXCEPT !.run = run, !.attempt = attempt, !.cause = cause]
            = [[Fresh(p, r, a, c, g) EXCEPT !.run = run, !.attempt = attempt] EXCEPT !.cause = cause]
      OBVIOUS
    <3> QED
      BY <2>3, <2>6, <3>1, Zenon
  <2>8. [Fresh(p, r, a, c, g) EXCEPT !.run = run, !.attempt = attempt, !.cause = cause,
                                      !.signing = signing]
          = Fresh(p, run, attempt, cause, signing)
    <3>1. [Fresh(p, r, a, c, g) EXCEPT !.run = run, !.attempt = attempt, !.cause = cause,
                                        !.signing = signing]
            = [[Fresh(p, r, a, c, g) EXCEPT !.run = run, !.attempt = attempt, !.cause = cause]
                 EXCEPT !.signing = signing]
      OBVIOUS
    <3> QED
      BY <2>4, <2>7, <3>1, Zenon
  <2>9. [Fresh(p, r, a, c, g) EXCEPT !.run = run, !.attempt = attempt, !.cause = cause,
                                      !.signing = signing, !.pc = pc]
          = [[Fresh(p, r, a, c, g) EXCEPT !.run = run, !.attempt = attempt, !.cause = cause,
                                          !.signing = signing] EXCEPT !.pc = pc]
    OBVIOUS
  <2> QED
    BY <2>5, <2>8, <2>9, Zenon
<1> QED
  BY <1>1, <1>3, <1>4, Zenon DEF pc, run, attempt, cause, signing

LEMMA SelectDoes ==
  ASSUME TypeInv, NEW s \in Stages, Select(s)
  PROVE  \/ Refuse(s) /\ ~Selectable(Listing(s), expired)
         \/ UNCHANGED <<release, done>> /\ \E a \in artifacts :
              /\ Listing(s) = {a} /\ a.id \notin expired
              /\ Goes(s, IF s = "runtime" THEN "observe" ELSE "download",
                      [artifact |-> a, run |-> Expected(s).run, attempt |-> Expected(s).attempt],
                      job[s].rel, job[s].bytes, job[s].exec, job[s].chain, job[s].signing)
<1>1. CASE ~Selectable(Listing(s), expired)
  BY <1>1, Zenon DEF Select
<1>2. CASE Selectable(Listing(s), expired)
  <2> DEFINE pc == IF s = "runtime" THEN "observe" ELSE "download"
  <2>1. PICK a \in Listing(s) : Listing(s) = {a} /\ a.id \notin expired
    BY <1>2 DEF Selectable
  <2>2. a \in artifacts
    BY DEF Listing
  <2>3. (CHOOSE x \in Listing(s) : TRUE) = a
    BY <2>1
  <2> DEFINE sel == [artifact |-> a, run |-> Expected(s).run, attempt |-> Expected(s).attempt]
  <2>4. Selection(Listing(s), Expected(s)) = sel
    BY <2>3, Zenon DEF Selection
  <2>5. job' = [job EXCEPT ![s].sel = Selection(Listing(s), Expected(s)), ![s].pc = pc]
        /\ UNCHANGED <<release, done>>
    BY <1>2, Zenon DEF Select
  <2> HIDE DEF pc, sel
  <2>6. job' = [job EXCEPT ![s].sel = sel, ![s].pc = pc]
    BY <2>4, <2>5
  <2>7. Goes(s, pc, sel, job[s].rel, job[s].bytes, job[s].exec, job[s].chain, job[s].signing)
    BY <2>6, GoesSel, Zenon
  <2> QED
    BY <2>1, <2>2, <2>5, <2>7, Zenon DEF pc, sel
<1> QED
  BY <1>1, <1>2

LEMMA FetchDoes ==
  ASSUME TypeInv, NEW s \in Stages, FetchRelease(s)
  PROVE  \/ Refuse(s) /\ ~release.exists
         \/ /\ release.exists /\ UNCHANGED <<release, done>>
            /\ Goes(s, "pull", job[s].sel, release, job[s].bytes, job[s].exec, job[s].chain,
                    job[s].signing)
<1>1. CASE ~release.exists
  BY <1>1, Zenon DEF FetchRelease
<1>2. CASE release.exists
  BY <1>2, GoesRel, Zenon DEF FetchRelease
<1> QED
  BY <1>1, <1>2

LEMMA PullDoes ==
  ASSUME TypeInv, NEW s \in Stages, PullAsset(s)
  PROVE  \/ Refuse(s) /\ release.asset.state # "uploaded"
         \/ /\ release.asset.state = "uploaded" /\ UNCHANGED <<release, done>>
            /\ Goes(s, IF s = "runtime" THEN "extract" ELSE "build", job[s].sel, job[s].rel,
                    release.asset.bytes, job[s].exec, job[s].chain, job[s].signing)
<1> DEFINE pc == IF s = "runtime" THEN "extract" ELSE "build"
<1>1. CASE release.asset.state # "uploaded"
  BY <1>1, Zenon DEF PullAsset
<1>2. CASE release.asset.state = "uploaded"
  <2>1. job' = [job EXCEPT ![s].bytes = release.asset.bytes, ![s].pc = pc]
        /\ UNCHANGED <<release, done>>
    BY <1>2, Zenon DEF PullAsset
  <2> HIDE DEF pc
  <2> QED
    BY <1>2, <2>1, GoesBytes, Zenon DEF pc
<1> QED
  BY <1>1, <1>2

LEMMA UploadDoes ==
  ASSUME TypeInv, NEW s \in Stages, Upload(s)
  PROVE  Goes(s, IF s = "runtime" THEN "select" ELSE "complete", job[s].sel, job[s].rel,
              job[s].bytes, job[s].exec, job[s].chain, s = "runtime")
<1> DEFINE pc == IF s = "runtime" THEN "select" ELSE "complete"
           signing == s = "runtime"
<1>1. job' = [job EXCEPT ![s].pc = pc, ![s].signing = signing]
  BY Zenon DEF Upload
<1> HIDE DEF pc, signing
<1> QED
  BY <1>1, GoesSigning, Zenon DEF pc, signing

LEMMA LookupDoes ==
  ASSUME TypeInv, NEW fails, Lookup(fails)
  PROVE  \/ fails /\ End("deployment", "unavailable") /\ UNCHANGED release
         \/ LET j == job["deployment"] IN
            /\ release'.exists /\ UNCHANGED done
            /\ \/ release.exists /\ release' = release
               \/ ~release.exists /\ release' = [NoRelease EXCEPT !.exists = TRUE, !.plain = TRUE]
            /\ Goes("deployment", "publish", j.sel, release', j.bytes, j.exec, j.chain, j.signing)
<1>1. CASE fails
  BY <1>1, Zenon DEF Lookup
<1>2. CASE ~fails
  <2> DEFINE new == [NoRelease EXCEPT !.exists = TRUE, !.plain = TRUE]
  <2>1. job' = [job EXCEPT !["deployment"].rel = release', !["deployment"].pc = "publish"]
    BY <1>2 DEF Lookup
  <2>2. Goes("deployment", "publish", job["deployment"].sel, release', job["deployment"].bytes,
             job["deployment"].exec, job["deployment"].chain, job["deployment"].signing)
    BY <2>1, GoesRel, Zenon DEF Stages
  <2>3. release' = IF release.exists THEN release ELSE new
    BY <1>2, Zenon DEF Lookup
  <2>4. new.exists
    BY DEF NoRelease
  <2>5. UNCHANGED done
    BY <1>2, Zenon DEF Lookup
  <2> HIDE DEF new
  <2> QED
    BY <2>2, <2>3, <2>4, <2>5, Zenon DEF new
<1> QED
  BY <1>1, <1>2

LEMMA ExecuteDoes ==
  ASSUME TypeInv, NEW e, Execute(e)
  PROVE  LET j == job["runtime"] IN
         Goes("runtime", "build", j.sel, j.rel, j.bytes, e, j.chain, j.signing)
BY GoesExec, Zenon DEF Stages, Execute

LEMMA ObserveDoes ==
  ASSUME TypeInv, Observe
  PROVE  LET j == job["runtime"]
             seen == /\ Available(j.sel.artifact) /\ Extracted(j.sel.artifact, j.sel)
                     /\ RuntimeObserved(j.sel.artifact, Own("runtime"), release)
                     /\ ValidSource(j.sel.artifact, "runtime", Own("runtime"))
         IN \/ Refuse("runtime") /\ ~seen
            \/ /\ seen /\ UNCHANGED <<release, done>>
               /\ Goes("runtime", "seal", j.sel, release, j.bytes, j.exec, j.chain, j.signing)
<1> DEFINE j == job["runtime"]
           seen == /\ Available(j.sel.artifact) /\ Extracted(j.sel.artifact, j.sel)
                   /\ RuntimeObserved(j.sel.artifact, Own("runtime"), release)
                   /\ ValidSource(j.sel.artifact, "runtime", Own("runtime"))
<1>1. CASE ~seen
  BY <1>1, Zenon DEF Observe
<1>2. CASE seen
  <2>1. job' = [job EXCEPT !["runtime"].rel = release, !["runtime"].pc = "seal"]
        /\ UNCHANGED <<release, done>>
    BY <1>2, Zenon DEF Observe
  <2> HIDE DEF seen
  <2> QED
    BY <1>2, <2>1, GoesRel, Zenon DEF Stages, seen
<1> QED
  BY <1>1, <1>2

LEMMA SealDoes ==
  ASSUME TypeInv, Seal
  PROVE  LET j == job["runtime"] IN
         Goes("runtime", "audit", j.sel, j.rel, j.bytes, j.exec,
              ChainOf(j.sel, j.sel.artifact, Own("runtime"), j.rel), j.signing)
<1> DEFINE chain == ChainOf(job["runtime"].sel, job["runtime"].sel.artifact, Own("runtime"),
                            job["runtime"].rel)
<1>1. job' = [job EXCEPT !["runtime"].chain = chain, !["runtime"].pc = "audit"]
  BY Zenon DEF Seal
<1> HIDE DEF chain
<1> QED
  BY <1>1, GoesChain, Zenon DEF Stages, chain

----------------------------------------------------------------------------
(* Types                                                                    *)

LEMMA StateTyped ==
  ASSUME TypeInv
  PROVE  /\ artifacts \subseteq Archive /\ made \subseteq Archive /\ IsFiniteSet(made)
         /\ expired \subseteq Id /\ lived \subseteq Archive /\ release \in Release
         /\ pending \in [Stages -> Trigger] /\ job \in [Stages -> Job]
         /\ done \subseteq Ended /\ IsFiniteSet(done) /\ receipts \subseteq Receipt
         /\ reruns \in 0 .. MaxReruns /\ kills \in 0 .. MaxKills /\ edits \in 0 .. MaxEdits
         /\ \A s \in Stages : job[s].pc \in StepsOf(s)
BY DEF TypeInv, TypeOK

LEMMA StepsTyped == \A s \in Stages : StepsOf(s) \subseteq Steps
BY DEF StepsOf, Steps, Stages

(* What a stage uploads. *)
LEMMA BuiltIs ==
  ASSUME TypeInv, NEW s \in Stages
  PROVE  /\ Built(s) \in Archive
         /\ Built(s).id = [stage |-> s, run |-> job[s].run, attempt |-> job[s].attempt]
         /\ Built(s).says = Built(s).id /\ Built(s).fault = "none" /\ Built(s).cause = job[s].cause
         /\ s = "promotion" => Built(s).subject = job[s].sel.artifact.id
         /\ s # "promotion" => Built(s).subject = job[s].bytes.id
         /\ s = "runtime" => Built(s).exec = job[s].exec
<1> DEFINE id == [stage |-> s, run |-> job[s].run, attempt |-> job[s].attempt]
<1>1. /\ job[s].run \in Nat /\ job[s].attempt \in Nat /\ job[s].cause \in Run
      /\ job[s].sel.artifact.id \in Id /\ job[s].bytes.id \in Id /\ job[s].exec \in Execution
  BY JobTyped, JobFields DEF SelectionType, Archive
<1>2. id \in Id /\ Own(s).run = job[s].run /\ Own(s).attempt = job[s].attempt
  BY <1>1 DEF Id, Own
<1>3. "none" \in Fault /\ "unrun" \in Execution
  BY DEF Fault, EvidenceFault, Execution
<1> HIDE DEF id
<1> DEFINE A(subject, exec) == [id |-> id, says |-> id, subject |-> subject, cause |-> job[s].cause,
                                fault |-> "none", exec |-> exec]
<1>4. \A subject \in Id, exec \in Execution : A(subject, exec) \in Archive
  BY <1>1, <1>2, <1>3 DEF Archive
<1>5. \A subject \in Id, exec \in Execution :
        /\ A(subject, exec).id = id /\ A(subject, exec).says = id
        /\ A(subject, exec).subject = subject
        /\ A(subject, exec).cause = job[s].cause /\ A(subject, exec).fault = "none"
        /\ A(subject, exec).exec = exec
  OBVIOUS
<1>6. CASE s = "promotion"
  <2>1. Built(s) = A(job[s].sel.artifact.id, "unrun")
    BY <1>2, <1>6 DEF Built, PromotedSource, SourceOf, id
  <2> HIDE DEF A
  <2> QED
    BY <1>1, <1>3, <1>4, <1>5, <1>6, <2>1 DEF id
<1>7. CASE s = "deployment"
  <2>1. Built(s) = A(job[s].bytes.id, "unrun")
    BY <1>2, <1>7 DEF Built, DeployedSource, SourceOf, id
  <2> HIDE DEF A
  <2> QED
    BY <1>1, <1>3, <1>4, <1>5, <1>7, <2>1 DEF id
<1>8. CASE s = "runtime"
  <2>1. Built(s) = [A(job[s].bytes.id, "unrun") EXCEPT !.exec = job[s].exec]
    BY <1>2, <1>8 DEF Built, ExecutedSource, SourceOf, id
  <2>2. Built(s) = A(job[s].bytes.id, job[s].exec)
    BY <2>1
  <2> HIDE DEF A
  <2> QED
    BY <1>1, <1>3, <1>4, <1>5, <1>8, <2>2 DEF id
<1> QED
  BY <1>6, <1>7, <1>8 DEF Stages

(* An attempt that ends is recorded. *)
LEMMA EndTyped ==
  ASSUME TypeInv, NEW s \in Stages, NEW outcome \in Outcome
  PROVE  /\ EndOf(s, outcome) \in Ended
         /\ EndOf(s, outcome).stage = s /\ EndOf(s, outcome).run = job[s].run
         /\ EndOf(s, outcome).attempt = job[s].attempt /\ EndOf(s, outcome).cause = job[s].cause
         /\ EndOf(s, outcome).outcome = outcome /\ EndOf(s, outcome).exec = job[s].exec
         /\ EndOf(s, outcome).built = job[s].signing
BY JobTyped, JobFields DEF EndOf, Ended

(* So is a waiting run that a newer one cancels or displaces. *)
LEMMA WaitingIs ==
  ASSUME TypeInv, NEW s \in Stages, NEW outcome \in Outcome
  PROVE  /\ Waiting(s, outcome) \subseteq Ended /\ IsFiniteSet(Waiting(s, outcome))
         /\ \A d \in Waiting(s, outcome) :
              /\ pending[s] # NoTrigger /\ d.stage = s /\ d.run = pending[s].run
              /\ d.attempt = pending[s].attempt /\ d.cause = pending[s].cause
              /\ d.outcome = outcome
         /\ pending[s] # NoTrigger => \E d \in Waiting(s, outcome) : d.run = pending[s].run
<1> DEFINE d == [stage |-> s, run |-> pending[s].run, attempt |-> pending[s].attempt,
                 cause |-> pending[s].cause, outcome |-> outcome,
                 built |-> pending[s].from = "sign", exec |-> "unrun"]
           built == pending[s].from = "sign"
<1>1. /\ pending[s].run \in Nat /\ pending[s].attempt \in Nat /\ pending[s].cause \in Run
      /\ "unrun" \in Execution
  BY JobTyped, TriggerFields DEF Execution
<1>2. built \in BOOLEAN
  OBVIOUS
<1> HIDE DEF built
<1>3. d = [stage |-> s, run |-> pending[s].run, attempt |-> pending[s].attempt,
           cause |-> pending[s].cause, outcome |-> outcome, built |-> built, exec |-> "unrun"]
  BY DEF built
<1>4. d \in Ended
  BY <1>1, <1>2, <1>3 DEF Ended
<1>5. /\ d.stage = s /\ d.run = pending[s].run /\ d.attempt = pending[s].attempt
      /\ d.cause = pending[s].cause /\ d.outcome = outcome
  OBVIOUS
<1>6. Waiting(s, outcome) = IF pending[s] = NoTrigger THEN {} ELSE {d}
  BY Zenon DEF Waiting
<1> HIDE DEF d
<1>7. IsFiniteSet(Waiting(s, outcome))
  BY <1>6, FS_EmptySet, FS_Singleton
<1> QED
  BY <1>4, <1>5, <1>6, <1>7

LEMMA CancelledIs ==
  ASSUME TypeInv, NEW s \in Stages
  PROVE  /\ Cancelled(s) \subseteq Ended /\ IsFiniteSet(Cancelled(s))
         /\ \A d \in Cancelled(s) :
              /\ pending[s] # NoTrigger /\ d.stage = s /\ d.run = pending[s].run
              /\ d.attempt = pending[s].attempt /\ d.cause = pending[s].cause
              /\ d.outcome = "cancelled"
         /\ pending[s] # NoTrigger => \E d \in Cancelled(s) : d.run = pending[s].run
<1>1. "cancelled" \in Outcome
  BY DEF Outcome
<1> QED
  BY <1>1, WaitingIs DEF Cancelled

(* A run whose jobs are skipped only takes the waiting one away. *)
LEMMA SkippedMeans ==
  ASSUME TypeInv, NEW s \in Stages, SkippedRun(s)
  PROVE  /\ done' = done \cup Waiting(s, "displaced")
         /\ \A d \in Waiting(s, "displaced") :
              /\ d.stage = s /\ d.run = pending[s].run /\ d.attempt = pending[s].attempt
              /\ d.cause = pending[s].cause /\ d.outcome = "displaced"
         /\ \E d \in Waiting(s, "displaced") : d.run = pending[s].run
         /\ pending' \in [Stages -> Trigger] /\ done' \subseteq Ended /\ IsFiniteSet(done')
         /\ pending[s] # NoTrigger /\ pending'[s] = NoTrigger
         /\ \A t \in Stages : t # s => pending'[t] = pending[t]
         /\ UNCHANGED <<artifacts, expired, release, job, receipts, made, lived, reruns, kills, edits>>
<1>1. /\ pending' = [pending EXCEPT ![s] = NoTrigger] /\ pending[s] # NoTrigger
      /\ done' = done \cup Waiting(s, "displaced")
      /\ UNCHANGED <<artifacts, expired, release, job, receipts, made, lived, reruns, kills, edits>>
  BY Zenon DEF SkippedRun, history, budget
<1>2. "displaced" \in Outcome
  BY DEF Outcome
<1>3. pending \in [Stages -> Trigger] /\ done \subseteq Ended /\ IsFiniteSet(done)
  BY StateTyped
<1>4. done' \subseteq Ended /\ IsFiniteSet(done')
  BY <1>1, <1>2, <1>3, WaitingIs, FS_Union
<1> QED
  BY <1>1, <1>2, <1>3, <1>4, WaitingIs, EmptyRecords

LEMMA RunsFinite ==
  ASSUME TypeInv, NEW s \in Stages
  PROVE  IsFiniteSet(RunsOf(s) \cup {0}) /\ RunsOf(s) \subseteq Nat
<1>1. IsFiniteSet({x \in done : x.stage = s})
  BY StateTyped, FS_Subset
<1>2. IsFiniteSet({d.run : d \in {x \in done : x.stage = s}})
  <2> DEFINE S == {x \in done : x.stage = s}
             T == {d.run : d \in S}
             f == [d \in S |-> d.run]
  <2>1. f \in Surjection(S, T)
    BY DEF Surjection
  <2> HIDE DEF f, T, S
  <2>2. IsFiniteSet(T)
    BY <1>1, <2>1, FS_Surjection DEF S
  <2> QED
    BY <2>2 DEF T, S
<1>3. RunsOf(s) \cup {0} = {d.run : d \in {x \in done : x.stage = s}} \cup {job[s].run, pending[s].run, 0}
  BY DEF RunsOf
<1>4. IsFiniteSet({job[s].run, pending[s].run, 0})
  <2>1. {job[s].run, pending[s].run, 0} = ({job[s].run} \cup {pending[s].run}) \cup {0}
    OBVIOUS
  <2>2. IsFiniteSet({job[s].run} \cup {pending[s].run})
    BY FS_Singleton, FS_Union
  <2>3. IsFiniteSet({0})
    BY FS_Singleton, Zenon
  <2>4. IsFiniteSet(({job[s].run} \cup {pending[s].run}) \cup {0})
    BY <2>2, <2>3, FS_Union
  <2> QED
    BY <2>1, <2>4, Zenon
<1>5. IsFiniteSet(RunsOf(s) \cup {0})
  BY <1>2, <1>3, <1>4, FS_Union
<1>6. RunsOf(s) \subseteq Nat
  BY StateTyped, JobTyped, JobFields, TriggerFields DEF RunsOf, Ended
<1> QED
  BY <1>5, <1>6

LEMMA FirstTyped ==
  ASSUME TypeInv, NEW s \in Stages, NEW cause \in Run
  PROVE  /\ FirstAttempt(s, cause) \in Trigger
         /\ FirstAttempt(s, cause).run = Cardinality(RunsOf(s) \cup {0})
         /\ FirstAttempt(s, cause).attempt = 1 /\ FirstAttempt(s, cause).cause = cause
         /\ FirstAttempt(s, cause).from = "start"
<1>1. Cardinality(RunsOf(s) \cup {0}) \in Nat
  BY RunsFinite, FS_CardinalityType
<1> QED
  BY <1>1 DEF FirstAttempt, Trigger

(* A step of one attempt that goes on, and the end of one. *)
LEMMA GoesTyped ==
  ASSUME TypeInv, NEW s \in Stages, NEW pc \in StepsOf(s), NEW sel \in SelectionType,
         NEW rel \in Release, NEW bytes \in Archive, NEW exec \in Execution,
         NEW chain \in Chain, NEW signing \in BOOLEAN,
         Goes(s, pc, sel, rel, bytes, exec, chain, signing)
  PROVE  /\ job' \in [Stages -> Job] /\ \A t \in Stages : job'[t].pc \in StepsOf(t)
         /\ job'[s] = With(job[s], pc, sel, rel, bytes, exec, chain, signing)
         /\ \A t \in Stages : t # s => job'[t] = job[t]
<1> DEFINE j == With(job[s], pc, sel, rel, bytes, exec, chain, signing)
<1>1. j \in Job
  BY JobTyped, StepsTyped, WithIsJob
<1>2. j.pc = pc
  BY DEF With
<1> HIDE DEF j
<1>3. job' = [job EXCEPT ![s] = j]
  BY DEF Goes, j
<1>4. job'[s] = j /\ \A t \in Stages : t # s => job'[t] = job[t]
  BY <1>3, JobTyped, OneAttempt
<1>5. job' \in [Stages -> Job]
  BY <1>1, <1>3, JobTyped
<1>6. \A t \in Stages : job'[t].pc \in StepsOf(t)
  BY <1>2, <1>4, StateTyped
<1> QED
  BY <1>4, <1>5, <1>6 DEF j

LEMMA IdleTyped ==
  ASSUME TypeInv, NEW s \in Stages, job' = [job EXCEPT ![s] = Idle]
  PROVE  /\ job' \in [Stages -> Job] /\ \A t \in Stages : job'[t].pc \in StepsOf(t)
         /\ job'[s] = Idle /\ Idle.pc = "idle" /\ Idle.run = 0
         /\ \A t \in Stages : t # s => job'[t] = job[t]
<1>1. job'[s] = Idle /\ \A t \in Stages : t # s => job'[t] = job[t]
  BY JobTyped, OneAttempt
<1>2. job' \in [Stages -> Job]
  BY JobTyped, EmptyRecords
<1>3. Idle.pc = "idle" /\ Idle.run = 0
  BY DEF Idle
<1>4. \A t \in Stages : "idle" \in StepsOf(t)
  BY DEF StepsOf
<1> QED
  BY <1>1, <1>2, <1>3, <1>4, StateTyped

LEMMA EndKeepsTypes ==
  ASSUME TypeInv, NEW s \in Stages, NEW outcome \in Outcome, End(s, outcome),
         UNCHANGED <<artifacts, expired, pending, receipts, made, lived, reruns, edits>>,
         kills' \in 0 .. MaxKills, release' \in Release
  PROVE  TypeInv'
<1>1. done' \subseteq Ended /\ IsFiniteSet(done')
  BY EndTyped, StateTyped, FS_AddElement DEF End
<1>2. job' \in [Stages -> Job] /\ \A t \in Stages : job'[t].pc \in StepsOf(t)
  BY IdleTyped DEF End
<1> QED
  BY <1>1, <1>2, StateTyped, Zenon DEF TypeInv, TypeOK

LEMMA RefuseKeepsTypes ==
  ASSUME TypeInv, NEW s \in Stages, Refuse(s),
         UNCHANGED <<artifacts, expired, pending, receipts, made, lived, reruns, kills, edits>>
  PROVE  TypeInv'
<1>1. "refused" \in Outcome
  BY DEF Outcome
<1>2. kills' \in 0 .. MaxKills /\ release' \in Release
  BY StateTyped DEF Refuse
<1> QED
  BY <1>1, <1>2, EndKeepsTypes, Zenon DEF Refuse

LEMMA GoesKeepsTypes ==
  ASSUME TypeInv, NEW s \in Stages, NEW pc \in StepsOf(s), NEW sel \in SelectionType,
         NEW rel \in Release, NEW bytes \in Archive, NEW exec \in Execution,
         NEW chain \in Chain, NEW signing \in BOOLEAN,
         Goes(s, pc, sel, rel, bytes, exec, chain, signing),
         UNCHANGED <<expired, pending, done, reruns, kills, edits>>,
         artifacts' \subseteq Archive, made' \subseteq Archive, IsFiniteSet(made'),
         lived' \subseteq Archive, release' \in Release, receipts' \subseteq Receipt
  PROVE  TypeInv'
<1>1. job' \in [Stages -> Job] /\ \A t \in Stages : job'[t].pc \in StepsOf(t)
  BY GoesTyped
<1> QED
  BY <1>1, StateTyped, Zenon DEF TypeInv, TypeOK

(* A step that checks something and goes on, changing nothing else. *)
LEMMA MoveKeepsTypes ==
  ASSUME TypeInv, NEW s \in Stages, NEW pc \in StepsOf(s), Move(s, pc),
         UNCHANGED <<expired, pending, done, artifacts, made, reruns, kills, edits>>,
         lived' \subseteq Archive, release' \in Release, receipts' \subseteq Receipt
  PROVE  TypeInv'
<1> DEFINE j == job[s]
<1>1. /\ j.sel \in SelectionType /\ j.rel \in Release /\ j.bytes \in Archive
      /\ j.exec \in Execution /\ j.chain \in Chain /\ j.signing \in BOOLEAN
  BY JobTyped, JobFields
<1>2. Goes(s, pc, j.sel, j.rel, j.bytes, j.exec, j.chain, j.signing)
  BY MoveGoes
<1>3. artifacts' \subseteq Archive /\ made' \subseteq Archive /\ IsFiniteSet(made')
  BY StateTyped
<1> HIDE DEF j
<1> QED
  BY <1>1, <1>2, <1>3, GoesKeepsTypes

LEMMA NextIs ==
  ASSUME [Next]_vars
  PROVE  \/ \E s \in Stages : Start(s) \/ Select(s) \/ FetchRelease(s) \/ PullAsset(s)
                                \/ Upload(s) \/ Complete(s)
         \/ Promote \/ Preflight \/ Publish \/ BuildProduction
         \/ \E fails \in BOOLEAN : Lookup(fails)
         \/ ExtractLive \/ BuildRuntime \/ Observe \/ Seal \/ Audit \/ PostReceipt
         \/ \E e \in Executions : Execute(e)
         \/ \E fault \in EvidenceFaults, success \in BOOLEAN : RunE2E(fault, success)
         \/ \E s \in Stages, midUpload \in BOOLEAN : Kill(s, midUpload)
         \/ \E d \in done, from \in {"start", "sign"} : Rerun(d, from)
         \/ \E s \in Stages : SkippedRun(s)
         \/ \E a \in artifacts : DeleteArtifact(a) \/ ExpireArtifact(a)
         \/ \E rel \in EditedReleases : EditRelease(rel)
         \/ UNCHANGED vars
BY Zenon DEF Next, Work, Publishing, Running, Disturb

(* What the deployment does to the release, and to the log of live assets. *)
LEMMA PublishDoes ==
  ASSUME TypeInv, Publish
  PROVE  LET j == job["deployment"]
             empty == j.rel.asset.state = "none" /\ ~j.rel.extra
             single == j.rel.asset.state # "none" /\ ~j.rel.extra
         IN \/ /\ release.asset.state = "none" /\ release' \in Release
               /\ release'.asset.bytes = j.sel.artifact /\ release'.asset.state = "uploaded"
               /\ release'.exists = release.exists /\ release'.plain = release.plain
               /\ release'.extra = release.extra
               /\ lived' = lived \cup {j.sel.artifact}
               /\ Move("deployment", "fetch") /\ UNCHANGED done
            \/ single /\ Move("deployment", "fetch") /\ UNCHANGED <<release, done, lived>>
            \/ /\ ~single /\ ~(empty /\ release.asset.state = "none")
               /\ Refuse("deployment") /\ UNCHANGED lived
<1> DEFINE j == job["deployment"]
           empty == j.rel.asset.state = "none" /\ ~j.rel.extra
           single == j.rel.asset.state # "none" /\ ~j.rel.extra
<1>1. release \in Release /\ j.sel.artifact \in Archive
  BY StateTyped, JobTyped, JobFields DEF Stages, SelectionType
<1>2. ASSUME NEW listed \in BOOLEAN,
             release' = [release EXCEPT !.asset =
                           [bytes |-> j.sel.artifact, state |-> "uploaded", listed |-> listed]]
      PROVE  /\ release' \in Release
             /\ release'.asset.bytes = j.sel.artifact /\ release'.asset.state = "uploaded"
             /\ release'.exists = release.exists /\ release'.plain = release.plain
             /\ release'.extra = release.extra
  <2> DEFINE asset == [bytes |-> j.sel.artifact, state |-> "uploaded", listed |-> listed]
  <2>1. asset \in Asset /\ asset.bytes = j.sel.artifact /\ asset.state = "uploaded"
    BY <1>1 DEF Asset
  <2> HIDE DEF j
  <2>2. release' = [release EXCEPT !.asset = asset]
    BY <1>2, Zenon
  <2> HIDE DEF asset
  <2> QED
    BY <1>1, <2>1, <2>2 DEF Release
<1> QED
  BY <1>2, Zenon DEF Publish

(* An archive of another origin. *)
LEMMA ForeignIs ==
  ASSUME TypeInv, NEW c \in Claims, NEW f \in AssetFaults
  PROVE  /\ Foreign(edits + 1, c, f) \in Archive
         /\ Foreign(edits + 1, c, f).id.stage = "foreign"
         /\ Foreign(edits + 1, c, f).fault \in SourceFault
<1> DEFINE id == [stage |-> "foreign", run |-> edits + 1, attempt |-> 0]
           a == [id |-> id, says |-> c, subject |-> NoId, cause |-> NoRun, fault |-> f,
                 exec |-> "unrun"]
<1>1. Foreign(edits + 1, c, f) = a
  BY DEF Foreign
<1>2. edits + 1 \in Nat
  BY StateTyped
<1>3. id \in Id /\ id.stage = "foreign"
  BY <1>2 DEF Id
<1>4. c \in Id /\ f \in SourceFault /\ f \in Fault
  BY BoundsAssumption DEF Fault
<1>5. "unrun" \in Execution
  BY DEF Execution
<1> HIDE DEF id
<1>6. a \in Archive /\ a.id = id /\ a.fault = f
  BY <1>3, <1>4, <1>5, EmptyRecords DEF Archive
<1> HIDE DEF a
<1> QED
  BY <1>1, <1>3, <1>4, <1>6

(* What an edit of the release leads to. *)
LEMMA EditDoes ==
  ASSUME TypeInv, NEW rel \in EditedReleases, release.exists
  PROVE  /\ rel \in Release /\ rel.exists
         /\ \/ rel.asset.state = "none"
            \/ rel.asset = release.asset
            \/ /\ rel.asset.state = "uploaded" /\ rel.asset.bytes.id.stage = "foreign"
               /\ rel.asset.bytes.fault \in SourceFault
            \/ rel.asset.state = "uploaded" /\ rel.asset.bytes \in made
               /\ rel.asset.bytes.id.stage = "promotion"
<1>0. release \in Release
  BY StateTyped
<1>1. CASE rel = [release EXCEPT !.asset = NoAsset]
  BY <1>0, <1>1, EmptyRecords DEF Release, NoAsset
<1>2. CASE rel = [release EXCEPT !.extra = TRUE] \/ rel = [release EXCEPT !.plain = FALSE]
  BY <1>0, <1>2 DEF Release
<1>3. ASSUME NEW b \in EditedBytes, NEW l \in BOOLEAN,
             rel = [release EXCEPT !.asset = [bytes |-> b, state |-> "uploaded", listed |-> l]]
      PROVE  /\ rel \in Release /\ rel.exists
             /\ rel.asset.state = "uploaded" /\ rel.asset.bytes = b
  <2>1. b \in Archive
    BY ForeignIs, StateTyped DEF EditedBytes
  <2> DEFINE asset == [bytes |-> b, state |-> "uploaded", listed |-> l]
  <2>2. asset \in Asset /\ asset.bytes = b /\ asset.state = "uploaded"
    BY <2>1 DEF Asset
  <2>3. rel = [release EXCEPT !.asset = asset]
    BY <1>3
  <2> HIDE DEF asset
  <2> QED
    BY <1>0, <2>2, <2>3 DEF Release
<1>4. ASSUME NEW b \in EditedBytes
      PROVE  \/ b.id.stage = "foreign" /\ b.fault \in SourceFault
             \/ b \in made /\ b.id.stage = "promotion"
  BY <1>4, ForeignIs DEF EditedBytes
<1>5. CASE \E b \in EditedBytes, l \in BOOLEAN :
             rel = [release EXCEPT !.asset = [bytes |-> b, state |-> "uploaded", listed |-> l]]
  <2>1. PICK b \in EditedBytes, l \in BOOLEAN :
               rel = [release EXCEPT !.asset = [bytes |-> b, state |-> "uploaded", listed |-> l]]
    BY <1>5
  <2>2. rel \in Release /\ rel.exists /\ rel.asset.state = "uploaded" /\ rel.asset.bytes = b
    BY <1>3, <2>1
  <2> QED
    BY <1>4, <2>2
<1> QED
  BY <1>1, <1>2, <1>5 DEF EditedReleases

LEMMA KillDoes ==
  ASSUME TypeInv, NEW s \in Stages, NEW midUpload \in BOOLEAN, Kill(s, midUpload)
  PROVE  /\ End(s, "killed")
         /\ \/ release' = release
            \/ /\ s = "deployment" /\ job["deployment"].pc = "publish"
               /\ release.asset.state = "none" /\ release' \in Release
               /\ release'.asset.state = "starter"
               /\ release'.asset.bytes = job["deployment"].sel.artifact
               /\ release'.exists = release.exists /\ release'.plain = release.plain
               /\ release'.extra = release.extra
<1>1. End(s, "killed")
  BY Zenon DEF Kill
<1>2. CASE ~midUpload
  BY <1>1, <1>2, Zenon DEF Kill
<1>3. CASE midUpload
  <2> DEFINE bytes == job[s].sel.artifact
             asset == [bytes |-> bytes, state |-> "starter", listed |-> release.asset.listed]
  <2>1. release \in Release /\ release.asset \in Asset /\ bytes \in Archive
    BY StateTyped, JobTyped, JobFields DEF Release, SelectionType
  <2>2. release' = [release EXCEPT !.asset.bytes = bytes, !.asset.state = "starter"]
    BY <1>3, Zenon DEF Kill
  <2> HIDE DEF bytes
  <2>3. asset \in Asset /\ asset.bytes = bytes /\ asset.state = "starter"
    BY <2>1 DEF Asset
  <2>4. release' = [release EXCEPT !.asset = asset]
    <3>1. [release.asset EXCEPT !.bytes = bytes] =
             [bytes |-> bytes, state |-> release.asset.state, listed |-> release.asset.listed]
      BY <2>1 DEF Asset
    <3>2. [[bytes |-> bytes, state |-> release.asset.state, listed |-> release.asset.listed]
             EXCEPT !.state = "starter"] = asset
      OBVIOUS
    <3>3. release' = [release EXCEPT !.asset =
                        [[release.asset EXCEPT !.bytes = bytes] EXCEPT !.state = "starter"]]
      BY <2>1, <2>2 DEF Release
    <3> QED
      BY <3>1, <3>2, <3>3, Zenon
  <2> HIDE DEF asset
  <2>5. /\ release' \in Release /\ release'.asset = asset
        /\ release'.exists = release.exists /\ release'.plain = release.plain
        /\ release'.extra = release.extra
    BY <2>1, <2>3, <2>4 DEF Release
  <2>6. s = "deployment" /\ job["deployment"].pc = "publish" /\ release.asset.state = "none"
    BY <1>3, Zenon DEF Kill, At
  <2> QED
    BY <1>1, <2>3, <2>5, <2>6 DEF bytes
<1> QED
  BY <1>2, <1>3

LEMMA StageNames == "promotion" \in Stages /\ "deployment" \in Stages /\ "runtime" \in Stages
BY DEF Stages

LEMMA UnionTyped ==
  ASSUME NEW T, NEW S, S \subseteq T, NEW x \in T
  PROVE  S \cup {x} \subseteq T
OBVIOUS

LEMMA StartTyped ==
  ASSUME TypeInv, NEW s \in Stages, Start(s)
  PROVE  /\ job' \in [Stages -> Job] /\ pending' \in [Stages -> Trigger]
         /\ job'[s] = Fresh(IF s = "runtime" /\ pending[s].from = "start" THEN "fetch" ELSE "select",
                            pending[s].run, pending[s].attempt, pending[s].cause,
                            pending[s].from = "sign")
         /\ \A t \in Stages : t # s => job'[t] = job[t]
         /\ \A t \in Stages : job'[t].pc \in StepsOf(t)
<1> DEFINE pc == IF s = "runtime" /\ pending[s].from = "start" THEN "fetch" ELSE "select"
           signing == pending[s].from = "sign"
           j == Fresh(pc, pending[s].run, pending[s].attempt, pending[s].cause, signing)
<1>1. pc \in StepsOf(s) /\ signing \in BOOLEAN
  BY DEF StepsOf, Stages
<1>2. pc \in Steps
  BY <1>1, StepsTyped
<1>3. /\ pending[s].run \in Nat /\ pending[s].attempt \in Nat /\ pending[s].cause \in Run
      /\ "unrun" \in Execution
  BY JobTyped, TriggerFields DEF Execution
<1>4. job' = [job EXCEPT ![s] = j]
  BY StartDoes
<1>5. pending' = [pending EXCEPT ![s] = NoTrigger]
  BY DEF Start
<1> HIDE DEF pc, signing
<1>6. j \in Job /\ j.pc = pc
  BY <1>1, <1>2, <1>3, EmptyRecords DEF Fresh, Job
<1> HIDE DEF j
<1>7. job'[s] = j /\ \A t \in Stages : t # s => job'[t] = job[t]
  BY <1>4, JobTyped, OneAttempt
<1>8. job' \in [Stages -> Job]
  BY <1>4, <1>6, JobTyped
<1>9. pending' \in [Stages -> Trigger]
  BY <1>5, StateTyped, EmptyRecords
<1>10. \A t \in Stages : job'[t].pc \in StepsOf(t)
  BY <1>1, <1>6, <1>7, StateTyped
<1> QED
  BY <1>7, <1>8, <1>9, <1>10, Zenon DEF j, pc, signing

(* The steps any stage takes. *)
LEMMA WorkKeepsTypes ==
  ASSUME TypeInv, NEW s \in Stages,
         Start(s) \/ Select(s) \/ FetchRelease(s) \/ PullAsset(s) \/ Upload(s) \/ Complete(s)
  PROVE  TypeInv'
<1> DEFINE j == job[s]
<1>0. /\ j.sel \in SelectionType /\ j.rel \in Release /\ j.bytes \in Archive
      /\ j.exec \in Execution /\ j.chain \in Chain /\ j.signing \in BOOLEAN
      /\ j.pc \in StepsOf(s) /\ j.run \in Nat /\ j.attempt \in Nat /\ j.cause \in Run
  BY JobTyped, JobFields, StateTyped
<1>1. CASE Start(s)
  <2>1. /\ job' \in [Stages -> Job] /\ pending' \in [Stages -> Trigger]
        /\ \A t \in Stages : job'[t].pc \in StepsOf(t)
    BY <1>1, StartTyped
  <2>2. UNCHANGED <<artifacts, expired, release, done, receipts, made, lived, reruns, kills, edits>>
    BY <1>1 DEF Start, history, budget
  <2> QED
    BY <2>1, <2>2, StateTyped, Zenon DEF TypeInv, TypeOK
<1>2. CASE Select(s)
  <2>1. UNCHANGED <<artifacts, expired, pending, receipts, made, lived, reruns, kills, edits>>
    BY <1>2 DEF Select, history, budget
  <2>2. CASE Refuse(s)
    BY <2>1, <2>2, RefuseKeepsTypes
  <2> DEFINE pc == IF s = "runtime" THEN "observe" ELSE "download"
  <2>3. ASSUME NEW a \in artifacts, UNCHANGED <<release, done>>,
               Goes(s, pc, [artifact |-> a, run |-> Expected(s).run, attempt |-> Expected(s).attempt],
                    j.rel, j.bytes, j.exec, j.chain, j.signing)
        PROVE  TypeInv'
    <3> DEFINE sel == [artifact |-> a, run |-> Expected(s).run, attempt |-> Expected(s).attempt]
    <3>1. Expected(s).run \in Nat /\ Expected(s).attempt \in Nat
      BY <1>0 DEF Expected, Own, Run
    <3>2. sel \in SelectionType
      BY <3>1, StateTyped DEF SelectionType
    <3>3. pc \in StepsOf(s)
      BY DEF StepsOf, Stages
    <3>4. /\ artifacts' \subseteq Archive /\ made' \subseteq Archive /\ IsFiniteSet(made')
          /\ lived' \subseteq Archive /\ release' \in Release /\ receipts' \subseteq Receipt
      BY <2>1, <2>3, StateTyped
    <3> HIDE DEF pc, j, sel
    <3>5. Goes(s, pc, sel, j.rel, j.bytes, j.exec, j.chain, j.signing)
      BY <2>3 DEF sel
    <3> QED
      BY <1>0, <2>1, <2>3, <3>2, <3>3, <3>4, <3>5, GoesKeepsTypes
  <2> QED
    BY <1>2, <2>2, <2>3, SelectDoes, Zenon
<1>3. CASE FetchRelease(s)
  <2>1. UNCHANGED <<artifacts, expired, pending, receipts, made, lived, reruns, kills, edits>>
    BY <1>3 DEF FetchRelease, history, budget
  <2>2. CASE Refuse(s)
    BY <2>1, <2>2, RefuseKeepsTypes
  <2>3. ASSUME UNCHANGED <<release, done>>,
               Goes(s, "pull", j.sel, release, j.bytes, j.exec, j.chain, j.signing)
        PROVE  TypeInv'
    <3>1. "pull" \in StepsOf(s)
      <4>1. s # "promotion"
        BY <1>0, <1>3 DEF FetchRelease, At, StepsOf
      <4> QED
        BY <4>1 DEF StepsOf, Stages
    <3>2. /\ artifacts' \subseteq Archive /\ made' \subseteq Archive /\ IsFiniteSet(made')
          /\ lived' \subseteq Archive /\ release' \in Release /\ receipts' \subseteq Receipt
          /\ release \in Release
      BY <2>1, <2>3, StateTyped
    <3> HIDE DEF j
    <3> QED
      BY <1>0, <2>1, <2>3, <3>1, <3>2, GoesKeepsTypes
  <2> QED
    BY <1>3, <2>2, <2>3, FetchDoes, Zenon
<1>4. CASE PullAsset(s)
  <2>1. UNCHANGED <<artifacts, expired, pending, receipts, made, lived, reruns, kills, edits>>
    BY <1>4 DEF PullAsset, history, budget
  <2>2. CASE Refuse(s)
    BY <2>1, <2>2, RefuseKeepsTypes
  <2> DEFINE pc == IF s = "runtime" THEN "extract" ELSE "build"
             bytes == release.asset.bytes
  <2>3. ASSUME UNCHANGED <<release, done>>,
               Goes(s, pc, j.sel, j.rel, bytes, j.exec, j.chain, j.signing)
        PROVE  TypeInv'
    <3>1. pc \in StepsOf(s)
      <4>1. s # "promotion"
        BY <1>0, <1>4 DEF PullAsset, At, StepsOf
      <4> QED
        BY <4>1 DEF StepsOf, Stages
    <3>2. /\ artifacts' \subseteq Archive /\ made' \subseteq Archive /\ IsFiniteSet(made')
          /\ lived' \subseteq Archive /\ release' \in Release /\ receipts' \subseteq Receipt
      BY <2>1, <2>3, StateTyped
    <3>3. bytes \in Archive
      BY StateTyped DEF Release, Asset
    <3> HIDE DEF pc, j, bytes
    <3> QED
      BY <1>0, <2>1, <2>3, <3>1, <3>2, <3>3, GoesKeepsTypes
  <2> QED
    BY <1>4, <2>2, <2>3, PullDoes, Zenon
<1>5. CASE Upload(s)
  <2> DEFINE pc == IF s = "runtime" THEN "select" ELSE "complete"
             signing == s = "runtime"
  <2>1. Goes(s, pc, j.sel, j.rel, j.bytes, j.exec, j.chain, signing)
    BY <1>5, UploadDoes
  <2>2. pc \in StepsOf(s) /\ signing \in BOOLEAN
    BY DEF StepsOf, Stages
  <2>3. Built(s) \in Archive
    BY BuiltIs
  <2>4. /\ UNCHANGED <<expired, pending, done, reruns, kills, edits>>
        /\ UNCHANGED <<release, receipts, lived>>
        /\ artifacts' = artifacts \cup {Built(s)} /\ made' = made \cup {Built(s)}
    BY <1>5 DEF Upload, budget
  <2>5. /\ artifacts' \subseteq Archive /\ made' \subseteq Archive /\ IsFiniteSet(made')
        /\ lived' \subseteq Archive /\ release' \in Release /\ receipts' \subseteq Receipt
    BY <2>3, <2>4, StateTyped, UnionTyped, FS_AddElement
  <2> HIDE DEF pc, signing, j
  <2> QED
    BY <1>0, <2>1, <2>2, <2>4, <2>5, GoesKeepsTypes
<1>6. CASE Complete(s)
  <2>1. job' \in [Stages -> Job] /\ \A t \in Stages : job'[t].pc \in StepsOf(t)
    BY <1>6, IdleTyped DEF Complete
  <2>2. UNCHANGED <<artifacts, expired, release, receipts, made, lived, reruns, kills, edits>>
    BY <1>6 DEF Complete, history, budget
  <2>3. EndOf(s, "success") \in Ended
    BY EndTyped DEF Outcome
  <2>4. CASE s = "runtime"
    <3>1. done' = done \cup {EndOf(s, "success")} /\ UNCHANGED pending
      BY <1>6, <2>4, Zenon DEF Complete
    <3>2. done' \subseteq Ended /\ IsFiniteSet(done')
      BY <2>3, <3>1, StateTyped, FS_AddElement
    <3> QED
      BY <2>1, <2>2, <3>1, <3>2, StateTyped, Zenon DEF TypeInv, TypeOK
  <2>5. CASE s # "runtime"
    <3> DEFINE next == IF s = "promotion" THEN "deployment" ELSE "runtime"
               cause == [run |-> j.run, attempt |-> j.attempt]
    <3>1. /\ pending' = [pending EXCEPT ![next] = FirstAttempt(next, cause)]
          /\ done' = done \cup {EndOf(s, "success")} \cup Cancelled(next)
      BY <1>6, <2>5, Zenon DEF Complete
    <3>2. next \in Stages
      BY DEF Stages
    <3>3. cause \in Run
      BY <1>0 DEF Run
    <3> HIDE DEF next, cause
    <3>4. pending' \in [Stages -> Trigger]
      BY <3>1, <3>2, <3>3, FirstTyped, StateTyped
    <3>5. done' \subseteq Ended
      BY <2>3, <3>1, <3>2, CancelledIs, StateTyped
    <3>6. IsFiniteSet(done')
      <4>1. IsFiniteSet(done \cup {EndOf(s, "success")})
        BY StateTyped, FS_AddElement
      <4> QED
        BY <3>1, <3>2, <4>1, CancelledIs, FS_Union
    <3> QED
      BY <2>1, <2>2, <3>4, <3>5, <3>6, StateTyped, Zenon DEF TypeInv, TypeOK
  <2> QED
    BY <2>4, <2>5
<1> QED
  BY <1>1, <1>2, <1>3, <1>4, <1>5, <1>6

(* A check that goes on or refuses, and changes nothing else. *)
LEMMA CheckKeepsTypes ==
  ASSUME TypeInv, NEW s \in Stages, NEW pc \in StepsOf(s),
         (Move(s, pc) /\ UNCHANGED <<release, done>>) \/ Refuse(s),
         UNCHANGED <<artifacts, expired, pending, receipts, made, lived, reruns, kills, edits>>
  PROVE  TypeInv'
<1>1. CASE Refuse(s)
  BY <1>1, RefuseKeepsTypes
<1>2. CASE Move(s, pc) /\ UNCHANGED <<release, done>>
  <2>1. lived' \subseteq Archive /\ release' \in Release /\ receipts' \subseteq Receipt
    BY <1>2, StateTyped
  <2> QED
    BY <1>2, <2>1, MoveKeepsTypes
<1> QED
  BY <1>1, <1>2

LEMMA NewRelease ==
  LET new == [NoRelease EXCEPT !.exists = TRUE, !.plain = TRUE] IN
  /\ new \in Release /\ new.exists /\ new.plain /\ new.asset = NoAsset /\ ~new.extra
  /\ new.asset.state = "none"
BY EmptyRecords DEF NoRelease, Release, NoAsset

(* The steps of the promotion and the deployment. *)
LEMMA PublishingKeepsTypes ==
  ASSUME TypeInv,
         Promote \/ Preflight \/ Publish \/ BuildProduction \/ (\E fails \in BOOLEAN : Lookup(fails))
  PROVE  TypeInv'
<1> DEFINE j == job["deployment"]
<1>0. /\ j.sel \in SelectionType /\ j.rel \in Release /\ j.bytes \in Archive
      /\ j.exec \in Execution /\ j.chain \in Chain /\ j.signing \in BOOLEAN
      /\ j.sel.artifact.id \in Id
  BY JobTyped, JobFields, StageNames DEF SelectionType, Archive
<1>1. CASE Promote
  <2>1. (Move("promotion", "upload") /\ UNCHANGED <<release, done>>) \/ Refuse("promotion")
    BY <1>1, Zenon DEF Promote
  <2>2. UNCHANGED <<artifacts, expired, pending, receipts, made, lived, reruns, kills, edits>>
    BY <1>1 DEF Promote, history, budget
  <2>3. "upload" \in StepsOf("promotion")
    BY DEF StepsOf
  <2> QED
    BY <2>1, <2>2, <2>3, StageNames, CheckKeepsTypes
<1>2. CASE Preflight
  <2>1. (Move("deployment", "lookup") /\ UNCHANGED <<release, done>>) \/ Refuse("deployment")
    BY <1>2, Zenon DEF Preflight
  <2>2. UNCHANGED <<artifacts, expired, pending, receipts, made, lived, reruns, kills, edits>>
    BY <1>2 DEF Preflight, history, budget
  <2>3. "lookup" \in StepsOf("deployment")
    BY DEF StepsOf
  <2> QED
    BY <2>1, <2>2, <2>3, StageNames, CheckKeepsTypes
<1>3. CASE Publish
  <2>1. UNCHANGED <<artifacts, expired, pending, receipts, made, reruns, kills, edits>>
    BY <1>3 DEF Publish, budget
  <2>2. CASE Refuse("deployment") /\ UNCHANGED lived
    BY <2>1, <2>2, StageNames, RefuseKeepsTypes
  <2>3. ASSUME Move("deployment", "fetch"), UNCHANGED done, release' \in Release,
               lived' = lived \cup {j.sel.artifact} \/ lived' = lived
        PROVE  TypeInv'
    <3>0. j.sel.artifact \in Archive
      BY <1>0 DEF SelectionType
    <3>1. lived' \subseteq Archive /\ receipts' \subseteq Receipt
      BY <2>1, <2>3, <3>0, StateTyped
    <3>2. "fetch" \in StepsOf("deployment")
      BY DEF StepsOf
    <3> QED
      BY <2>1, <2>3, <3>1, <3>2, StageNames, MoveKeepsTypes
  <2>4. release \in Release
    BY StateTyped
  <2> QED
    BY <1>3, <2>2, <2>3, <2>4, PublishDoes
<1>4. CASE BuildProduction
  <2>1. (Move("deployment", "upload") /\ UNCHANGED <<release, done>>) \/ Refuse("deployment")
    BY <1>4, Zenon DEF BuildProduction
  <2>2. UNCHANGED <<artifacts, expired, pending, receipts, made, lived, reruns, kills, edits>>
    BY <1>4 DEF BuildProduction, history, budget
  <2>3. "upload" \in StepsOf("deployment")
    BY DEF StepsOf
  <2> QED
    BY <2>1, <2>2, <2>3, StageNames, CheckKeepsTypes
<1>5. ASSUME NEW fails \in BOOLEAN, Lookup(fails)
      PROVE  TypeInv'
  <2>1. UNCHANGED <<artifacts, expired, pending, receipts, made, lived, reruns, edits>>
    BY <1>5 DEF Lookup, history
  <2>2. CASE fails
    <3>1. kills < MaxKills /\ kills' = kills + 1
      BY <1>5, <2>2 DEF Lookup
    <3>2. kills' \in 0 .. MaxKills
      BY <3>1, StateTyped, BoundsAssumption
    <3>3. End("deployment", "unavailable") /\ UNCHANGED release
      BY <1>5, <2>2, Zenon DEF Lookup
    <3>4. release' \in Release /\ "unavailable" \in Outcome
      BY <3>3, StateTyped DEF Outcome
    <3> QED
      BY <2>1, <3>2, <3>3, <3>4, StageNames, EndKeepsTypes
  <2>3. CASE ~fails
    <3>1. UNCHANGED kills
      BY <1>5, <2>3 DEF Lookup
    <3>2. /\ UNCHANGED done
          /\ release' = release \/ release' = [NoRelease EXCEPT !.exists = TRUE, !.plain = TRUE]
          /\ Goes("deployment", "publish", j.sel, release', j.bytes, j.exec, j.chain, j.signing)
      BY <1>5, <2>3, LookupDoes, Zenon
    <3>3. release' \in Release
      BY <3>2, NewRelease, StateTyped
    <3>4. "publish" \in StepsOf("deployment")
      BY DEF StepsOf
    <3>5. /\ artifacts' \subseteq Archive /\ made' \subseteq Archive /\ IsFiniteSet(made')
          /\ lived' \subseteq Archive /\ receipts' \subseteq Receipt
      BY <2>1, StateTyped
    <3> HIDE DEF j
    <3> QED
      BY <1>0, <2>1, <3>1, <3>2, <3>3, <3>4, <3>5, StageNames, GoesKeepsTypes
  <2> QED
    BY <2>2, <2>3
<1> QED
  BY <1>1, <1>2, <1>3, <1>4, <1>5

LEMMA ChainTyped ==
  ASSUME NEW sel \in SelectionType, NEW r \in Run, NEW rel \in Release
  PROVE  ChainOf(sel, sel.artifact, r, rel) \in Chain
<1>1. sel.artifact.id \in Id /\ sel.artifact.says \in Id /\ rel.asset \in Asset
  BY DEF SelectionType, Archive, Release
<1> QED
  BY <1>1 DEF ChainOf, Chain

(* The steps of the runtime verification. *)
LEMMA RunningKeepsTypes ==
  ASSUME TypeInv,
         ExtractLive \/ BuildRuntime \/ Observe \/ Seal \/ Audit \/ PostReceipt
           \/ (\E e \in Executions : Execute(e))
  PROVE  TypeInv'
<1> DEFINE j == job["runtime"]
<1>0. /\ j.sel \in SelectionType /\ j.rel \in Release /\ j.bytes \in Archive
      /\ j.exec \in Execution /\ j.chain \in Chain /\ j.signing \in BOOLEAN
      /\ j.run \in Nat /\ j.attempt \in Nat
  BY JobTyped, JobFields, StageNames
<1>00. /\ artifacts \subseteq Archive /\ made \subseteq Archive /\ IsFiniteSet(made)
       /\ lived \subseteq Archive /\ receipts \subseteq Receipt /\ release \in Release
  BY StateTyped
<1>01. {"execute", "build", "upload", "seal", "audit", "receipt", "complete"} \subseteq StepsOf("runtime")
  BY DEF StepsOf
<1>1. CASE ExtractLive
  <2>1. (Move("runtime", "execute") /\ UNCHANGED <<release, done>>) \/ Refuse("runtime")
    BY <1>1, Zenon DEF ExtractLive
  <2>2. UNCHANGED <<artifacts, expired, pending, receipts, made, lived, reruns, kills, edits>>
    BY <1>1 DEF ExtractLive, history, budget
  <2>3. "execute" \in StepsOf("runtime")
    BY <1>01
  <2> QED
    BY <2>1, <2>2, <2>3, StageNames, CheckKeepsTypes
<1>2. CASE BuildRuntime
  <2>1. (Move("runtime", "upload") /\ UNCHANGED <<release, done>>) \/ Refuse("runtime")
    BY <1>2, Zenon DEF BuildRuntime
  <2>2. UNCHANGED <<artifacts, expired, pending, receipts, made, lived, reruns, kills, edits>>
    BY <1>2 DEF BuildRuntime, history, budget
  <2>3. "upload" \in StepsOf("runtime")
    BY <1>01
  <2> QED
    BY <2>1, <2>2, <2>3, StageNames, CheckKeepsTypes
<1>3. CASE Observe
  <2>1. UNCHANGED <<artifacts, expired, pending, receipts, made, lived, reruns, kills, edits>>
    BY <1>3 DEF Observe, history, budget
  <2>2. CASE Refuse("runtime")
    BY <2>1, <2>2, StageNames, RefuseKeepsTypes
  <2>3. ASSUME UNCHANGED <<release, done>>,
               Goes("runtime", "seal", j.sel, release, j.bytes, j.exec, j.chain, j.signing)
        PROVE  TypeInv'
    <3>1. "seal" \in StepsOf("runtime")
      BY <1>01
    <3>2. /\ artifacts' \subseteq Archive /\ made' \subseteq Archive /\ IsFiniteSet(made')
          /\ lived' \subseteq Archive /\ release' \in Release /\ receipts' \subseteq Receipt
      BY <1>00, <2>1, <2>3
    <3> HIDE DEF j
    <3> QED
      BY <1>0, <1>00, <2>1, <2>3, <3>1, <3>2, StageNames, GoesKeepsTypes
  <2> QED
    BY <1>3, <2>2, <2>3, ObserveDoes, Zenon
<1>4. CASE Seal
  <2>1. UNCHANGED <<artifacts, expired, release, pending, done, receipts, made, lived, reruns,
                    kills, edits>>
    BY <1>4 DEF Seal, history, budget
  <2> DEFINE chain == ChainOf(j.sel, j.sel.artifact, Own("runtime"), j.rel)
  <2>2. Goes("runtime", "audit", j.sel, j.rel, j.bytes, j.exec, chain, j.signing)
    BY <1>4, SealDoes
  <2>3. Own("runtime") \in Run
    BY <1>0 DEF Own, Run
  <2>4. chain \in Chain
    BY <1>0, <2>3, ChainTyped
  <2>5. "audit" \in StepsOf("runtime")
    BY <1>01
  <2>6. /\ artifacts' \subseteq Archive /\ made' \subseteq Archive /\ IsFiniteSet(made')
        /\ lived' \subseteq Archive /\ release' \in Release /\ receipts' \subseteq Receipt
    BY <1>00, <2>1
  <2> HIDE DEF chain, j
  <2> QED
    BY <1>0, <2>1, <2>2, <2>4, <2>5, <2>6, StageNames, GoesKeepsTypes
<1>5. CASE Audit
  <2>1. (Move("runtime", "receipt") /\ UNCHANGED <<release, done>>) \/ Refuse("runtime")
    BY <1>5, Zenon DEF Audit
  <2>2. UNCHANGED <<artifacts, expired, pending, receipts, made, lived, reruns, kills, edits>>
    BY <1>5 DEF Audit, history, budget
  <2>3. "receipt" \in StepsOf("runtime")
    BY <1>01
  <2> QED
    BY <2>1, <2>2, <2>3, StageNames, CheckKeepsTypes
<1>6. CASE PostReceipt
  <2> DEFINE receipt == [run |-> j.run, attempt |-> j.attempt, source |-> j.sel.artifact,
                         chain |-> j.chain]
  <2>1. UNCHANGED <<artifacts, expired, release, pending, done, made, lived, reruns, kills, edits>>
    BY <1>6 DEF PostReceipt, history, budget
  <2>2. receipts' = receipts \cup {receipt} /\ Move("runtime", "complete")
    BY <1>6, Zenon DEF PostReceipt
  <2>3. receipt \in Receipt
    BY <1>0 DEF Receipt, SelectionType
  <2>4. "complete" \in StepsOf("runtime")
    BY <1>01
  <2> HIDE DEF receipt
  <2>5. lived' \subseteq Archive /\ release' \in Release /\ receipts' \subseteq Receipt
    BY <1>00, <2>1, <2>2, <2>3
  <2> QED
    BY <2>1, <2>2, <2>4, <2>5, StageNames, MoveKeepsTypes
<1>7. ASSUME NEW e \in Executions, Execute(e)
      PROVE  TypeInv'
  <2>1. UNCHANGED <<artifacts, expired, release, pending, done, receipts, made, lived, reruns,
                    kills, edits>>
    BY <1>7 DEF Execute, history, budget
  <2>2. Goes("runtime", "build", j.sel, j.rel, j.bytes, e, j.chain, j.signing)
    BY <1>7, ExecuteDoes
  <2>3. e \in Execution
    BY BoundsAssumption
  <2>4. "build" \in StepsOf("runtime")
    BY <1>01
  <2>5. /\ artifacts' \subseteq Archive /\ made' \subseteq Archive /\ IsFiniteSet(made')
        /\ lived' \subseteq Archive /\ release' \in Release /\ receipts' \subseteq Receipt
    BY <1>00, <2>1
  <2> HIDE DEF j
  <2> QED
    BY <1>0, <2>1, <2>2, <2>3, <2>4, <2>5, StageNames, GoesKeepsTypes
<1> QED
  BY <1>1, <1>2, <1>3, <1>4, <1>5, <1>6, <1>7

(* What an attempt of the end-to-end run uploads. *)
LEMMA EvidenceIs ==
  ASSUME NEW fault \in EvidenceFaults, NEW n \in Nat
  PROVE  LET r == [run |-> 1, attempt |-> n]
             a == [SourceOf("e2e", r, NoId, NoRun) EXCEPT !.fault = fault]
         IN /\ r \in Run /\ a \in Archive /\ a.fault = fault
            /\ a.id = [stage |-> "e2e", run |-> 1, attempt |-> n] /\ a.says = a.id
<1> DEFINE r == [run |-> 1, attempt |-> n]
           id == [stage |-> "e2e", run |-> 1, attempt |-> n]
           a == [id |-> id, says |-> id, subject |-> NoId, cause |-> NoRun, fault |-> fault,
                 exec |-> "unrun"]
<1>1. r \in Run /\ r.run = 1 /\ r.attempt = n /\ id \in Id
  BY DEF Run, Id
<1>2. fault \in Fault /\ "unrun" \in Execution
  BY BoundsAssumption DEF Fault, Execution
<1>3. SourceOf("e2e", r, NoId, NoRun)
        = [id |-> id, says |-> id, subject |-> NoId, cause |-> NoRun, fault |-> "none",
           exec |-> "unrun"]
  BY <1>1 DEF SourceOf
<1>4. [SourceOf("e2e", r, NoId, NoRun) EXCEPT !.fault = fault] = a
  <2> HIDE DEF r, id
  <2> QED
    BY <1>3
<1>5. a \in Archive /\ a.fault = fault /\ a.id = id /\ a.says = id
  <2> HIDE DEF id
  <2> QED
    BY <1>1, <1>2, EmptyRecords DEF Archive
<1> QED
  BY <1>1, <1>4, <1>5, Zenon

LEMMA RunE2EKeepsTypes ==
  ASSUME TypeInv, NEW fault \in EvidenceFaults, NEW success \in BOOLEAN, RunE2E(fault, success)
  PROVE  TypeInv'
<1> DEFINE n == Cardinality(E2EArchives) + 1
           r == [run |-> 1, attempt |-> n]
           a == [SourceOf("e2e", r, NoId, NoRun) EXCEPT !.fault = fault]
<1>1. n \in Nat
  <2>1. IsFiniteSet(E2EArchives)
    BY StateTyped, FS_Subset DEF E2EArchives
  <2> QED
    BY <2>1, FS_CardinalityType
<1>2. /\ artifacts' = artifacts \cup {a} /\ made' = made \cup {a}
      /\ n > 1 => reruns < MaxReruns
      /\ reruns' = IF n > 1 THEN reruns + 1 ELSE reruns
      /\ IF success THEN Enqueue("promotion", FirstAttempt("promotion", r))
                    ELSE UNCHANGED <<pending, done>>
      /\ UNCHANGED <<expired, release, job, receipts, lived, kills, edits>>
  BY Zenon DEF RunE2E
<1> HIDE DEF n
<1>3. r \in Run /\ a \in Archive
  BY <1>1, EvidenceIs
<1> HIDE DEF r, a
<1>4. artifacts' \subseteq Archive /\ made' \subseteq Archive /\ IsFiniteSet(made')
  BY <1>2, <1>3, StateTyped, UnionTyped, FS_AddElement
<1>5. reruns' \in 0 .. MaxReruns
  BY <1>1, <1>2, StateTyped, BoundsAssumption
<1>6. /\ pending' \in [Stages -> Trigger] /\ done' \subseteq Ended /\ IsFiniteSet(done')
  <2>1. CASE success
    <3>1. /\ pending' = [pending EXCEPT !["promotion"] = FirstAttempt("promotion", r)]
          /\ done' = done \cup Cancelled("promotion")
      BY <1>2, <2>1, Zenon DEF Enqueue
    <3>2. FirstAttempt("promotion", r) \in Trigger
      BY <1>3, StageNames, FirstTyped
    <3>3. pending' \in [Stages -> Trigger]
      BY <3>1, <3>2, StateTyped
    <3>4. done' \subseteq Ended /\ IsFiniteSet(done')
      BY <3>1, StageNames, CancelledIs, StateTyped, FS_Union
    <3> QED
      BY <3>3, <3>4
  <2>2. CASE ~success
    BY <1>2, <2>2, StateTyped
  <2> QED
    BY <2>1, <2>2
<1> QED
  BY <1>2, <1>4, <1>5, <1>6, StateTyped, Zenon DEF TypeInv, TypeOK

LEMMA RerunKeepsTypes ==
  ASSUME TypeInv, NEW d \in done, NEW from \in {"start", "sign"}, Rerun(d, from)
  PROVE  TypeInv'
<1> DEFINE t == [run |-> d.run, attempt |-> d.attempt + 1, cause |-> d.cause, from |-> from]
<1>1. /\ pending' = [pending EXCEPT ![d.stage] = t]
      /\ done' = done \cup Cancelled(d.stage)
      /\ reruns < MaxReruns /\ reruns' = reruns + 1
      /\ UNCHANGED <<artifacts, expired, release, job, receipts, made, lived, kills, edits>>
  BY Zenon DEF Rerun, Enqueue, history
<1>2. d.stage \in Stages /\ d.run \in Nat /\ d.attempt \in Nat /\ d.cause \in Run
  BY StateTyped DEF Ended
<1>3. t \in Trigger
  BY <1>2 DEF Trigger
<1> HIDE DEF t
<1>4. pending' \in [Stages -> Trigger]
  BY <1>1, <1>2, <1>3, StateTyped
<1>5. done' \subseteq Ended /\ IsFiniteSet(done')
  BY <1>1, <1>2, CancelledIs, StateTyped, FS_Union
<1>6. reruns' \in 0 .. MaxReruns
  BY <1>1, StateTyped, BoundsAssumption
<1> QED
  BY <1>1, <1>4, <1>5, <1>6, StateTyped, Zenon DEF TypeInv, TypeOK

LEMMA SkippedKeepsTypes ==
  ASSUME TypeInv, NEW s \in Stages, SkippedRun(s)
  PROVE  TypeInv'
BY SkippedMeans, StateTyped, Zenon DEF TypeInv, TypeOK

(* What a maintainer's edit leaves alone, and what it does. *)
LEMMA EditKeepsTypes ==
  ASSUME TypeInv,
         \/ \E a \in artifacts : DeleteArtifact(a) \/ ExpireArtifact(a)
         \/ \E rel \in EditedReleases : EditRelease(rel)
  PROVE  TypeInv'
<1>1. /\ UNCHANGED <<pending, job, done, receipts, made, reruns, kills>>
      /\ edits < MaxEdits /\ edits' = edits + 1
  BY DEF DeleteArtifact, ExpireArtifact, EditRelease, Edit
<1>2. edits' \in 0 .. MaxEdits
  BY <1>1, StateTyped, BoundsAssumption
<1>3. ASSUME NEW a \in artifacts, DeleteArtifact(a)
      PROVE  TypeInv'
  <2>1. artifacts' \subseteq Archive /\ UNCHANGED <<expired, release, lived>>
    BY <1>3, StateTyped DEF DeleteArtifact
  <2> QED
    BY <1>1, <1>2, <2>1, StateTyped, Zenon DEF TypeInv, TypeOK
<1>4. ASSUME NEW a \in artifacts, ExpireArtifact(a)
      PROVE  TypeInv'
  <2>1. a.id \in Id
    BY StateTyped DEF Archive
  <2>2. expired' \subseteq Id /\ UNCHANGED <<artifacts, release, lived>>
    BY <1>4, <2>1, StateTyped DEF ExpireArtifact
  <2> QED
    BY <1>1, <1>2, <2>2, StateTyped, Zenon DEF TypeInv, TypeOK
<1>5. ASSUME NEW rel \in EditedReleases, EditRelease(rel)
      PROVE  TypeInv'
  <2>1. release.exists /\ release' = rel /\ UNCHANGED <<artifacts, expired>>
        /\ lived' = IF rel.asset.state = "uploaded" THEN lived \cup {rel.asset.bytes} ELSE lived
    BY <1>5, Zenon DEF EditRelease
  <2>2. rel \in Release
    BY <2>1, EditDoes
  <2>3. rel.asset.bytes \in Archive
    BY <2>2 DEF Release, Asset
  <2>4. lived' \subseteq Archive
    BY <2>1, <2>3, StateTyped
  <2> QED
    BY <1>1, <1>2, <2>1, <2>2, <2>4, StateTyped, Zenon DEF TypeInv, TypeOK
<1> QED
  BY <1>3, <1>4, <1>5

LEMMA KillKeepsTypes ==
  ASSUME TypeInv, NEW s \in Stages, NEW midUpload \in BOOLEAN, Kill(s, midUpload)
  PROVE  TypeInv'
<1>1. /\ UNCHANGED <<artifacts, expired, pending, receipts, made, lived, reruns, edits>>
      /\ kills < MaxKills /\ kills' = kills + 1
  BY DEF Kill, history
<1>2. kills' \in 0 .. MaxKills
  BY <1>1, StateTyped, BoundsAssumption
<1>3. End(s, "killed") /\ release' \in Release /\ "killed" \in Outcome
  BY KillDoes, StateTyped DEF Outcome
<1> QED
  BY <1>1, <1>2, <1>3, EndKeepsTypes

LEMMA InitTyped == Init => TypeInv
<1> SUFFICES ASSUME Init PROVE TypeInv
  OBVIOUS
<1>1. job \in [Stages -> Job] /\ pending \in [Stages -> Trigger] /\ release \in Release
  BY EmptyRecords DEF Init
<1>2. \A s \in Stages : job[s].pc \in StepsOf(s)
  BY DEF Init, Idle, StepsOf
<1>3. reruns \in 0 .. MaxReruns /\ kills \in 0 .. MaxKills /\ edits \in 0 .. MaxEdits
  BY BoundsAssumption DEF Init
<1> QED
  BY <1>1, <1>2, <1>3, FS_EmptySet DEF Init, TypeInv, TypeOK

LEMMA TypeInvHolds == Spec => []TypeInv
<1>1. TypeInv /\ [Next]_vars => TypeInv'
  <2> SUFFICES ASSUME TypeInv, [Next]_vars PROVE TypeInv'
    OBVIOUS
  <2>1. CASE UNCHANGED vars
    BY <2>1, Zenon DEF vars, TypeInv, TypeOK
  <2> QED
    BY <2>1, NextIs, WorkKeepsTypes, PublishingKeepsTypes, RunningKeepsTypes, RunE2EKeepsTypes,
       KillKeepsTypes, RerunKeepsTypes, SkippedKeepsTypes, EditKeepsTypes, Zenon
<1> QED
  BY <1>1, InitTyped, PTL DEF Spec

(* The state of the pipeline keeps its type: the release, what is waiting  *)
(* and what runs, the artifacts and the receipts, whatever the bounds.     *)
THEOREM PipelineTypeCorrect == Spec => []TypeOK
<1>1. TypeInv => TypeOK
  BY DEF TypeInv
<1> QED
  BY <1>1, TypeInvHolds, PTL

----------------------------------------------------------------------------
(* What the archives, the release and the receipts say of each other        *)

(* The attempt that goes on, field by field. *)
LEMMA Went ==
  ASSUME TypeInv, NEW s \in Stages, NEW pc \in StepsOf(s), NEW sel \in SelectionType,
         NEW rel \in Release, NEW bytes \in Archive, NEW exec \in Execution,
         NEW chain \in Chain, NEW signing \in BOOLEAN,
         Goes(s, pc, sel, rel, bytes, exec, chain, signing)
  PROVE  /\ job'[s].pc = pc /\ job'[s].sel = sel /\ job'[s].rel = rel /\ job'[s].bytes = bytes
         /\ job'[s].exec = exec /\ job'[s].chain = chain /\ job'[s].signing = signing
         /\ job'[s].run = job[s].run /\ job'[s].attempt = job[s].attempt
         /\ job'[s].cause = job[s].cause
         /\ \A t \in Stages : t # s => job'[t] = job[t]
<1>1. /\ job'[s] = With(job[s], pc, sel, rel, bytes, exec, chain, signing)
      /\ \A t \in Stages : t # s => job'[t] = job[t]
  BY GoesTyped
<1> QED
  BY <1>1 DEF With

LEMMA Moved ==
  ASSUME TypeInv, NEW s \in Stages, NEW pc \in StepsOf(s), Move(s, pc)
  PROVE  /\ job'[s].pc = pc /\ job'[s].sel = job[s].sel /\ job'[s].rel = job[s].rel
         /\ job'[s].bytes = job[s].bytes /\ job'[s].exec = job[s].exec
         /\ job'[s].chain = job[s].chain /\ job'[s].signing = job[s].signing
         /\ job'[s].run = job[s].run /\ job'[s].attempt = job[s].attempt
         /\ job'[s].cause = job[s].cause
         /\ \A t \in Stages : t # s => job'[t] = job[t]
<1> DEFINE j == job[s]
<1>1. /\ j.sel \in SelectionType /\ j.rel \in Release /\ j.bytes \in Archive
      /\ j.exec \in Execution /\ j.chain \in Chain /\ j.signing \in BOOLEAN
  BY JobTyped, JobFields
<1>2. Goes(s, pc, j.sel, j.rel, j.bytes, j.exec, j.chain, j.signing)
  BY MoveGoes
<1>3. /\ job'[s] = With(job[s], pc, j.sel, j.rel, j.bytes, j.exec, j.chain, j.signing)
      /\ \A t \in Stages : t # s => job'[t] = job[t]
  BY <1>1, <1>2, GoesTyped
<1> QED
  BY <1>3 DEF With

(* Attempts that do nothing know what they knew. *)
LEMMA OthersStay ==
  ASSUME SafeInv, NEW s \in Stages, \A t \in Stages : t # s => job'[t] = job[t],
         made \subseteq made', lived \subseteq lived', release.exists => release'.exists
  PROVE  /\ s # "promotion" => PromotionInv'
         /\ s # "deployment" => DeploymentInv'
         /\ s # "runtime" => RuntimeInv'
<1>1. ASSUME s # "promotion" PROVE PromotionInv'
  <2>1. job'["promotion"] = job["promotion"]
    BY <1>1, StageNames
  <2> QED
    BY <2>1 DEF SafeInv, PromotionInv
<1>2. ASSUME s # "deployment" PROVE DeploymentInv'
  <2>1. job'["deployment"] = job["deployment"]
    BY <1>2, StageNames
  <2> QED
    BY <2>1 DEF SafeInv, DeploymentInv
<1>3. ASSUME s # "runtime" PROVE RuntimeInv'
  <2>1. job'["runtime"] = job["runtime"] /\ Own("runtime")' = Own("runtime")
    BY <1>3, StageNames DEF Own
  <2> QED
    BY <2>1 DEF SafeInv, RuntimeInv
<1> QED
  BY <1>1, <1>2, <1>3

(* At these steps an attempt has established nothing. *)
LEMMA NothingKnown ==
  /\ job["promotion"].pc \in {"idle", "select", "complete"} => PromotionInv
  /\ job["deployment"].pc \in {"idle", "select", "complete"} => DeploymentInv
  /\ job["runtime"].pc \in {"idle", "fetch", "pull", "select", "complete"} => RuntimeInv
BY DEF PromotionInv, DeploymentInv, RuntimeInv

LEMMA NothingKnownNext ==
  /\ job'["promotion"].pc \in {"idle", "select", "complete"} => PromotionInv'
  /\ job'["deployment"].pc \in {"idle", "select", "complete"} => DeploymentInv'
  /\ job'["runtime"].pc \in {"idle", "fetch", "pull", "select", "complete"} => RuntimeInv'
BY DEF PromotionInv, DeploymentInv, RuntimeInv

(* Archives, release and receipts stay as they are. *)
LEMMA MadeStays ==
  ASSUME SafeInv, made' = made, artifacts' \subseteq artifacts, lived \subseteq lived'
  PROVE  MadeInv'
<1>1. MadeInv
  BY DEF SafeInv
<1> QED
  BY <1>1 DEF MadeInv, Accepted

LEMMA ReleaseStays ==
  ASSUME SafeInv, made \subseteq made', UNCHANGED <<release, lived>>
  PROVE  ReleaseInv'
BY DEF SafeInv, ReleaseInv

LEMMA ReceiptStays ==
  ASSUME SafeInv, made \subseteq made', lived \subseteq lived', UNCHANGED receipts
  PROVE  ReceiptInv'
BY DEF SafeInv, ReceiptInv, ReceiptIsWhole

(* A step of one attempt that changes nothing but what it knows. *)
LEMMA JobKeepsSafe ==
  ASSUME SafeInv, NEW s \in Stages, \A t \in Stages : t # s => job'[t] = job[t],
         UNCHANGED <<artifacts, release, receipts, made, lived>>,
         s = "promotion" => PromotionInv', s = "deployment" => DeploymentInv',
         s = "runtime" => RuntimeInv'
  PROVE  SafeInv'
<1>1. MadeInv' /\ ReleaseInv' /\ ReceiptInv'
  BY MadeStays, ReleaseStays, ReceiptStays
<1>2. PromotionInv' /\ DeploymentInv' /\ RuntimeInv'
  BY OthersStay
<1> QED
  BY <1>1, <1>2 DEF SafeInv

(* An attempt that ends. *)
LEMMA IdleKeepsSafe ==
  ASSUME TypeInv, SafeInv, NEW s \in Stages, job' = [job EXCEPT ![s] = Idle],
         UNCHANGED <<artifacts, release, receipts, made, lived>>
  PROVE  SafeInv'
<1>1. job'[s].pc = "idle" /\ \A t \in Stages : t # s => job'[t] = job[t]
  BY IdleTyped
<1>2. /\ s = "promotion" => PromotionInv'
      /\ s = "deployment" => DeploymentInv'
      /\ s = "runtime" => RuntimeInv'
  BY <1>1, NothingKnownNext
<1> QED
  BY <1>1, <1>2, JobKeepsSafe

LEMMA RefuseKeepsSafe ==
  ASSUME TypeInv, SafeInv, NEW s \in Stages, Refuse(s),
         UNCHANGED <<artifacts, receipts, made, lived>>
  PROVE  SafeInv'
BY IdleKeepsSafe DEF Refuse, End

(* A check of one attempt: it refuses, or goes on knowing more. *)
LEMMA CheckKeepsSafe ==
  ASSUME TypeInv, SafeInv, NEW s \in Stages, NEW pc \in StepsOf(s),
         (Move(s, pc) /\ UNCHANGED <<release, done>>) \/ Refuse(s),
         UNCHANGED <<artifacts, receipts, made, lived>>,
         Move(s, pc) => /\ s = "promotion" => PromotionInv'
                        /\ s = "deployment" => DeploymentInv'
                        /\ s = "runtime" => RuntimeInv'
  PROVE  SafeInv'
<1>1. CASE Refuse(s)
  BY <1>1, RefuseKeepsSafe
<1>2. CASE Move(s, pc) /\ UNCHANGED <<release, done>>
  BY <1>2, Moved, JobKeepsSafe
<1> QED
  BY <1>1, <1>2

LEMMA SelectKeepsSafe ==
  ASSUME TypeInv, SafeInv, NEW s \in Stages, Select(s)
  PROVE  SafeInv'
<1> DEFINE j == job[s]
           pc == IF s = "runtime" THEN "observe" ELSE "download"
<1>1. UNCHANGED <<artifacts, receipts, made, lived>>
  BY DEF Select, history
<1>2. CASE Refuse(s)
  BY <1>1, <1>2, RefuseKeepsSafe
<1>3. ASSUME NEW a \in artifacts, Listing(s) = {a}, UNCHANGED <<release, done>>,
             Goes(s, pc, [artifact |-> a, run |-> Expected(s).run, attempt |-> Expected(s).attempt],
                  j.rel, j.bytes, j.exec, j.chain, j.signing)
      PROVE  SafeInv'
  <2> DEFINE sel == [artifact |-> a, run |-> Expected(s).run, attempt |-> Expected(s).attempt]
  <2>0. /\ j.rel \in Release /\ j.bytes \in Archive /\ j.exec \in Execution /\ j.chain \in Chain
        /\ j.signing \in BOOLEAN /\ j.run \in Nat /\ j.attempt \in Nat /\ j.cause \in Run
        /\ pc \in StepsOf(s)
    BY JobTyped, JobFields DEF StepsOf, Stages
  <2>1. Expected(s).run \in Nat /\ Expected(s).attempt \in Nat
    BY <2>0 DEF Expected, Own, Run
  <2>2. sel \in SelectionType /\ sel.artifact = a /\ SelectionNames(sel, Expected(s))
    BY <2>1, StateTyped DEF SelectionType, SelectionNames
  <2>3. a \in made /\ a.id.stage = Source(s) /\ a.id.run = Expected(s).run
    <3>1. a \in made
      BY DEF SafeInv, MadeInv
    <3> QED
      BY <1>3, <3>1 DEF Listing
  <2>4. Goes(s, pc, sel, j.rel, j.bytes, j.exec, j.chain, j.signing)
    BY <1>3
  <2> HIDE DEF sel
  <2>5. /\ job'[s].pc = pc /\ job'[s].sel = sel /\ job'[s].run = j.run
        /\ job'[s].attempt = j.attempt /\ job'[s].cause = j.cause
        /\ \A t \in Stages : t # s => job'[t] = job[t]
    <3> HIDE DEF pc, j
    <3>1. Goes(s, pc, sel, j.rel, j.bytes, j.exec, j.chain, j.signing)
      BY <2>4
    <3> QED
      BY <2>0, <2>2, <3>1, Went DEF j
  <2>6. s = "promotion" => PromotionInv'
    BY <1>1, <2>2, <2>3, <2>5 DEF PromotionInv, Expected, Source
  <2>7. s = "deployment" => DeploymentInv'
    BY <1>1, <2>2, <2>3, <2>5 DEF DeploymentInv, Expected, Source
  <2>8. s = "runtime" => RuntimeInv'
    <3> SUFFICES ASSUME s = "runtime" PROVE RuntimeInv'
      OBVIOUS
    <3>1. /\ Own("runtime")' = Own("runtime") /\ Expected(s) = Own("runtime")
          /\ Expected(s).run = j.run
      BY <2>5 DEF Own, Expected
    <3> QED
      BY <1>1, <2>2, <2>3, <2>5, <3>1 DEF RuntimeInv, Source
  <2> QED
    BY <1>1, <1>3, <2>5, <2>6, <2>7, <2>8, JobKeepsSafe
<1> QED
  BY <1>2, <1>3, SelectDoes, Zenon

LEMMA FetchKeepsSafe ==
  ASSUME TypeInv, SafeInv, NEW s \in Stages, FetchRelease(s)
  PROVE  SafeInv'
<1> DEFINE j == job[s]
<1>1. UNCHANGED <<artifacts, receipts, made, lived>>
  BY DEF FetchRelease, history
<1>2. CASE Refuse(s)
  BY <1>1, <1>2, RefuseKeepsSafe
<1>3. ASSUME UNCHANGED <<release, done>>,
             Goes(s, "pull", j.sel, release, j.bytes, j.exec, j.chain, j.signing)
      PROVE  SafeInv'
  <2>0. /\ j.sel \in SelectionType /\ j.bytes \in Archive /\ j.exec \in Execution
        /\ j.chain \in Chain /\ j.signing \in BOOLEAN /\ release \in Release
        /\ j.pc = "fetch" /\ j.pc \in StepsOf(s)
    BY JobTyped, JobFields, StateTyped DEF FetchRelease, At
  <2>1. s # "promotion" /\ "pull" \in StepsOf(s)
    BY <2>0 DEF StepsOf, Stages
  <2>2. /\ job'[s].pc = "pull" /\ job'[s].sel = j.sel /\ job'[s].cause = j.cause
        /\ \A t \in Stages : t # s => job'[t] = job[t]
    <3> HIDE DEF j
    <3>1. Goes(s, "pull", j.sel, release, j.bytes, j.exec, j.chain, j.signing)
      BY <1>3
    <3> QED
      BY <2>0, <2>1, <3>1, Went DEF j
  <2>3. s = "deployment" => DeploymentInv'
    BY <1>1, <2>0, <2>2 DEF SafeInv, DeploymentInv
  <2>4. s = "runtime" => RuntimeInv'
    BY <2>2, NothingKnownNext
  <2> QED
    BY <1>1, <1>3, <2>1, <2>2, <2>3, <2>4, JobKeepsSafe
<1> QED
  BY <1>2, <1>3, FetchDoes, Zenon

LEMMA PullKeepsSafe ==
  ASSUME TypeInv, SafeInv, NEW s \in Stages, PullAsset(s)
  PROVE  SafeInv'
<1> DEFINE j == job[s]
           pc == IF s = "runtime" THEN "extract" ELSE "build"
           bytes == release.asset.bytes
<1>1. UNCHANGED <<artifacts, receipts, made, lived>>
  BY DEF PullAsset, history
<1>2. CASE Refuse(s)
  BY <1>1, <1>2, RefuseKeepsSafe
<1>3. ASSUME release.asset.state = "uploaded", UNCHANGED <<release, done>>,
             Goes(s, pc, j.sel, j.rel, bytes, j.exec, j.chain, j.signing)
      PROVE  SafeInv'
  <2>0. /\ j.sel \in SelectionType /\ j.rel \in Release /\ bytes \in Archive
        /\ j.exec \in Execution /\ j.chain \in Chain /\ j.signing \in BOOLEAN
        /\ j.pc = "pull" /\ j.pc \in StepsOf(s)
    BY JobTyped, JobFields, StateTyped DEF PullAsset, At, Release, Asset
  <2>1. s # "promotion" /\ pc \in StepsOf(s)
    BY <2>0 DEF StepsOf, Stages
  <2>2. /\ job'[s].pc = pc /\ job'[s].sel = j.sel /\ job'[s].bytes = bytes
        /\ job'[s].cause = j.cause /\ \A t \in Stages : t # s => job'[t] = job[t]
    <3> HIDE DEF j, pc, bytes
    <3>1. Goes(s, pc, j.sel, j.rel, bytes, j.exec, j.chain, j.signing)
      BY <1>3
    <3> QED
      BY <2>0, <2>1, <3>1, Went DEF j
  <2>3. bytes \in lived
    BY <1>3 DEF SafeInv, ReleaseInv
  <2>4. s = "deployment" => DeploymentInv'
    BY <1>1, <2>0, <2>2, <2>3 DEF SafeInv, DeploymentInv
  <2>5. s = "runtime" => RuntimeInv'
    BY <1>1, <2>2, <2>3 DEF RuntimeInv
  <2> QED
    BY <1>1, <1>3, <2>1, <2>2, <2>4, <2>5, JobKeepsSafe
<1> QED
  BY <1>2, <1>3, PullDoes, Zenon

(* The archive an attempt uploads is what it has established. *)
LEMMA UploadKeepsSafe ==
  ASSUME TypeInv, SafeInv, NEW s \in Stages, Upload(s)
  PROVE  SafeInv'
<1> DEFINE j == job[s]
           pc == IF s = "runtime" THEN "select" ELSE "complete"
           signing == s = "runtime"
           b == Built(s)
<1>1. /\ artifacts' = artifacts \cup {b} /\ made' = made \cup {b} /\ j.pc = "upload"
      /\ UNCHANGED <<release, receipts, lived>>
  BY DEF Upload, At
<1>2. /\ b.id.stage = s /\ b.says = b.id /\ b.fault = "none" /\ b.cause = j.cause
      /\ s = "promotion" => b.subject = j.sel.artifact.id
      /\ s # "promotion" => b.subject = j.bytes.id
      /\ s = "runtime" => b.exec = j.exec
  <2>1. b.id = [stage |-> s, run |-> j.run, attempt |-> j.attempt]
    BY BuiltIs, Zenon
  <2>2. /\ b.says = b.id /\ b.fault = "none" /\ b.cause = j.cause
        /\ s = "promotion" => b.subject = j.sel.artifact.id
        /\ s # "promotion" => b.subject = j.bytes.id
        /\ s = "runtime" => b.exec = j.exec
    BY BuiltIs, Zenon
  <2> HIDE DEF b
  <2> QED
    BY <2>1, <2>2
<1>3. /\ job'[s].pc = pc /\ \A t \in Stages : t # s => job'[t] = job[t]
  <2>1. /\ j.sel \in SelectionType /\ j.rel \in Release /\ j.bytes \in Archive
        /\ j.exec \in Execution /\ j.chain \in Chain /\ signing \in BOOLEAN /\ pc \in StepsOf(s)
    BY JobTyped, JobFields DEF StepsOf, Stages
  <2>2. Goes(s, pc, j.sel, j.rel, j.bytes, j.exec, j.chain, signing)
    BY UploadDoes
  <2> HIDE DEF pc, signing
  <2> QED
    BY <2>1, <2>2, Went
<1> HIDE DEF b
<1>4. SafeInv /\ MadeInv
  BY DEF SafeInv
<1>5. s = "promotion" => \E e \in made : Accepted(e) /\ e.id = b.subject
  BY <1>1, <1>2, <1>4 DEF SafeInv, PromotionInv, Accepted
<1>6. s = "deployment" =>
        /\ b.subject = [stage |-> "promotion", run |-> b.cause.run, attempt |-> b.cause.attempt]
        /\ \E x \in lived : x.id = b.subject
  BY <1>1, <1>2, <1>4 DEF SafeInv, DeploymentInv
<1>7. s = "runtime" => (\E x \in lived : x.id = b.subject /\ Sound(x)) /\ b.exec = "good"
  BY <1>1, <1>2, <1>4 DEF SafeInv, RuntimeInv
<1>8. MadeInv'
  <2>1. artifacts' \subseteq made'
    BY <1>1, <1>4 DEF MadeInv
  <2>2. s # "e2e"
    BY DEF Stages
  <2>3. b.id.stage = "e2e" => b.fault \in EvidenceFault
    BY <1>2, <2>2
  <2>4. \A a \in made' : a.id.stage = "promotion" => \E e \in made' : Accepted(e)' /\ e.id = a.subject
    BY <1>1, <1>2, <1>4, <1>5 DEF MadeInv, Accepted
  <2> QED
    BY <1>1, <1>2, <1>4, <1>6, <1>7, <2>1, <2>3, <2>4 DEF MadeInv
<1>9. ReleaseInv' /\ ReceiptInv'
  BY <1>1, ReleaseStays, ReceiptStays
<1>10. /\ s = "promotion" => PromotionInv'
       /\ s = "deployment" => DeploymentInv'
       /\ s = "runtime" => RuntimeInv'
  BY <1>3, NothingKnownNext
<1>11. PromotionInv' /\ DeploymentInv' /\ RuntimeInv'
  BY <1>1, <1>3, <1>10, OthersStay
<1> QED
  BY <1>8, <1>9, <1>11 DEF SafeInv

LEMMA WorkKeepsSafe ==
  ASSUME TypeInv, SafeInv, NEW s \in Stages,
         Start(s) \/ Select(s) \/ FetchRelease(s) \/ PullAsset(s) \/ Upload(s) \/ Complete(s)
  PROVE  SafeInv'
<1>1. CASE Start(s)
  <2>1. /\ job'[s].pc \in {"fetch", "select"}
        /\ s # "runtime" => job'[s].pc = "select"
        /\ \A t \in Stages : t # s => job'[t] = job[t]
    <3> DEFINE pc == IF s = "runtime" /\ pending[s].from = "start" THEN "fetch" ELSE "select"
    <3>1. /\ job'[s] = Fresh(pc, pending[s].run, pending[s].attempt, pending[s].cause,
                            pending[s].from = "sign")
          /\ \A t \in Stages : t # s => job'[t] = job[t]
      BY <1>1, StartTyped, Zenon
    <3>2. pc \in {"fetch", "select"} /\ (s # "runtime" => pc = "select")
      OBVIOUS
    <3> HIDE DEF pc
    <3>3. job'[s].pc = pc
      BY <3>1 DEF Fresh
    <3> QED
      BY <3>1, <3>2, <3>3
  <2>2. /\ s = "promotion" => PromotionInv'
        /\ s = "deployment" => DeploymentInv'
        /\ s = "runtime" => RuntimeInv'
    BY <2>1, NothingKnownNext
  <2>3. UNCHANGED <<artifacts, release, receipts, made, lived>>
    BY <1>1 DEF Start, history
  <2> QED
    BY <2>1, <2>2, <2>3, JobKeepsSafe
<1>2. CASE Complete(s)
  <2>1. job' = [job EXCEPT ![s] = Idle] /\ UNCHANGED <<artifacts, release, receipts, made, lived>>
    BY <1>2 DEF Complete, history
  <2> QED
    BY <2>1, IdleKeepsSafe
<1> QED
  BY <1>1, <1>2, SelectKeepsSafe, FetchKeepsSafe, PullKeepsSafe, UploadKeepsSafe

(* Evidence the promotion accepts has nothing wrong with it. *)
LEMMA AcceptedEvidence ==
  ASSUME NEW a, NEW sel, NEW r, a.fault \in EvidenceFault, Promotable(a, sel, r)
  PROVE  a.fault = "none"
BY DEF EvidenceFault, Promotable, EvidenceExtracted, EvidenceAccepted, ManifestInventory

(* An execution that was accepted showed what it should. *)
LEMMA AcceptedExecution ==
  ASSUME NEW rel, NEW bytes, NEW e \in Executions, bytes.fault \in SourceFault,
         RuntimeAccepted(rel, bytes, e)
  PROVE  e = "good" /\ Sound(bytes)
<1>1. e \in Execution \ {"unrun"}
  BY BoundsAssumption
<1>2. e = "good"
  BY <1>1 DEF Execution, RuntimeAccepted, WheelInspected, InstallValidated, BundleBound, CliBound
<1>3. PromotedRelease(bytes)
  BY DEF RuntimeAccepted
<1>4. bytes.says.stage = "promotion"
  <2>1. bytes.says = [stage |-> "promotion", run |-> bytes.says.run, attempt |-> bytes.says.attempt]
    BY <1>3 DEF PromotedRelease, ValidSource, ProvenanceNames
  <2> QED
    BY <2>1
<1>5. bytes.fault = "none"
  BY <1>3 DEF PromotedRelease, ValidSource, LayoutExact, ProvenanceNames, TransitionVerified,
             RolesAgree, CommonAgrees, SourceFault, RoleFaults
<1> QED
  BY <1>2, <1>4, <1>5 DEF Sound

LEMMA PromoteKeepsSafe ==
  ASSUME TypeInv, SafeInv, Promote
  PROVE  SafeInv'
<1> DEFINE j == job["promotion"]
           taken == Available(j.sel.artifact) /\ Promotable(j.sel.artifact, j.sel, j.cause)
<1>1. UNCHANGED <<artifacts, receipts, made, lived>> /\ j.pc = "download"
  BY DEF Promote, history, At
<1>2. CASE taken
  <2>1. Move("promotion", "upload") /\ UNCHANGED <<release, done>>
    BY <1>2, Zenon DEF Promote
  <2>2. /\ j.sel.artifact \in made /\ j.sel.artifact.id.stage = "e2e"
        /\ SelectionNames(j.sel, j.cause)
    BY <1>1 DEF SafeInv, PromotionInv
  <2>3. j.sel.artifact.fault \in EvidenceFault
    BY <2>2 DEF SafeInv, MadeInv
  <2>4. j.sel.artifact.fault = "none"
    BY <1>2, <2>3, AcceptedEvidence
  <2>5. /\ job'["promotion"].sel = j.sel /\ job'["promotion"].cause = j.cause
        /\ \A t \in Stages : t # "promotion" => job'[t] = job[t]
    BY <2>1, StageNames, Moved DEF StepsOf
  <2>6. PromotionInv'
    BY <1>1, <2>2, <2>4, <2>5 DEF PromotionInv
  <2> QED
    BY <1>1, <2>1, <2>5, <2>6, StageNames, JobKeepsSafe
<1>3. CASE ~taken
  <2>1. Refuse("promotion")
    BY <1>3, Zenon DEF Promote
  <2> QED
    BY <1>1, <2>1, StageNames, RefuseKeepsSafe
<1> QED
  BY <1>2, <1>3

LEMMA PreflightKeepsSafe ==
  ASSUME TypeInv, SafeInv, Preflight
  PROVE  SafeInv'
<1> DEFINE j == job["deployment"]
           valid == /\ Available(j.sel.artifact) /\ Extracted(j.sel.artifact, j.sel)
                    /\ ValidSource(j.sel.artifact, "promotion", j.cause)
<1>1. UNCHANGED <<artifacts, receipts, made, lived>> /\ j.pc = "download"
  BY DEF Preflight, history, At
<1>2. CASE valid
  <2>1. Move("deployment", "lookup") /\ UNCHANGED <<release, done>>
    BY <1>2, Zenon DEF Preflight
  <2>2. /\ j.sel.artifact \in made /\ j.sel.artifact.id.stage = "promotion"
        /\ SelectionNames(j.sel, j.cause)
    BY <1>1 DEF SafeInv, DeploymentInv
  <2>3. /\ job'["deployment"].sel = j.sel /\ job'["deployment"].cause = j.cause
        /\ job'["deployment"].pc = "lookup"
        /\ \A t \in Stages : t # "deployment" => job'[t] = job[t]
    BY <2>1, StageNames, Moved DEF StepsOf
  <2>4. DeploymentInv'
    BY <1>1, <1>2, <2>2, <2>3 DEF DeploymentInv
  <2> QED
    BY <1>1, <2>1, <2>3, <2>4, StageNames, JobKeepsSafe
<1>3. CASE ~valid
  <2>1. Refuse("deployment")
    BY <1>3, Zenon DEF Preflight
  <2> QED
    BY <1>1, <2>1, StageNames, RefuseKeepsSafe
<1> QED
  BY <1>2, <1>3

LEMMA LookupKeepsSafe ==
  ASSUME TypeInv, SafeInv, NEW fails \in BOOLEAN, Lookup(fails)
  PROVE  SafeInv'
<1> DEFINE j == job["deployment"]
           new == [NoRelease EXCEPT !.exists = TRUE, !.plain = TRUE]
<1>1. UNCHANGED <<artifacts, receipts, made, lived>> /\ j.pc = "lookup"
  BY DEF Lookup, history, At
<1>2. CASE End("deployment", "unavailable") /\ UNCHANGED release
  BY <1>1, <1>2, StageNames, IdleKeepsSafe DEF End
<1>3. ASSUME release'.exists, release' = release \/ release' = new,
             Goes("deployment", "publish", j.sel, release', j.bytes, j.exec, j.chain, j.signing)
      PROVE  SafeInv'
  <2>1. release' \in Release
    BY <1>3, StateTyped, NewRelease
  <2>2. /\ j.sel \in SelectionType /\ j.bytes \in Archive /\ j.exec \in Execution
        /\ j.chain \in Chain /\ j.signing \in BOOLEAN
    BY StageNames, JobTyped, JobFields
  <2>3. "publish" \in StepsOf("deployment")
    BY DEF StepsOf
  <2>4. /\ job'["deployment"].pc = "publish" /\ job'["deployment"].sel = j.sel
        /\ job'["deployment"].cause = j.cause
        /\ \A t \in Stages : t # "deployment" => job'[t] = job[t]
    <3> HIDE DEF j
    <3>1. Goes("deployment", "publish", j.sel, release', j.bytes, j.exec, j.chain, j.signing)
      BY <1>3
    <3> QED
      BY <2>1, <2>2, <2>3, <3>1, StageNames, Went DEF j
  <2>5. DeploymentInv'
    BY <1>1, <1>3, <2>4 DEF SafeInv, DeploymentInv
  <2>6. PromotionInv' /\ RuntimeInv'
    BY <1>1, <1>3, <2>4, StageNames, OthersStay
  <2>7. ReleaseInv'
    <3>1. CASE release' = release
      BY <1>1, <3>1, ReleaseStays
    <3>2. CASE release' = new
      <4>1. release'.exists /\ release'.asset.state = "none"
        BY <3>2, NewRelease
      <4> QED
        BY <1>1, <4>1 DEF SafeInv, ReleaseInv
    <3> QED
      BY <1>3, <3>1, <3>2
  <2> QED
    BY <1>1, <2>5, <2>6, <2>7, MadeStays, ReceiptStays DEF SafeInv
<1> QED
  BY <1>2, <1>3, LookupDoes, Zenon

(* What is published is the archive the deployment validated. *)
LEMMA PublishKeepsSafe ==
  ASSUME TypeInv, SafeInv, Publish
  PROVE  SafeInv'
<1> DEFINE j == job["deployment"]
<1>1. UNCHANGED <<artifacts, receipts, made>> /\ j.pc = "publish"
  BY DEF Publish, At
<1>2. CASE Refuse("deployment") /\ UNCHANGED lived
  BY <1>1, <1>2, StageNames, RefuseKeepsSafe
<1>3. ASSUME Move("deployment", "fetch")
      PROVE  /\ job'["deployment"].pc = "fetch" /\ job'["deployment"].sel = j.sel
             /\ job'["deployment"].cause = j.cause
             /\ \A t \in Stages : t # "deployment" => job'[t] = job[t]
  BY <1>3, StageNames, Moved DEF StepsOf
<1>4. /\ j.sel.artifact \in made /\ j.sel.artifact.id.stage = "promotion"
      /\ SelectionNames(j.sel, j.cause) /\ ValidSource(j.sel.artifact, "promotion", j.cause)
      /\ release.exists /\ j.sel.artifact.fault \in SourceFault
  BY <1>1, StageNames DEF SafeInv, DeploymentInv, MadeInv, SourceFault
<1>5. CASE Move("deployment", "fetch") /\ UNCHANGED <<release, done, lived>>
  <2>1. DeploymentInv'
    BY <1>1, <1>3, <1>4, <1>5 DEF DeploymentInv
  <2> QED
    BY <1>1, <1>3, <1>5, <2>1, StageNames, JobKeepsSafe
<1>6. ASSUME Move("deployment", "fetch"), release'.asset.bytes = j.sel.artifact,
             release'.exists = release.exists, lived' = lived \cup {j.sel.artifact}
      PROVE  SafeInv'
  <2>1. DeploymentInv'
    BY <1>1, <1>3, <1>4, <1>6 DEF DeploymentInv
  <2>2. PromotionInv' /\ RuntimeInv'
    BY <1>1, <1>3, <1>6, StageNames, OthersStay
  <2>3. ReleaseInv'
    BY <1>1, <1>4, <1>6 DEF SafeInv, ReleaseInv
  <2> QED
    BY <1>1, <1>6, <2>1, <2>2, <2>3, MadeStays, ReceiptStays DEF SafeInv
<1> QED
  BY <1>2, <1>5, <1>6, PublishDoes, Zenon

LEMMA BuildProductionKeepsSafe ==
  ASSUME TypeInv, SafeInv, BuildProduction
  PROVE  SafeInv'
<1> DEFINE j == job["deployment"]
           accepted == ProductionAccepted(j.sel.artifact, j.sel, j.cause, j.rel, j.bytes)
<1>1. UNCHANGED <<artifacts, receipts, made, lived>> /\ j.pc = "build"
  BY DEF BuildProduction, history, At
<1>2. CASE accepted
  <2>1. Move("deployment", "upload") /\ UNCHANGED <<release, done>>
    BY <1>2, Zenon DEF BuildProduction
  <2>2. j.bytes \in lived
    BY <1>1 DEF SafeInv, DeploymentInv
  <2>3. j.bytes.id = [stage |-> "promotion", run |-> j.cause.run, attempt |-> j.cause.attempt]
    <3>1. j.sel.artifact.says = j.sel.artifact.id
      BY <1>1 DEF SafeInv, DeploymentInv, MadeInv
    <3> QED
      BY <1>2, <3>1 DEF ProductionAccepted, ValidSource, ProvenanceNames
  <2>4. /\ job'["deployment"].bytes = j.bytes /\ job'["deployment"].cause = j.cause
        /\ job'["deployment"].pc = "upload"
        /\ \A t \in Stages : t # "deployment" => job'[t] = job[t]
    BY <2>1, StageNames, Moved DEF StepsOf
  <2>5. DeploymentInv'
    BY <1>1, <2>2, <2>3, <2>4 DEF DeploymentInv
  <2> QED
    BY <1>1, <2>1, <2>4, <2>5, StageNames, JobKeepsSafe
<1>3. CASE ~accepted
  <2>1. Refuse("deployment")
    BY <1>3, Zenon DEF BuildProduction
  <2> QED
    BY <1>1, <2>1, StageNames, RefuseKeepsSafe
<1> QED
  BY <1>2, <1>3

(* The attempt of the runtime verification that goes on: what it knew stays, *)
(* and Own names the same attempt.                                           *)
LEMMA RuntimeMoved ==
  ASSUME TypeInv, NEW pc \in StepsOf("runtime"), Move("runtime", pc)
  PROVE  /\ job'["runtime"].pc = pc /\ job'["runtime"].sel = job["runtime"].sel
         /\ job'["runtime"].rel = job["runtime"].rel
         /\ job'["runtime"].bytes = job["runtime"].bytes
         /\ job'["runtime"].exec = job["runtime"].exec
         /\ job'["runtime"].chain = job["runtime"].chain
         /\ job'["runtime"].run = job["runtime"].run
         /\ job'["runtime"].attempt = job["runtime"].attempt
         /\ Own("runtime")' = Own("runtime")
         /\ \A t \in Stages : t # "runtime" => job'[t] = job[t]
BY StageNames, Moved DEF Own

LEMMA ExtractKeepsSafe ==
  ASSUME TypeInv, SafeInv, ExtractLive
  PROVE  SafeInv'
<1> DEFINE j == job["runtime"]
<1>1. UNCHANGED <<artifacts, receipts, made, lived>> /\ j.pc = "extract"
  BY DEF ExtractLive, history, At
<1>2. (Move("runtime", "execute") /\ UNCHANGED <<release, done>>) \/ Refuse("runtime")
  BY Zenon DEF ExtractLive
<1>3. "execute" \in StepsOf("runtime")
  BY DEF StepsOf
<1>4. ASSUME Move("runtime", "execute") PROVE RuntimeInv'
  <2>1. job'["runtime"].pc = "execute" /\ job'["runtime"].bytes = j.bytes
    BY <1>3, <1>4, RuntimeMoved
  <2>2. j.bytes \in lived
    BY <1>1 DEF SafeInv, RuntimeInv
  <2> QED
    BY <1>1, <2>1, <2>2 DEF RuntimeInv
<1> QED
  BY <1>1, <1>2, <1>3, <1>4, StageNames, CheckKeepsSafe

LEMMA BuildRuntimeKeepsSafe ==
  ASSUME TypeInv, SafeInv, BuildRuntime
  PROVE  SafeInv'
<1> DEFINE j == job["runtime"]
           accepted == RuntimeAccepted(j.rel, j.bytes, j.exec)
<1>1. UNCHANGED <<artifacts, receipts, made, lived>> /\ j.pc = "build"
  BY DEF BuildRuntime, history, At
<1>2. CASE accepted
  <2>1. Move("runtime", "upload") /\ UNCHANGED <<release, done>>
    BY <1>2, Zenon DEF BuildRuntime
  <2>2. j.bytes \in lived /\ j.exec \in Executions
    BY <1>1 DEF SafeInv, RuntimeInv
  <2>3. j.exec = "good" /\ Sound(j.bytes)
    BY <1>2, <2>2, AcceptedExecution DEF SafeInv, ReleaseInv
  <2>4. "upload" \in StepsOf("runtime")
    BY DEF StepsOf
  <2>5. /\ job'["runtime"].pc = "upload" /\ job'["runtime"].bytes = j.bytes
        /\ job'["runtime"].exec = j.exec
        /\ \A t \in Stages : t # "runtime" => job'[t] = job[t]
    BY <2>1, <2>4, RuntimeMoved
  <2>6. RuntimeInv'
    BY <1>1, <2>2, <2>3, <2>5 DEF RuntimeInv
  <2> QED
    BY <1>1, <2>1, <2>5, <2>6, StageNames, JobKeepsSafe
<1>3. CASE ~accepted
  <2>1. Refuse("runtime")
    BY <1>3, Zenon DEF BuildRuntime
  <2> QED
    BY <1>1, <2>1, StageNames, RefuseKeepsSafe
<1> QED
  BY <1>2, <1>3

LEMMA ExecuteKeepsSafe ==
  ASSUME TypeInv, SafeInv, NEW e \in Executions, Execute(e)
  PROVE  SafeInv'
<1> DEFINE j == job["runtime"]
<1>1. UNCHANGED <<artifacts, release, receipts, made, lived>> /\ j.pc = "execute"
  BY DEF Execute, history, At
<1>2. /\ j.sel \in SelectionType /\ j.rel \in Release /\ j.bytes \in Archive
      /\ e \in Execution /\ j.chain \in Chain /\ j.signing \in BOOLEAN
      /\ "build" \in StepsOf("runtime")
  BY StageNames, JobTyped, JobFields, BoundsAssumption DEF StepsOf
<1>3. /\ job'["runtime"].pc = "build" /\ job'["runtime"].bytes = j.bytes
      /\ job'["runtime"].exec = e /\ \A t \in Stages : t # "runtime" => job'[t] = job[t]
  <2>1. Goes("runtime", "build", j.sel, j.rel, j.bytes, e, j.chain, j.signing)
    BY ExecuteDoes
  <2> HIDE DEF j
  <2> QED
    BY <1>2, <2>1, StageNames, Went DEF j
<1>4. j.bytes \in lived
  BY <1>1 DEF SafeInv, RuntimeInv
<1>5. RuntimeInv'
  BY <1>1, <1>3, <1>4 DEF RuntimeInv
<1> QED
  BY <1>1, <1>3, <1>5, StageNames, JobKeepsSafe

LEMMA ObserveKeepsSafe ==
  ASSUME TypeInv, SafeInv, Observe
  PROVE  SafeInv'
<1> DEFINE j == job["runtime"]
           a == j.sel.artifact
<1>1. UNCHANGED <<artifacts, receipts, made, lived>> /\ j.pc = "observe"
  BY DEF Observe, history, At
<1>2. CASE Refuse("runtime")
  BY <1>1, <1>2, StageNames, RefuseKeepsSafe
<1>3. ASSUME RuntimeObserved(a, Own("runtime"), release), UNCHANGED <<release, done>>,
             Goes("runtime", "seal", j.sel, release, j.bytes, j.exec, j.chain, j.signing)
      PROVE  SafeInv'
  <2>1. /\ j.sel \in SelectionType /\ release \in Release /\ j.bytes \in Archive
        /\ j.exec \in Execution /\ j.chain \in Chain /\ j.signing \in BOOLEAN
        /\ "seal" \in StepsOf("runtime")
    BY StageNames, StateTyped, JobTyped, JobFields DEF StepsOf
  <2>2. /\ job'["runtime"].pc = "seal" /\ job'["runtime"].sel = j.sel
        /\ job'["runtime"].rel = release /\ job'["runtime"].run = j.run
        /\ job'["runtime"].attempt = j.attempt
        /\ \A t \in Stages : t # "runtime" => job'[t] = job[t]
    <3>1. Goes("runtime", "seal", j.sel, release, j.bytes, j.exec, j.chain, j.signing)
      BY <1>3
    <3> HIDE DEF j
    <3> QED
      BY <2>1, <3>1, StageNames, Went DEF j
  <2>3. Own("runtime")' = Own("runtime")
    BY <2>2 DEF Own
  <2>4. a \in made /\ a.id.stage = "runtime" /\ SelectionNames(j.sel, Own("runtime"))
    BY <1>1 DEF SafeInv, RuntimeInv
  <2>5. /\ a.id = [stage |-> "runtime", run |-> j.run, attempt |-> j.attempt]
        /\ release.asset.listed => release.asset.bytes.id = a.subject
    <3>1. a.says = a.id
      BY <2>4 DEF SafeInv, MadeInv
    <3> QED
      BY <1>3, <3>1 DEF RuntimeObserved, ProvenanceNames, LiveObserved, Own
  <2>6. RuntimeInv'
    BY <1>1, <2>2, <2>3, <2>4, <2>5 DEF RuntimeInv
  <2> QED
    BY <1>1, <1>3, <2>2, <2>6, StageNames, JobKeepsSafe
<1> QED
  BY <1>2, <1>3, ObserveDoes, Zenon

LEMMA SealKeepsSafe ==
  ASSUME TypeInv, SafeInv, Seal
  PROVE  SafeInv'
<1> DEFINE j == job["runtime"]
           chain == ChainOf(j.sel, j.sel.artifact, Own("runtime"), j.rel)
<1>1. UNCHANGED <<artifacts, release, receipts, made, lived>> /\ j.pc = "seal"
  BY DEF Seal, history, At
<1>2. /\ j.sel \in SelectionType /\ j.rel \in Release /\ j.bytes \in Archive
      /\ j.exec \in Execution /\ j.signing \in BOOLEAN /\ j.run \in Nat /\ j.attempt \in Nat
      /\ "audit" \in StepsOf("runtime")
  BY StageNames, JobTyped, JobFields DEF StepsOf
<1>3. chain \in Chain
  BY <1>2, ChainTyped DEF Own, Run
<1>4. Goes("runtime", "audit", j.sel, j.rel, j.bytes, j.exec, chain, j.signing)
  BY SealDoes
<1>5. /\ job'["runtime"].pc = "audit" /\ job'["runtime"].sel = j.sel
      /\ job'["runtime"].rel = j.rel /\ job'["runtime"].chain = chain
      /\ job'["runtime"].run = j.run /\ job'["runtime"].attempt = j.attempt
      /\ \A t \in Stages : t # "runtime" => job'[t] = job[t]
  <2> HIDE DEF j, chain
  <2> QED
    BY <1>2, <1>3, <1>4, StageNames, Went DEF j
<1>6. Own("runtime")' = Own("runtime")
  BY <1>5 DEF Own
<1>7. /\ j.sel.artifact \in made /\ j.sel.artifact.id.stage = "runtime"
      /\ SelectionNames(j.sel, Own("runtime"))
      /\ j.sel.artifact.id = [stage |-> "runtime", run |-> j.run, attempt |-> j.attempt]
      /\ j.rel.asset.listed => j.rel.asset.bytes.id = j.sel.artifact.subject
  BY <1>1 DEF SafeInv, RuntimeInv
<1>8. ChainOf(job'["runtime"].sel, job'["runtime"].sel.artifact, Own("runtime")', job'["runtime"].rel)
        = chain
  BY <1>5, <1>6
<1> HIDE DEF chain
<1>9. RuntimeInv'
  BY <1>1, <1>5, <1>6, <1>7, <1>8 DEF RuntimeInv
<1> QED
  BY <1>1, <1>5, <1>9, StageNames, JobKeepsSafe

LEMMA AuditKeepsSafe ==
  ASSUME TypeInv, SafeInv, Audit
  PROVE  SafeInv'
<1> DEFINE j == job["runtime"]
<1>1. UNCHANGED <<artifacts, receipts, made, lived>> /\ j.pc = "audit"
  BY DEF Audit, history, At
<1>2. (Move("runtime", "receipt") /\ UNCHANGED <<release, done>>) \/ Refuse("runtime")
  BY Zenon DEF Audit
<1>3. "receipt" \in StepsOf("runtime")
  BY DEF StepsOf
<1>4. ASSUME Move("runtime", "receipt") PROVE RuntimeInv'
  <2>1. /\ job'["runtime"].pc = "receipt" /\ job'["runtime"].sel = j.sel
        /\ job'["runtime"].rel = j.rel /\ job'["runtime"].chain = j.chain
        /\ job'["runtime"].run = j.run /\ job'["runtime"].attempt = j.attempt
        /\ Own("runtime")' = Own("runtime")
    BY <1>3, <1>4, RuntimeMoved
  <2>2. /\ j.sel.artifact \in made /\ j.sel.artifact.id.stage = "runtime"
        /\ SelectionNames(j.sel, Own("runtime"))
        /\ j.sel.artifact.id = [stage |-> "runtime", run |-> j.run, attempt |-> j.attempt]
        /\ j.rel.asset.listed => j.rel.asset.bytes.id = j.sel.artifact.subject
        /\ j.chain = ChainOf(j.sel, j.sel.artifact, Own("runtime"), j.rel)
    BY <1>1 DEF SafeInv, RuntimeInv
  <2> QED
    BY <1>1, <2>1, <2>2 DEF RuntimeInv
<1> QED
  BY <1>1, <1>2, <1>3, <1>4, StageNames, CheckKeepsSafe

LEMMA PostReceiptKeepsSafe ==
  ASSUME TypeInv, SafeInv, PostReceipt
  PROVE  SafeInv'
<1> DEFINE j == job["runtime"]
           receipt == [run |-> j.run, attempt |-> j.attempt, source |-> j.sel.artifact,
                       chain |-> j.chain]
<1>1. UNCHANGED <<artifacts, release, made, lived>> /\ j.pc = "receipt"
  BY DEF PostReceipt, history, At
<1>2. receipts' = receipts \cup {receipt} /\ Move("runtime", "complete")
  BY Zenon DEF PostReceipt
<1>3. /\ j.sel.artifact \in made /\ j.sel.artifact.id.stage = "runtime"
      /\ j.sel.artifact.id = [stage |-> "runtime", run |-> j.run, attempt |-> j.attempt]
      /\ j.rel.asset.listed => j.rel.asset.bytes.id = j.sel.artifact.subject
      /\ j.chain = ChainOf(j.sel, j.sel.artifact, Own("runtime"), j.rel)
  BY <1>1 DEF SafeInv, RuntimeInv
<1>4. j.chain.live = j.rel.asset
  BY <1>3 DEF ChainOf
<1>5. /\ \E b \in lived : b.id = j.sel.artifact.subject /\ Sound(b)
      /\ j.sel.artifact.exec = "good"
  BY <1>3 DEF SafeInv, MadeInv
<1>6. "complete" \in StepsOf("runtime")
  BY DEF StepsOf
<1>7. /\ job'["runtime"].pc = "complete"
      /\ \A t \in Stages : t # "runtime" => job'[t] = job[t]
  BY <1>2, <1>6, RuntimeMoved
<1>8. RuntimeInv'
  BY <1>7, NothingKnownNext
<1>9. PromotionInv' /\ DeploymentInv'
  BY <1>1, <1>7, StageNames, OthersStay
<1>10. ReceiptInv'
  <2>1. /\ receipt.run = j.run /\ receipt.attempt = j.attempt
        /\ receipt.source = j.sel.artifact /\ receipt.chain = j.chain
    OBVIOUS
  <2> HIDE DEF receipt, j
  <2>2. ReceiptIsWhole /\ \A r \in receipts : r.source \in made
    BY DEF SafeInv, ReceiptInv
  <2>3. \A r \in receipts' : r \in receipts \/ r = receipt
    BY <1>2
  <2>4. \A r \in receipts' : r.source \in made'
    BY <1>1, <1>3, <2>1, <2>2, <2>3
  <2> DEFINE Whole(r) ==
        /\ r.source.id = [stage |-> "runtime", run |-> r.run, attempt |-> r.attempt]
        /\ \E b \in lived : b.id = r.source.subject /\ Sound(b)
        /\ r.source.exec = "good"
        /\ r.chain.live.listed => r.chain.live.bytes.id = r.source.subject
  <2>5. Whole(receipt)
    BY <1>3, <1>4, <1>5, <2>1
  <2>6. \A r \in receipts : Whole(r)
    BY <2>2 DEF ReceiptIsWhole, Sound
  <2>7. ReceiptIsWhole' <=> \A r \in receipts' : Whole(r)
    BY <1>1 DEF ReceiptIsWhole, Sound
  <2>8. ReceiptIsWhole'
    <3> HIDE DEF Whole
    <3> QED
      BY <2>3, <2>5, <2>6, <2>7
  <2> QED
    BY <2>4, <2>8 DEF ReceiptInv
<1> QED
  BY <1>1, <1>8, <1>9, <1>10, MadeStays, ReleaseStays DEF SafeInv

LEMMA RunE2EKeepsSafe ==
  ASSUME TypeInv, SafeInv, NEW fault \in EvidenceFaults, NEW success \in BOOLEAN,
         RunE2E(fault, success)
  PROVE  SafeInv'
<1> DEFINE n == Cardinality(E2EArchives) + 1
           r == [run |-> 1, attempt |-> n]
           a == [SourceOf("e2e", r, NoId, NoRun) EXCEPT !.fault = fault]
<1>1. n \in Nat
  <2>1. IsFiniteSet(E2EArchives)
    BY StateTyped, FS_Subset DEF E2EArchives
  <2> QED
    BY <2>1, FS_CardinalityType
<1>2. /\ artifacts' = artifacts \cup {a} /\ made' = made \cup {a}
      /\ UNCHANGED <<release, job, receipts, lived>>
  BY Zenon DEF RunE2E
<1>3. a.id.stage = "e2e" /\ a.says = a.id /\ a.fault \in EvidenceFault
  <2> HIDE DEF n
  <2>1. a.id = [stage |-> "e2e", run |-> 1, attempt |-> n] /\ a.says = a.id /\ a.fault = fault
    BY <1>1, EvidenceIs
  <2> HIDE DEF a
  <2> QED
    BY <2>1, BoundsAssumption
<1> HIDE DEF n, r, a
<1>4. MadeInv
  BY DEF SafeInv
<1>5. \A x \in made' : x \in made \/ x = a
  BY <1>2
<1>6. made \subseteq made' /\ \A e \in made : Accepted(e) => Accepted(e)'
  BY <1>2 DEF Accepted
<1>7. MadeInv'
  <2>1. \A x \in made' : x.id.stage = "promotion" => \E e \in made' : Accepted(e)' /\ e.id = x.subject
    BY <1>3, <1>4, <1>5, <1>6 DEF MadeInv
  <2> QED
    BY <1>2, <1>3, <1>4, <1>5, <2>1 DEF MadeInv, Stages
<1>8. PromotionInv' /\ DeploymentInv' /\ RuntimeInv'
  <2>1. Own("runtime")' = Own("runtime")
    BY <1>2 DEF Own
  <2> QED
    BY <1>2, <1>6, <2>1 DEF SafeInv, PromotionInv, DeploymentInv, RuntimeInv
<1> QED
  BY <1>2, <1>6, <1>7, <1>8, ReleaseStays, ReceiptStays DEF SafeInv

LEMMA KillKeepsSafe ==
  ASSUME TypeInv, SafeInv, NEW s \in Stages, NEW midUpload \in BOOLEAN, Kill(s, midUpload)
  PROVE  SafeInv'
<1>1. UNCHANGED <<artifacts, receipts, made, lived>>
  BY DEF Kill, history
<1>2. job' = [job EXCEPT ![s] = Idle]
  BY KillDoes DEF End
<1>3. CASE release' = release
  BY <1>1, <1>2, <1>3, IdleKeepsSafe
<1>4. ASSUME s = "deployment", job["deployment"].pc = "publish",
             release'.asset.state = "starter", release'.exists = release.exists
      PROVE  SafeInv'
  <2>1. /\ job'["deployment"].pc = "idle"
        /\ \A t \in Stages : t # "deployment" => job'[t] = job[t]
    BY <1>2, <1>4, IdleTyped
  <2>2. DeploymentInv'
    BY <2>1, NothingKnownNext
  <2>3. PromotionInv' /\ RuntimeInv'
    BY <1>1, <1>4, <2>1, StageNames, OthersStay
  <2>4. release.exists
    BY <1>4 DEF SafeInv, DeploymentInv
  <2>5. ReleaseInv'
    BY <1>1, <1>4, <2>4 DEF SafeInv, ReleaseInv
  <2> QED
    BY <1>1, <2>2, <2>3, <2>5, MadeStays, ReceiptStays DEF SafeInv
<1> QED
  BY <1>3, <1>4, KillDoes

(* An edit can put any promoted archive, or foreign bytes, live. *)
LEMMA EditKeepsSafe ==
  ASSUME TypeInv, SafeInv,
         \/ \E a \in artifacts : DeleteArtifact(a) \/ ExpireArtifact(a)
         \/ \E rel \in EditedReleases : EditRelease(rel)
  PROVE  SafeInv'
<1>1. UNCHANGED <<job, receipts, made>>
  BY DEF DeleteArtifact, ExpireArtifact, EditRelease, Edit
<1>2. Own("runtime")' = Own("runtime")
  BY <1>1 DEF Own
<1>3. ASSUME UNCHANGED <<release, lived>>, artifacts' \subseteq artifacts
      PROVE  SafeInv'
  <2>1. PromotionInv' /\ DeploymentInv' /\ RuntimeInv'
    BY <1>1, <1>2, <1>3 DEF SafeInv, PromotionInv, DeploymentInv, RuntimeInv
  <2> QED
    BY <1>1, <1>3, <2>1, MadeStays, ReleaseStays, ReceiptStays DEF SafeInv
<1>4. ASSUME NEW a \in artifacts, DeleteArtifact(a) \/ ExpireArtifact(a)
      PROVE  SafeInv'
  <2>1. UNCHANGED <<release, lived>> /\ artifacts' \subseteq artifacts
    BY <1>4 DEF DeleteArtifact, ExpireArtifact
  <2> QED
    BY <1>3, <2>1
<1>5. ASSUME NEW rel \in EditedReleases, EditRelease(rel)
      PROVE  SafeInv'
  <2>1. /\ release.exists /\ release' = rel /\ UNCHANGED artifacts
        /\ lived' = IF rel.asset.state = "uploaded" THEN lived \cup {rel.asset.bytes} ELSE lived
    BY <1>5, Zenon DEF EditRelease
  <2>2. /\ rel.exists
        /\ \/ rel.asset.state = "none"
           \/ rel.asset = release.asset
           \/ /\ rel.asset.state = "uploaded" /\ rel.asset.bytes.id.stage = "foreign"
              /\ rel.asset.bytes.fault \in SourceFault
           \/ rel.asset.state = "uploaded" /\ rel.asset.bytes \in made
              /\ rel.asset.bytes.id.stage = "promotion"
    BY <2>1, EditDoes
  <2>3. ReleaseInv
    BY DEF SafeInv
  <2>4. ReleaseInv'
    <3>1. rel.asset.state = "uploaded" => rel.asset.bytes \in lived'
      BY <2>1
    <3>2. ASSUME rel.asset.state = "uploaded", rel.asset.bytes.id.stage = "promotion"
          PROVE  \E p \in made : p.id = rel.asset.bytes.id
      BY <2>2, <2>3, <3>2 DEF ReleaseInv
    <3>3. \A b \in lived' : b.id.stage = "promotion" => \E p \in made : p.id = b.id
      BY <2>1, <2>3, <3>2 DEF ReleaseInv
    <3>4. ASSUME rel.asset.state = "uploaded"
          PROVE  /\ rel.asset.bytes.id.stage \in {"promotion", "foreign"}
                 /\ rel.asset.bytes.fault \in SourceFault
      BY <2>2, <2>3, <3>4, StageNames DEF ReleaseInv, SafeInv, MadeInv, SourceFault
    <3>5. \A b \in lived' : b.id.stage \in {"promotion", "foreign"} /\ b.fault \in SourceFault
      BY <2>1, <2>3, <3>4 DEF ReleaseInv
    <3> QED
      BY <1>1, <2>1, <2>2, <3>1, <3>3, <3>5 DEF ReleaseInv
  <2>5. lived \subseteq lived'
    BY <2>1
  <2>6. PromotionInv' /\ DeploymentInv' /\ RuntimeInv'
    BY <1>1, <1>2, <2>1, <2>2, <2>5 DEF SafeInv, PromotionInv, DeploymentInv, RuntimeInv
  <2> QED
    BY <1>1, <2>1, <2>4, <2>5, <2>6, MadeStays, ReceiptStays DEF SafeInv
<1> QED
  BY <1>4, <1>5

LEMMA InitSafe == Init => SafeInv
<1> SUFFICES ASSUME Init PROVE SafeInv
  OBVIOUS
<1>1. MadeInv /\ ReceiptInv
  BY DEF Init, MadeInv, ReceiptInv, ReceiptIsWhole
<1>2. ReleaseInv
  BY DEF Init, ReleaseInv, NoRelease, NoAsset
<1>3. \A s \in Stages : job[s].pc = "idle"
  BY DEF Init, Idle
<1> QED
  BY <1>1, <1>2, <1>3, StageNames, NothingKnown DEF SafeInv

LEMMA SafeInvHolds == Spec => [](TypeInv /\ SafeInv)
<1>1. TypeInv /\ SafeInv /\ [Next]_vars => SafeInv'
  <2> SUFFICES ASSUME TypeInv, SafeInv, [Next]_vars PROVE SafeInv'
    OBVIOUS
  <2>1. ASSUME UNCHANGED <<artifacts, release, job, receipts, made, lived>>
        PROVE  SafeInv'
    <3>1. Own("runtime")' = Own("runtime")
      BY <2>1 DEF Own
    <3>2. PromotionInv' /\ DeploymentInv' /\ RuntimeInv'
      BY <2>1, <3>1 DEF SafeInv, PromotionInv, DeploymentInv, RuntimeInv
    <3> QED
      BY <2>1, <3>2, MadeStays, ReleaseStays, ReceiptStays DEF SafeInv
  <2>2. UNCHANGED vars => SafeInv'
    BY <2>1 DEF vars
  <2>3. ASSUME NEW d \in done, NEW from \in {"start", "sign"}, Rerun(d, from)
        PROVE  SafeInv'
    BY <2>1, <2>3 DEF Rerun, history
  <2>4. ASSUME NEW s \in Stages, SkippedRun(s) PROVE SafeInv'
    BY <2>1, <2>4 DEF SkippedRun, history
  <2> QED
    BY <2>2, <2>3, <2>4, NextIs, WorkKeepsSafe, PromoteKeepsSafe, PreflightKeepsSafe, LookupKeepsSafe,
       PublishKeepsSafe, BuildProductionKeepsSafe, ExtractKeepsSafe, BuildRuntimeKeepsSafe,
       ExecuteKeepsSafe, ObserveKeepsSafe, SealKeepsSafe, AuditKeepsSafe, PostReceiptKeepsSafe,
       RunE2EKeepsSafe, KillKeepsSafe, EditKeepsSafe, Zenon
<1> QED
  BY <1>1, InitSafe, TypeInvHolds, PTL DEF Spec

(* A receipt is for what its own run and attempt built, from bytes that    *)
(* were the uploaded asset, had no fault and declared to be a promotion's, *)
(* were executed as required, and (where GitHub lists a digest) were still *)
(* the published ones when it was signed.                                  *)
THEOREM ReceiptWhole == Spec => []ReceiptIsWhole
<1>1. SafeInv => ReceiptIsWhole
  BY DEF SafeInv, ReceiptInv
<1> QED
  BY <1>1, SafeInvHolds, PTL

(* A deployment's report names the promotion attempt that triggered it,    *)
(* and the bytes of that attempt were published.                           *)
THEOREM DeployedTriggers == Spec => []DeployedIsTriggering
<1>1. SafeInv => DeployedIsTriggering
  BY DEF SafeInv, MadeInv, DeployedIsTriggering
<1> QED
  BY <1>1, SafeInvHolds, PTL

(* What the steps of the pipeline do to a release whose asset is uploaded. *)
LEMMA OnlyEditsReplace ==
  ASSUME TypeInv, SafeInv, [Next]_vars, release.asset.state = "uploaded"
  PROVE  release' = release \/ edits' = edits + 1
<1>1. release.exists
  BY DEF SafeInv, ReleaseInv
<1>2. CASE UNCHANGED vars
  BY <1>2 DEF vars
<1>3. ASSUME NEW s \in Stages,
             Start(s) \/ Select(s) \/ FetchRelease(s) \/ PullAsset(s) \/ Upload(s) \/ Complete(s)
      PROVE  release' = release
  BY <1>3, Zenon DEF Start, Select, FetchRelease, PullAsset, Upload, Complete, Refuse
<1>4. ASSUME Promote \/ Preflight \/ BuildProduction
      PROVE  release' = release
  BY <1>4, Zenon DEF Promote, Preflight, BuildProduction, Refuse
<1>5. ASSUME Publish PROVE release' = release
  BY <1>5, PublishDoes DEF Refuse
<1>6. ASSUME NEW fails \in BOOLEAN, Lookup(fails) PROVE release' = release
  BY <1>1, <1>6, LookupDoes, Zenon
<1>7. ASSUME ExtractLive \/ BuildRuntime \/ Observe \/ Seal \/ Audit \/ PostReceipt
      PROVE  release' = release
  BY <1>7, Zenon DEF ExtractLive, BuildRuntime, Observe, Seal, Audit, PostReceipt, Refuse
<1>8. ASSUME NEW e \in Executions, Execute(e) PROVE release' = release
  BY <1>8 DEF Execute
<1>9. ASSUME NEW fault \in EvidenceFaults, NEW success \in BOOLEAN, RunE2E(fault, success)
      PROVE  release' = release
  BY <1>9, Zenon DEF RunE2E
<1>10. ASSUME NEW s \in Stages, NEW midUpload \in BOOLEAN, Kill(s, midUpload)
       PROVE  release' = release
  BY <1>10, KillDoes
<1>11. ASSUME NEW d \in done, NEW from \in {"start", "sign"}, Rerun(d, from)
       PROVE  release' = release
  BY <1>11 DEF Rerun
<1>12. ASSUME \/ \E a \in artifacts : DeleteArtifact(a) \/ ExpireArtifact(a)
              \/ \E rel \in EditedReleases : EditRelease(rel)
       PROVE  edits' = edits + 1
  BY <1>12 DEF DeleteArtifact, ExpireArtifact, EditRelease, Edit
<1>13. ASSUME NEW s \in Stages, SkippedRun(s) PROVE release' = release
  BY <1>13 DEF SkippedRun
<1> QED
  BY <1>2, <1>3, <1>4, <1>5, <1>6, <1>7, <1>8, <1>9, <1>10, <1>11, <1>12, <1>13, NextIs, Zenon

(* An uploaded asset is never replaced or dropped by the pipeline: only a  *)
(* maintainer's edit changes a release that has one.                       *)
THEOREM PublishedFinal == Spec => PublishedIsFinal
<1>1. TypeInv /\ SafeInv /\ [Next]_vars =>
        [release.asset.state = "uploaded" => release' = release \/ edits' = edits + 1]_vars
  BY OnlyEditsReplace
<1> QED
  BY <1>1, SafeInvHolds, PTL DEF Spec, PublishedIsFinal

----------------------------------------------------------------------------
(* Refusals                                                                 *)

(* Attempt s goes from one step to another. *)
Passes(s, from, to) ==
    /\ job[s].pc = from /\ job'[s].pc = to
    /\ job'[s].run = job[s].run /\ job'[s].attempt = job[s].attempt
    /\ job'[s].cause = job[s].cause
    /\ \A t \in Stages : t # s => job'[t] = job[t]
    /\ UNCHANGED <<expired, pending, done, edits>>
Still == UNCHANGED <<artifacts, release, made>>
SeesTheSame(s) == job'[s].rel = job[s].rel /\ job'[s].bytes = job[s].bytes
SignsTheSame(s) == job'[s].signing = job[s].signing

(* The published asset appears, or half of it does, when there was none. *)
AssetAppears(state) ==
    /\ release.asset.state = "none" /\ release'.asset.state = state
    /\ release'.asset.bytes = job["deployment"].sel.artifact
    /\ release'.exists = release.exists /\ release'.plain = release.plain
    /\ release'.extra = release.extra

(* Attempt s ends without success. *)
Fails(s) ==
    /\ \E outcome \in Outcome : End(s, outcome)
    /\ job[s].pc # "idle"
    /\ UNCHANGED <<artifacts, expired, pending, made, edits>>
    /\ \/ release' = release
       \/ s = "deployment" /\ job[s].pc = "publish" /\ AssetAppears("starter")

(* The steps by which an attempt goes on. *)
GoesOn ==
    \/ \E s \in Stages : /\ Passes(s, "select", IF s = "runtime" THEN "observe" ELSE "download")
                         /\ Still /\ SeesTheSame(s) /\ SignsTheSame(s)
    \/ \E s \in {"deployment", "runtime"} :
          /\ Passes(s, "fetch", "pull") /\ Still /\ SignsTheSame(s) /\ job'[s].rel = release
    \/ \E s \in {"deployment", "runtime"} :
          /\ Passes(s, "pull", IF s = "runtime" THEN "extract" ELSE "build")
          /\ Still /\ SignsTheSame(s) /\ release.asset.state = "uploaded"
          /\ job'[s].rel = job[s].rel /\ job'[s].bytes = release.asset.bytes
    \/ \E s \in Stages :
          /\ Passes(s, "upload", IF s = "runtime" THEN "select" ELSE "complete")
          /\ UNCHANGED release /\ job'[s].signing = (s = "runtime")
          /\ artifacts' = artifacts \cup {Built(s)} /\ made' = made \cup {Built(s)}
    \/ Passes("promotion", "download", "upload") /\ Still
    \/ Passes("deployment", "download", "lookup") /\ Still
    \/ /\ Passes("deployment", "lookup", "publish") /\ UNCHANGED <<artifacts, made>>
       /\ job'["deployment"].rel = release'
       /\ \/ release' = release
          \/ ~release.exists /\ release' = [NoRelease EXCEPT !.exists = TRUE, !.plain = TRUE]
    \/ /\ Passes("deployment", "publish", "fetch") /\ UNCHANGED <<artifacts, made>>
       /\ \/ AssetAppears("uploaded")
          \/ job["deployment"].rel.asset.state # "none" /\ UNCHANGED release
    \/ Passes("deployment", "build", "upload") /\ Still
    \/ \E pass \in {<<"extract", "execute">>, <<"execute", "build">>, <<"build", "upload">>,
                    <<"observe", "seal">>, <<"seal", "audit">>, <<"audit", "receipt">>,
                    <<"receipt", "complete">>} :
          /\ Passes("runtime", pass[1], pass[2]) /\ Still /\ SignsTheSame("runtime")
          /\ job["runtime"].pc \in {"extract", "execute", "build"} => SeesTheSame("runtime")

LEMMA WorkIs ==
  ASSUME TypeInv, NEW s \in Stages,
         Select(s) \/ FetchRelease(s) \/ PullAsset(s) \/ Upload(s)
  PROVE  GoesOn \/ Fails(s)
<1> DEFINE j == job[s]
<1>0. /\ j.sel \in SelectionType /\ j.rel \in Release /\ j.bytes \in Archive
      /\ j.exec \in Execution /\ j.chain \in Chain /\ j.signing \in BOOLEAN
      /\ j.pc \in StepsOf(s) /\ j.run \in Nat /\ j.attempt \in Nat /\ j.cause \in Run
  BY JobTyped, JobFields, StateTyped
<1>1. UNCHANGED <<expired, pending, edits>> /\ j.pc # "idle"
  BY DEF Select, FetchRelease, PullAsset, Upload, At, budget
<1>2. ASSUME Refuse(s), UNCHANGED <<artifacts, made>> PROVE Fails(s)
  BY <1>1, <1>2 DEF Refuse, Fails, Outcome
<1>3. CASE Select(s)
  <2> DEFINE pc == IF s = "runtime" THEN "observe" ELSE "download"
  <2>1. UNCHANGED <<artifacts, made>> /\ j.pc = "select"
    BY <1>3 DEF Select, history, At
  <2>2. ASSUME NEW a \in artifacts, UNCHANGED <<release, done>>,
               Goes(s, pc, [artifact |-> a, run |-> Expected(s).run, attempt |-> Expected(s).attempt],
                    j.rel, j.bytes, j.exec, j.chain, j.signing)
        PROVE  GoesOn
    <3> DEFINE sel == [artifact |-> a, run |-> Expected(s).run, attempt |-> Expected(s).attempt]
    <3>1. Expected(s).run \in Nat /\ Expected(s).attempt \in Nat
      BY <1>0 DEF Expected, Own, Run
    <3>2. sel \in SelectionType /\ pc \in StepsOf(s)
      BY <3>1, StateTyped DEF SelectionType, StepsOf, Stages
    <3>3. Goes(s, pc, sel, j.rel, j.bytes, j.exec, j.chain, j.signing)
      BY <2>2
    <3>4. Passes(s, "select", pc) /\ SeesTheSame(s) /\ SignsTheSame(s)
      <4> HIDE DEF pc, j, sel
      <4>1. /\ job'[s].pc = pc /\ job'[s].rel = j.rel /\ job'[s].bytes = j.bytes
            /\ job'[s].signing = j.signing /\ job'[s].run = job[s].run
            /\ job'[s].attempt = job[s].attempt /\ job'[s].cause = job[s].cause
            /\ \A t \in Stages : t # s => job'[t] = job[t]
        BY <1>0, <3>2, <3>3, Went
      <4> QED
        BY <1>1, <2>1, <2>2, <4>1 DEF Passes, SeesTheSame, SignsTheSame, j
    <3>5. Still
      BY <2>1, <2>2 DEF Still
    <3> QED
      BY <3>4, <3>5, Zenon DEF GoesOn
  <2> QED
    BY <1>2, <1>3, <2>1, <2>2, SelectDoes, Zenon
<1>4. CASE FetchRelease(s)
  <2>1. UNCHANGED <<artifacts, made>> /\ j.pc = "fetch"
    BY <1>4 DEF FetchRelease, history, At
  <2>2. ASSUME UNCHANGED <<release, done>>,
               Goes(s, "pull", j.sel, release, j.bytes, j.exec, j.chain, j.signing)
        PROVE  GoesOn
    <3>1. s \in {"deployment", "runtime"} /\ "pull" \in StepsOf(s) /\ release \in Release
      BY <1>0, <2>1, StateTyped DEF StepsOf, Stages
    <3>2. Passes(s, "fetch", "pull") /\ job'[s].rel = release /\ SignsTheSame(s)
      <4> HIDE DEF j
      <4>1. /\ job'[s].pc = "pull" /\ job'[s].rel = release
            /\ job'[s].signing = j.signing /\ job'[s].run = job[s].run
            /\ job'[s].attempt = job[s].attempt /\ job'[s].cause = job[s].cause
            /\ \A t \in Stages : t # s => job'[t] = job[t]
        BY <1>0, <2>2, <3>1, Went
      <4> QED
        BY <1>1, <2>1, <2>2, <4>1 DEF Passes, SignsTheSame, j
    <3>3. Still
      BY <2>1, <2>2 DEF Still
    <3> QED
      BY <3>1, <3>2, <3>3, Zenon DEF GoesOn
  <2> QED
    BY <1>2, <1>4, <2>1, <2>2, FetchDoes, Zenon
<1>5. CASE PullAsset(s)
  <2> DEFINE pc == IF s = "runtime" THEN "extract" ELSE "build"
             bytes == release.asset.bytes
  <2>1. UNCHANGED <<artifacts, made>> /\ j.pc = "pull"
    BY <1>5 DEF PullAsset, history, At
  <2>2. ASSUME UNCHANGED <<release, done>>, release.asset.state = "uploaded",
               Goes(s, pc, j.sel, j.rel, bytes, j.exec, j.chain, j.signing)
        PROVE  GoesOn
    <3>1. /\ s \in {"deployment", "runtime"} /\ pc \in StepsOf(s)
          /\ bytes \in Archive
      BY <1>0, <2>1, StateTyped DEF StepsOf, Stages, Release, Asset
    <3>2. /\ Passes(s, "pull", pc) /\ job'[s].rel = job[s].rel /\ job'[s].bytes = bytes
          /\ SignsTheSame(s)
      <4> HIDE DEF j, pc, bytes
      <4>1. /\ job'[s].pc = pc /\ job'[s].rel = j.rel /\ job'[s].bytes = bytes
            /\ job'[s].signing = j.signing /\ job'[s].run = job[s].run
            /\ job'[s].attempt = job[s].attempt /\ job'[s].cause = job[s].cause
            /\ \A t \in Stages : t # s => job'[t] = job[t]
        BY <1>0, <2>2, <3>1, Went
      <4> QED
        BY <1>1, <2>1, <2>2, <4>1 DEF Passes, SignsTheSame, j
    <3>3. Still
      BY <2>1, <2>2 DEF Still
    <3> QED
      BY <2>2, <3>1, <3>2, <3>3, Zenon DEF GoesOn
  <2> QED
    BY <1>2, <1>5, <2>1, <2>2, PullDoes, Zenon
<1>6. CASE Upload(s)
  <2> DEFINE pc == IF s = "runtime" THEN "select" ELSE "complete"
             signing == s = "runtime"
  <2>1. /\ artifacts' = artifacts \cup {Built(s)} /\ made' = made \cup {Built(s)}
        /\ j.pc = "upload" /\ UNCHANGED <<release, done>>
    BY <1>6 DEF Upload, At
  <2>2. pc \in StepsOf(s) /\ signing \in BOOLEAN
    BY DEF StepsOf, Stages
  <2>3. Goes(s, pc, j.sel, j.rel, j.bytes, j.exec, j.chain, signing)
    BY <1>6, UploadDoes
  <2>4. Passes(s, "upload", pc) /\ job'[s].signing = signing
    <3> HIDE DEF j, pc, signing
    <3>1. /\ job'[s].pc = pc /\ job'[s].signing = signing /\ job'[s].run = job[s].run
          /\ job'[s].attempt = job[s].attempt /\ job'[s].cause = job[s].cause
          /\ \A t \in Stages : t # s => job'[t] = job[t]
      BY <1>0, <2>2, <2>3, Went
    <3> QED
      BY <1>1, <2>1, <3>1 DEF Passes, j
  <2> QED
    BY <2>1, <2>4, Zenon DEF GoesOn
<1> QED
  BY <1>3, <1>4, <1>5, <1>6

(* A check that moves on, or refuses. *)
LEMMA CheckIs ==
  ASSUME TypeInv, NEW s \in Stages, NEW from, NEW to \in StepsOf(s), job[s].pc = from,
         from # "idle", (Move(s, to) /\ UNCHANGED <<release, done>>) \/ Refuse(s),
         UNCHANGED <<artifacts, expired, pending, made, edits>>
  PROVE  \/ Passes(s, from, to) /\ Still /\ SeesTheSame(s) /\ SignsTheSame(s)
         \/ Fails(s)
<1>1. CASE Refuse(s)
  BY <1>1 DEF Refuse, Fails, Outcome
<1>2. CASE Move(s, to) /\ UNCHANGED <<release, done>>
  BY <1>2, Moved DEF Passes, Still, SeesTheSame, SignsTheSame
<1> QED
  BY <1>1, <1>2

LEMMA PublishingIs ==
  ASSUME TypeInv,
         Promote \/ Preflight \/ Publish \/ BuildProduction \/ (\E fails \in BOOLEAN : Lookup(fails))
  PROVE  GoesOn \/ \E s \in Stages : Fails(s)
<1> DEFINE j == job["deployment"]
<1>0. {"upload"} \subseteq StepsOf("promotion") /\ {"lookup", "publish", "fetch", "upload"} \subseteq StepsOf("deployment")
  BY DEF StepsOf
<1>1. CASE Promote
  <2>1. /\ (Move("promotion", "upload") /\ UNCHANGED <<release, done>>) \/ Refuse("promotion")
        /\ job["promotion"].pc = "download"
    BY <1>1, Zenon DEF Promote, At
  <2>2. UNCHANGED <<artifacts, expired, pending, made, edits>>
    BY <1>1 DEF Promote, history, budget
  <2>3. (Passes("promotion", "download", "upload") /\ Still) \/ Fails("promotion")
    BY <1>0, <2>1, <2>2, StageNames, CheckIs
  <2> QED
    BY <2>3, StageNames, Zenon DEF GoesOn
<1>2. CASE Preflight
  <2>1. /\ (Move("deployment", "lookup") /\ UNCHANGED <<release, done>>) \/ Refuse("deployment")
        /\ j.pc = "download"
    BY <1>2, Zenon DEF Preflight, At
  <2>2. UNCHANGED <<artifacts, expired, pending, made, edits>>
    BY <1>2 DEF Preflight, history, budget
  <2>3. (Passes("deployment", "download", "lookup") /\ Still) \/ Fails("deployment")
    BY <1>0, <2>1, <2>2, StageNames, CheckIs
  <2> QED
    BY <2>3, StageNames, Zenon DEF GoesOn
<1>3. CASE BuildProduction
  <2>1. /\ (Move("deployment", "upload") /\ UNCHANGED <<release, done>>) \/ Refuse("deployment")
        /\ j.pc = "build"
    BY <1>3, Zenon DEF BuildProduction, At
  <2>2. UNCHANGED <<artifacts, expired, pending, made, edits>>
    BY <1>3 DEF BuildProduction, history, budget
  <2>3. (Passes("deployment", "build", "upload") /\ Still) \/ Fails("deployment")
    BY <1>0, <2>1, <2>2, StageNames, CheckIs
  <2> QED
    BY <2>3, StageNames, Zenon DEF GoesOn
<1>4. CASE Publish
  <2>1. UNCHANGED <<artifacts, expired, pending, made, edits>> /\ j.pc = "publish"
    BY <1>4 DEF Publish, budget, At
  <2>2. CASE Refuse("deployment")
    <3>1. Fails("deployment")
      BY <2>1, <2>2 DEF Refuse, Fails, Outcome
    <3> QED
      BY <3>1, StageNames
  <2>3. ASSUME Move("deployment", "fetch"), UNCHANGED done,
               \/ AssetAppears("uploaded")
               \/ j.rel.asset.state # "none" /\ UNCHANGED release
        PROVE  GoesOn
    <3>1. Passes("deployment", "publish", "fetch")
      BY <1>0, <2>1, <2>3, StageNames, Moved DEF Passes
    <3> QED
      BY <2>1, <2>3, <3>1, Zenon DEF GoesOn
  <2> QED
    BY <1>4, <2>2, <2>3, PublishDoes, Zenon DEF AssetAppears
<1>5. ASSUME NEW fails \in BOOLEAN, Lookup(fails)
      PROVE  GoesOn \/ Fails("deployment")
  <2>1. UNCHANGED <<artifacts, expired, pending, made, edits>> /\ j.pc = "lookup"
    BY <1>5 DEF Lookup, history, At
  <2>2. CASE End("deployment", "unavailable") /\ UNCHANGED release
    BY <2>1, <2>2 DEF Fails, Outcome
  <2> DEFINE new == [NoRelease EXCEPT !.exists = TRUE, !.plain = TRUE]
  <2>3. ASSUME UNCHANGED done, release' = release \/ (~release.exists /\ release' = new),
               Goes("deployment", "publish", j.sel, release', j.bytes, j.exec, j.chain, j.signing)
        PROVE  GoesOn
    <3>1. release' \in Release
      BY <2>3, StateTyped, NewRelease
    <3>2. /\ j.sel \in SelectionType /\ j.bytes \in Archive /\ j.exec \in Execution
          /\ j.chain \in Chain /\ j.signing \in BOOLEAN /\ "publish" \in StepsOf("deployment")
      BY <1>0, StageNames, JobTyped, JobFields
    <3>3. Passes("deployment", "lookup", "publish") /\ job'["deployment"].rel = release'
      <4> HIDE DEF j
      <4>1. Goes("deployment", "publish", j.sel, release', j.bytes, j.exec, j.chain, j.signing)
        BY <2>3
      <4>2. /\ job'["deployment"].pc = "publish" /\ job'["deployment"].rel = release'
            /\ job'["deployment"].run = job["deployment"].run
            /\ job'["deployment"].attempt = job["deployment"].attempt
            /\ job'["deployment"].cause = job["deployment"].cause
            /\ \A t \in Stages : t # "deployment" => job'[t] = job[t]
        BY <3>1, <3>2, <4>1, StageNames, Went
      <4> QED
        BY <2>1, <2>3, <4>2 DEF Passes, j
    <3> QED
      BY <2>1, <2>3, <3>3, Zenon DEF GoesOn
  <2> QED
    BY <1>5, <2>2, <2>3, LookupDoes, Zenon
<1> QED
  BY <1>1, <1>2, <1>3, <1>4, <1>5, StageNames

LEMMA RunningIs ==
  ASSUME TypeInv,
         ExtractLive \/ BuildRuntime \/ Observe \/ Seal \/ Audit \/ PostReceipt
           \/ (\E e \in Executions : Execute(e))
  PROVE  GoesOn \/ Fails("runtime")
<1> DEFINE j == job["runtime"]
<1>0. /\ j.sel \in SelectionType /\ j.rel \in Release /\ j.bytes \in Archive
      /\ j.exec \in Execution /\ j.chain \in Chain /\ j.signing \in BOOLEAN
      /\ j.run \in Nat /\ j.attempt \in Nat /\ release \in Release
  BY JobTyped, JobFields, StageNames, StateTyped
<1>01. {"execute", "build", "upload", "seal", "audit", "receipt", "complete"} \subseteq StepsOf("runtime")
  BY DEF StepsOf
<1>02. ASSUME NEW from, NEW to,
              <<from, to>> \in {<<"extract", "execute">>, <<"execute", "build">>,
                                <<"build", "upload">>, <<"observe", "seal">>, <<"seal", "audit">>,
                                <<"audit", "receipt">>, <<"receipt", "complete">>},
              Passes("runtime", from, to), Still, SignsTheSame("runtime"),
              from \in {"extract", "execute", "build"} => SeesTheSame("runtime")
       PROVE  GoesOn
  <2>1. job["runtime"].pc = from /\ <<from, to>>[1] = from /\ <<from, to>>[2] = to
    BY <1>02 DEF Passes
  <2>2. \E pass \in {<<"extract", "execute">>, <<"execute", "build">>, <<"build", "upload">>,
                    <<"observe", "seal">>, <<"seal", "audit">>, <<"audit", "receipt">>,
                    <<"receipt", "complete">>} :
          /\ Passes("runtime", pass[1], pass[2]) /\ Still /\ SignsTheSame("runtime")
          /\ job["runtime"].pc \in {"extract", "execute", "build"} => SeesTheSame("runtime")
    BY <1>02, <2>1
  <2> QED
    BY <2>2, Zenon DEF GoesOn
<1>1. CASE ExtractLive
  <2>1. /\ (Move("runtime", "execute") /\ UNCHANGED <<release, done>>) \/ Refuse("runtime")
        /\ j.pc = "extract"
    BY <1>1, Zenon DEF ExtractLive, At
  <2>2. UNCHANGED <<artifacts, expired, pending, made, edits>>
    BY <1>1 DEF ExtractLive, history, budget
  <2>3. \/ Passes("runtime", "extract", "execute") /\ Still /\ SeesTheSame("runtime")
           /\ SignsTheSame("runtime")
        \/ Fails("runtime")
    BY <1>01, <2>1, <2>2, StageNames, CheckIs
  <2> QED
    BY <1>02, <2>3
<1>2. CASE BuildRuntime
  <2>1. /\ (Move("runtime", "upload") /\ UNCHANGED <<release, done>>) \/ Refuse("runtime")
        /\ j.pc = "build"
    BY <1>2, Zenon DEF BuildRuntime, At
  <2>2. UNCHANGED <<artifacts, expired, pending, made, edits>>
    BY <1>2 DEF BuildRuntime, history, budget
  <2>3. \/ Passes("runtime", "build", "upload") /\ Still /\ SeesTheSame("runtime")
           /\ SignsTheSame("runtime")
        \/ Fails("runtime")
    BY <1>01, <2>1, <2>2, StageNames, CheckIs
  <2> QED
    BY <1>02, <2>3
<1>3. CASE Audit
  <2>1. /\ (Move("runtime", "receipt") /\ UNCHANGED <<release, done>>) \/ Refuse("runtime")
        /\ j.pc = "audit"
    BY <1>3, Zenon DEF Audit, At
  <2>2. UNCHANGED <<artifacts, expired, pending, made, edits>>
    BY <1>3 DEF Audit, history, budget
  <2>3. \/ Passes("runtime", "audit", "receipt") /\ Still /\ SeesTheSame("runtime")
           /\ SignsTheSame("runtime")
        \/ Fails("runtime")
    BY <1>01, <2>1, <2>2, StageNames, CheckIs
  <2> QED
    BY <1>02, <2>3
<1>4. CASE PostReceipt
  <2>1. /\ Move("runtime", "complete") /\ j.pc = "receipt"
        /\ UNCHANGED <<artifacts, expired, release, pending, done, made, edits>>
    BY <1>4 DEF PostReceipt, history, budget, At
  <2>2. "complete" \in StepsOf("runtime")
    BY <1>01
  <2>3. Passes("runtime", "receipt", "complete") /\ Still /\ SignsTheSame("runtime")
    BY <2>1, <2>2, StageNames, Moved DEF Passes, Still, SignsTheSame
  <2> QED
    BY <1>02, <2>3
<1>5. ASSUME NEW e \in Executions, Execute(e)
      PROVE  GoesOn
  <2>1. /\ UNCHANGED <<artifacts, expired, release, pending, done, made, edits>>
        /\ j.pc = "execute"
    BY <1>5 DEF Execute, history, budget, At
  <2>2. Goes("runtime", "build", j.sel, j.rel, j.bytes, e, j.chain, j.signing)
    BY <1>5, ExecuteDoes
  <2>3. e \in Execution /\ "build" \in StepsOf("runtime")
    BY <1>01, BoundsAssumption
  <2>4. /\ job'["runtime"].pc = "build" /\ job'["runtime"].rel = j.rel
        /\ job'["runtime"].bytes = j.bytes /\ job'["runtime"].signing = j.signing
        /\ job'["runtime"].run = job["runtime"].run
        /\ job'["runtime"].attempt = job["runtime"].attempt
        /\ job'["runtime"].cause = job["runtime"].cause
        /\ \A t \in Stages : t # "runtime" => job'[t] = job[t]
    <3> HIDE DEF j
    <3> QED
      BY <1>0, <2>2, <2>3, StageNames, Went
  <2>5. Passes("runtime", "execute", "build") /\ Still /\ SignsTheSame("runtime")
        /\ SeesTheSame("runtime")
    BY <2>1, <2>4 DEF Passes, Still, SignsTheSame, SeesTheSame
  <2> QED
    BY <1>02, <2>5
<1>6. CASE Observe
  <2>1. UNCHANGED <<artifacts, expired, pending, made, edits>> /\ j.pc = "observe"
    BY <1>6 DEF Observe, history, budget, At
  <2>2. CASE Refuse("runtime")
    BY <2>1, <2>2 DEF Refuse, Fails, Outcome
  <2>3. ASSUME UNCHANGED <<release, done>>,
               Goes("runtime", "seal", j.sel, release, j.bytes, j.exec, j.chain, j.signing)
        PROVE  GoesOn
    <3>1. "seal" \in StepsOf("runtime")
      BY <1>01
    <3>2. Goes("runtime", "seal", j.sel, release, j.bytes, j.exec, j.chain, j.signing)
      BY <2>3
    <3>3. /\ job'["runtime"].pc = "seal" /\ job'["runtime"].signing = j.signing
          /\ job'["runtime"].run = job["runtime"].run
          /\ job'["runtime"].attempt = job["runtime"].attempt
          /\ job'["runtime"].cause = job["runtime"].cause
          /\ \A t \in Stages : t # "runtime" => job'[t] = job[t]
      <4> HIDE DEF j
      <4> QED
        BY <1>0, <3>1, <3>2, StageNames, Went
    <3>4. Passes("runtime", "observe", "seal") /\ Still /\ SignsTheSame("runtime")
      BY <2>1, <2>3, <3>3 DEF Passes, Still, SignsTheSame
    <3> QED
      BY <1>02, <3>4
  <2> QED
    BY <1>6, <2>2, <2>3, ObserveDoes, Zenon
<1>7. CASE Seal
  <2> DEFINE chain == ChainOf(j.sel, j.sel.artifact, Own("runtime"), j.rel)
  <2>1. /\ UNCHANGED <<artifacts, expired, release, pending, done, made, edits>>
        /\ j.pc = "seal"
    BY <1>7 DEF Seal, history, budget, At
  <2>2. Goes("runtime", "audit", j.sel, j.rel, j.bytes, j.exec, chain, j.signing)
    BY <1>7, SealDoes
  <2>3. chain \in Chain /\ "audit" \in StepsOf("runtime")
    BY <1>0, <1>01, ChainTyped DEF Own, Run
  <2>4. /\ job'["runtime"].pc = "audit" /\ job'["runtime"].signing = j.signing
        /\ job'["runtime"].run = job["runtime"].run
        /\ job'["runtime"].attempt = job["runtime"].attempt
        /\ job'["runtime"].cause = job["runtime"].cause
        /\ \A t \in Stages : t # "runtime" => job'[t] = job[t]
    <3> HIDE DEF j, chain
    <3> QED
      BY <1>0, <2>2, <2>3, StageNames, Went
  <2>5. Passes("runtime", "seal", "audit") /\ Still /\ SignsTheSame("runtime")
    BY <2>1, <2>4 DEF Passes, Still, SignsTheSame
  <2> QED
    BY <1>02, <2>5
<1> QED
  BY <1>1, <1>2, <1>3, <1>4, <1>5, <1>6, <1>7

(* Every step is one of these. *)
LEMMA StepIs ==
  ASSUME TypeInv, [Next]_vars
  PROVE  \/ GoesOn
         \/ \E s \in Stages : Fails(s) \/ Start(s) \/ Complete(s)
         \/ \E fault \in EvidenceFaults, success \in BOOLEAN : RunE2E(fault, success)
         \/ \E d \in done, from \in {"start", "sign"} : Rerun(d, from)
         \/ \E s \in Stages : SkippedRun(s)
         \/ edits' = edits + 1 /\ UNCHANGED <<pending, job, done, made>>
         \/ UNCHANGED vars
<1>1. ASSUME NEW s \in Stages, NEW midUpload \in BOOLEAN, Kill(s, midUpload)
      PROVE  Fails(s)
  <2>1. UNCHANGED <<artifacts, expired, pending, made, edits>> /\ job[s].pc # "idle"
    BY <1>1 DEF Kill, history, At
  <2>2. \E outcome \in Outcome : End(s, outcome)
    BY <1>1, KillDoes DEF Outcome
  <2>3. \/ release' = release
        \/ s = "deployment" /\ job[s].pc = "publish" /\ AssetAppears("starter")
    BY <1>1, KillDoes DEF AssetAppears
  <2> QED
    BY <2>1, <2>2, <2>3 DEF Fails
<1>2. ASSUME \/ \E a \in artifacts : DeleteArtifact(a) \/ ExpireArtifact(a)
             \/ \E rel \in EditedReleases : EditRelease(rel)
      PROVE  edits' = edits + 1 /\ UNCHANGED <<pending, job, done, made>>
  BY <1>2 DEF DeleteArtifact, ExpireArtifact, EditRelease, Edit
<1> QED
  BY <1>1, <1>2, NextIs, WorkIs, PublishingIs, RunningIs, StageNames, Zenon

(* What any step of an attempt that goes on has in common. *)
Continues(s) ==
    /\ job[s].pc # "idle" /\ job'[s].pc # "idle"
    /\ job'[s].run = job[s].run /\ job'[s].attempt = job[s].attempt
    /\ job'[s].cause = job[s].cause
    /\ \A t \in Stages : t # s => job'[t] = job[t]
    /\ UNCHANGED <<pending, done, edits>> /\ made \subseteq made'

LEMMA PassesContinues ==
  ASSUME NEW s \in Stages, NEW from, NEW to, Passes(s, from, to), made \subseteq made',
         from # "idle", to # "idle"
  PROVE  Continues(s)
BY DEF Passes, Continues

LEMMA GoesOnContinues ==
  ASSUME GoesOn
  PROVE  \E s \in Stages : Continues(s)
<1>0. Still => made \subseteq made'
  BY DEF Still
<1>1. ASSUME NEW s \in Stages, Passes(s, "select", IF s = "runtime" THEN "observe" ELSE "download"),
             Still
      PROVE  Continues(s)
  BY <1>0, <1>1, PassesContinues
<1>2. ASSUME NEW s \in {"deployment", "runtime"}, Passes(s, "fetch", "pull"), Still
      PROVE  \E t \in Stages : Continues(t)
  <2>1. s \in Stages
    BY DEF Stages
  <2> QED
    BY <1>0, <1>2, <2>1, PassesContinues
<1>3. ASSUME NEW s \in {"deployment", "runtime"},
             Passes(s, "pull", IF s = "runtime" THEN "extract" ELSE "build"), Still
      PROVE  \E t \in Stages : Continues(t)
  <2>1. s \in Stages
    BY DEF Stages
  <2> QED
    BY <1>0, <1>3, <2>1, PassesContinues
<1>4. ASSUME NEW s \in Stages, Passes(s, "upload", IF s = "runtime" THEN "select" ELSE "complete"),
             made' = made \cup {Built(s)}
      PROVE  Continues(s)
  <2>1. made \subseteq made'
    BY <1>4
  <2> QED
    BY <1>4, <2>1, PassesContinues
<1>5. Passes("promotion", "download", "upload") /\ Still => Continues("promotion")
  BY <1>0, StageNames, PassesContinues
<1>6. /\ Passes("deployment", "download", "lookup") /\ Still => Continues("deployment")
      /\ Passes("deployment", "build", "upload") /\ Still => Continues("deployment")
  BY <1>0, StageNames, PassesContinues
<1>7. /\ Passes("deployment", "lookup", "publish") /\ UNCHANGED <<artifacts, made>>
           => Continues("deployment")
      /\ Passes("deployment", "publish", "fetch") /\ UNCHANGED <<artifacts, made>>
           => Continues("deployment")
  BY StageNames, PassesContinues
<1>8. ASSUME NEW pass \in {<<"extract", "execute">>, <<"execute", "build">>, <<"build", "upload">>,
                          <<"observe", "seal">>, <<"seal", "audit">>, <<"audit", "receipt">>,
                          <<"receipt", "complete">>},
             Passes("runtime", pass[1], pass[2]), Still
      PROVE  Continues("runtime")
  <2>1. pass[1] # "idle" /\ pass[2] # "idle"
    OBVIOUS
  <2> QED
    BY <1>0, <1>8, <2>1, StageNames, PassesContinues
<1> QED
  BY <1>1, <1>2, <1>3, <1>4, <1>5, <1>6, <1>7, <1>8, StageNames, Zenon DEF GoesOn

LEMMA EnqueueDoes ==
  ASSUME TypeInv, NEW s \in Stages, NEW t, Enqueue(s, t)
  PROVE  /\ pending'[s] = t /\ \A u \in Stages : u # s => pending'[u] = pending[u]
         /\ done' = done \cup Cancelled(s)
BY StateTyped DEF Enqueue

LEMMA StartMeans ==
  ASSUME TypeInv, NEW s \in Stages, Start(s)
  PROVE  /\ pending'[s] = NoTrigger /\ \A u \in Stages : u # s => pending'[u] = pending[u]
         /\ job'[s].pc \in {"fetch", "select"}
         /\ s # "runtime" => job'[s].pc = "select"
         /\ s = "runtime" => job'[s].pc = (IF pending[s].from = "start" THEN "fetch" ELSE "select")
         /\ job'[s].run = pending[s].run /\ job'[s].attempt = pending[s].attempt
         /\ job'[s].cause = pending[s].cause /\ job'[s].signing = (pending[s].from = "sign")
         /\ \A t \in Stages : t # s => job'[t] = job[t]
         /\ job[s].pc = "idle" /\ pending[s] # NoTrigger
         /\ UNCHANGED <<artifacts, expired, release, done, made, edits>>
<1> DEFINE pc == IF s = "runtime" /\ pending[s].from = "start" THEN "fetch" ELSE "select"
           signing == pending[s].from = "sign"
<1>1. /\ job'[s] = Fresh(pc, pending[s].run, pending[s].attempt, pending[s].cause, signing)
      /\ \A t \in Stages : t # s => job'[t] = job[t]
  BY StartTyped, Zenon
<1>2. /\ pc \in {"fetch", "select"}
      /\ s # "runtime" => pc = "select"
      /\ s = "runtime" => pc = (IF pending[s].from = "start" THEN "fetch" ELSE "select")
  OBVIOUS
<1>3. /\ job[s].pc = "idle" /\ pending[s] # NoTrigger
      /\ UNCHANGED <<artifacts, expired, release, done, made, edits>>
      /\ pending' = [pending EXCEPT ![s] = NoTrigger]
  BY DEF Start, At, history, budget
<1>4. pending'[s] = NoTrigger /\ \A u \in Stages : u # s => pending'[u] = pending[u]
  BY <1>3, StateTyped
<1> HIDE DEF pc, signing
<1>5. /\ job'[s].pc = pc /\ job'[s].run = pending[s].run /\ job'[s].attempt = pending[s].attempt
      /\ job'[s].cause = pending[s].cause /\ job'[s].signing = signing
  BY <1>1 DEF Fresh
<1> QED
  BY <1>1, <1>2, <1>3, <1>4, <1>5 DEF signing

LEMMA CompleteMeans ==
  ASSUME TypeInv, NEW s \in Stages, Complete(s)
  PROVE  LET next == IF s = "promotion" THEN "deployment" ELSE "runtime"
             cause == [run |-> job[s].run, attempt |-> job[s].attempt]
         IN /\ job[s].pc = "complete" /\ job'[s].pc = "idle" /\ job'[s].run = 0
            /\ \A t \in Stages : t # s => job'[t] = job[t]
            /\ UNCHANGED <<artifacts, expired, release, made, edits>>
            /\ cause \in Run
            /\ s = "runtime" => UNCHANGED pending /\ done' = done \cup {EndOf(s, "success")}
            /\ s # "runtime" =>
                  /\ pending'[next] = FirstAttempt(next, cause)
                  /\ \A u \in Stages : u # next => pending'[u] = pending[u]
                  /\ done' = done \cup {EndOf(s, "success")} \cup Cancelled(next)
<1> DEFINE next == IF s = "promotion" THEN "deployment" ELSE "runtime"
           cause == [run |-> job[s].run, attempt |-> job[s].attempt]
<1>1. /\ job[s].pc = "complete" /\ job' = [job EXCEPT ![s] = Idle]
      /\ UNCHANGED <<artifacts, expired, release, made, edits>>
  BY DEF Complete, At, history, budget
<1>2. /\ job'[s].pc = "idle" /\ job'[s].run = 0 /\ \A t \in Stages : t # s => job'[t] = job[t]
  BY <1>1, IdleTyped
<1>3. cause \in Run
  BY JobTyped, JobFields DEF Run
<1>4. ASSUME s = "runtime" PROVE UNCHANGED pending /\ done' = done \cup {EndOf(s, "success")}
  BY <1>4, Zenon DEF Complete
<1>5. ASSUME s # "runtime"
      PROVE  /\ pending'[next] = FirstAttempt(next, cause)
             /\ \A u \in Stages : u # next => pending'[u] = pending[u]
             /\ done' = done \cup {EndOf(s, "success")} \cup Cancelled(next)
  <2>1. /\ pending' = [pending EXCEPT ![next] = FirstAttempt(next, cause)]
        /\ done' = done \cup {EndOf(s, "success")} \cup Cancelled(next)
    BY <1>5, Zenon DEF Complete
  <2>2. next \in Stages
    BY DEF Stages
  <2> HIDE DEF next, cause
  <2> QED
    BY <2>1, <2>2, StateTyped
<1> HIDE DEF next, cause
<1> QED
  BY <1>1, <1>2, <1>3, <1>4, <1>5 DEF next, cause

(* Nothing ever uploaded is forgotten, and edits are counted. *)
LEMMA HistoryGrows ==
  ASSUME TypeInv, [Next]_vars
  PROVE  made \subseteq made' /\ edits \in Nat /\ edits' \in Nat /\ (edits' = 0 => edits = 0)
         /\ (edits' = edits \/ edits' = edits + 1)
<1>0. edits \in Nat
  BY StateTyped
<1>1. CASE GoesOn
  BY <1>0, <1>1, GoesOnContinues DEF Continues
<1>2. ASSUME NEW s \in Stages, Fails(s) PROVE made' = made /\ edits' = edits
  BY <1>2 DEF Fails
<1>3. ASSUME NEW s \in Stages, Start(s) \/ Complete(s) PROVE made' = made /\ edits' = edits
  BY <1>3 DEF Start, Complete, history, budget
<1>4. ASSUME NEW fault \in EvidenceFaults, NEW success \in BOOLEAN, RunE2E(fault, success)
      PROVE  made \subseteq made' /\ edits' = edits
  BY <1>4, Zenon DEF RunE2E
<1>5. ASSUME NEW d \in done, NEW from \in {"start", "sign"}, Rerun(d, from)
      PROVE  made' = made /\ edits' = edits
  BY <1>5 DEF Rerun, history
<1>6. ASSUME edits' = edits + 1 PROVE edits' \in Nat /\ edits' # 0
  BY <1>0, <1>6
<1>7. CASE UNCHANGED vars
  BY <1>0, <1>7 DEF vars
<1>8. ASSUME NEW s \in Stages, SkippedRun(s) PROVE made' = made /\ edits' = edits
  BY <1>8, SkippedMeans
<1> QED
  BY <1>0, <1>1, <1>2, <1>3, <1>4, <1>5, <1>6, <1>7, <1>8, StepIs

(* An uploaded asset stays what it is while nobody edits. *)
LEMMA UploadedStays ==
  ASSUME TypeInv, SafeInv, [Next]_vars, edits' = 0, release.asset.state = "uploaded"
  PROVE  release' = release
BY HistoryGrows, OnlyEditsReplace

LEMMA CausedStays ==
  ASSUME TypeInv, SafeInv, [Next]_vars, NEW s \in Stages, NEW c, Caused(s, c)
  PROVE  Caused(s, c)'
<1>1. made \subseteq made' /\ (edits' = 0 => edits = 0)
  BY HistoryGrows
<1>2. edits' = 0 /\ release.asset.state = "uploaded" => release' = release
  BY UploadedStays
<1> QED
  BY <1>1, <1>2 DEF Caused

(* What an attempt that ends leaves behind. *)
LEMMA FailsMeans ==
  ASSUME TypeInv, NEW s \in Stages, Fails(s)
  PROVE  /\ job[s].pc # "idle" /\ job'[s].pc = "idle" /\ job'[s].run = 0
         /\ \A t \in Stages : t # s => job'[t] = job[t]
         /\ UNCHANGED <<artifacts, expired, pending, made, edits>>
         /\ \E outcome \in Outcome : done' = done \cup {EndOf(s, outcome)}
<1>1. PICK outcome \in Outcome : End(s, outcome)
  BY DEF Fails
<1>2. job' = [job EXCEPT ![s] = Idle] /\ done' = done \cup {EndOf(s, outcome)}
  BY <1>1 DEF End
<1>3. job'[s].pc = "idle" /\ job'[s].run = 0 /\ \A t \in Stages : t # s => job'[t] = job[t]
  BY <1>2, IdleTyped
<1> QED
  BY <1>2, <1>3 DEF Fails

LEMMA RunE2EMeans ==
  ASSUME TypeInv, NEW fault \in EvidenceFaults, NEW success \in BOOLEAN, RunE2E(fault, success)
  PROVE  \E a \in Archive, r \in Run :
            /\ artifacts' = artifacts \cup {a} /\ made' = made \cup {a}
            /\ a.id = [stage |-> "e2e", run |-> r.run, attempt |-> r.attempt]
            /\ UNCHANGED <<expired, release, job, edits>>
            /\ \/ UNCHANGED <<pending, done>>
               \/ /\ pending'["promotion"] = FirstAttempt("promotion", r)
                  /\ \A u \in Stages : u # "promotion" => pending'[u] = pending[u]
                  /\ done' = done \cup Cancelled("promotion")
<1> DEFINE n == Cardinality(E2EArchives) + 1
           r == [run |-> 1, attempt |-> n]
           a == [SourceOf("e2e", r, NoId, NoRun) EXCEPT !.fault = fault]
<1>1. n \in Nat
  <2>1. IsFiniteSet(E2EArchives)
    BY StateTyped, FS_Subset DEF E2EArchives
  <2> QED
    BY <2>1, FS_CardinalityType
<1>2. /\ artifacts' = artifacts \cup {a} /\ made' = made \cup {a}
      /\ IF success THEN Enqueue("promotion", FirstAttempt("promotion", r))
                    ELSE UNCHANGED <<pending, done>>
      /\ UNCHANGED <<expired, release, job, edits>>
  BY Zenon DEF RunE2E
<1> HIDE DEF n
<1>3. /\ r \in Run /\ a \in Archive /\ r.run = 1 /\ r.attempt = n
      /\ a.id = [stage |-> "e2e", run |-> 1, attempt |-> n]
  BY <1>1, EvidenceIs
<1> HIDE DEF r, a
<1>4. a.id = [stage |-> "e2e", run |-> r.run, attempt |-> r.attempt]
  BY <1>3
<1>5. \/ UNCHANGED <<pending, done>>
      \/ /\ pending'["promotion"] = FirstAttempt("promotion", r)
         /\ \A u \in Stages : u # "promotion" => pending'[u] = pending[u]
         /\ done' = done \cup Cancelled("promotion")
  BY <1>2, StageNames, EnqueueDoes
<1> QED
  BY <1>2, <1>3, <1>4, <1>5

LEMMA RerunMeans ==
  ASSUME TypeInv, NEW d \in done, NEW from \in {"start", "sign"}, Rerun(d, from)
  PROVE  LET t == [run |-> d.run, attempt |-> d.attempt + 1, cause |-> d.cause, from |-> from] IN
         /\ d.stage \in Stages /\ d.run \in Nat /\ d.attempt \in Nat
         /\ pending'[d.stage] = t
         /\ \A u \in Stages : u # d.stage => pending'[u] = pending[u]
         /\ done' = done \cup Cancelled(d.stage)
         /\ d.run # job[d.stage].run /\ d.run # pending[d.stage].run
         /\ UNCHANGED <<artifacts, expired, release, job, made, edits>>
<1> DEFINE t == [run |-> d.run, attempt |-> d.attempt + 1, cause |-> d.cause, from |-> from]
<1>1. d.stage \in Stages /\ d.run \in Nat /\ d.attempt \in Nat
  BY StateTyped DEF Ended
<1>2. Enqueue(d.stage, t)
  BY Zenon DEF Rerun
<1>3. /\ d.run # job[d.stage].run /\ d.run # pending[d.stage].run
      /\ UNCHANGED <<artifacts, expired, release, job, made, edits>>
  BY DEF Rerun, history
<1> HIDE DEF t
<1>4. /\ pending'[d.stage] = t /\ \A u \in Stages : u # d.stage => pending'[u] = pending[u]
      /\ done' = done \cup Cancelled(d.stage)
  BY <1>1, <1>2, EnqueueDoes
<1> QED
  BY <1>1, <1>3, <1>4 DEF t

(* The promotion completes by uploading. *)
LEMMA PromotionCompletes ==
  ASSUME GoesOn, job'["promotion"].pc = "complete"
  PROVE  \/ job'["promotion"] = job["promotion"]
         \/ Passes("promotion", "upload", "complete") /\ made' = made \cup {Built("promotion")}
<1>1. ASSUME NEW s \in Stages, NEW from, NEW to, Passes(s, from, to), to # "complete"
      PROVE  job'["promotion"] = job["promotion"]
  BY <1>1, StageNames DEF Passes
<1>2. ASSUME NEW s \in Stages, Passes(s, "upload", IF s = "runtime" THEN "select" ELSE "complete"),
             made' = made \cup {Built(s)}
      PROVE  \/ job'["promotion"] = job["promotion"]
             \/ Passes("promotion", "upload", "complete") /\ made' = made \cup {Built("promotion")}
  <2>1. CASE s = "promotion"
    BY <1>2, <2>1
  <2>2. CASE s # "promotion"
    BY <1>2, <2>2, StageNames DEF Passes
  <2> QED
    BY <2>1, <2>2
<1>3. ASSUME NEW from, NEW to, Passes("runtime", from, to)
      PROVE  job'["promotion"] = job["promotion"]
  BY <1>3, StageNames DEF Passes
<1>4. ASSUME NEW s \in {"deployment", "runtime"}, NEW from, NEW to, Passes(s, from, to)
      PROVE  job'["promotion"] = job["promotion"]
  BY <1>4, StageNames DEF Passes
<1>5. ASSUME NEW s \in Stages, Passes(s, "select", IF s = "runtime" THEN "observe" ELSE "download")
      PROVE  job'["promotion"] = job["promotion"]
  BY <1>1, <1>5
<1>6. Passes("promotion", "download", "upload") => job'["promotion"] = job["promotion"]
  BY <1>1, StageNames
<1>7. "deployment" \in {"deployment", "runtime"}
  OBVIOUS
<1> QED
  BY <1>2, <1>3, <1>4, <1>5, <1>6, <1>7, Zenon DEF GoesOn

(* Everything that runs, waits or ended has what triggered it behind it. *)
LEMMA CauseStep ==
  ASSUME TypeInv, SafeInv, CalmInv, [Next]_vars
  PROVE  CauseInv'
<1>0. CauseInv /\ DeploymentCalm
  BY DEF CalmInv
<1>1. \A s \in Stages : \A c : Caused(s, c) => Caused(s, c)'
  BY CausedStays
<1>2. \A s \in Stages : \A d \in Cancelled(s) : Caused(s, d.cause) /\ d.stage = s
  BY <1>0, CancelledIs DEF CauseInv
<1>3. \A s \in Stages, outcome \in Outcome :
        job[s].pc # "idle" => EndOf(s, outcome).stage = s /\ Caused(s, EndOf(s, outcome).cause)
  BY <1>0, EndTyped DEF CauseInv
<1>4. \A d \in done : d.stage \in Stages /\ Caused(d.stage, d.cause)
  BY <1>0, StateTyped DEF CauseInv, Ended
<1> DEFINE Queued == \A t \in Stages : pending[t] # NoTrigger => Caused(t, pending[t].cause)
           Started == \A t \in Stages : job[t].pc # "idle" => Caused(t, job[t].cause)
           Gone == \A d \in done : Caused(d.stage, d.cause)
           Promoted == job["promotion"].pc = "complete" =>
              Caused("deployment", [run |-> job["promotion"].run, attempt |-> job["promotion"].attempt])
<1>5. CauseInv' <=> Queued' /\ Started' /\ Gone' /\ Promoted'
  BY DEF CauseInv
<1>6. ASSUME \A t \in Stages : pending'[t] # NoTrigger => pending'[t] = pending[t]
      PROVE  Queued'
  BY <1>0, <1>1, <1>6 DEF CauseInv
<1>7. ASSUME \A t \in Stages : job'[t].pc # "idle" =>
                job[t].pc # "idle" /\ job'[t].cause = job[t].cause
      PROVE  Started'
  BY <1>0, <1>1, <1>7 DEF CauseInv
<1>8. ASSUME \A d \in done' : \/ d \in done
                              \/ \E s \in Stages, outcome \in Outcome :
                                    job[s].pc # "idle" /\ d = EndOf(s, outcome)
                              \/ \E s \in Stages : d \in Cancelled(s)
                              \/ d.stage \in Stages /\ Caused(d.stage, d.cause)
      PROVE  Gone'
  <2> SUFFICES ASSUME NEW d \in done' PROVE Caused(d.stage, d.cause)'
    OBVIOUS
  <2>1. d.stage \in Stages /\ Caused(d.stage, d.cause)
    BY <1>2, <1>3, <1>4, <1>8
  <2> QED
    BY <1>1, <2>1
<1>9. ASSUME job'["promotion"].pc = "complete" => job'["promotion"] = job["promotion"]
      PROVE  Promoted'
  BY <1>0, <1>1, <1>9, StageNames DEF CauseInv
<1>10. CASE GoesOn
  <2>1. PICK s \in Stages : Continues(s)
    BY <1>10, GoesOnContinues
  <2>2. Queued' /\ Started' /\ Gone'
    BY <1>6, <1>7, <1>8, <2>1 DEF Continues
  <2>3. ASSUME Passes("promotion", "upload", "complete"), made' = made \cup {Built("promotion")}
        PROVE  Promoted'
    <3>1. /\ Built("promotion").id = [stage |-> "promotion", run |-> job["promotion"].run,
                                      attempt |-> job["promotion"].attempt]
          /\ Built("promotion") \in made'
      BY <2>3, StageNames, BuiltIs
    <3>2. /\ job'["promotion"].run = job["promotion"].run
          /\ job'["promotion"].attempt = job["promotion"].attempt
      BY <2>3 DEF Passes
    <3> QED
      BY <3>1, <3>2 DEF Caused
  <2>4. Promoted'
    BY <1>9, <1>10, <2>3, PromotionCompletes
  <2> QED
    BY <1>5, <2>2, <2>4
<1>11. ASSUME NEW s \in Stages, Fails(s) PROVE CauseInv'
  <2>1. Queued' /\ Started' /\ Gone'
    BY <1>6, <1>7, <1>8, <1>11, FailsMeans
  <2>2. Promoted'
    BY <1>9, <1>11, StageNames, FailsMeans
  <2> QED
    BY <1>5, <2>1, <2>2
<1>12. ASSUME NEW s \in Stages, Start(s) PROVE CauseInv'
  <2>1. Queued' /\ Gone'
    BY <1>6, <1>8, <1>12, StartMeans
  <2>2. Started'
    <3>1. job'[s].cause = pending[s].cause /\ Caused(s, pending[s].cause)
      BY <1>0, <1>12, StartMeans DEF CauseInv
    <3>2. \A t \in Stages : t # s => job'[t] = job[t]
      BY <1>12, StartMeans
    <3> QED
      BY <1>0, <1>1, <3>1, <3>2 DEF CauseInv
  <2>3. Promoted'
    BY <1>9, <1>12, StageNames, StartMeans
  <2> QED
    BY <1>5, <2>1, <2>2, <2>3
<1>13. ASSUME NEW s \in Stages, Complete(s) PROVE CauseInv'
  <2> DEFINE next == IF s = "promotion" THEN "deployment" ELSE "runtime"
             cause == [run |-> job[s].run, attempt |-> job[s].attempt]
  <2>1. /\ job[s].pc = "complete" /\ job'[s].pc = "idle"
        /\ \A t \in Stages : t # s => job'[t] = job[t]
        /\ s = "runtime" => UNCHANGED pending /\ done' = done \cup {EndOf(s, "success")}
        /\ s # "runtime" =>
              /\ pending'[next] = FirstAttempt(next, cause)
              /\ \A u \in Stages : u # next => pending'[u] = pending[u]
              /\ done' = done \cup {EndOf(s, "success")} \cup Cancelled(next)
    BY <1>13, CompleteMeans, Zenon
  <2>2. cause \in Run
    BY <1>13, CompleteMeans
  <2>3. next \in Stages /\ "success" \in Outcome
    BY DEF Stages, Outcome
  <2>4. s # "runtime" => Caused(next, cause)
    <3>1. CASE s = "promotion"
      BY <1>0, <2>1, <3>1 DEF CauseInv
    <3>2. CASE s = "deployment"
      BY <1>0, <2>1, <3>2 DEF DeploymentCalm, Caused
    <3> QED
      BY <3>1, <3>2 DEF Stages
  <2> HIDE DEF next, cause
  <2>5. Started' /\ Promoted'
    BY <1>7, <1>9, <2>1, StageNames
  <2>6. Gone'
    BY <1>8, <2>1, <2>3
  <2>7. Queued'
    <3>1. CASE s = "runtime"
      BY <1>6, <2>1, <3>1
    <3>2. CASE s # "runtime"
      <4>1. PICK c \in Run, n \in Stages : c = cause /\ n = next
        BY <2>2, <2>3
      <4>2. /\ pending'[n] = FirstAttempt(n, c) /\ Caused(n, c)
            /\ \A u \in Stages : u # n => pending'[u] = pending[u]
        BY <2>1, <2>4, <3>2, <4>1
      <4>3. FirstAttempt(n, c).cause = c
        BY FirstTyped
      <4>4. pending'[n].cause = c
        BY <4>2, <4>3
      <4>5. Caused(n, c)'
        BY <1>1, <4>2
      <4> QED
        BY <1>0, <1>1, <4>2, <4>4, <4>5 DEF CauseInv
    <3> QED
      BY <3>1, <3>2
  <2> QED
    BY <1>5, <2>5, <2>6, <2>7
<1>14. ASSUME NEW fault \in EvidenceFaults, NEW success \in BOOLEAN, RunE2E(fault, success)
       PROVE  CauseInv'
  <2>1. PICK a \in Archive, r \in Run :
           /\ made' = made \cup {a}
           /\ a.id = [stage |-> "e2e", run |-> r.run, attempt |-> r.attempt]
           /\ UNCHANGED job
           /\ \/ UNCHANGED <<pending, done>>
              \/ /\ pending'["promotion"] = FirstAttempt("promotion", r)
                 /\ \A u \in Stages : u # "promotion" => pending'[u] = pending[u]
                 /\ done' = done \cup Cancelled("promotion")
    BY <1>14, RunE2EMeans
  <2>2. Started' /\ Promoted'
    BY <1>7, <1>9, <2>1
  <2>3. Gone'
    BY <1>8, <2>1, StageNames
  <2>4. Queued'
    <3>1. CASE UNCHANGED <<pending, done>>
      BY <1>6, <3>1
    <3>2. CASE /\ pending'["promotion"] = FirstAttempt("promotion", r)
               /\ \A u \in Stages : u # "promotion" => pending'[u] = pending[u]
      <4>1. pending'["promotion"].cause = r
        <5>1. r \in Run
          BY <2>1
        <5>2. FirstAttempt("promotion", r).cause = r
          BY <5>1, StageNames, FirstTyped
        <5> QED
          BY <3>2, <5>2
      <4>2. Caused("promotion", r)'
        BY <2>1 DEF Caused
      <4> QED
        BY <1>0, <1>1, <3>2, <4>1, <4>2 DEF CauseInv
    <3> QED
      BY <2>1, <3>1, <3>2
  <2> QED
    BY <1>5, <2>2, <2>3, <2>4
<1>15. ASSUME NEW d \in done, NEW from \in {"start", "sign"}, Rerun(d, from)
       PROVE  CauseInv'
  <2>1. /\ d.stage \in Stages /\ pending'[d.stage].cause = d.cause
        /\ \A u \in Stages : u # d.stage => pending'[u] = pending[u]
        /\ done' = done \cup Cancelled(d.stage) /\ UNCHANGED job
    <3> DEFINE t == [run |-> d.run, attempt |-> d.attempt + 1, cause |-> d.cause, from |-> from]
    <3>1. /\ d.stage \in Stages /\ pending'[d.stage] = t
          /\ \A u \in Stages : u # d.stage => pending'[u] = pending[u]
          /\ done' = done \cup Cancelled(d.stage) /\ UNCHANGED job
      BY <1>15, RerunMeans, Zenon
    <3>2. t.cause = d.cause
      OBVIOUS
    <3> HIDE DEF t
    <3> QED
      BY <3>1, <3>2
  <2>2. Started' /\ Promoted' /\ Gone'
    BY <1>7, <1>8, <1>9, <2>1
  <2>3. Queued'
    BY <1>0, <1>1, <1>4, <2>1 DEF CauseInv
  <2> QED
    BY <1>5, <2>2, <2>3
<1>16. ASSUME UNCHANGED <<pending, job, done>> PROVE CauseInv'
  BY <1>5, <1>6, <1>7, <1>8, <1>9, <1>16
<1>18. ASSUME NEW s \in Stages, SkippedRun(s) PROVE CauseInv'
  <2>1. \A d \in Waiting(s, "displaced") : d.stage = s /\ Caused(s, d.cause)
    BY <1>0, <1>18, SkippedMeans DEF CauseInv
  <2>2. Queued' /\ Started' /\ Promoted'
    BY <1>6, <1>7, <1>9, <1>18, SkippedMeans
  <2>3. Gone'
    <3>1. done' = done \cup Waiting(s, "displaced")
      BY <1>18, SkippedMeans
    <3> QED
      BY <1>8, <2>1, <3>1
  <2> QED
    BY <1>5, <2>2, <2>3
<1> HIDE DEF Queued, Started, Gone, Promoted
<1>17. UNCHANGED vars => UNCHANGED <<pending, job, done>>
  BY DEF vars
<1> QED
  BY <1>10, <1>11, <1>12, <1>13, <1>14, <1>15, <1>16, <1>17, <1>18, StepIs

(* The release while nobody edits: what changes it, and what then holds. *)
LEMMA ReleaseStep ==
  ASSUME TypeInv, SafeInv, CalmInv, [Next]_vars
  PROVE  ReleaseCalm'
<1>0. ReleaseCalm /\ RuntimeCalm /\ CauseInv
  BY DEF CalmInv
<1> SUFFICES ASSUME edits' = 0 PROVE ReleaseCalm'
  BY DEF ReleaseCalm
<1>1. edits = 0 /\ edits' # edits + 1
  BY HistoryGrows
<1>2. /\ artifacts = made /\ expired = {}
      /\ ~release.extra /\ (release.exists => release.plain)
      /\ release.asset.state # "none" =>
            release.asset.bytes \in made /\ release.asset.bytes.id.stage = "promotion"
      /\ \A a \in made : a.id.stage = "runtime" =>
            release.asset.state = "uploaded" /\ a.subject = release.asset.bytes.id
  BY <1>0, <1>1 DEF ReleaseCalm
<1>3. ASSUME UNCHANGED <<artifacts, expired, made, release>> PROVE ReleaseCalm'
  BY <1>2, <1>3 DEF ReleaseCalm
<1>4. ASSUME NEW b, artifacts' = artifacts \cup {b}, made' = made \cup {b},
             UNCHANGED <<expired, release>>,
             b.id.stage = "runtime" => /\ release.asset.state = "uploaded"
                                       /\ b.subject = release.asset.bytes.id
      PROVE  ReleaseCalm'
  BY <1>2, <1>4 DEF ReleaseCalm
<1>5. ASSUME NEW state, state # "none", AssetAppears(state), job["deployment"].pc = "publish",
             UNCHANGED <<artifacts, expired, made>>
      PROVE  ReleaseCalm'
  <2>1. /\ job["deployment"].sel.artifact \in made
        /\ job["deployment"].sel.artifact.id.stage = "promotion"
    BY <1>5 DEF SafeInv, DeploymentInv
  <2>2. \A a \in made : a.id.stage # "runtime"
    BY <1>2, <1>5 DEF AssetAppears
  <2> QED
    BY <1>2, <1>5, <2>1, <2>2 DEF ReleaseCalm, AssetAppears
<1>6. CASE GoesOn
  <2>1. ASSUME NEW s, NEW from, NEW to, Passes(s, from, to), Still PROVE ReleaseCalm'
    BY <1>3, <2>1 DEF Passes, Still
  <2>2. ASSUME NEW s \in Stages, NEW to, Passes(s, "upload", to), UNCHANGED release,
               artifacts' = artifacts \cup {Built(s)}, made' = made \cup {Built(s)}
        PROVE  ReleaseCalm'
    <3>1. UNCHANGED expired /\ job[s].pc = "upload"
      BY <2>2 DEF Passes
    <3>2. /\ Built(s).id = [stage |-> s, run |-> job[s].run, attempt |-> job[s].attempt]
          /\ s = "runtime" => Built(s).subject = job[s].bytes.id
      BY BuiltIs
    <3>3. s = "runtime" => release.asset.state = "uploaded" /\ job[s].bytes = release.asset.bytes
      BY <1>0, <1>1, <3>1 DEF CauseInv, Caused, RuntimeCalm
    <3>4. PICK b : b = Built(s)
      OBVIOUS
    <3>5. b.id.stage = "runtime" => release.asset.state = "uploaded"
                                    /\ b.subject = release.asset.bytes.id
      BY <3>2, <3>3, <3>4
    <3> QED
      BY <1>4, <2>2, <3>1, <3>4, <3>5
  <2>3. ASSUME Passes("deployment", "lookup", "publish"), UNCHANGED <<artifacts, made>>,
               release' = release \/ (~release.exists
                  /\ release' = [NoRelease EXCEPT !.exists = TRUE, !.plain = TRUE])
        PROVE  ReleaseCalm'
    <3>1. UNCHANGED expired
      BY <2>3 DEF Passes
    <3>2. CASE release' = release
      BY <1>3, <2>3, <3>1, <3>2
    <3>3. CASE ~release.exists /\ release' = [NoRelease EXCEPT !.exists = TRUE, !.plain = TRUE]
      <4>1. ~release'.extra /\ release'.plain /\ release'.asset.state = "none"
        BY <3>3, NewRelease
      <4>2. release.asset.state = "none"
        BY <3>3 DEF SafeInv, ReleaseInv
      <4>3. \A a \in made : a.id.stage # "runtime"
        BY <1>2, <4>2
      <4> QED
        BY <1>2, <2>3, <3>1, <4>1, <4>3 DEF ReleaseCalm
    <3> QED
      BY <2>3, <3>2, <3>3
  <2>4. ASSUME Passes("deployment", "publish", "fetch"), UNCHANGED <<artifacts, made>>,
               AssetAppears("uploaded") \/ UNCHANGED release
        PROVE  ReleaseCalm'
    <3>1. UNCHANGED expired /\ job["deployment"].pc = "publish"
      BY <2>4 DEF Passes
    <3>2. CASE AssetAppears("uploaded")
      BY <1>5, <2>4, <3>1, <3>2
    <3>3. CASE UNCHANGED release
      BY <1>3, <2>4, <3>1, <3>3
    <3> QED
      BY <2>4, <3>2, <3>3
  <2> QED
    BY <1>6, <2>1, <2>2, <2>3, <2>4, Zenon DEF GoesOn
<1>7. ASSUME NEW s \in Stages, Fails(s) PROVE ReleaseCalm'
  <2>1. /\ UNCHANGED <<artifacts, expired, made>>
        /\ \/ release' = release
           \/ s = "deployment" /\ job[s].pc = "publish" /\ AssetAppears("starter")
    BY <1>7 DEF Fails
  <2>2. CASE release' = release
    BY <1>3, <2>1, <2>2
  <2>3. CASE s = "deployment" /\ job[s].pc = "publish" /\ AssetAppears("starter")
    BY <1>5, <2>1, <2>3
  <2> QED
    BY <2>1, <2>2, <2>3
<1>8. ASSUME NEW s \in Stages, Start(s) \/ Complete(s) PROVE ReleaseCalm'
  BY <1>3, <1>8, StartMeans, CompleteMeans
<1>9. ASSUME NEW fault \in EvidenceFaults, NEW success \in BOOLEAN, RunE2E(fault, success)
      PROVE  ReleaseCalm'
  <2>1. PICK a \in Archive, r \in Run :
           /\ artifacts' = artifacts \cup {a} /\ made' = made \cup {a}
           /\ a.id = [stage |-> "e2e", run |-> r.run, attempt |-> r.attempt]
           /\ UNCHANGED <<expired, release>>
    BY <1>9, RunE2EMeans
  <2>2. a.id.stage # "runtime"
    BY <2>1
  <2> QED
    BY <1>4, <2>1, <2>2
<1>10. ASSUME NEW d \in done, NEW from \in {"start", "sign"}, Rerun(d, from) PROVE ReleaseCalm'
  BY <1>3, <1>10, RerunMeans
<1>11. UNCHANGED vars => ReleaseCalm'
  BY <1>3 DEF vars
<1>12. ASSUME NEW s \in Stages, SkippedRun(s) PROVE ReleaseCalm'
  BY <1>3, <1>12, SkippedMeans
<1> QED
  BY <1>1, <1>6, <1>7, <1>8, <1>9, <1>10, <1>11, <1>12, StepIs

(* What an attempt has seen of the release is still so. *)
LEMMA DeploymentStep ==
  ASSUME TypeInv, SafeInv, CalmInv, [Next]_vars
  PROVE  DeploymentCalm'
<1>0. DeploymentCalm
  BY DEF CalmInv
<1> SUFFICES ASSUME edits' = 0 PROVE DeploymentCalm'
  BY DEF DeploymentCalm
<1>1. edits = 0 /\ edits' # edits + 1
  BY HistoryGrows
<1> DEFINE j == job["deployment"]
<1>2. /\ j.pc \in {"publish", "pull", "build"} => j.rel = release
      /\ j.pc \in {"fetch", "pull"} => release.asset.state # "none"
      /\ j.pc \in {"build", "upload", "complete"} => release.asset.state = "uploaded"
      /\ j.pc = "build" => j.bytes = release.asset.bytes
  BY <1>0, <1>1 DEF DeploymentCalm
<1>3. ASSUME job'["deployment"] = j, UNCHANGED release PROVE DeploymentCalm'
  BY <1>2, <1>3 DEF DeploymentCalm
<1>4. ASSUME job'["deployment"].pc \in {"idle", "select", "download", "lookup"} PROVE DeploymentCalm'
  BY <1>4 DEF DeploymentCalm
<1>5. CASE GoesOn
  <2>1. ASSUME NEW s \in Stages, NEW from, NEW to, Passes(s, from, to), s # "deployment",
               UNCHANGED release
        PROVE  DeploymentCalm'
    BY <1>3, <2>1, StageNames DEF Passes
  <2>2. ASSUME NEW s \in Stages,
               Passes(s, "select", IF s = "runtime" THEN "observe" ELSE "download"), Still
        PROVE  DeploymentCalm'
    <3>1. s = "deployment" => job'["deployment"].pc = "download"
      BY <2>2 DEF Passes
    <3> QED
      BY <1>4, <2>1, <2>2, <3>1 DEF Still
  <2>3. ASSUME NEW s \in {"deployment", "runtime"}, Passes(s, "fetch", "pull"), Still,
               job'[s].rel = release
        PROVE  DeploymentCalm'
    <3>1. ASSUME s = "deployment" PROVE DeploymentCalm'
      <4>1. /\ job'["deployment"].pc = "pull" /\ j.pc = "fetch" /\ UNCHANGED release
            /\ job'["deployment"].rel = release
        BY <2>3, <3>1 DEF Passes, Still
      <4> QED
        BY <1>2, <4>1 DEF DeploymentCalm
    <3> QED
      BY <2>1, <2>3, <3>1, StageNames DEF Still
  <2>4. ASSUME NEW s \in {"deployment", "runtime"},
               Passes(s, "pull", IF s = "runtime" THEN "extract" ELSE "build"), Still,
               release.asset.state = "uploaded", job'[s].rel = job[s].rel,
               job'[s].bytes = release.asset.bytes
        PROVE  DeploymentCalm'
    <3>1. ASSUME s = "deployment" PROVE DeploymentCalm'
      <4>1. /\ job'["deployment"].pc = "build" /\ j.pc = "pull" /\ UNCHANGED release
            /\ job'["deployment"].rel = j.rel /\ job'["deployment"].bytes = release.asset.bytes
        BY <2>4, <3>1 DEF Passes, Still
      <4> QED
        BY <1>2, <2>4, <4>1 DEF DeploymentCalm
    <3> QED
      BY <2>1, <2>4, <3>1, StageNames DEF Still
  <2>5. ASSUME NEW s \in Stages, UNCHANGED release,
               Passes(s, "upload", IF s = "runtime" THEN "select" ELSE "complete")
        PROVE  DeploymentCalm'
    <3>1. ASSUME s = "deployment" PROVE DeploymentCalm'
      <4>1. job'["deployment"].pc = "complete" /\ j.pc = "upload"
        BY <2>5, <3>1 DEF Passes
      <4> QED
        BY <1>2, <2>5, <4>1 DEF DeploymentCalm
    <3> QED
      BY <2>1, <2>5, <3>1
  <2>6. Passes("promotion", "download", "upload") /\ Still => DeploymentCalm'
    BY <2>1, StageNames DEF Still
  <2>7. Passes("deployment", "download", "lookup") => DeploymentCalm'
    BY <1>4 DEF Passes
  <2>8. ASSUME Passes("deployment", "lookup", "publish"), job'["deployment"].rel = release'
        PROVE  DeploymentCalm'
    <3>1. job'["deployment"].pc = "publish"
      BY <2>8 DEF Passes
    <3> QED
      BY <2>8, <3>1 DEF DeploymentCalm
  <2>9. ASSUME Passes("deployment", "publish", "fetch"),
               \/ AssetAppears("uploaded")
               \/ job["deployment"].rel.asset.state # "none" /\ UNCHANGED release
        PROVE  DeploymentCalm'
    <3>1. job'["deployment"].pc = "fetch" /\ j.pc = "publish"
      BY <2>9 DEF Passes
    <3>2. release'.asset.state # "none"
      BY <1>2, <2>9, <3>1 DEF AssetAppears
    <3> QED
      BY <3>1, <3>2 DEF DeploymentCalm
  <2>10. ASSUME Passes("deployment", "build", "upload"), Still PROVE DeploymentCalm'
    <3>1. job'["deployment"].pc = "upload" /\ j.pc = "build" /\ UNCHANGED release
      BY <2>10 DEF Passes, Still
    <3> QED
      BY <1>2, <3>1 DEF DeploymentCalm
  <2>11. ASSUME NEW from, NEW to, Passes("runtime", from, to), Still PROVE DeploymentCalm'
    BY <2>1, <2>11, StageNames DEF Still
  <2> QED
    BY <1>5, <2>2, <2>3, <2>4, <2>5, <2>6, <2>7, <2>8, <2>9, <2>10, <2>11, Zenon DEF GoesOn
<1>6. ASSUME NEW s \in Stages, Fails(s) PROVE DeploymentCalm'
  <2>1. CASE s = "deployment"
    BY <1>4, <1>6, <2>1, FailsMeans
  <2>2. CASE s # "deployment"
    <3>1. UNCHANGED release
      BY <1>6, <2>2 DEF Fails
    <3> QED
      BY <1>3, <1>6, <2>2, <3>1, StageNames, FailsMeans
  <2> QED
    BY <2>1, <2>2
<1>7. ASSUME NEW s \in Stages, Start(s) PROVE DeploymentCalm'
  <2>1. CASE s = "deployment"
    BY <1>4, <1>7, <2>1, StartMeans
  <2>2. CASE s # "deployment"
    BY <1>3, <1>7, <2>2, StageNames, StartMeans
  <2> QED
    BY <2>1, <2>2
<1>8. ASSUME NEW s \in Stages, Complete(s) PROVE DeploymentCalm'
  <2>1. CASE s = "deployment"
    BY <1>4, <1>8, <2>1, CompleteMeans
  <2>2. CASE s # "deployment"
    <3>1. UNCHANGED release /\ \A t \in Stages : t # s => job'[t] = job[t]
      BY <1>8, CompleteMeans, Zenon
    <3> QED
      BY <1>3, <2>2, <3>1, StageNames
  <2> QED
    BY <2>1, <2>2
<1>9. ASSUME NEW fault \in EvidenceFaults, NEW success \in BOOLEAN, RunE2E(fault, success)
      PROVE  DeploymentCalm'
  BY <1>3, <1>9, Zenon DEF RunE2E
<1>10. ASSUME NEW d \in done, NEW from \in {"start", "sign"}, Rerun(d, from)
       PROVE  DeploymentCalm'
  BY <1>3, <1>10, RerunMeans
<1>11. UNCHANGED vars => DeploymentCalm'
  BY <1>3 DEF vars
<1>12. ASSUME NEW s \in Stages, SkippedRun(s) PROVE DeploymentCalm'
  BY <1>3, <1>12, SkippedMeans
<1> QED
  BY <1>1, <1>5, <1>6, <1>7, <1>8, <1>9, <1>10, <1>11, <1>12, StepIs

LEMMA RuntimeStep ==
  ASSUME TypeInv, SafeInv, CalmInv, [Next]_vars
  PROVE  RuntimeCalm'
<1>0. RuntimeCalm /\ CauseInv
  BY DEF CalmInv
<1> SUFFICES ASSUME edits' = 0 PROVE RuntimeCalm'
  BY DEF RuntimeCalm
<1>1. edits = 0 /\ edits' # edits + 1
  BY HistoryGrows
<1> DEFINE j == job["runtime"]
           Seeing == {"pull", "extract", "execute", "build", "upload"}
<1>2. /\ j.pc \in {"pull", "extract", "execute", "build"} => j.rel = release
      /\ j.pc \in {"extract", "execute", "build", "upload"} => j.bytes = release.asset.bytes
      /\ j.pc # "idle" => release' = release
  <2>1. j.pc # "idle" => release.asset.state = "uploaded"
    BY <1>0, <1>1, StageNames DEF CauseInv, Caused
  <2> QED
    BY <1>0, <1>1, <2>1, UploadedStays DEF RuntimeCalm
<1>3. ASSUME job'["runtime"] = j PROVE RuntimeCalm'
  BY <1>2, <1>3 DEF RuntimeCalm
<1>4. ASSUME job'["runtime"].pc \notin Seeing PROVE RuntimeCalm'
  BY <1>4 DEF RuntimeCalm
<1>5. CASE GoesOn
  <2>1. ASSUME NEW s \in Stages, NEW from, NEW to, Passes(s, from, to), s # "runtime"
        PROVE  RuntimeCalm'
    BY <1>3, <2>1, StageNames DEF Passes
  <2>2. ASSUME NEW s \in Stages, NEW from, NEW to, Passes(s, from, to),
               s = "runtime" => to \notin Seeing
        PROVE  RuntimeCalm'
    BY <1>4, <2>1, <2>2 DEF Passes
  <2>3. ASSUME NEW s \in Stages, Passes(s, "select", IF s = "runtime" THEN "observe" ELSE "download")
        PROVE  RuntimeCalm'
    BY <2>2, <2>3
  <2>4. ASSUME NEW s \in {"deployment", "runtime"}, Passes(s, "fetch", "pull"), Still,
               job'[s].rel = release
        PROVE  RuntimeCalm'
    <3>1. ASSUME s = "runtime" PROVE RuntimeCalm'
      <4>1. /\ job'["runtime"].pc = "pull" /\ UNCHANGED release
            /\ job'["runtime"].rel = release
        BY <2>4, <3>1 DEF Passes, Still
      <4> QED
        BY <4>1 DEF RuntimeCalm
    <3> QED
      BY <2>1, <2>4, <3>1, StageNames
  <2>5. ASSUME NEW s \in {"deployment", "runtime"},
               Passes(s, "pull", IF s = "runtime" THEN "extract" ELSE "build"), Still,
               job'[s].rel = job[s].rel, job'[s].bytes = release.asset.bytes
        PROVE  RuntimeCalm'
    <3>1. ASSUME s = "runtime" PROVE RuntimeCalm'
      <4>1. /\ job'["runtime"].pc = "extract" /\ j.pc = "pull" /\ UNCHANGED release
            /\ job'["runtime"].rel = j.rel /\ job'["runtime"].bytes = release.asset.bytes
        BY <2>5, <3>1 DEF Passes, Still
      <4> QED
        BY <1>2, <4>1 DEF RuntimeCalm
    <3> QED
      BY <2>1, <2>5, <3>1, StageNames
  <2>6. ASSUME NEW s \in Stages, Passes(s, "upload", IF s = "runtime" THEN "select" ELSE "complete")
        PROVE  RuntimeCalm'
    BY <2>2, <2>6
  <2>7. ASSUME NEW s \in {"promotion", "deployment"}, NEW from, NEW to, Passes(s, from, to)
        PROVE  RuntimeCalm'
    BY <2>1, <2>7, StageNames
  <2>8. ASSUME NEW pass \in {<<"extract", "execute">>, <<"execute", "build">>, <<"build", "upload">>,
                            <<"observe", "seal">>, <<"seal", "audit">>, <<"audit", "receipt">>,
                            <<"receipt", "complete">>},
               Passes("runtime", pass[1], pass[2]), Still,
               job["runtime"].pc \in {"extract", "execute", "build"} => SeesTheSame("runtime")
        PROVE  RuntimeCalm'
    <3>1. j.pc = pass[1] /\ job'["runtime"].pc = pass[2] /\ UNCHANGED release
      BY <2>8 DEF Passes, Still
    <3>2. CASE j.pc \in {"extract", "execute", "build"}
      <4>1. job'["runtime"].rel = j.rel /\ job'["runtime"].bytes = j.bytes
        BY <2>8, <3>2 DEF SeesTheSame
      <4> QED
        BY <1>2, <3>1, <3>2, <4>1 DEF RuntimeCalm
    <3>3. CASE j.pc \notin {"extract", "execute", "build"}
      <4>1. pass[2] \in {"seal", "audit", "receipt", "complete"}
        BY <3>1, <3>3
      <4> QED
        BY <1>4, <3>1, <4>1
    <3> QED
      BY <3>2, <3>3
  <2>9. "promotion" \in {"promotion", "deployment"} /\ "deployment" \in {"promotion", "deployment"}
    OBVIOUS
  <2> QED
    BY <1>5, <2>3, <2>4, <2>5, <2>6, <2>7, <2>8, <2>9, Zenon DEF GoesOn
<1>6. ASSUME NEW s \in Stages, Fails(s) PROVE RuntimeCalm'
  <2>1. CASE s = "runtime"
    BY <1>4, <1>6, <2>1, FailsMeans
  <2>2. CASE s # "runtime"
    BY <1>3, <1>6, <2>2, StageNames, FailsMeans
  <2> QED
    BY <2>1, <2>2
<1>7. ASSUME NEW s \in Stages, Start(s) PROVE RuntimeCalm'
  <2>1. CASE s = "runtime"
    BY <1>4, <1>7, <2>1, StartMeans
  <2>2. CASE s # "runtime"
    BY <1>3, <1>7, <2>2, StageNames, StartMeans
  <2> QED
    BY <2>1, <2>2
<1>8. ASSUME NEW s \in Stages, Complete(s) PROVE RuntimeCalm'
  <2>1. job'[s].pc = "idle" /\ \A t \in Stages : t # s => job'[t] = job[t]
    BY <1>8, CompleteMeans, Zenon
  <2>2. CASE s = "runtime"
    BY <1>4, <2>1, <2>2
  <2>3. CASE s # "runtime"
    BY <1>3, <2>1, <2>3, StageNames
  <2> QED
    BY <2>2, <2>3
<1>9. ASSUME NEW fault \in EvidenceFaults, NEW success \in BOOLEAN, RunE2E(fault, success)
      PROVE  RuntimeCalm'
  BY <1>3, <1>9, Zenon DEF RunE2E
<1>10. ASSUME NEW d \in done, NEW from \in {"start", "sign"}, Rerun(d, from)
       PROVE  RuntimeCalm'
  BY <1>3, <1>10, RerunMeans
<1>11. UNCHANGED vars => RuntimeCalm'
  BY <1>3 DEF vars
<1>12. ASSUME NEW s \in Stages, SkippedRun(s) PROVE RuntimeCalm'
  BY <1>3, <1>12, SkippedMeans
<1> QED
  BY <1>1, <1>5, <1>6, <1>7, <1>8, <1>9, <1>10, <1>11, <1>12, StepIs

(* Which runs of the runtime verification there are changes only when a    *)
(* deployment completes: it starts the next one.                           *)
LEMMA RunsAre ==
  /\ \A d \in done : d.stage = "runtime" => d.run \in Runs
  /\ job["runtime"].run \in Runs /\ pending["runtime"].run \in Runs /\ 0 \in Runs
  /\ \A n \in Runs : \/ n \in {job["runtime"].run, pending["runtime"].run, 0}
                     \/ \E d \in done : d.stage = "runtime" /\ d.run = n
BY DEF Runs, RunsOf

LEMMA RunsAreNext ==
  /\ \A d \in done' : d.stage = "runtime" => d.run \in Runs'
  /\ job'["runtime"].run \in Runs' /\ pending'["runtime"].run \in Runs' /\ 0 \in Runs'
  /\ \A n \in Runs' : \/ n \in {job'["runtime"].run, pending'["runtime"].run, 0}
                      \/ \E d \in done' : d.stage = "runtime" /\ d.run = n
BY DEF Runs, RunsOf

LEMMA RunsAsBefore ==
  ASSUME done \subseteq done',
         \A d \in done' : d.stage = "runtime" => d \in done \/ d.run \in Runs,
         job'["runtime"].run \in Runs, pending'["runtime"].run \in Runs,
         job["runtime"].run \in Runs', pending["runtime"].run \in Runs'
  PROVE  Runs' = Runs
<1>1. ASSUME NEW n \in Runs PROVE n \in Runs'
  BY <1>1, RunsAre, RunsAreNext
<1>2. ASSUME NEW n \in Runs' PROVE n \in Runs
  BY <1>2, RunsAre, RunsAreNext
<1> QED
  BY <1>1, <1>2

LEMMA RunsStay ==
  ASSUME TypeInv, RunsInv, [Next]_vars, ~Complete("deployment")
  PROVE  Runs' = Runs
<1> DEFINE j == job["runtime"]
           p == pending["runtime"]
<1>0. j.run \in Runs /\ p.run \in Runs /\ 0 \in Runs
  BY RunsAre
<1>1. job'["runtime"].run \in Runs' /\ pending'["runtime"].run \in Runs' /\ 0 \in Runs'
  BY RunsAreNext
<1>2. NoTrigger.run = 0
  BY DEF NoTrigger
<1>3. ASSUME job'["runtime"].run = j.run, pending'["runtime"] = p, done \subseteq done',
             \A d \in done' : d.stage = "runtime" => d \in done
      PROVE  Runs' = Runs
  BY <1>0, <1>1, <1>3, RunsAsBefore
<1>4. ASSUME job'["runtime"].run = 0, pending'["runtime"] = p,
             NEW outcome \in Outcome, done' = done \cup {EndOf("runtime", outcome)}
      PROVE  Runs' = Runs
  <2>1. PICK d : d = EndOf("runtime", outcome)
    OBVIOUS
  <2>2. d.stage = "runtime" /\ d.run = j.run
    BY <2>1, StageNames, EndTyped
  <2>3. j.run \in Runs'
    BY <1>4, <2>1, <2>2, RunsAreNext
  <2> QED
    BY <1>0, <1>1, <1>4, <2>1, <2>2, <2>3, RunsAsBefore
<1>5. CASE GoesOn
  <2>1. PICK s \in Stages : Continues(s)
    BY <1>5, GoesOnContinues
  <2> QED
    BY <1>3, <2>1, StageNames DEF Continues
<1>6. ASSUME NEW s \in Stages, Fails(s) PROVE Runs' = Runs
  <2>1. PICK outcome \in Outcome : done' = done \cup {EndOf(s, outcome)}
    BY <1>6, FailsMeans
  <2>2. /\ job'[s].run = 0 /\ UNCHANGED pending
        /\ \A t \in Stages : t # s => job'[t] = job[t]
    BY <1>6, FailsMeans
  <2>3. CASE s = "runtime"
    BY <1>4, <2>1, <2>2, <2>3
  <2>4. CASE s # "runtime"
    <3>1. PICK d : d = EndOf(s, outcome)
      OBVIOUS
    <3>2. d.stage = s
      BY <3>1, EndTyped
    <3> QED
      BY <1>3, <2>1, <2>2, <2>4, <3>1, <3>2, StageNames
  <2> QED
    BY <2>3, <2>4
<1>7. ASSUME NEW s \in Stages, Start(s) PROVE Runs' = Runs
  <2>1. /\ pending'[s] = NoTrigger /\ \A u \in Stages : u # s => pending'[u] = pending[u]
        /\ job'[s].run = pending[s].run /\ \A t \in Stages : t # s => job'[t] = job[t]
        /\ job[s].pc = "idle" /\ UNCHANGED done
    BY <1>7, StartMeans
  <2>2. CASE s = "runtime"
    <3>1. j.run = 0 /\ pending'["runtime"].run = 0 /\ job'["runtime"].run = p.run
      BY <1>2, <2>1, <2>2 DEF RunsInv
    <3> QED
      BY <1>0, <1>1, <2>1, <3>1, RunsAsBefore
  <2>3. CASE s # "runtime"
    BY <1>3, <2>1, <2>3, StageNames
  <2> QED
    BY <2>2, <2>3
<1>8. ASSUME NEW s \in Stages, Complete(s) PROVE Runs' = Runs
  <2> DEFINE next == IF s = "promotion" THEN "deployment" ELSE "runtime"
             cause == [run |-> job[s].run, attempt |-> job[s].attempt]
  <2>0. "success" \in Outcome /\ s \in {"promotion", "runtime"}
    BY <1>8 DEF Stages, Outcome
  <2>1. /\ job'[s].run = 0 /\ \A t \in Stages : t # s => job'[t] = job[t]
        /\ s = "runtime" => UNCHANGED pending /\ done' = done \cup {EndOf(s, "success")}
        /\ s # "runtime" =>
              /\ \A u \in Stages : u # next => pending'[u] = pending[u]
              /\ done' = done \cup {EndOf(s, "success")} \cup Cancelled(next)
    BY <1>8, CompleteMeans, Zenon
  <2>2. CASE s = "runtime"
    BY <1>4, <2>0, <2>1, <2>2
  <2>3. CASE s = "promotion"
    <3>1. PICK d : d = EndOf(s, "success")
      OBVIOUS
    <3>2. d.stage = "promotion"
      BY <2>0, <2>3, <3>1, EndTyped
    <3>3. \A c \in Cancelled("deployment") : c.stage = "deployment"
      BY StageNames, CancelledIs
    <3>4. done' = done \cup {d} \cup Cancelled("deployment")
      BY <2>1, <2>3, <3>1
    <3> QED
      BY <1>3, <2>1, <2>3, <3>2, <3>3, <3>4, StageNames
  <2> QED
    BY <2>0, <2>2, <2>3
<1>9. ASSUME NEW fault \in EvidenceFaults, NEW success \in BOOLEAN, RunE2E(fault, success)
      PROVE  Runs' = Runs
  <2>1. \A c \in Cancelled("promotion") : c.stage = "promotion"
    BY StageNames, CancelledIs
  <2>2. /\ UNCHANGED job
        /\ \/ UNCHANGED <<pending, done>>
           \/ /\ \A u \in Stages : u # "promotion" => pending'[u] = pending[u]
              /\ done' = done \cup Cancelled("promotion")
    BY <1>9, RunE2EMeans
  <2> QED
    BY <1>3, <2>1, <2>2, StageNames
<1>10. ASSUME NEW d \in done, NEW from \in {"start", "sign"}, Rerun(d, from)
       PROVE  Runs' = Runs
  <2> DEFINE t == [run |-> d.run, attempt |-> d.attempt + 1, cause |-> d.cause, from |-> from]
  <2>1. /\ d.stage \in Stages /\ pending'[d.stage] = t
        /\ \A u \in Stages : u # d.stage => pending'[u] = pending[u]
        /\ done' = done \cup Cancelled(d.stage) /\ UNCHANGED job
    BY <1>10, RerunMeans, Zenon
  <2>2. t.run = d.run
    OBVIOUS
  <2> HIDE DEF t
  <2>3. \A c \in Cancelled(d.stage) : c.stage = d.stage /\ c.run = pending[d.stage].run
    BY <2>1, CancelledIs
  <2>4. CASE d.stage = "runtime"
    <3>1. pending'["runtime"].run \in Runs
      BY <2>1, <2>2, <2>4, RunsAre
    <3>2. p.run \in Runs'
      <4>1. CASE p = NoTrigger
        BY <1>1, <1>2, <4>1
      <4>2. CASE p # NoTrigger
        <5>1. PICK c \in Cancelled("runtime") : c.run = p.run
          BY <4>2, StageNames, CancelledIs
        <5> QED
          BY <2>1, <2>3, <2>4, <5>1, RunsAreNext
      <4> QED
        BY <4>1, <4>2
    <3> QED
      BY <1>0, <1>1, <2>1, <2>3, <2>4, <3>1, <3>2, RunsAsBefore
  <2>5. CASE d.stage # "runtime"
    BY <1>3, <2>1, <2>3, <2>5, StageNames
  <2> QED
    BY <2>4, <2>5
<1>11. ASSUME UNCHANGED <<pending, job, done>> PROVE Runs' = Runs
  BY <1>3, <1>11
<1>12. UNCHANGED vars => UNCHANGED <<pending, job, done>>
  BY DEF vars
<1>13. ASSUME NEW s \in Stages, SkippedRun(s) PROVE Runs' = Runs
  <2>1. /\ done' = done \cup Waiting(s, "displaced") /\ UNCHANGED job
        /\ \A c \in Waiting(s, "displaced") : c.stage = s /\ c.run = pending[s].run
        /\ \E c \in Waiting(s, "displaced") : c.run = pending[s].run
        /\ pending'[s].run = 0 /\ \A u \in Stages : u # s => pending'[u] = pending[u]
    BY <1>13, SkippedMeans DEF NoTrigger
  <2>2. CASE s = "runtime"
    <3>1. pending'["runtime"].run \in Runs
      BY <2>1, <2>2, RunsAre
    <3>2. p.run \in Runs'
      BY <2>1, <2>2, RunsAreNext
    <3> QED
      BY <1>0, <1>1, <2>1, <2>2, <3>1, <3>2, RunsAsBefore
  <2>3. CASE s # "runtime"
    BY <1>3, <2>1, <2>3, StageNames
  <2> QED
    BY <2>2, <2>3
<1> QED
  BY <1>5, <1>6, <1>7, <1>8, <1>9, <1>10, <1>11, <1>12, <1>13, StepIs

(* A deployment that completes starts a run of a new number. *)
LEMMA RunsGrow ==
  ASSUME TypeInv, RunsInv, Complete("deployment")
  PROVE  /\ pending'["runtime"].run \notin Runs
         /\ Runs' = Runs \cup {pending'["runtime"].run}
         /\ \E last \in Nat : Runs' = 0 .. last
<1>1. PICK last \in Nat : Runs = 0 .. last
  BY DEF RunsInv
<1> DEFINE cause == [run |-> job["deployment"].run, attempt |-> job["deployment"].attempt]
<1>2. /\ pending'["runtime"] = FirstAttempt("runtime", cause)
      /\ job'["runtime"] = job["runtime"] /\ cause \in Run
      /\ done' = done \cup {EndOf("deployment", "success")} \cup Cancelled("runtime")
  <2>1. PICK s \in Stages : s = "deployment"
    BY StageNames
  <2>2. Complete(s)
    BY <2>1
  <2>3. LET next == IF s = "promotion" THEN "deployment" ELSE "runtime"
            c == [run |-> job[s].run, attempt |-> job[s].attempt]
        IN  /\ \A t \in Stages : t # s => job'[t] = job[t]
            /\ c \in Run
            /\ s # "runtime" =>
                  /\ pending'[next] = FirstAttempt(next, c)
                  /\ done' = done \cup {EndOf(s, "success")} \cup Cancelled(next)
    BY <2>2, CompleteMeans, Zenon
  <2> QED
    BY <2>1, <2>3, StageNames
<1>3. pending'["runtime"].run = last + 1
  <2>1. PICK c \in Run : c = cause
    BY <1>2
  <2>2. FirstAttempt("runtime", c).run = Cardinality(Runs)
    BY StageNames, FirstTyped DEF Runs
  <2>3. Cardinality(0 .. last) = last + 1
    BY <1>1, FS_Interval
  <2> QED
    BY <1>1, <1>2, <2>1, <2>2, <2>3
<1>4. Runs' = Runs \cup {last + 1}
  <2>1. PICK d : d = EndOf("deployment", "success")
    OBVIOUS
  <2>2. d.stage = "deployment"
    <3>1. "success" \in Outcome
      BY DEF Outcome
    <3> QED
      BY <2>1, <3>1, StageNames, EndTyped
  <2>3. \A c \in Cancelled("runtime") : c.stage = "runtime" /\ c.run = pending["runtime"].run
    BY StageNames, CancelledIs
  <2>4. pending["runtime"].run \in Runs'
    <3>1. CASE pending["runtime"] = NoTrigger
      <4>1. pending["runtime"].run = 0
        BY <3>1 DEF NoTrigger
      <4> QED
        BY <4>1, RunsAreNext
    <3>2. CASE pending["runtime"] # NoTrigger
      <4>1. PICK c \in Cancelled("runtime") : c.run = pending["runtime"].run
        BY <3>2, StageNames, CancelledIs
      <4> QED
        BY <1>2, <2>3, <4>1, RunsAreNext
    <3> QED
      BY <3>1, <3>2
  <2>5. ASSUME NEW n \in Runs PROVE n \in Runs'
    BY <1>2, <2>4, <2>5, RunsAre, RunsAreNext
  <2>6. ASSUME NEW n \in Runs' PROVE n \in Runs \cup {last + 1}
    BY <1>2, <1>3, <2>1, <2>2, <2>3, <2>6, RunsAre, RunsAreNext
  <2>7. last + 1 \in Runs'
    BY <1>3, RunsAreNext
  <2> QED
    BY <2>5, <2>6, <2>7
<1>5. last + 1 \notin 0 .. last /\ (0 .. last) \cup {last + 1} = 0 .. (last + 1) /\ last + 1 \in Nat
  BY <1>1
<1> QED
  BY <1>1, <1>3, <1>4, <1>5

(* What a run of the verification has uploaded changes by its upload only. *)
LEMMA UploadsStay ==
  ASSUME NEW run, made \subseteq made',
         \A a \in made' : a \in made \/ a.id.stage # "runtime" \/ a.id.run # run
  PROVE  UploadsOf(run)' = UploadsOf(run)
BY DEF UploadsOf

(* How the runtime verification goes on, as far as its sign job and its    *)
(* uploads are concerned.                                                  *)
Signs ==
    /\ (job'["runtime"].pc \in Signing) = (job["runtime"].pc \in Signing)
    /\ SignsTheSame("runtime")
Uploads ==
    /\ job["runtime"].pc = "upload" /\ job'["runtime"].pc = "select"
    /\ job'["runtime"].signing = TRUE /\ made' = made \cup {Built("runtime")}

LEMMA RuntimeGoesOn ==
  ASSUME TypeInv, GoesOn
  PROVE  \/ /\ job'["runtime"] = job["runtime"] \/ Signs
            /\ \A a \in made' : a \in made \/ a.id.stage # "runtime"
         \/ Uploads
<1> DEFINE Same == job'["runtime"] = job["runtime"] \/ Signs
           NoUpload == \A a \in made' : a \in made \/ a.id.stage # "runtime"
<1>1. Still \/ UNCHANGED <<artifacts, made>> => NoUpload
  BY DEF Still
<1>2. ASSUME NEW s \in Stages, s # "runtime", NEW from, NEW to, Passes(s, from, to)
      PROVE  Same
  BY <1>2, StageNames DEF Passes
<1>3. ASSUME NEW from, NEW to, Passes("runtime", from, to), SignsTheSame("runtime"),
             (from \in Signing) = (to \in Signing)
      PROVE  Same
  BY <1>3 DEF Passes, Signs
<1>4. ASSUME NEW s \in Stages, Passes(s, "select", IF s = "runtime" THEN "observe" ELSE "download"),
             SignsTheSame(s)
      PROVE  Same
  <2>1. ("select" \in Signing) = ("observe" \in Signing)
    BY DEF Signing
  <2> QED
    BY <1>2, <1>3, <1>4, <2>1
<1>5. ASSUME NEW s \in {"deployment", "runtime"}, Passes(s, "fetch", "pull"), SignsTheSame(s)
      PROVE  Same
  <2>1. ("fetch" \in Signing) = ("pull" \in Signing)
    BY DEF Signing
  <2> QED
    BY <1>2, <1>3, <1>5, <2>1, StageNames
<1>6. ASSUME NEW s \in {"deployment", "runtime"},
             Passes(s, "pull", IF s = "runtime" THEN "extract" ELSE "build"), SignsTheSame(s)
      PROVE  Same
  <2>1. ("pull" \in Signing) = ("extract" \in Signing)
    BY DEF Signing
  <2> QED
    BY <1>2, <1>3, <1>6, <2>1, StageNames
<1>7. ASSUME NEW s \in Stages, Passes(s, "upload", IF s = "runtime" THEN "select" ELSE "complete"),
             job'[s].signing = (s = "runtime"), made' = made \cup {Built(s)}
      PROVE  (Same /\ NoUpload) \/ Uploads
  <2>1. CASE s = "runtime"
    BY <1>7, <2>1 DEF Passes, Uploads
  <2>2. CASE s # "runtime"
    <3>1. PICK b : b = Built(s)
      OBVIOUS
    <3>2. b.id = [stage |-> s, run |-> job[s].run, attempt |-> job[s].attempt]
      BY <3>1, BuiltIs
    <3> QED
      BY <1>2, <1>7, <2>2, <3>1, <3>2
  <2> QED
    BY <2>1, <2>2
<1>8. ASSUME NEW s \in {"promotion", "deployment"}, NEW from, NEW to, Passes(s, from, to)
      PROVE  Same
  BY <1>2, <1>8, StageNames
<1>9. ASSUME NEW pass \in {<<"extract", "execute">>, <<"execute", "build">>, <<"build", "upload">>,
                          <<"observe", "seal">>, <<"seal", "audit">>, <<"audit", "receipt">>,
                          <<"receipt", "complete">>},
             Passes("runtime", pass[1], pass[2]), SignsTheSame("runtime")
      PROVE  Same
  <2>1. (pass[1] \in Signing) = (pass[2] \in Signing)
    BY DEF Signing
  <2> QED
    BY <1>3, <1>9, <2>1
<1>10. "promotion" \in {"promotion", "deployment"} /\ "deployment" \in {"promotion", "deployment"}
  OBVIOUS
<1> HIDE DEF Same, NoUpload
<1>11. (Same /\ NoUpload) \/ Uploads
  BY <1>1, <1>4, <1>5, <1>6, <1>7, <1>8, <1>9, <1>10, Zenon DEF GoesOn
<1> QED
  BY <1>11 DEF Same, NoUpload

(* Numbers of runs, waiting and running attempts of the verification, and  *)
(* what they uploaded.                                                     *)
LEMMA RunsStep ==
  ASSUME TypeInv, FirstInv, [Next]_vars
  PROVE  RunsInv' /\ Runs \subseteq Runs'
<1>0. RunsInv
  BY DEF FirstInv
<1> DEFINE j == job["runtime"]
<1>1. ASSUME ~Complete("deployment") PROVE \E last \in Nat : Runs' = 0 .. last
  BY <1>0, <1>1, RunsStay DEF RunsInv
<1>2. \E last \in Nat : Runs' = 0 .. last
  BY <1>0, <1>1, RunsGrow
<1>3. Runs \subseteq Runs'
  BY <1>0, RunsStay, RunsGrow
<1>4. job'["runtime"].pc = "idle" => job'["runtime"].run = 0
  <2>1. ASSUME job'["runtime"] = j PROVE job'["runtime"].pc = "idle" => job'["runtime"].run = 0
    BY <1>0, <2>1 DEF RunsInv
  <2>2. CASE GoesOn
    <3>1. PICK s \in Stages : Continues(s)
      BY <2>2, GoesOnContinues
    <3>2. CASE s = "runtime"
      BY <3>1, <3>2 DEF Continues
    <3>3. CASE s # "runtime"
      BY <2>1, <3>1, <3>3, StageNames DEF Continues
    <3> QED
      BY <3>2, <3>3
  <2>3. ASSUME NEW s \in Stages, Fails(s)
        PROVE  job'["runtime"].pc = "idle" => job'["runtime"].run = 0
    BY <2>1, <2>3, StageNames, FailsMeans
  <2>4. ASSUME NEW s \in Stages, Start(s)
        PROVE  job'["runtime"].pc = "idle" => job'["runtime"].run = 0
    BY <2>1, <2>4, StageNames, StartMeans
  <2>5. ASSUME NEW s \in Stages, Complete(s)
        PROVE  job'["runtime"].pc = "idle" => job'["runtime"].run = 0
    <3>1. job'[s].run = 0 /\ \A t \in Stages : t # s => job'[t] = job[t]
      BY <2>5, CompleteMeans, Zenon
    <3> QED
      BY <2>1, <3>1, StageNames
  <2>6. ASSUME NEW fault \in EvidenceFaults, NEW success \in BOOLEAN, RunE2E(fault, success)
        PROVE  job'["runtime"] = j
    BY <2>6, Zenon DEF RunE2E
  <2>7. ASSUME NEW d \in done, NEW from \in {"start", "sign"}, Rerun(d, from)
        PROVE  job'["runtime"] = j
    BY <2>7, RerunMeans
  <2>8. UNCHANGED vars => job'["runtime"] = j
    BY DEF vars
  <2>9. ASSUME NEW s \in Stages, SkippedRun(s) PROVE job'["runtime"] = j
    BY <2>9, SkippedMeans
  <2> QED
    BY <2>1, <2>2, <2>3, <2>4, <2>5, <2>6, <2>7, <2>8, <2>9, StepIs
<1> QED
  BY <1>2, <1>3, <1>4 DEF RunsInv

(* Every runtime source is from a run there is, and every attempt that     *)
(* ended was at least the first.                                           *)
LEMMA NumbersStep ==
  ASSUME TypeInv, FirstInv, [Next]_vars
  PROVE  /\ \A a \in made' : a.id.stage = "runtime" => a.id.run \in Runs'
         /\ \A d \in done' : d.stage = "runtime" => d.attempt >= 1
<1>0. /\ \A a \in made : a.id.stage = "runtime" => a.id.run \in Runs
      /\ \A d \in done : d.stage = "runtime" => d.attempt >= 1
      /\ WaitingInv /\ SigningInv
  BY DEF FirstInv
<1>1. Runs \subseteq Runs'
  BY RunsStep
<1> DEFINE Numbered == \A a \in made' : a.id.stage = "runtime" => a.id.run \in Runs'
           Counted == \A d \in done' : d.stage = "runtime" => d.attempt >= 1
<1>2. ASSUME \A a \in made' : a \in made \/ a.id.stage # "runtime" PROVE Numbered
  BY <1>0, <1>1, <1>2
<1>3. \A d \in Cancelled("runtime") : d.stage = "runtime" /\ d.attempt >= 1
  BY <1>0, StageNames, CancelledIs DEF WaitingInv
<1>4. \A s \in Stages : s # "runtime" => \A d \in Cancelled(s) : d.stage # "runtime"
  BY CancelledIs
<1>5. \A s \in Stages : \A d \in Cancelled(s) : d.stage = "runtime" => d.attempt >= 1
  BY <1>3, <1>4
<1>6. ASSUME NEW s \in Stages, NEW outcome \in Outcome, job[s].pc # "idle"
      PROVE  EndOf(s, outcome).stage = "runtime" => EndOf(s, outcome).attempt >= 1
  <2>1. PICK d : d = EndOf(s, outcome)
    OBVIOUS
  <2>2. d.stage = s /\ d.attempt = job[s].attempt
    BY <2>1, EndTyped
  <2>3. d.stage = "runtime" => d.attempt >= 1
    BY <1>0, <1>6, <2>2 DEF SigningInv
  <2> QED
    BY <2>1, <2>3
<1>7. CASE GoesOn
  <2>1. PICK s \in Stages : Continues(s)
    BY <1>7, GoesOnContinues
  <2>2. Counted
    BY <1>0, <2>1 DEF Continues
  <2>3. CASE Uploads
    <3>1. PICK b : b = Built("runtime")
      OBVIOUS
    <3>2. /\ b.id = [stage |-> "runtime", run |-> job["runtime"].run,
                     attempt |-> job["runtime"].attempt]
          /\ made' = made \cup {b}
      BY <2>3, <3>1, StageNames, BuiltIs DEF Uploads
    <3>3. job["runtime"].run \in Runs
      BY RunsAre
    <3>4. b.id.run \in Runs'
      BY <1>1, <3>2, <3>3
    <3> QED
      BY <1>0, <1>1, <2>2, <3>2, <3>4
  <2> QED
    BY <1>2, <1>7, <2>2, <2>3, RuntimeGoesOn
<1>8. ASSUME NEW s \in Stages, Fails(s) PROVE Numbered /\ Counted
  <2>1. PICK outcome \in Outcome : done' = done \cup {EndOf(s, outcome)}
    BY <1>8, FailsMeans
  <2>2. job[s].pc # "idle" /\ UNCHANGED made
    BY <1>8, FailsMeans
  <2> QED
    BY <1>0, <1>2, <1>6, <2>1, <2>2
<1>9. ASSUME NEW s \in Stages, Start(s) PROVE Numbered /\ Counted
  BY <1>0, <1>2, <1>9, StartMeans
<1>10. ASSUME NEW s \in Stages, Complete(s) PROVE Numbered /\ Counted
  <2> DEFINE next == IF s = "promotion" THEN "deployment" ELSE "runtime"
             cause == [run |-> job[s].run, attempt |-> job[s].attempt]
  <2>1. /\ job[s].pc = "complete" /\ UNCHANGED made
        /\ s = "runtime" => UNCHANGED pending /\ done' = done \cup {EndOf(s, "success")}
        /\ s # "runtime" =>
              /\ pending'[next] = FirstAttempt(next, cause)
              /\ \A u \in Stages : u # next => pending'[u] = pending[u]
              /\ done' = done \cup {EndOf(s, "success")} \cup Cancelled(next)
    BY <1>10, CompleteMeans, Zenon
  <2>2. next \in Stages /\ "success" \in Outcome
    BY DEF Stages, Outcome
  <2> HIDE DEF next, cause
  <2> QED
    BY <1>0, <1>2, <1>5, <1>6, <2>1, <2>2
<1>11. ASSUME NEW fault \in EvidenceFaults, NEW success \in BOOLEAN, RunE2E(fault, success)
       PROVE  Numbered /\ Counted
  <2>1. PICK a \in Archive, r \in Run :
           /\ made' = made \cup {a}
           /\ a.id = [stage |-> "e2e", run |-> r.run, attempt |-> r.attempt]
           /\ \/ UNCHANGED <<pending, done>>
              \/ done' = done \cup Cancelled("promotion")
    BY <1>11, RunE2EMeans
  <2>2. a.id.stage # "runtime"
    BY <2>1
  <2> QED
    BY <1>0, <1>2, <1>5, <2>1, <2>2, StageNames
<1>12. ASSUME NEW d \in done, NEW from \in {"start", "sign"}, Rerun(d, from)
       PROVE  Numbered /\ Counted
  <2>1. /\ d.stage \in Stages /\ done' = done \cup Cancelled(d.stage) /\ UNCHANGED made
    BY <1>12, RerunMeans
  <2> QED
    BY <1>0, <1>2, <1>5, <2>1
<1>13. ASSUME UNCHANGED <<done, made>> PROVE Numbered /\ Counted
  BY <1>0, <1>2, <1>13
<1>14. UNCHANGED vars => UNCHANGED <<done, made>>
  BY DEF vars
<1>15. ASSUME NEW s \in Stages, SkippedRun(s) PROVE Numbered /\ Counted
  <2>1. /\ done' = done \cup Waiting(s, "displaced") /\ UNCHANGED made /\ pending[s] # NoTrigger
        /\ \A d \in Waiting(s, "displaced") : d.stage = s /\ d.attempt = pending[s].attempt
    BY <1>15, SkippedMeans
  <2>2. \A d \in Waiting(s, "displaced") : d.stage = "runtime" => d.attempt >= 1
    BY <1>0, <2>1 DEF WaitingInv
  <2> QED
    BY <1>0, <1>2, <2>1, <2>2
<1> QED
  BY <1>7, <1>8, <1>9, <1>10, <1>11, <1>12, <1>13, <1>14, <1>15, StepIs

LEMMA WaitingStep ==
  ASSUME TypeInv, FirstInv, [Next]_vars
  PROVE  WaitingInv'
<1>0. /\ WaitingInv /\ RunsInv
      /\ \A a \in made : a.id.stage = "runtime" => a.id.run \in Runs
      /\ \A d \in done : d.stage = "runtime" => d.attempt >= 1
  BY DEF FirstInv
<1> DEFINE j == job["runtime"]
           p == pending["runtime"]
<1>1. /\ p # NoTrigger => p.attempt >= 1 /\ p.from \in {"start", "sign"}
      /\ p # NoTrigger /\ p.attempt = 1 => p.from = "start" /\ UploadsOf(p.run) = {}
      /\ p # NoTrigger /\ j.pc # "idle" => p.run # j.run
  BY <1>0 DEF WaitingInv
<1>2. ASSUME pending'["runtime"] = p, made \subseteq made',
             \A a \in made' : a \in made \/ a.id.stage # "runtime"
                                \/ (a.id.run = j.run /\ j.pc # "idle"),
             job'["runtime"].pc # "idle" => j.pc # "idle" /\ job'["runtime"].run = j.run
      PROVE  WaitingInv'
  <2>1. PICK n : n = p.run
    OBVIOUS
  <2>2. p # NoTrigger => \A a \in made' : a \in made \/ a.id.stage # "runtime" \/ a.id.run # n
    BY <1>1, <1>2, <2>1
  <2>3. p # NoTrigger => UploadsOf(n)' = UploadsOf(n)
    BY <1>2, <2>2, UploadsStay
  <2>4. p # NoTrigger /\ p.attempt = 1 => UploadsOf(n)' = {}
    BY <1>1, <2>1, <2>3
  <2>5. p # NoTrigger /\ job'["runtime"].pc # "idle" => n # job'["runtime"].run
    BY <1>1, <1>2, <2>1
  <2> QED
    BY <1>1, <1>2, <2>1, <2>4, <2>5 DEF WaitingInv, UploadsOf
<1>3. CASE GoesOn
  <2>1. PICK s \in Stages : Continues(s)
    BY <1>3, GoesOnContinues
  <2>2. /\ pending'["runtime"] = p /\ made \subseteq made'
        /\ job'["runtime"].pc # "idle" => j.pc # "idle" /\ job'["runtime"].run = j.run
    BY <2>1, StageNames DEF Continues
  <2>3. CASE Uploads
    <3>1. PICK b : b = Built("runtime")
      OBVIOUS
    <3>2. /\ b.id = [stage |-> "runtime", run |-> job["runtime"].run,
                     attempt |-> job["runtime"].attempt]
          /\ made' = made \cup {b}
      BY <2>3, <3>1, StageNames, BuiltIs DEF Uploads
    <3>3. j.pc # "idle"
      BY <2>3 DEF Uploads
    <3>4. \A a \in made' : a \in made \/ (a.id.run = j.run /\ j.pc # "idle")
      BY <3>2, <3>3
    <3> QED
      BY <1>2, <2>2, <3>4
  <2> QED
    BY <1>2, <1>3, <2>2, <2>3, RuntimeGoesOn
<1>4. ASSUME NEW s \in Stages, Fails(s) PROVE WaitingInv'
  BY <1>2, <1>4, StageNames, FailsMeans
<1>5. ASSUME NEW s \in Stages, Start(s) PROVE WaitingInv'
  <2>1. CASE s = "runtime"
    BY <1>5, <2>1, StartMeans DEF WaitingInv
  <2>2. CASE s # "runtime"
    BY <1>2, <1>5, <2>2, StageNames, StartMeans
  <2> QED
    BY <2>1, <2>2
<1>6. ASSUME NEW s \in Stages, Complete(s) PROVE WaitingInv'
  <2> DEFINE next == IF s = "promotion" THEN "deployment" ELSE "runtime"
             cause == [run |-> job[s].run, attempt |-> job[s].attempt]
  <2>1. /\ UNCHANGED made /\ job'[s].pc = "idle" /\ \A t \in Stages : t # s => job'[t] = job[t]
        /\ s = "runtime" => UNCHANGED pending
        /\ s # "runtime" =>
              /\ pending'[next] = FirstAttempt(next, cause)
              /\ \A u \in Stages : u # next => pending'[u] = pending[u]
        /\ cause \in Run
    BY <1>6, CompleteMeans, Zenon
  <2>2. CASE s \in {"promotion", "runtime"}
    <3>1. pending'["runtime"] = p
      BY <2>1, <2>2, StageNames
    <3>2. job'["runtime"].pc # "idle" => job'["runtime"] = j
      BY <2>1, StageNames
    <3> QED
      BY <1>2, <2>1, <3>1, <3>2
  <2>3. CASE s = "deployment"
    <3>1. Complete("deployment")
      BY <1>6, <2>3
    <3>2. PICK c \in Run : c = cause
      BY <2>1
    <3>3. pending'["runtime"] = FirstAttempt("runtime", c)
      BY <2>1, <2>3, <3>2
    <3>4. pending'["runtime"].attempt = 1 /\ pending'["runtime"].from = "start"
      <4>1. c \in Run
        BY <3>2
      <4>2. FirstAttempt("runtime", c).attempt = 1 /\ FirstAttempt("runtime", c).from = "start"
        BY <4>1, StageNames, FirstTyped
      <4> QED
        BY <3>3, <4>2
    <3>5. pending'["runtime"].run \notin Runs
      BY <1>0, <3>1, RunsGrow
    <3>6. \A a \in made' : ~(a.id.stage = "runtime" /\ a.id.run = pending'["runtime"].run)
      BY <1>0, <2>1, <3>5
    <3>7. job'["runtime"].run \in Runs
      BY <2>1, <2>3, StageNames, RunsAre
    <3>8. {a \in made' : a.id.stage = "runtime" /\ a.id.run = pending'["runtime"].run} = {}
      BY <3>6
    <3> QED
      BY <3>4, <3>5, <3>7, <3>8 DEF WaitingInv, UploadsOf
  <2> QED
    BY <2>2, <2>3 DEF Stages
<1>7. ASSUME NEW fault \in EvidenceFaults, NEW success \in BOOLEAN, RunE2E(fault, success)
      PROVE  WaitingInv'
  <2>1. PICK a \in Archive, r \in Run :
           /\ made' = made \cup {a}
           /\ a.id = [stage |-> "e2e", run |-> r.run, attempt |-> r.attempt]
           /\ UNCHANGED job
           /\ \/ UNCHANGED <<pending, done>>
              \/ \A u \in Stages : u # "promotion" => pending'[u] = pending[u]
    BY <1>7, RunE2EMeans
  <2>2. a.id.stage # "runtime"
    BY <2>1
  <2>3. pending'["runtime"] = p
    BY <2>1, StageNames
  <2> QED
    BY <1>2, <2>1, <2>2, <2>3
<1>8. ASSUME NEW d \in done, NEW from \in {"start", "sign"}, Rerun(d, from)
      PROVE  WaitingInv'
  <2> DEFINE t == [run |-> d.run, attempt |-> d.attempt + 1, cause |-> d.cause, from |-> from]
  <2>1. /\ d.stage \in Stages /\ pending'[d.stage] = t /\ d.attempt \in Nat
        /\ \A u \in Stages : u # d.stage => pending'[u] = pending[u]
        /\ d.run # job[d.stage].run /\ UNCHANGED <<job, made>>
    BY <1>8, RerunMeans, Zenon
  <2>2. t.run = d.run /\ t.attempt = d.attempt + 1 /\ t.from = from
    OBVIOUS
  <2> HIDE DEF t
  <2>3. CASE d.stage = "runtime"
    <3>1. d.attempt + 1 >= 1 /\ d.attempt + 1 # 1
      BY <1>0, <2>1, <2>3
    <3>2. pending'["runtime"] = t
      BY <2>1, <2>3
    <3> QED
      BY <2>1, <2>2, <2>3, <3>1, <3>2 DEF WaitingInv
  <2>4. CASE d.stage # "runtime"
    BY <1>2, <2>1, <2>4, StageNames
  <2> QED
    BY <2>3, <2>4
<1>9. ASSUME UNCHANGED <<pending, job, made>> PROVE WaitingInv'
  BY <1>2, <1>9
<1>10. UNCHANGED vars => UNCHANGED <<pending, job, made>>
  BY DEF vars
<1>11. ASSUME NEW s \in Stages, SkippedRun(s) PROVE WaitingInv'
  <2>1. CASE s = "runtime"
    BY <1>11, <2>1, SkippedMeans DEF WaitingInv
  <2>2. CASE s # "runtime"
    BY <1>2, <1>11, <2>2, StageNames, SkippedMeans
  <2> QED
    BY <2>1, <2>2
<1> QED
  BY <1>3, <1>4, <1>5, <1>6, <1>7, <1>8, <1>9, <1>10, <1>11, StepIs

LEMMA SigningStep ==
  ASSUME TypeInv, FirstInv, [Next]_vars
  PROVE  SigningInv'
<1>0. SigningInv /\ WaitingInv
  BY DEF FirstInv
<1> DEFINE j == job["runtime"]
           first == [stage |-> "runtime", run |-> j.run, attempt |-> 1]
<1>1. /\ j.pc # "idle" => j.attempt >= 1 /\ (j.signing <=> j.pc \in Signing)
      /\ j.pc # "idle" /\ j.attempt = 1 /\ ~j.signing => UploadsOf(j.run) = {}
      /\ j.pc # "idle" /\ j.attempt = 1 /\ j.signing =>
            \E a \in made : UploadsOf(j.run) = {a} /\ a.id = first
  BY <1>0 DEF SigningInv
<1>2. ASSUME job'["runtime"].pc = "idle" PROVE SigningInv'
  BY <1>2 DEF SigningInv
<1>3. ASSUME made \subseteq made', \A a \in made' : a \in made \/ a.id.stage # "runtime",
             job'["runtime"].run = j.run, job'["runtime"].attempt = j.attempt, j.pc # "idle",
             job'["runtime"] = j \/ Signs
      PROVE  SigningInv'
  <2>1. PICK n : n = j.run
    OBVIOUS
  <2>2. UploadsOf(n)' = UploadsOf(n)
    BY <1>3, UploadsStay
  <2>3. job'["runtime"].signing <=> job'["runtime"].pc \in Signing
    BY <1>1, <1>3 DEF Signs, SignsTheSame
  <2>4. job'["runtime"].signing = j.signing
    BY <1>3 DEF Signs, SignsTheSame
  <2>5. j.attempt = 1 /\ ~j.signing => UploadsOf(n)' = {}
    BY <1>1, <1>3, <2>1, <2>2
  <2>6. j.attempt = 1 /\ j.signing => \E a \in made' :
           UploadsOf(n)' = {a} /\ a.id = [stage |-> "runtime", run |-> n, attempt |-> 1]
    BY <1>1, <1>3, <2>1, <2>2
  <2> QED
    BY <1>1, <1>3, <2>1, <2>3, <2>4, <2>5, <2>6 DEF SigningInv, UploadsOf
<1>4. CASE GoesOn
  <2>1. PICK s \in Stages : Continues(s)
    BY <1>4, GoesOnContinues
  <2>2. made \subseteq made'
    BY <2>1 DEF Continues
  <2>3. job'["runtime"].pc # "idle" => /\ j.pc # "idle" /\ job'["runtime"].run = j.run
                                       /\ job'["runtime"].attempt = j.attempt
    BY <2>1, StageNames DEF Continues
  <2>4. CASE Uploads
    <3>1. PICK b : b = Built("runtime")
      OBVIOUS
    <3>2. /\ b.id = [stage |-> "runtime", run |-> j.run, attempt |-> j.attempt]
          /\ made' = made \cup {b} /\ j.pc = "upload" /\ job'["runtime"].pc = "select"
          /\ job'["runtime"].signing = TRUE
      BY <2>4, <3>1, StageNames, BuiltIs DEF Uploads
    <3>3. ~j.signing
      BY <1>1, <3>2 DEF Signing
    <3>4. j.attempt = 1 => {a \in made' : a.id.stage = "runtime" /\ a.id.run = j.run} = {b}
      <4>1. ASSUME j.attempt = 1 PROVE UploadsOf(j.run) = {}
        BY <1>1, <3>2, <3>3, <4>1
      <4> QED
        BY <3>2, <4>1 DEF UploadsOf
    <3>5. job'["runtime"].signing <=> job'["runtime"].pc \in Signing
      BY <3>2 DEF Signing
    <3> QED
      BY <1>1, <2>3, <3>2, <3>4, <3>5 DEF SigningInv, UploadsOf
  <2>5. CASE /\ job'["runtime"] = j \/ Signs
             /\ \A a \in made' : a \in made \/ a.id.stage # "runtime"
    BY <1>2, <1>3, <2>2, <2>3, <2>5
  <2> QED
    BY <1>4, <2>4, <2>5, RuntimeGoesOn
<1>5. ASSUME NEW s \in Stages, Fails(s) PROVE SigningInv'
  <2>1. CASE s = "runtime"
    BY <1>2, <1>5, <2>1, FailsMeans
  <2>2. CASE s # "runtime"
    BY <1>2, <1>3, <1>5, <2>2, StageNames, FailsMeans
  <2> QED
    BY <2>1, <2>2
<1>6. ASSUME NEW s \in Stages, Start(s) PROVE SigningInv'
  <2> DEFINE p == pending["runtime"]
  <2>1. CASE s = "runtime"
    <3>1. /\ p # NoTrigger /\ job'["runtime"].run = p.run /\ job'["runtime"].attempt = p.attempt
          /\ job'["runtime"].signing = (p.from = "sign") /\ UNCHANGED made
          /\ job'["runtime"].pc = (IF p.from = "start" THEN "fetch" ELSE "select")
      BY <1>6, <2>1, StartMeans
    <3>2. /\ p.attempt >= 1 /\ p.from \in {"start", "sign"}
          /\ p.attempt = 1 => p.from = "start" /\ UploadsOf(p.run) = {}
      BY <1>0, <3>1 DEF WaitingInv
    <3>3. job'["runtime"].signing <=> job'["runtime"].pc \in Signing
      BY <3>1, <3>2 DEF Signing
    <3>4. p.attempt = 1 => ~job'["runtime"].signing
      BY <3>1, <3>2
    <3>5. p.attempt = 1 => {a \in made' : a.id.stage = "runtime" /\ a.id.run = p.run} = {}
      BY <3>1, <3>2 DEF UploadsOf
    <3> QED
      BY <3>1, <3>2, <3>3, <3>4, <3>5 DEF SigningInv, UploadsOf
  <2>2. CASE s # "runtime"
    BY <1>2, <1>3, <1>6, <2>2, StageNames, StartMeans
  <2> QED
    BY <2>1, <2>2
<1>7. ASSUME NEW s \in Stages, Complete(s) PROVE SigningInv'
  <2>1. job'[s].pc = "idle" /\ UNCHANGED made /\ \A t \in Stages : t # s => job'[t] = job[t]
    BY <1>7, CompleteMeans, Zenon
  <2> QED
    BY <1>2, <1>3, <2>1, StageNames
<1>8. ASSUME NEW fault \in EvidenceFaults, NEW success \in BOOLEAN, RunE2E(fault, success)
      PROVE  SigningInv'
  <2>1. PICK a \in Archive, r \in Run :
           /\ made' = made \cup {a} /\ UNCHANGED job
           /\ a.id = [stage |-> "e2e", run |-> r.run, attempt |-> r.attempt]
    BY <1>8, RunE2EMeans
  <2>2. a.id.stage # "runtime"
    BY <2>1
  <2> QED
    BY <1>2, <1>3, <2>1, <2>2
<1>9. ASSUME UNCHANGED <<job, made>> PROVE SigningInv'
  BY <1>2, <1>3, <1>9
<1>10. ASSUME NEW d \in done, NEW from \in {"start", "sign"}, Rerun(d, from)
       PROVE  UNCHANGED <<job, made>>
  BY <1>10, RerunMeans
<1>11. UNCHANGED vars => UNCHANGED <<job, made>>
  BY DEF vars
<1>12. ASSUME NEW s \in Stages, SkippedRun(s) PROVE UNCHANGED <<job, made>>
  BY <1>12, SkippedMeans
<1> QED
  BY <1>4, <1>5, <1>6, <1>7, <1>8, <1>9, <1>10, <1>11, <1>12, StepIs

LEMMA FirstStep ==
  ASSUME TypeInv, FirstInv, [Next]_vars
  PROVE  FirstInv'
BY RunsStep, NumbersStep, WaitingStep, SigningStep DEF FirstInv

(* Why an attempt refuses, while nobody edited anything.                   *)
Reason(s) ==
    \/ edits > 0
    \/ s = "promotion" /\ (Several("e2e") \/ Misjudged)
    \/ s = "deployment" /\ (Several("promotion") \/ release.asset.state = "starter")
    \/ s = "runtime" /\ (job[s].signing => job[s].attempt > 1)
                     /\ (~job[s].signing => job[s].exec \notin {"good", "unrun"})

(* An archive without a fault passes every check of its contents.          *)
LEMMA FaultlessPasses ==
  ASSUME NEW a, a.fault = "none"
  PROVE  /\ a.fault \notin ContainerFaults
         /\ EvidenceAccepted(a)
         /\ \A stage, r : ProvenanceNames(a, stage, r) => ValidSource(a, stage, r)
         /\ \A stage, r : a.says = [stage |-> stage, run |-> r.run, attempt |-> r.attempt]
                             => ProvenanceNames(a, stage, r)
<1>1. a.fault \notin ContainerFaults /\ a.fault \notin ProvenanceFaults
  BY DEF ContainerFaults, ProvenanceFaults
<1>2. EvidenceAccepted(a)
  BY DEF EvidenceAccepted, ManifestInventory, IdentityFaults, ResultFaults, InventoryFaults,
         ReportFaults
<1>3. LayoutExact(a) /\ TransitionVerified(a) /\ RolesAgree(a)
  BY DEF LayoutExact, LayoutFaults, ContainerFaults, TransitionVerified, TransitionFaults,
         RolesAgree, CommonAgrees, RoleFaults
<1> QED
  BY <1>1, <1>2, <1>3 DEF ValidSource, ProvenanceNames

(* While nobody edits, the archives made are those listed.                 *)
LEMMA CalmLists ==
  ASSUME TypeInv, SafeInv, CalmInv, edits = 0
  PROVE  /\ artifacts = made /\ expired = {}
         /\ \A a \in made : Available(a)
         /\ \A a \in made : a.id.stage \in Stages => a.fault = "none"
         /\ release.asset.state # "none" =>
               /\ release.exists /\ release.plain
               /\ release.asset.bytes \in made /\ release.asset.bytes.id.stage = "promotion"
               /\ release.asset.bytes.fault = "none"
         /\ ~release.extra
<1>1. /\ artifacts = made /\ expired = {} /\ ~release.extra /\ (release.exists => release.plain)
      /\ release.asset.state # "none" =>
            release.asset.bytes \in made /\ release.asset.bytes.id.stage = "promotion"
  BY DEF CalmInv, ReleaseCalm
<1>2. release.asset.state # "none" => release.exists
  BY DEF SafeInv, ReleaseInv
<1>3. \A a \in made : a.id.stage \in Stages => a.fault = "none"
  BY DEF SafeInv, MadeInv
<1> QED
  BY <1>1, <1>2, <1>3, StageNames DEF Available

LEMMA SelectReason ==
  ASSUME TypeInv, SafeInv, CalmInv, NEW s \in Stages, job[s].pc = "select",
         ~Selectable(Listing(s), expired)
  PROVE  Reason(s)
<1> SUFFICES ASSUME edits = 0 PROVE Reason(s)
  BY StateTyped DEF Reason
<1>1. artifacts = made /\ expired = {}
  BY CalmLists
<1>2. \A a : Listing(s) # {a}
  BY <1>1 DEF Selectable
<1>3. Caused(s, job[s].cause)
  BY DEF CalmInv, CauseInv
<1>4. CASE s = "promotion"
  <2>1. PICK a \in made : a.id = [stage |-> "e2e", run |-> job[s].cause.run,
                                  attempt |-> job[s].cause.attempt]
    BY <1>3, <1>4 DEF Caused
  <2>2. a \in Listing(s)
    BY <1>1, <1>4, <2>1 DEF Listing, Source, Expected
  <2>3. PICK b \in Listing(s) : b # a
    BY <1>2, <2>2
  <2>4. b \in made /\ b.id.stage = "e2e"
    BY <1>1, <1>4, <2>3 DEF Listing, Source
  <2> QED
    BY <1>4, <2>1, <2>3, <2>4 DEF Reason, Several
<1>5. CASE s = "deployment"
  <2>1. PICK a \in made : a.id = [stage |-> "promotion", run |-> job[s].cause.run,
                                  attempt |-> job[s].cause.attempt]
    BY <1>3, <1>5 DEF Caused
  <2>2. a \in Listing(s)
    BY <1>1, <1>5, <2>1 DEF Listing, Source, Expected
  <2>3. PICK b \in Listing(s) : b # a
    BY <1>2, <2>2
  <2>4. b \in made /\ b.id.stage = "promotion"
    BY <1>1, <1>5, <2>3 DEF Listing, Source
  <2> QED
    BY <1>5, <2>1, <2>3, <2>4 DEF Reason, Several
<1>6. CASE s = "runtime"
  <2>1. /\ job[s].signing /\ job[s].attempt >= 1
        /\ job[s].attempt = 1 => \E a \in made : UploadsOf(job[s].run) = {a}
    BY <1>6 DEF CalmInv, FirstInv, SigningInv, Signing
  <2>2. Listing(s) = UploadsOf(job[s].run)
    BY <1>1, <1>6 DEF Listing, UploadsOf, Source, Expected, Own
  <2>3. job[s].attempt # 1
    BY <1>2, <2>1, <2>2
  <2>4. job[s].attempt \in Nat
    BY JobTyped, JobFields
  <2>5. job[s].attempt > 1
    BY <2>1, <2>3, <2>4
  <2> QED
    BY <1>6, <2>1, <2>5 DEF Reason
<1> QED
  BY <1>4, <1>5, <1>6 DEF Stages

LEMMA FetchReason ==
  ASSUME TypeInv, SafeInv, CalmInv, NEW s \in Stages, job[s].pc = "fetch", ~release.exists
  PROVE  Reason(s)
<1> SUFFICES ASSUME edits = 0 PROVE FALSE
  BY StateTyped DEF Reason
<1>1. job[s].pc \in StepsOf(s)
  BY StateTyped
<1>2. s \in {"deployment", "runtime"}
  BY <1>1 DEF StepsOf, Stages
<1>3. release.asset.state # "none"
  <2>1. CASE s = "deployment"
    BY <2>1 DEF CalmInv, DeploymentCalm
  <2>2. CASE s = "runtime"
    BY <2>2 DEF CalmInv, CauseInv, Caused
  <2> QED
    BY <1>2, <2>1, <2>2
<1> QED
  BY <1>3, CalmLists

LEMMA PullReason ==
  ASSUME TypeInv, SafeInv, CalmInv, NEW s \in Stages, job[s].pc = "pull",
         release.asset.state # "uploaded"
  PROVE  Reason(s)
<1> SUFFICES ASSUME edits = 0 PROVE Reason(s)
  BY StateTyped DEF Reason
<1>1. job[s].pc \in StepsOf(s) /\ release \in Release
  BY StateTyped
<1>2. s \in {"deployment", "runtime"}
  BY <1>1 DEF StepsOf, Stages
<1>3. CASE s = "deployment"
  <2>1. release.asset.state # "none"
    BY <1>3 DEF CalmInv, DeploymentCalm
  <2>2. release.asset.state = "starter"
    BY <1>1, <2>1 DEF Release, Asset
  <2> QED
    BY <1>3, <2>2 DEF Reason
<1>4. CASE s = "runtime"
  BY <1>4 DEF CalmInv, CauseInv, Caused
<1> QED
  BY <1>2, <1>3, <1>4

LEMMA PromoteReason ==
  ASSUME TypeInv, SafeInv, CalmInv, job["promotion"].pc = "download",
         LET j == job["promotion"] IN
         ~(Available(j.sel.artifact) /\ Promotable(j.sel.artifact, j.sel, j.cause))
  PROVE  Reason("promotion")
<1> DEFINE j == job["promotion"]
           a == j.sel.artifact
<1> SUFFICES ASSUME edits = 0 PROVE Reason("promotion")
  BY StateTyped DEF Reason
<1>1. a \in made /\ a.id.stage = "e2e" /\ SelectionNames(j.sel, j.cause)
  BY DEF SafeInv, PromotionInv
<1>2. Available(a)
  BY <1>1, CalmLists
<1>3. a.fault # "none"
  <2> SUFFICES ASSUME a.fault = "none" PROVE FALSE
    OBVIOUS
  <2>1. EvidenceAccepted(a) /\ a.fault \notin ContainerFaults
    BY <1>1, FaultlessPasses
  <2> QED
    BY <1>1, <1>2, <2>1 DEF Promotable, EvidenceExtracted
<1> QED
  BY <1>1, <1>3 DEF Reason, Misjudged, E2EArchives

LEMMA PreflightReason ==
  ASSUME TypeInv, SafeInv, CalmInv, job["deployment"].pc = "download",
         LET j == job["deployment"] IN
         ~(/\ Available(j.sel.artifact)
           /\ Extracted(j.sel.artifact, j.sel)
           /\ ValidSource(j.sel.artifact, "promotion", j.cause))
  PROVE  Reason("deployment")
<1> DEFINE j == job["deployment"]
           a == j.sel.artifact
           triggering == [stage |-> "promotion", run |-> j.cause.run, attempt |-> j.cause.attempt]
<1> SUFFICES ASSUME edits = 0 PROVE Reason("deployment")
  BY StateTyped DEF Reason
<1>1. a \in made /\ a.id.stage = "promotion"
  BY DEF SafeInv, DeploymentInv
<1>2. Available(a) /\ a.fault = "none" /\ a.says = a.id
  BY <1>1, StageNames, CalmLists DEF SafeInv, MadeInv
<1>3. Extracted(a, j.sel)
  BY <1>2, FaultlessPasses DEF Extracted
<1>4. a.id # triggering
  BY <1>2, <1>3, FaultlessPasses
<1>5. PICK b \in made : b.id = triggering
  BY StageNames DEF CalmInv, CauseInv, Caused
<1>6. b.id.stage = "promotion" /\ b # a
  BY <1>4, <1>5
<1> QED
  BY <1>1, <1>5, <1>6 DEF Reason, Several

(* The decision to stop is not one a calm release leads to.                *)
LEMMA PublishReason ==
  ASSUME TypeInv, SafeInv, CalmInv, job["deployment"].pc = "publish",
         LET j == job["deployment"]
             empty == j.rel.asset.state = "none" /\ ~j.rel.extra
             single == j.rel.asset.state # "none" /\ ~j.rel.extra
         IN  ~single /\ ~(empty /\ release.asset.state = "none")
  PROVE  Reason("deployment")
<1> SUFFICES ASSUME edits = 0 PROVE FALSE
  BY StateTyped DEF Reason
<1>1. job["deployment"].rel = release
  BY DEF CalmInv, DeploymentCalm
<1>2. ~release.extra
  BY CalmLists
<1> QED
  BY <1>1, <1>2

LEMMA ProductionReason ==
  ASSUME TypeInv, SafeInv, CalmInv, job["deployment"].pc = "build",
         LET j == job["deployment"] IN
         ~ProductionAccepted(j.sel.artifact, j.sel, j.cause, j.rel, j.bytes)
  PROVE  Reason("deployment")
<1> DEFINE j == job["deployment"]
           a == j.sel.artifact
<1> SUFFICES ASSUME edits = 0 PROVE Reason("deployment")
  BY StateTyped DEF Reason
<1>1. /\ a \in made /\ a.id.stage = "promotion" /\ SelectionNames(j.sel, j.cause)
      /\ ValidSource(a, "promotion", j.cause)
  BY DEF SafeInv, DeploymentInv
<1>2. j.rel = release /\ release.asset.state = "uploaded" /\ j.bytes = release.asset.bytes
  BY DEF CalmInv, DeploymentCalm
<1>3. /\ release.exists /\ release.plain /\ ~release.extra
      /\ j.bytes \in made /\ j.bytes.id.stage = "promotion" /\ a.fault = "none"
  BY <1>1, <1>2, StageNames, CalmLists
<1>4. DownloadObserved(j.rel, j.bytes)
  BY <1>2, <1>3 DEF DownloadObserved, LiveObserved, ReleaseIsPlain
<1>5. Extracted(a, j.sel)
  BY <1>3, FaultlessPasses DEF Extracted
<1>6. j.bytes.id # a.id
  BY <1>1, <1>4, <1>5 DEF ProductionAccepted, SourceSelected
<1>7. j.bytes # a
  BY <1>6
<1> QED
  BY <1>1, <1>3, <1>7 DEF Reason, Several

(* What a runtime verification holds is the published asset.               *)
LEMMA RuntimeHolds ==
  ASSUME TypeInv, SafeInv, CalmInv, edits = 0, job["runtime"].pc \in {"extract", "build"}
  PROVE  LET j == job["runtime"] IN
         /\ DownloadObserved(j.rel, j.bytes) /\ j.bytes.fault = "none"
         /\ j.bytes \in made /\ j.bytes.id.stage = "promotion"
<1> DEFINE j == job["runtime"]
<1>1. release.asset.state = "uploaded"
  BY StageNames DEF CalmInv, CauseInv, Caused
<1>2. j.rel = release /\ j.bytes = release.asset.bytes
  BY DEF CalmInv, RuntimeCalm
<1>3. /\ release.exists /\ release.plain /\ ~release.extra
      /\ j.bytes \in made /\ j.bytes.id.stage = "promotion" /\ j.bytes.fault = "none"
  BY <1>1, <1>2, CalmLists
<1> QED
  BY <1>1, <1>2, <1>3 DEF DownloadObserved, LiveObserved, ReleaseIsPlain

LEMMA ExtractReason ==
  ASSUME TypeInv, SafeInv, CalmInv, job["runtime"].pc = "extract",
         ~LiveExtracted(job["runtime"].rel, job["runtime"].bytes)
  PROVE  Reason("runtime")
<1> DEFINE j == job["runtime"]
<1> SUFFICES ASSUME edits = 0 PROVE FALSE
  BY StateTyped DEF Reason
<1>1. DownloadObserved(j.rel, j.bytes) /\ j.bytes.fault = "none"
  BY RuntimeHolds
<1>2. j.bytes.fault \notin ContainerFaults
  BY <1>1, FaultlessPasses
<1> QED
  BY <1>1, <1>2 DEF LiveExtracted, Extracted, LiveSelection

LEMMA BuildReason ==
  ASSUME TypeInv, SafeInv, CalmInv, job["runtime"].pc = "build",
         LET j == job["runtime"] IN ~RuntimeAccepted(j.rel, j.bytes, j.exec)
  PROVE  Reason("runtime")
<1> DEFINE j == job["runtime"]
<1> SUFFICES ASSUME edits = 0 PROVE Reason("runtime")
  BY StateTyped DEF Reason
<1>1. /\ DownloadObserved(j.rel, j.bytes) /\ j.bytes.fault = "none"
      /\ j.bytes \in made /\ j.bytes.id.stage = "promotion"
  BY RuntimeHolds
<1>2. j.bytes.id \in Id /\ j.bytes.says = j.bytes.id
  BY <1>1, StateTyped DEF Archive, SafeInv, MadeInv
<1>3. j.bytes.says
        = [stage |-> "promotion", run |-> j.bytes.says.run, attempt |-> j.bytes.says.attempt]
  BY <1>1, <1>2 DEF Id
<1>4. PromotedRelease(j.bytes)
  BY <1>1, <1>3, FaultlessPasses DEF PromotedRelease
<1>5. j.exec # "good"
  <2> SUFFICES ASSUME j.exec = "good" PROVE FALSE
    OBVIOUS
  <2>1. WheelInspected(j.exec) /\ InstallValidated(j.exec) /\ BundleBound(j.exec) /\ CliBound(j.exec)
    BY DEF WheelInspected, InstallValidated, BundleBound, CliBound, WheelFaults, InstallFaults,
           BundleFaults, CliFaults
  <2> QED
    BY <1>1, <1>4, <2>1 DEF RuntimeAccepted
<1>6. j.exec # "unrun"
  BY BoundsAssumption DEF SafeInv, RuntimeInv
<1>7. ~j.signing
  BY DEF CalmInv, FirstInv, SigningInv, Signing
<1> QED
  BY <1>5, <1>6, <1>7 DEF Reason

LEMMA ObserveReason ==
  ASSUME TypeInv, SafeInv, CalmInv, job["runtime"].pc = "observe",
         LET a == job["runtime"].sel.artifact
             r == Own("runtime")
         IN ~(/\ Available(a) /\ Extracted(a, job["runtime"].sel)
              /\ RuntimeObserved(a, r, release) /\ ValidSource(a, "runtime", r))
  PROVE  Reason("runtime")
<1> DEFINE j == job["runtime"]
           a == j.sel.artifact
           r == Own("runtime")
<1> SUFFICES ASSUME edits = 0 PROVE Reason("runtime")
  BY StateTyped DEF Reason
<1>1. a \in made /\ a.id.stage = "runtime" /\ a.id.run = j.run
  BY DEF SafeInv, RuntimeInv
<1>2. /\ j.signing /\ j.attempt >= 1
      /\ j.attempt = 1 => \E b \in made :
            UploadsOf(j.run) = {b} /\ b.id = [stage |-> "runtime", run |-> j.run, attempt |-> 1]
  BY DEF CalmInv, FirstInv, SigningInv, Signing
<1>3. j.attempt # 1
  <2> SUFFICES ASSUME j.attempt = 1 PROVE FALSE
    OBVIOUS
  <2>1. a \in UploadsOf(j.run)
    BY <1>1 DEF UploadsOf
  <2>2. /\ a.id = [stage |-> "runtime", run |-> j.run, attempt |-> j.attempt]
        /\ a.says = a.id
    BY <1>1, <1>2, <2>1 DEF SafeInv, MadeInv
  <2>3. Available(a) /\ a.fault = "none"
    BY <1>1, StageNames, CalmLists
  <2>4. Extracted(a, j.sel)
    BY <2>3, FaultlessPasses DEF Extracted
  <2>5. r.run = j.run /\ r.attempt = j.attempt
    BY DEF Own
  <2>6. ProvenanceNames(a, "runtime", r)
    <3> HIDE DEF r
    <3> QED
      BY <2>2, <2>3, <2>5, FaultlessPasses
  <2>7. ValidSource(a, "runtime", r)
    BY <2>3, <2>6, FaultlessPasses
  <2>8. release.asset.state = "uploaded" /\ a.subject = release.asset.bytes.id
    BY <1>1 DEF CalmInv, ReleaseCalm
  <2>9. RuntimeObserved(a, r, release)
    BY <2>6, <2>8, CalmLists DEF RuntimeObserved, LiveObserved, ReleaseIsPlain
  <2> QED
    BY <2>3, <2>4, <2>7, <2>9
<1>4. j.attempt \in Nat
  BY StageNames, JobTyped, JobFields
<1>5. j.attempt > 1
  BY <1>2, <1>3, <1>4
<1> QED
  BY <1>2, <1>5 DEF Reason

(* The audit reads back what the sign job itself bound.                    *)
LEMMA AuditAccepts ==
  ASSUME TypeInv, SafeInv, job["runtime"].pc = "audit"
  PROVE  Audited(job["runtime"].chain, Own("runtime"))
<1> DEFINE j == job["runtime"]
<1>1. /\ j.sel.artifact.id = [stage |-> "runtime", run |-> j.run, attempt |-> j.attempt]
      /\ j.chain = ChainOf(j.sel, j.sel.artifact, Own("runtime"), j.rel)
      /\ SelectionNames(j.sel, Own("runtime"))
      /\ j.sel.artifact.says = j.sel.artifact.id
  BY DEF SafeInv, RuntimeInv, MadeInv
<1>2. Own("runtime").run = j.run /\ Own("runtime").attempt = j.attempt
  BY DEF Own
<1>3. /\ j.chain.provenance = j.sel.artifact.says /\ j.chain.selection = j.sel
      /\ j.chain.extraction = j.sel.artifact.id /\ j.chain.observation = Own("runtime")
      /\ j.chain.validation = j.sel.artifact.says /\ j.chain.attested = j.sel.artifact.id
  BY <1>1 DEF ChainOf
<1> QED
  BY <1>1, <1>2, <1>3 DEF Audited, ChainSource, ChainObservation

(* Half an asset stays half an asset until somebody edits the release.     *)
LEMMA StarterStays ==
  ASSUME TypeInv, SafeInv, [Next]_vars, edits' = 0, release.asset.state = "starter"
  PROVE  release'.asset.state = "starter"
<1>1. release.exists /\ edits' # edits + 1
  BY HistoryGrows DEF SafeInv, ReleaseInv
<1>2. \A state : ~AssetAppears(state)
  BY DEF AssetAppears
<1>3. CASE GoesOn
  <2>1. Still \/ UNCHANGED release => release' = release
    BY DEF Still
  <2> QED
    BY <1>1, <1>2, <1>3, <2>1, Zenon DEF GoesOn
<1>4. ASSUME NEW s \in Stages, Fails(s) PROVE release' = release
  BY <1>2, <1>4 DEF Fails
<1>5. ASSUME NEW s \in Stages, Start(s) \/ Complete(s) PROVE release' = release
  BY <1>5 DEF Start, Complete
<1>6. ASSUME NEW fault \in EvidenceFaults, NEW success \in BOOLEAN, RunE2E(fault, success)
      PROVE  release' = release
  BY <1>6, Zenon DEF RunE2E
<1>7. ASSUME NEW d \in done, NEW from \in {"start", "sign"}, Rerun(d, from)
      PROVE  release' = release
  BY <1>7 DEF Rerun
<1>8. UNCHANGED vars => release' = release
  BY DEF vars
<1>9. ASSUME NEW s \in Stages, SkippedRun(s) PROVE release' = release
  BY <1>9, SkippedMeans
<1> QED
  BY <1>1, <1>3, <1>4, <1>5, <1>6, <1>7, <1>8, <1>9, StepIs

(* What a step adds to the attempts that ended: no refusal, or the refusal *)
(* of an attempt that has a reason.                                        *)
NoRefusal == \A d \in done' : d \in done \/ d.outcome # "refused"
Refused(s) == done' = done \cup {EndOf(s, "refused")} /\ UNCHANGED <<made, release, edits>>

LEMMA EndsOtherwise ==
  ASSUME TypeInv, NEW s \in Stages, NEW outcome \in Outcome, outcome # "refused",
         done' = done \cup {EndOf(s, outcome)}
  PROVE  NoRefusal
<1>1. PICK d : d = EndOf(s, outcome)
  OBVIOUS
<1>2. d.outcome = outcome
  BY <1>1, EndTyped
<1> QED
  BY <1>1, <1>2 DEF NoRefusal

LEMMA StageRefuses ==
  ASSUME TypeInv, SafeInv, CalmInv, NEW s \in Stages,
         Start(s) \/ Select(s) \/ FetchRelease(s) \/ PullAsset(s) \/ Upload(s) \/ Complete(s)
  PROVE  NoRefusal \/ (Refused(s) /\ Reason(s))
<1>1. ASSUME UNCHANGED done PROVE NoRefusal
  BY <1>1 DEF NoRefusal
<1>2. ASSUME Refuse(s), UNCHANGED <<made, edits>> PROVE Refused(s)
  BY <1>2 DEF Refuse, End, Refused
<1>3. CASE Start(s)
  BY <1>1, <1>3 DEF Start
<1>4. CASE Select(s)
  <2>1. job[s].pc = "select" /\ UNCHANGED <<made, edits>>
    BY <1>4 DEF Select, At, history, budget
  <2> QED
    BY <1>1, <1>2, <1>4, <2>1, SelectDoes, SelectReason, Zenon
<1>5. CASE FetchRelease(s)
  <2>1. job[s].pc = "fetch" /\ UNCHANGED <<made, edits>>
    BY <1>5 DEF FetchRelease, At, history, budget
  <2> QED
    BY <1>1, <1>2, <1>5, <2>1, FetchDoes, FetchReason, Zenon
<1>6. CASE PullAsset(s)
  <2>1. job[s].pc = "pull" /\ UNCHANGED <<made, edits>>
    BY <1>6 DEF PullAsset, At, history, budget
  <2> QED
    BY <1>1, <1>2, <1>6, <2>1, PullDoes, PullReason, Zenon
<1>7. CASE Upload(s)
  BY <1>1, <1>7 DEF Upload
<1>8. CASE Complete(s)
  <2> DEFINE next == IF s = "promotion" THEN "deployment" ELSE "runtime"
  <2>1. \/ done' = done \cup {EndOf(s, "success")}
        \/ done' = done \cup {EndOf(s, "success")} \cup Cancelled(next)
    BY <1>8, CompleteMeans, Zenon
  <2>2. next \in Stages /\ "success" \in Outcome
    BY DEF Stages, Outcome
  <2> HIDE DEF next
  <2>3. PICK d : d = EndOf(s, "success")
    OBVIOUS
  <2>4. d.outcome = "success"
    BY <2>2, <2>3, EndTyped
  <2>5. \A c \in Cancelled(next) : c.outcome = "cancelled"
    BY <2>2, CancelledIs
  <2> QED
    BY <2>1, <2>3, <2>4, <2>5 DEF NoRefusal
<1> QED
  BY <1>3, <1>4, <1>5, <1>6, <1>7, <1>8

LEMMA ScriptRefuses ==
  ASSUME TypeInv, SafeInv, CalmInv,
         \/ Promote \/ Preflight \/ Publish \/ BuildProduction
         \/ ExtractLive \/ BuildRuntime \/ Observe \/ Seal \/ Audit \/ PostReceipt
  PROVE  NoRefusal \/ \E s \in Stages : Refused(s) /\ Reason(s)
<1>1. ASSUME UNCHANGED done PROVE NoRefusal
  BY <1>1 DEF NoRefusal
<1>2. ASSUME NEW s \in Stages, Refuse(s), UNCHANGED <<made, edits>>, Reason(s)
      PROVE  \E t \in Stages : Refused(t) /\ Reason(t)
  <2>1. Refused(s)
    BY <1>2 DEF Refuse, End, Refused
  <2> QED
    BY <1>2, <2>1
<1>3. CASE Promote
  <2> DEFINE j == job["promotion"]
             taken == Available(j.sel.artifact) /\ Promotable(j.sel.artifact, j.sel, j.cause)
  <2>1. job["promotion"].pc = "download" /\ UNCHANGED <<made, edits>>
    BY <1>3 DEF Promote, At, history, budget
  <2>2. UNCHANGED done \/ (Refuse("promotion") /\ ~taken)
    BY <1>3, Zenon DEF Promote
  <2> QED
    BY <1>1, <1>2, <2>1, <2>2, StageNames, PromoteReason
<1>4. CASE Preflight
  <2> DEFINE j == job["deployment"]
             taken == /\ Available(j.sel.artifact) /\ Extracted(j.sel.artifact, j.sel)
                      /\ ValidSource(j.sel.artifact, "promotion", j.cause)
  <2>1. job["deployment"].pc = "download" /\ UNCHANGED <<made, edits>>
    BY <1>4 DEF Preflight, At, history, budget
  <2>2. UNCHANGED done \/ (Refuse("deployment") /\ ~taken)
    BY <1>4, Zenon DEF Preflight
  <2> QED
    BY <1>1, <1>2, <2>1, <2>2, StageNames, PreflightReason
<1>5. CASE Publish
  <2> DEFINE j == job["deployment"]
             empty == j.rel.asset.state = "none" /\ ~j.rel.extra
             single == j.rel.asset.state # "none" /\ ~j.rel.extra
  <2>1. job["deployment"].pc = "publish" /\ UNCHANGED <<made, edits>>
    BY <1>5 DEF Publish, At, budget
  <2>2. \/ UNCHANGED done
        \/ Refuse("deployment") /\ ~single /\ ~(empty /\ release.asset.state = "none")
    BY <1>5, Zenon DEF Publish
  <2> QED
    BY <1>1, <1>2, <2>1, <2>2, StageNames, PublishReason
<1>6. CASE BuildProduction
  <2> DEFINE j == job["deployment"]
             taken == ProductionAccepted(j.sel.artifact, j.sel, j.cause, j.rel, j.bytes)
  <2>1. job["deployment"].pc = "build" /\ UNCHANGED <<made, edits>>
    BY <1>6 DEF BuildProduction, At, history, budget
  <2>2. UNCHANGED done \/ (Refuse("deployment") /\ ~taken)
    BY <1>6, Zenon DEF BuildProduction
  <2> QED
    BY <1>1, <1>2, <2>1, <2>2, StageNames, ProductionReason
<1>7. CASE ExtractLive
  <2>1. job["runtime"].pc = "extract" /\ UNCHANGED <<made, edits>>
    BY <1>7 DEF ExtractLive, At, history, budget
  <2>2. \/ UNCHANGED done
        \/ Refuse("runtime") /\ ~LiveExtracted(job["runtime"].rel, job["runtime"].bytes)
    BY <1>7, Zenon DEF ExtractLive
  <2> QED
    BY <1>1, <1>2, <2>1, <2>2, StageNames, ExtractReason
<1>8. CASE BuildRuntime
  <2> DEFINE j == job["runtime"]
  <2>1. job["runtime"].pc = "build" /\ UNCHANGED <<made, edits>>
    BY <1>8 DEF BuildRuntime, At, history, budget
  <2>2. UNCHANGED done \/ (Refuse("runtime") /\ ~RuntimeAccepted(j.rel, j.bytes, j.exec))
    BY <1>8, Zenon DEF BuildRuntime
  <2> QED
    BY <1>1, <1>2, <2>1, <2>2, StageNames, BuildReason
<1>9. CASE Observe
  <2> DEFINE a == job["runtime"].sel.artifact
             r == Own("runtime")
             seen == /\ Available(a) /\ Extracted(a, job["runtime"].sel)
                     /\ RuntimeObserved(a, r, release) /\ ValidSource(a, "runtime", r)
  <2>1. job["runtime"].pc = "observe" /\ UNCHANGED <<made, edits>>
    BY <1>9 DEF Observe, At, history, budget
  <2>2. UNCHANGED done \/ (Refuse("runtime") /\ ~seen)
    BY <1>9, Zenon DEF Observe
  <2> QED
    BY <1>1, <1>2, <2>1, <2>2, StageNames, ObserveReason
<1>10. CASE Audit
  <2>1. job["runtime"].pc = "audit"
    BY <1>10 DEF Audit, At
  <2>2. Audited(job["runtime"].chain, Own("runtime"))
    BY <2>1, AuditAccepts
  <2>3. UNCHANGED done
    BY <1>10, <2>2, Zenon DEF Audit
  <2> QED
    BY <1>1, <2>3
<1>11. CASE Seal \/ PostReceipt
  BY <1>1, <1>11 DEF Seal, PostReceipt
<1> QED
  BY <1>3, <1>4, <1>5, <1>6, <1>7, <1>8, <1>9, <1>10, <1>11

LEMMA RefusalsAre ==
  ASSUME TypeInv, SafeInv, CalmInv, [Next]_vars
  PROVE  NoRefusal \/ \E s \in Stages : Refused(s) /\ Reason(s)
<1>1. ASSUME UNCHANGED done PROVE NoRefusal
  BY <1>1 DEF NoRefusal
<1>2. \A s \in Stages : \A c \in Cancelled(s) : c.outcome = "cancelled"
  BY CancelledIs
<1>3. ASSUME NEW s \in Stages, done' = done \cup Cancelled(s) PROVE NoRefusal
  BY <1>2, <1>3 DEF NoRefusal
<1>4. ASSUME NEW fails \in BOOLEAN, Lookup(fails) PROVE NoRefusal
  <2>1. \/ End("deployment", "unavailable")
        \/ UNCHANGED done
    BY <1>4, LookupDoes, Zenon
  <2>2. ASSUME End("deployment", "unavailable") PROVE NoRefusal
    <3>1. done' = done \cup {EndOf("deployment", "unavailable")}
      BY <2>2 DEF End
    <3>2. "unavailable" \in Outcome
      BY DEF Outcome
    <3> QED
      BY <3>1, <3>2, StageNames, EndsOtherwise
  <2> QED
    BY <1>1, <2>1, <2>2
<1>5. ASSUME NEW e \in Executions, Execute(e) PROVE NoRefusal
  BY <1>1, <1>5 DEF Execute
<1>6. ASSUME NEW fault \in EvidenceFaults, NEW success \in BOOLEAN, RunE2E(fault, success)
      PROVE  NoRefusal
  BY <1>1, <1>3, <1>6, StageNames, RunE2EMeans
<1>7. ASSUME NEW s \in Stages, NEW midUpload \in BOOLEAN, Kill(s, midUpload)
      PROVE  NoRefusal
  <2>1. done' = done \cup {EndOf(s, "killed")}
    BY <1>7, KillDoes DEF End
  <2>2. "killed" \in Outcome
    BY DEF Outcome
  <2> QED
    BY <2>1, <2>2, EndsOtherwise
<1>8. ASSUME NEW d \in done, NEW from \in {"start", "sign"}, Rerun(d, from)
      PROVE  NoRefusal
  BY <1>3, <1>8, RerunMeans
<1>9. ASSUME \/ \E a \in artifacts : DeleteArtifact(a) \/ ExpireArtifact(a)
             \/ \E rel \in EditedReleases : EditRelease(rel)
      PROVE  NoRefusal
  BY <1>1, <1>9 DEF DeleteArtifact, ExpireArtifact, EditRelease, Edit
<1>10. UNCHANGED vars => NoRefusal
  BY <1>1 DEF vars
<1>11. ASSUME NEW s \in Stages, SkippedRun(s) PROVE NoRefusal
  <2>1. \A d \in Waiting(s, "displaced") : d.outcome # "refused"
    BY <1>11, SkippedMeans
  <2> QED
    BY <1>11, <2>1, SkippedMeans DEF NoRefusal
<1> QED
  BY <1>4, <1>5, <1>6, <1>7, <1>8, <1>9, <1>10, <1>11, NextIs, StageRefuses, ScriptRefuses, Zenon

LEMMA RefusalStep ==
  ASSUME TypeInv, SafeInv, CalmInv, [Next]_vars
  PROVE  RefusalHasCause'
<1>1. made \subseteq made' /\ edits \in Nat /\ edits' \in Nat /\ (edits' = 0 => edits = 0)
  BY HistoryGrows
<1>2. \A stage : Several(stage) => Several(stage)'
  BY <1>1 DEF Several
<1>3. Misjudged => Misjudged'
  BY <1>1 DEF Misjudged, E2EArchives
<1>4. edits' = 0 /\ release.asset.state = "starter" => release'.asset.state = "starter"
  BY StarterStays
<1>5. edits > 0 => edits' > 0
  BY <1>1
<1> DEFINE Cause(d) ==
        \/ edits > 0
        \/ d.stage = "promotion" /\ (Several("e2e") \/ Misjudged)
        \/ d.stage = "deployment" /\ Several("promotion")
        \/ d.stage = "deployment" /\ release.asset.state = "starter"
        \/ d.stage = "runtime" /\ (d.built => d.attempt > 1)
                               /\ (~d.built => d.exec \notin {"good", "unrun"})
           CauseNext(d) ==
        \/ edits' > 0
        \/ d.stage = "promotion" /\ (Several("e2e")' \/ Misjudged')
        \/ d.stage = "deployment" /\ Several("promotion")'
        \/ d.stage = "deployment" /\ release'.asset.state = "starter"
        \/ d.stage = "runtime" /\ (d.built => d.attempt > 1)
                               /\ (~d.built => d.exec \notin {"good", "unrun"})
<1>6. ASSUME NEW d, Cause(d) PROVE CauseNext(d)
  <2>1. edits' = 0 \/ edits' > 0
    BY <1>1
  <2> QED
    BY <1>2, <1>3, <1>4, <1>5, <1>6, <2>1
<1>7. \A d \in done : d.outcome = "refused" => Cause(d)
  BY DEF CalmInv, RefusalHasCause
<1>8. \A d \in done' : d.outcome = "refused" /\ d \notin done => Cause(d)
  <2>1. CASE NoRefusal
    BY <2>1 DEF NoRefusal
  <2>2. CASE \E s \in Stages : Refused(s) /\ Reason(s)
    <3>1. PICK s \in Stages : Refused(s) /\ Reason(s)
      BY <2>2
    <3>2. PICK d : d = EndOf(s, "refused")
      OBVIOUS
    <3>3. "refused" \in Outcome
      BY DEF Outcome
    <3>4. /\ d.stage = s /\ d.attempt = job[s].attempt /\ d.exec = job[s].exec
          /\ d.built = job[s].signing
      BY <3>2, <3>3, EndTyped
    <3>5. Cause(d)
      BY <3>1, <3>4 DEF Reason
    <3>6. done' = done \cup {d}
      BY <3>1, <3>2 DEF Refused
    <3> HIDE DEF Cause
    <3> QED
      BY <3>5, <3>6
  <2> QED
    BY <2>1, <2>2, RefusalsAre
<1>9. \A d \in done' : d.outcome = "refused" => CauseNext(d)
  <2> HIDE DEF Cause, CauseNext
  <2> QED
    BY <1>6, <1>7, <1>8
<1> QED
  BY <1>9 DEF RefusalHasCause

LEMMA InitCalm == Init => CalmInv
<1> SUFFICES ASSUME Init PROVE CalmInv
  OBVIOUS
<1>1. /\ made = {} /\ done = {} /\ artifacts = {} /\ expired = {} /\ release = NoRelease
      /\ \A s \in Stages : job[s] = Idle /\ pending[s] = NoTrigger
  BY DEF Init
<1>2. Idle.pc = "idle" /\ Idle.run = 0 /\ NoTrigger.run = 0
  BY DEF Idle, NoTrigger
<1>3. ~NoRelease.extra /\ ~NoRelease.exists /\ NoRelease.asset.state = "none"
  BY DEF NoRelease, NoAsset
<1>4. ReleaseCalm /\ RefusalHasCause
  BY <1>1, <1>3 DEF ReleaseCalm, RefusalHasCause
<1>5. DeploymentCalm /\ RuntimeCalm
  BY <1>1, <1>2, StageNames DEF DeploymentCalm, RuntimeCalm
<1>6. CauseInv
  BY <1>1, <1>2, StageNames DEF CauseInv
<1>7. WaitingInv /\ SigningInv
  BY <1>1, <1>2, StageNames DEF WaitingInv, SigningInv
<1>8. Runs = 0 .. 0
  <2>1. \A n \in Runs : n = 0
    BY <1>1, <1>2, StageNames, RunsAre
  <2> QED
    BY <2>1, RunsAre
<1>9. RunsInv
  BY <1>1, <1>2, <1>8, StageNames DEF RunsInv
<1> QED
  BY <1>1, <1>4, <1>5, <1>6, <1>7, <1>9 DEF CalmInv, FirstInv

LEMMA CalmInvHolds == Spec => []CalmInv
<1>1. TypeInv /\ SafeInv /\ CalmInv /\ [Next]_vars => CalmInv'
  <2> SUFFICES ASSUME TypeInv, SafeInv, CalmInv, [Next]_vars PROVE CalmInv'
    OBVIOUS
  <2>1. FirstInv'
    BY FirstStep DEF CalmInv
  <2> QED
    BY <2>1, ReleaseStep, DeploymentStep, RuntimeStep, CauseStep, RefusalStep DEF CalmInv
<1> QED
  BY <1>1, InitCalm, SafeInvHolds, PTL DEF Spec

(* An attempt refuses only for a reason: somebody edited artifacts or the  *)
(* release, its source was uploaded by several attempts, a kill left half  *)
(* an asset, or the execution failed or its sign job was repeated.         *)
THEOREM RefusalsHaveCause == Spec => []RefusalHasCause
<1>1. CalmInv => RefusalHasCause
  BY DEF CalmInv
<1> QED
  BY <1>1, CalmInvHolds, PTL

(* A receipt leads back, through the executed and the published source, to *)
(* evidence of the end-to-end run that was complete and accepted, unless   *)
(* an edit put up an archive no workflow made: the scripts compare what an *)
(* archive declares, which such a one may declare too.                     *)
THEOREM ReceiptReaches == Spec => []ReceiptReachesEvidence
<1>1. ASSUME TypeInv, SafeInv, CalmInv PROVE ReceiptReachesEvidence
  <2> SUFFICES ASSUME NEW r \in receipts
               PROVE  \/ \E p, e \in made : /\ p.id = r.source.subject /\ e.id = p.subject
                                            /\ e.id.stage = "e2e" /\ e.fault = "none"
                      \/ edits > 0 /\ r.source.subject.stage = "foreign"
    BY DEF ReceiptReachesEvidence
  <2>1. PICK b \in lived : b.id = r.source.subject
    BY <1>1 DEF SafeInv, ReceiptInv, ReceiptIsWhole
  <2>2. CASE b.id.stage = "promotion"
    <3>1. PICK p \in made : p.id = b.id
      BY <1>1, <2>2 DEF SafeInv, ReleaseInv
    <3>2. PICK e \in made : Accepted(e) /\ e.id = p.subject
      BY <1>1, <2>2, <3>1 DEF SafeInv, MadeInv
    <3> QED
      BY <2>1, <3>1, <3>2 DEF Accepted
  <2>3. CASE b.id.stage = "foreign"
    <3>1. r.source \in made /\ r.source.id.stage = "runtime"
      <4>1. /\ r.source \in made
            /\ r.source.id = [stage |-> "runtime", run |-> r.run, attempt |-> r.attempt]
        BY <1>1 DEF SafeInv, ReceiptInv, ReceiptIsWhole
      <4> QED
        BY <4>1
    <3>2. edits = 0 => r.source.subject.stage = "promotion"
      BY <1>1, <3>1 DEF CalmInv, ReleaseCalm
    <3>3. edits \in Nat
      BY <1>1, StateTyped
    <3> QED
      BY <2>1, <2>3, <3>2, <3>3
  <2> QED
    BY <1>1, <2>2, <2>3 DEF SafeInv, ReleaseInv
<1> QED
  BY <1>1, SafeInvHolds, CalmInvHolds, PTL
=============================================================================
