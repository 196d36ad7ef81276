# A TLA+ model of ibex-agent-verification

`ibex-agent-verification` checks what an agent, a simulator or a pipeline says it
did, and leaves evidence that a third party can check again. This directory holds
TLA+ modules of its components, TLC configurations that model-check them on small
instances, and proofs that TLAPS checks for all values of the constants. Every
definition is translated from the Python source; `PROJECT.json` maps each one to
its lines, and lists the components, runs, findings, hazards and theorems.

Paths below are relative to `src/src/ibex_agent_verification/` unless they say
otherwise.

## 1. Inventory

The program is a set of command-line tools and scripts. Almost every tool is a
sequential function from files to a report and an exit code. What is hard lies
between the calls: files that are read more than once, records that are written
over a long time, runs that are killed and repeated, hooks and threads around a
callback, and artifacts that pass from one workflow run to another.

| Component | State it keeps | Operations | Interacts with | Correct when |
|---|---|---|---|---|
| Transition-phase evaluator (`transition_phase.py`) | the record and the report file | evaluate the record as it stands | a recorder that fills null fields | a verdict `VERIFIED` rests on the whole ordered story, is revoked by nothing but a late deadline, and agrees with the axes |
| Evidence manifest (`evidence.py`) | evidence directory, `manifest.json` | build a manifest, verify a bundle | other programs that write to the directory | the verdict is true of every file nobody touched |
| Cerebras runner (`cerebras_runner.py`) | request file, temporary capture, SDK client, evidence directory | send, capture, close, package | provider and SDK; the inference bundle | exit code, bundle and stream agree; a bundle is whole or has no readable manifest; the run ends |
| Inference bundle (`inference_evidence.py`) | the bundle's five files | load capture, analyse, build | the runner | the analysis is that of the capture beside it |
| Causal waveform reader (`causal_vcd.py`, `causal_hosted.py`) | last value per signal, pending flags, snapshots | read a VCD, restore shared identifiers, correlate with retirements | a simulated design | one snapshot per cycle, and waits counted as documented |
| CrewAI adapter (`integrations/`) | the hook registry, shared tool arguments | register, authorize a call | framework, other hooks, threads, provider | a tool runs only on what was approved |
| Command line (`cli.py`) | reports and exit codes | one command per tool | all of the above | the exit code says what happened |
| Action chain, canonical JSON (`action_chain.py`) | none; envelope, decision, outcome and audit records are the caller's | identify, validate, link | verifier depth, schema validation, agents that carry records | what is resumed is what was frozen, and an audit identifier leads to it |
| Verifier depth (`verifier_depth.py`) | none | authorize a transition, match a continuation, cross-walk two verdicts | action chain | decisions with one identifier grant the same |
| Verification graph (`verification_graph.py`) | the runs of a pull request: plan, job results, verdict | plan from changed paths, join results | CI jobs, pushes | no required node is skipped |
| Silicon gate (`silicon_gate.py`, `action.yml`) | six evidence files, report | decide `ALLOW`, `BLOCK`, `ESCALATE`, enforce | analyzers that write the files | decision and hashes reported are of the same files; green means allowed |
| Timing, control flow, trace (`timing.py`, `control_flow.py`, `ibex_trace.py`) | none | intervals, causes, redirects of one simulation | silicon gate | no delay and no redirect is missed |
| Comparator (`comparator.py`) | none | first divergence of two traces | silicon gate | the divergence is the first one |
| QA benchmark and scorecard | cases, runs, score | score, judge stability | ProofQA | no failed case is hidden by an average |
| ProofQA gates, transition manifest (`src/scripts/proofqa_*`) | receipt, attestation, gate decision | build, finalize, decide | workflows | an attestation is of the receipt that was verified |
| Trusted artifacts, promotion, release (`src/scripts/`) | records of workflow runs, releases, assets | select, download, extract, promote, deploy, observe | GitHub | every record is of the same release and of the same bytes |

Behaviours that are hard to test, by kind (each at its line under `hazards`):

- **Interleaving and atomicity.** The manifest builder and the verifier walk a
  directory that others write to; the CrewAI hook reads shared arguments three
  times and a registry that changes; a push cancels a run of the verification
  graph except for its verdict job; a release is looked up, created, filled and
  read in separate calls.
- **Stale state.** `verify_manifest` loads the manifest at its start and hashes
  it at its end; the runner reads the request file three times; the gate decides
  on files it hashes afterwards; changed paths are listed twice, each time for the
  head the pull request has then; a release observed by one job is signed by another.
- **Crash and retry.** A bundle is written file by file into its final
  directory, and its manifest twice; an extraction writes into its final directory
  too; a release asset may be half uploaded. The command or the workflow may be run
  again on what is left.
- **Partial failure.** The provider fails before the headers, after them, in the
  middle of the stream, with or without a response; a member of an archive is
  shorter than its entry says or does not decompress.
- **Ordering and sequences.** A record is filled in any order over a long time;
  grants and responses of one clock cycle set and clear the same flag; artifacts of
  several attempts of a run stand side by side; an action is deferred and resumed.
- **Time.** A deadline is judged by the time of the result and by the time of
  the evaluation.

## 2. Modules and plan

| Module | Models | Stands on |
|---|---|---|
| `TransitionPhase` | the record, its evaluation and its exit code | |
| `EvidenceBundle` | directory, builder and verifier, concurrently | |
| `InferenceRun` | one captured request and its bundle, with kills and retries | |
| `BusWait` | abstract: which cycles of a port are waited | |
| `WaveformHandshake` | the VCD reader on one port | implements `BusWait` |
| `ToolCallGuard` | the CrewAI hook among hooks and threads | |
| `ReleaseEvidence` | what each script of the release pipeline accepts | |
| `ReleasePipeline` | the four stages, their runs, attempts and the release | composes the scripts of `ReleaseEvidence` |
| `ArchiveIntake` | from a downloaded archive to an accepted directory | |
| `VerificationGraph` | plan, jobs and verdict of the runs of a pull request | |
| `ActionAuthority` | identifiers, continuation, authorization, crosswalk | |
| `TraceEvidence` | what the analyzers say about a simulation | |
| `SiliconGate` | the gate, its evidence files and its enforcement | composes the analyzers of `TraceEvidence` |
| `TransitionProofs` | theorems | `TransitionPhase`, `ArchiveIntake`, `TLAPS` |
| `HardwareEvidenceProofs` | theorems | `SiliconGate`, `WaveformHandshake`, `TLAPS` |
| `…Proofs`, the others | theorems | the module of that name, `TLAPS` |
| `MC_…` | constants for TLC | the module |

The evaluator came first because its verdict is the tool's central claim; then the
bundle that carries evidence and its producer; the adapters; the release pipeline,
where that evidence travels between workflow runs; the graph, the chain and the
gate, which decide what may happen next.

Left, in order:

1. Composition of the runner with the verifier: a run whose directory is verified
   while it is written, and two runs on one directory.
2. `CausalTiming`: choice of the retirement offset and enrichment of the timing
   rows, checked against a reference definition.
3. ProofQA: benchmark, score, gate and transition manifest; the release assets of
   tagged versions.
4. Proofs about what items 1 and 3 add. Every safety and action property that a
   passing run checks today is proved (section 5).

No module that is proved about declares a `RECURSIVE` operator.

## 3. How each module corresponds to the code

### TransitionPhase

Variables are the groups of fields of the record: `time` (`_TIME_KEYS`),
`intention`, `space`, `evidence`, `verification`; `now` is `evaluated_ns`;
`report` is the output file, `exit` the exit code. `None` is JSON null. Texts and
references are present or null, since `evaluate_transition` asks nothing else of
them; the origin is always given, and a destination is null, equal to the origin
or another place.

`Accepted` is `_normalize_record` with `_validate_chronology`. `IntentDeclared`,
`CommitmentComplete`, `ExecutionObserved`, `ResultObserved` and
`VerificationComplete` are the chain of booleans of `evaluate_transition`, the
five issues its list `issues`, and `Phase`, the axes and `Status` its three
decisions. `Evaluate` is the whole command: a rejected record sets exit code 2
and leaves the report alone. The recorder is external: it writes null fields in
any order, with any stamp not later than its clock, and never erases. The deadline
is such a field too: it may be filled in late, even after the result, with an
instant the result has already missed, and then the next evaluation of a verified
record says `RECALIBRATE`. A record that is malformed as JSON or has a field of the wrong type is rejected before it
has a state here.

### EvidenceBundle

`files` is the directory, one content per path; `Link` is a symbolic link to a
regular file elsewhere. Size and digest are one comparison. `StartBuild` is the
`rglob` of `collect_files`, `HashFile` one iteration (a path that is gone by then
is left out; a link is hashed through, so any content), `TruncateManifest` and
`FillManifest` the two moments of `write_text` a reader can see. `LoadManifest`,
`CheckFile`, `ScanDirectory`, `WriteReport` are the phases of `verify_manifest`;
an `EvidenceError` is the status `INVALID`. The manifest is kept apart from
`files`, as `collect_files` leaves it out. The code hashes in sorted order; the
model in any order, which allows more. `Edit` is any other program. `changed` and
`stale` remember what it touched and are used by properties only.

### InferenceRun

`step` is the program counter of `run_cerebras_inference`, which calls
`capture_cerebras_stream`, `load_capture`, `analyze_capture` and
`build_inference_bundle`; `capture` is the temporary `capture.jsonl`, `bundle`
the evidence directory file by file, `result` what the capture returned, `sent`
the request that was loaded. One action per file operation or SDK call. Of a
chunk or an error text the model keeps whether it holds a character that
`str.splitlines` takes for a line end, and which figures it carries: usage,
reasoning tokens and time information, of each none or one of two, so that chunks
can contradict each other and tokens can be completed in no time; or a malformed
figure (no object, no number, a negative one, a total that is not the sum).
`FiguresAgree` is what `analyze_capture` accepts of them. The metrics computed from accepted figures are
left out, and so are numbers beyond the range of a float. `Kill` may fall between any two steps;
`ClearDirectory` and `EditRequest` are the user.

### BusWait and WaveformHandshake

The design is external: at each rising edge it shows request, grant and response;
a response answers a transaction accepted in an earlier cycle. `Read` is
`finalize_timestamp` for the changes of one timestamp, followed by
`_restore_equivalent_signal_aliases` on the snapshot just taken: the code does
the second in another pass over the list, in the same order, so one pass computes
the same. `sharedCode` says whether this waveform gives request and grant one VCD
identifier; then the reader records changes only for the last alias, and the
restoration copies them. Data and instruction port run the same code on their own
signals, so one port is modelled. `BusWait` sees, cycle by cycle,
whether a transaction was accepted and whether one was answered, and counts the
cycles to wait. The refinement mapping takes both from the wires and keeps
`cycles`, `outstanding` and `waited`; the two events have to be visible, since
otherwise a cycle whose wait is missed looks like one that accepts and answers.

### ToolCallGuard

`CheckPosition` is `_registered_hook` of `integrations/crewai.py`;
`BuildEnvelope`, `BuildRequest`, `Evaluate`, `CompareEnvelopes` are the reads and
the decision of `evaluate_crewai_tool_call`, one action each because another
thread may act between them. `Error` is its `except` clause, which blocks or
allows as `fail_closed` says. The framework is external: it runs a copy of the
registry, stops at the first hook that returns `False`, and runs the tool on the
arguments as they then are. The provider allows only `Approved` arguments, and may
also refuse, raise or return no decision. Agent, task and tool identity stay the
same during a call.

### ReleaseEvidence and ReleasePipeline

The pipeline is four workflows: the Ibex end-to-end run uploads evidence,
`ibex-evidence-promotion.yml` makes a six-file transition source of it,
`github-release-production-deployment.yml` publishes that source as the one asset
of the commit's release, and `github-release-runtime-verification.yml` installs
the package, verifies the published bytes with it, and publishes a receipt.
Artifact names, tags and concurrency groups carry the commit, so one commit is
modelled.

Bytes are known by the attempt that made them (`id`): two digests are equal exactly
when the identifiers are, and SHA-256 is taken to be injective. What the provenance
record inside declares of workflow, run and attempt is another field (`says`), and
it is all the scripts compare: `ProvenanceNames` looks at `says`, and
`PromotedRelease` asks for the very run and attempt the archive itself names. The
pipeline's own archives declare what they are. `Foreign` is one no workflow made,
which a maintainer uploads as the release asset: it may declare any identity of the
constant `Claims` and is well formed or not, and a well-formed one that declares a
promotion is accepted, executed and gets a receipt. What can be wrong inside
an archive is one element of `Fault`, grouped as the validators group their checks,
and a validator of `ReleaseEvidence` is the set of faults it refuses together with
the identifiers it compares: `Selectable` and `Selection` are
`trusted_transition_artifact.py` on the artifacts API; `Extracted`,
`LayoutExact`, `ProvenanceNames`, `TransitionVerified`, `RolesAgree` are
`production_transition_source.py`; `EvidenceAccepted` and `ManifestInventory` are
`ibex_evidence_promotion.py`; `LiveObserved`, `ProductionAccepted` and
`RuntimeAccepted` are the two `github_release_*` scripts; `Audited` is
`trusted_transition_artifact_audit.py`. Every refusal is exit code 2, which fails
the job. `EvidenceFault` and `SourceFault` are what can be wrong with an
end-to-end archive and with a release asset, each fault one group of checks of the
script that reads it; the constants `EvidenceFaults` and `AssetFaults` choose among
them.

In `ReleasePipeline`, `job[s]` is the attempt of stage `s` that runs, with its
program counter and what it has in its workspace; `pending[s]` is the run that
waits for the concurrency group. `Start`, `Enqueue` and `Cancelled` are GitHub's
group with `cancel-in-progress: false`: one runs, one waits, a newer one cancels
the waiting one. `Complete` fires `workflow_run` of the next stage. The event is
fired whatever the conclusion, while the concurrency group is that of the workflow
and the conclusion is asked for by the jobs: an attempt that fails, is killed or
cancelled starts a run whose jobs are skipped, which enters the group all the same.
`SkippedRun` is such a run displacing the one that waits; it happens at most once
for each unsuccessful attempt of an earlier stage, whose own completions it also
stands for. A displaced run is lost until somebody runs it again. `Publish`
decides on the release as `Lookup` saw it, and GitHub refuses a second asset of
one name. `Upload` of the runtime stage ends its first job and starts the sign
job, which can be re-run alone (`from = "sign"`). `Kill` may leave a `starter`
asset. A maintainer deletes or expires artifacts and edits the release. `made` and
`lived` remember archives and live bytes and are used by properties and edits only.

### ArchiveIntake

`Open` to `Inventory` are `extract_artifact` of `trusted_transition_artifact.py`
(`kind = "source"`) and of `ibex_evidence_promotion.py` (`kind = "evidence"`),
which run the same two passes: `ScanMember` checks one entry of the table,
`WriteMember` writes one, `Inventory` compares the directory with the manifest it
holds. An entry is a member of a few names: two that are equal but for case, one
that leaves the directory, one outside the layout. The size and CRC of an entry
against its data are its `content`; a damaged stream is refused or ends the script
with an error no handler names. `Kill` may fall between any two steps and `Start`
runs the script again, on the directory that is there and on another archive.

### VerificationGraph

A run is a record: head, phase, job results, the paths the verdict was derived
from, verdict. `Plan` is `command_plan`, `Conclude` `command_finalize` of
`src/scripts/ibex_verification_graph.py`, on `Depth`, `Required` and `Finalize` of
`verification_graph.py`; `Recollect` is the second listing of changed paths in the
verdict job. The policy is a constant. A path is known by the depths of the rules
that match it; patterns are not matched character by character. Both listings ask
the pull request, so they return the paths of its present `head`. `Cancel` is
`cancel-in-progress`, which spares the verdict job (`if: always()`).

### ActionAuthority

An identifier is the projection that is hashed, so that two are equal exactly when
their preimages are; an error is `NoId`. `ActionId` chooses between the V1 profile
and the legacy envelope as `action_chain.py` does; `DecisionId` applies the schema
and the binding rules, with grants and references as sets. `Reason` is
`authorize_transition`, `ContinuationMatches` is `continuation_matches`, `Crosswalk`
the comparison of two verdicts, with its resource limits before the schema. `Freeze`
to `Link` is the caller's use of the library, in the order the schemas and tests
give; `Drift` changes one part of a record that travels in between.

### TraceEvidence and SiliconGate

`TraceEvidence` is the comparator, the timing findings and the redirects as
operators on two simulations; program counters wrap at `AddressSpace`. In
`SiliconGate` a file is known by the commit it was produced for; `Half` is not
JSON, `Garbled` not UTF-8. `Resolve`, `Load`, `Decide`, `Hash`, `WriteReport` are
`silicon_gate.py` in its order: all paths must exist before one is opened, files
are loaded in one order and hashed, when they are opened again, in another.
`Publish` and `Enforce` are the wrapper and the last step of `action.yml`.
`Produce` is whoever writes the evidence.

## 4. Runs

| Run | Checks | Shows | Bounds |
|---|---|---|---|
| `transition_record` | `RecordTypeOK`, `AxesAgreeWithPhase`, `VerifiedHasWholeStory`, `OnlyALateDeadlineRevokes`, `PhasesAdvance` | what a verdict rests on, that only a late deadline revokes it, that phases only advance | time 0..1, one key per group, at most two contradictions |
| `evidence_bundle` | `TypeOK`, `VerdictHoldsForUntouchedFiles`, `QuietVerdictIsExact`, `ManifestRecordsUntouchedFiles` | what a verdict and a manifest mean under concurrent writes | 2 files, 2 contents, 2 foreign writes, 2 builds |
| `inference_run` | `TypeOK`, `BundleIsWhole`, `ZeroMeansComplete`, `RejectionHasReason`, `BundleIsKept`, `RunEnds` | exit codes and bundles agree through kills and retries; a run ends | 2 requests, streams of 2 chunks, 1 edit, 2 runs |
| `waveform_port` | `PortTypeOK`, `SnapshotPerCycle`, `WaitsAsPromised` | one snapshot per cycle; `BusWait` is implemented, with shared identifiers too | 12 cycles, 1 outstanding |
| `waveform_missed_wait` | `PendingIsWaited` | finding 1 | 12 cycles, 2 outstanding |
| `tool_call_guard` | `ExecutedIsApproved`, `AllowIsForLiveArguments` | what the tool runs on, and what an allowing answer is for | 2 argument values and 1 without an envelope, 2 other hooks, 2 calls, 2 changes by threads |
| `release_pipeline` | `TypeOK`, `ReceiptIsWhole`, `ReceiptReachesEvidence`, `DeployedIsTriggering`, `RefusalHasCause`, `PublishedIsFinal`, `CalmRunIsSigned` | a receipt is for published, executed bytes of its own attempt and leads back to accepted evidence unless a maintainer put up another archive; the asset is written once; refusals have causes; undisturbed evidence is signed | 2 attempts of a run, 2 re-runs, or 1 re-run with 1 kill and 1 edit, 4 evidence faults, 2 asset faults, 2 claims, 5 executions |
| `archive_intake` | `TypeOK`, `AcceptedTreeIsExact`, `WrittenIsSound` | what an accepted directory holds, after kills and further tries | every archive of up to 3 of 13 members, 4 entries allowed, sizes 0..3, 2 tries |
| `verification_graph` | `TypeOK`, `PassMeansCoreRan`, `SteadyPassIsRight`, `LastRunEnds` | what a pass rests on while pushes cancel runs; the last run ends | 3 heads, 3 pushes, one unconditional and one conditional job, a human review |
| `graph_stale_head` | `PassIsRightAboutItsHead` | finding 2 | the same |
| `action_authority` | `ResumeReproducesFrozen`, `AuditReachesAction`, `SameIdSameAuthority` | what an identifier binds, after any two changes | 3 contents, 2 deadlines, 3 transitions, 2 base decisions, 2 changes |
| `silicon_gate` | `QuietReportIsExact`, `GreenMeansAllowed`, `AllowedRunIsOnTime` | a report made undisturbed is of the bytes on disk; green means allowed; an allowed simulation on a clean baseline has no delay | 2 commits, 8 simulations of up to 3 instructions, 1 write, 2 gates |

Why these bounds are enough. In `TransitionPhase` the keys of one group are only
ever tested together, so one key stands for the group, and every condition
compares two instants (a stamp, the deadline or now), which two values can order
in every way; the limit of two
contradictions cuts records that were already reported `RECALIBRATE` for two
reasons, while the theorems have none of these limits. In `EvidenceBundle` two
files allow a write to the file already visited and to the one not yet visited,
and two builds allow one manifest to be loaded and another hashed. In
`InferenceRun` two chunks carry figures that contradict each other, one malformed
figure or a separator in either place, and two runs are a kill and a retry. In `WaveformHandshake` the flag
and the count depend on one cycle and the state before it; twelve cycles pass
through every state several times. In `ToolCallGuard` one hook before and one
after the adapter's, and a second call after hooks were moved, are all the places
there are. In `ReleasePipeline` two attempts are what selection and audit have to
tell apart, and one disturbance of each kind can fall at every step; what two edits
together can do is not checked. The state constraint `FewDisturbances` keeps the
second re-run, which brings a third run into a concurrency group, to behaviours
without kills and edits. It cuts only behaviours that were interfered with, of which
`CalmRunIsSigned` says nothing, so that it does not weaken the liveness property.
The two claims are the one the scripts ask for and one they refuse. In `ArchiveIntake` three members are enough for a
collision with a member between, and for a sum over the limit; the fourth place is
for the archive that has too many. In `VerificationGraph` three runs are one in
progress, one dropped while it waits, and the last. In `ActionAuthority` two
changes are a change of what is bound and one of what is not. In `SiliconGate` one
write can fall before, between and after any two reads, and the second gate meets
the report of the first.

Deadlock is checked in the first two modules, in `WaveformHandshake` and in
`ToolCallGuard`. The others stop when their runs, tries, pushes or changes are used
up. Each property of a passing run has a mutant in `PROJECT.json`: a plausible bug
of one mapped definition that makes TLC refute the property.

**Fairness.** Three specifications state it, and each only for steps the system
takes by itself.

- `InferenceRun`: weak fairness of `RunnerStep`, for `RunEnds`. The runner is one
  sequential program, and its SDK calls return or raise within the timeout the
  client is made with. That timeout is per read: the provider bounds the length of a
  stream, not the runner, and `MaxChunks` stands for it.
- `ReleasePipeline`: weak fairness of `Work(s)` for each stage, of `Publishing` and
  of `Running`, for `CalmRunIsSigned`. GitHub starts a waiting run when its group is
  free and carries on with a job that runs; every job has a timeout, and a job that
  ran into it counts as killed. No fairness for users, kills, edits or re-runs.
- `VerificationGraph`: weak fairness of the progress of runs, for `LastRunEnds`.
  Every job has a timeout; that a job fails is not assumed, that it ends is.

## 5. What is proved

For all values of the constants, from the named assumptions on them only:

- `TransitionProofs`, on the evaluator: `TypeCorrect`; `AxesAgree`, which needs no
  induction beyond types, since phase and axes are computed from the same record;
  `VerdictRevokedByDeadlineOnly`, `WholeStory` and `ReportsAdvance`. A verdict
  `VERIFIED` can be revoked: `deadline_ns` is nullable, and a deadline filled in
  late counts against a result that came before. The theorem says that nothing else
  revokes it, neither the clock nor any field written since. The property on the
  report alone is not inductive, because a step changes the record and not the
  report; `StoryKept` says that the record keeps the story the verdict rested on,
  and the deadline if the report names one. `WholeStory` follows. `ReportsAdvance` is the action property
  `PhasesAdvance`; its invariant `Reached` says that the record still has the
  milestone the last report named, since a field that is written stays written.
- `TransitionProofs`, on the intake: `IntakeTypeCorrect`, `TableIsSound`,
  `OneArchive` and `TreeIsExact`, for any archives, limits and tries. `ScanInv`
  describes the scan by the members it has passed, `WriteInv` the directory by the
  members written so far, and `TryInv` says that a directory is only written by the
  try that made it. `AcceptedTreeIsExact` alone speaks of the end of a run and is
  not inductive.
- `EvidenceBundleProofs`: `BundleTypeCorrect`; `VerdictSound`, by an invariant
  that says, at each step of the verifier, which paths it already knows to agree
  unless they were touched since; `InventorySound`, by the same idea for the
  builder: what it has hashed agrees, and what is still to hash is all that is
  there. Both hold with any interleaving of the two and of other writers.
  `QuietVerdictExact` is the other direction: when nobody writes meanwhile, a
  reported mismatch is a real difference and a rejection is for a link. Its
  invariant adds `MismatchIsReal`, the same of a mismatch that is not yet reported.
- `InferenceRunProofs`: `RunTypeCorrect`, `BundleWhole`, `BundleKept`,
  `ZeroIsComplete` and `RejectionIsJustified`, for streams of any length, any edits,
  kills and further runs. `CaptureInv` gives the shape of the capture while the
  request is open and once it was returned: a start, at most one line of headers
  right after it, one terminal line at the end. With it the analyzer's structural
  rules are facts about the runner, and what is left of a rejection, while nobody
  edits the request, is what the provider sent: the text of the stream (finding 6),
  its status, or figures that are malformed or contradict each other.
  `BundleInv` says which files of the directory are written at which step and that
  they are those of this capture, and that a run before its first write has an
  empty directory, so that no run touches a bundle an earlier one left. The exit
  code is set together with the last write, on what the steps before it wrote.
- `ReleasePipelineProofs`: `PipelineTypeCorrect`, `ReceiptWhole`,
  `DeployedTriggers`, `ReceiptReaches`, `PublishedFinal` and `RefusalsHaveCause`,
  for any number of runs, attempts, re-runs, kills and edits, and any choice of
  faults. A receipt is judged long after the archives it names may have been
  deleted, so that its property cannot be followed backwards through the present
  state. `SafeInv` therefore carries, for every archive ever made, what it speaks
  of (`MadeInv`), what was ever live (`ReleaseInv`), and for each stage what an
  attempt has established at the step it is at. `RefusalsHaveCause` is about the
  opposite direction, that an attempt succeeds unless something went wrong; it needs
  `CalmInv`: which archive stands behind every waiting, running and ended attempt,
  that while nobody edits what an attempt saw of the release is still so, and that
  runs are numbered without a gap and the first attempt of a run finds no artifact
  but its own. `ReceiptWhole` and `ReceiptReaches` speak of what the scripts can
  know: the bytes published were without fault and declared themselves promoted.
  That they were promoted is proved while nobody edits; after an edit a receipt
  leads back to evidence or to an archive no workflow made, and `CalmInv` supplies
  that such an archive needs an edit.
- `HardwareEvidenceProofs`, on the waveform: `PortTypeCorrect`,
  `OneSnapshotPerCycle` and `NoWaitIsInvented` for any number of outstanding
  transactions, and `WaitsAreAsPromised`, the refinement of `BusWait`, for a port
  without overlap (`ASSUME ~Overlap`; finding 1 is what happens with it). The
  inductive invariant `Follows` says that the reader's values, once restored, are
  the design's; for the refinement `Exact` adds that the flag is set exactly while a
  transaction is outstanding.
- `HardwareEvidenceProofs`, on the gate: `GateTypeCorrect`, `QuietReportSound`,
  `GreenSound` and `AllowedIsOnTime`. The invariant of the middle two follows the
  two passes over the files, in their two orders, and says which files read so far
  are still those on disk while nobody has written. `AllowedIsOnTime` is about the
  analyzers: on a baseline without delays, it holds for any
  simulations, budgets and expected cycle counts, from types alone. `FirstMismatch` is a smallest index, so that its proof needs that a
  set of numbers that is not empty has one (`SmallestOfSet`, from the library's
  theorem on well-founded relations).
- `ToolCallGuardProofs`: `GuardTypeCorrect`; `ExecutionSound` and `AllowIsLive`,
  for any hooks and arguments. `QueueInv`, `ReadInv` and `OutcomeInv` say that
  while a guarded call is undisturbed the queue of hooks still to run is the tail of
  the registry, hence empty after the adapter's hook, and what each read of the
  arguments has fixed. Without the first a hook could still run after the
  approval, which is finding 9.
- `VerificationGraphProofs`: `GraphTypeCorrect`, `PassRestsOnCore` and
  `SteadyPassSound`, for any policy and any pushes. `RunInv` says that a verdict
  is that of the results and the paths the run holds and that the run is over, so
  that no later result can belie it. `PolicyAssumption` includes what the policy
  file gives: the jobs without a condition have the least depth.
- `ActionAuthorityProofs`: `AuthorityTypeCorrect`, `ResumeIsExact`,
  `AuditIsTraceable`, `AuthorityIsBound` and `HardBlockHolds`, for any number of
  changes. They rest on lemmas about the projections: which fields an identifier
  determines. References that are equal as sets and free of repetition are equally
  long, so that the resource limits answer alike.

`NoInventedWait` of `WaveformHandshake`, `OneArchivePerTree` of `ArchiveIntake`,
`BoundHardBlockStops` of `ActionAuthority`, and the type invariants of
`ToolCallGuard`, `ActionAuthority` and `SiliconGate` are proved and in no run.

Only model-checked: the liveness properties `RunEnds`, `CalmRunIsSigned` and
`LastRunEnds`, for which the proof system has no rules for `ENABLED` and so for
fairness. The two refuted properties of section 6 are shown by their traces.

## 6. Findings

Two runs check what the documentation says and refute it:

1. `causal_hosted.py:70` (run `waveform_missed_wait`): with overlapping
   transactions one flag stands for all, and the first response clears it: the wait
   for the second is not counted (`src/docs/CAUSAL_WAVEFORM_ADAPTER.md:71`).
2. `src/.github/workflows/ibex-verification-graph.yml:391` (run
   `graph_stale_head`): both listings of changed paths are of the pull request's
   present head, so that after a push that changes less, the run of the older head
   passes without the jobs its own paths require
   (`src/docs/IBEX_VERIFICATION_GRAPH.md:29`).

Further disagreements between code and documentation are kept as formulas in their
modules. No run lists them; added to the configuration of the module as an
`INVARIANT` (the first one as a `PROPERTY`), TLC refutes each:

3. `MissedDeadlineIsFinal` (`TransitionPhase`): a transition reported past its
   deadline is reported `VERIFIED` once its verification is written late
   (`transition_phase.py:312`; `src/docs/TRANSITION_PHASE_CONTRACT.md:189`).
4. `ReportBindsManifest` (`EvidenceBundle`): the manifest digest in a report may be
   of another manifest than the one verified (`evidence.py:290`; the docstring at
   line 186).
5. `PreservedRequestWasSent` (`InferenceRun`): the request preserved may not be the
   one sent (`inference_evidence.py:428`; `src/docs/CEREBRAS_CLOUD_RUNNER.md:9`).
6. `ObservedStreamIsPackaged` (`InferenceRun`): a stream whose text holds U+2028,
   U+2029 or U+0085 is written as one line, read as two, and lost with exit code 2
   (`inference_evidence.py:63`; line 3 of that document).
7. `OneMeansPackagedFailure` (`InferenceRun`): a request that is not UTF-8 ends the
   command with exit code 1, documented as a packaged failure (line 120 of it).
8. `PromotionNamesProducer` (`ReleasePipeline`): the artifact selected is that of
   the run, whichever attempt made it, and is recorded under the attempt that
   triggered (`src/docs/TRUSTED_TRANSITION_ARTIFACT_INGESTION.md:64`).
   `SignedBytesAreLive`: when GitHub lists no digest for the asset, the sign job
   compares nothing.
9. `NoHookAfterAllow` (`ToolCallGuard`): the hook's position is checked in the live
   registry while the framework runs an earlier copy: a later hook, unregistered
   meanwhile, changes the arguments after the approval
   (`integrations/crewai.py:63`; `src/docs/CREWAI_ACTION_ENVELOPE_ADAPTER.md:65`).
10. `CompatibleVerdictsAgree` (`ActionAuthority`): the crosswalk compares neither
    depth nor expiry, so verdicts it declares preserved may authorize different
    transitions (`src/docs/CROSSWALK_CONTRACT_HARDENING_V0_2.md:78`).
11. `AllowRestsOnCandidate` (`SiliconGate`): only the manifest is compared with the
    requested commit; the other evidence may be of another
    (`src/docs/SILICON_EVIDENCE_GATE.md:7`). `NewUnknownNeverAllowed`: a new unknown
    delay is allowed if another one is gone, since counts are compared (line 116).

Observed while modelling, and part of the models: a green end-to-end run with a
waveform alignment below one or an absent optional signal is refused by the
promotion, every time; a damaged archive member ends the ingestion with a traceback
and exit code 1; evidence that is not UTF-8 ends the gate with exit code 1, the code
of `BLOCK`; a `starter` asset left by a killed upload makes every further deployment
refuse; a second attempt's artifacts make selection refuse; and `authorize_transition`
authorizes what a hard block grants even if the schema would reject it, so that only
decisions with an identifier are safe (`BoundHardBlockStops`).

## 7. Not modelled

- Planned: see section 2.
- QA benchmark and scorecard, ProofQA gates: stateless thresholds and statistics over
  one input file; the release pipeline takes their acceptance as given.
- ProofQA transition manifest and response integrity: digest checks of one directory,
  of the kind `EvidenceBundle` models.
- Release assets of tagged versions and their audit: a second, hand-started path.
- The static audit of workflow files (`audit_workflow`), the reference producer of
  transition artifacts, and the ranking of causes in `timing.py`.
- The interpreter of JSON Schema keywords, the serialization of numbers and strings
  in canonical JSON, and report wording: string processing without state; their
  verdicts are inputs.
- `src/scripts/deepseek_pr_review.py`: one request whose answer is validated and
  shown; no state.
- Shell drivers and the remaining workflows: sequences of external tools.
- External, modelled only as the code uses them: the author of a record, other
  programs on the directory, provider and SDK, the simulated design, CrewAI's
  dispatcher and registry, the authorization provider, GitHub's artifacts, releases
  and concurrency groups, maintainers, and the agents records travel through.
