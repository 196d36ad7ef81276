------------------------------ MODULE ReleaseEvidence ------------------------------
(***************************************************************************)
(* What the scripts of the release pipeline accept.                        *)
(*                                                                         *)
(* Bytes are known by the attempt that made them, so that equal digests    *)
(* are equal identifiers (id); what the provenance record inside declares  *)
(* (says) is another matter: the pipeline's own archives tell the truth,   *)
(* one of another origin may declare anything, and a script sees no more   *)
(* than the digest and the declaration.  What is wrong with the content of *)
(* an archive is one fault of a taxonomy: each script is the set of faults *)
(* it refuses and the identifiers it compares.  A refusal ends the script  *)
(* with exit code 2 and no report.                                         *)
(***************************************************************************)
EXTENDS Naturals, FiniteSets

Stages == {"promotion", "deployment", "runtime"}
Run == [run: Nat, attempt: Nat]
NoRun == [run |-> 0, attempt |-> 0]
Id == [stage: Stages \cup {"e2e", "foreign", "none"}, run: Nat, attempt: Nat]
NoId == [stage |-> "none", run |-> 0, attempt |-> 0]

(* The archive itself: a name outside the layout or not canonical, two     *)
(* names equal but for case, a link or an encrypted member, a size beyond  *)
(* its limit.                                                              *)
ContainerFaults == {"name", "collision", "mode", "size"}

(* The evidence manifest against the files extracted.                      *)
InventoryFaults == {"unlisted", "missing", "digest", "required"}

(* The end-to-end run the evidence describes: another commit or Ibex ref,  *)
(* a failed simulation or trace parse, reports that disagree.              *)
IdentityFaults == {"project", "dut"}
ResultFaults == {"simulation", "trace", "anomaly", "timing-exit"}
ReportFaults == {"parser-digest", "not-enriched", "alignment", "signals", "markers"}

(* A transition source: its six files, the provenance (another schema or   *)
(* workflow, a run or attempt that is no positive number, another          *)
(* destination or commit), the transition report and the four evidence     *)
(* files.                                                                  *)
LayoutFaults == {"extra-file", "missing-file", "link"}
ProvenanceFaults == {"kind", "numbers", "destination", "commit"}
TransitionFaults == {"unverified", "claim", "reference"}
RoleFaults == {"common", "intent", "action", "result", "verification"}

(* What can be wrong with an evidence archive, and with a transition source. *)
EvidenceFault == {"none"} \cup ContainerFaults \cup InventoryFaults
                    \cup IdentityFaults \cup ResultFaults \cup ReportFaults
SourceFault == {"none"} \cup ContainerFaults \cup LayoutFaults
                    \cup ProvenanceFaults \cup TransitionFaults \cup RoleFaults
Fault == EvidenceFault \cup SourceFault

(* The end-to-end workflow succeeds whatever the waveform alignment above  *)
(* its own threshold is and whichever optional signals are absent.         *)
GreenFaults == {"none", "alignment", "signals"}

(* One execution of the installed package.                                 *)
WheelFaults == {"wheel-entries", "wheel-metadata", "entry-point"}
InstallFaults == {"other-wheel", "not-isolated", "module-outside"}
BundleFaults == {"bundle-file", "bundle-digest", "bundle-extra"}
CliFaults == {"cli-status", "cli-manifest", "cli-source-set"}
Execution == {"unrun", "good"} \cup WheelFaults \cup InstallFaults
                \cup BundleFaults \cup CliFaults

Archive == [id: Id, says: Id, subject: Id, cause: Run, fault: Fault, exec: Execution]
NoArchive == [id |-> NoId, says |-> NoId, subject |-> NoId, cause |-> NoRun,
              fault |-> "none", exec |-> "unrun"]
(* The n-th archive that no workflow made, whatever it declares.           *)
Foreign(n, says, fault) ==
    [id |-> [stage |-> "foreign", run |-> n, attempt |-> 0], says |-> says,
     subject |-> NoId, cause |-> NoRun, fault |-> fault, exec |-> "unrun"]

Asset == [bytes: Archive, state: {"none", "starter", "uploaded"}, listed: BOOLEAN]
NoAsset == [bytes |-> NoArchive, state |-> "none", listed |-> FALSE]
Release == [exists: BOOLEAN, plain: BOOLEAN, asset: Asset, extra: BOOLEAN]
NoRelease == [exists |-> FALSE, plain |-> FALSE, asset |-> NoAsset, extra |-> FALSE]

SelectionType == [artifact: Archive, run: Nat, attempt: Nat]
NoSelection == [artifact |-> NoArchive, run |-> 0, attempt |-> 0]
Chain == [provenance: Id, selection: SelectionType, extraction: Id,
          observation: Run, live: Asset, validation: Id, attested: Id]
NoChain == [provenance |-> NoId, selection |-> NoSelection, extraction |-> NoId,
            observation |-> NoRun, live |-> NoAsset, validation |-> NoId,
            attested |-> NoId]

-----------------------------------------------------------------------------
(* Artifacts of a workflow run                                             *)

(* Exactly one artifact of that name, and not expired.                     *)
Selectable(listed, expired) == \E a \in listed : listed = {a} /\ a.id \notin expired

(* The selection repeats the run and attempt it was asked for; which       *)
(* attempt made the artifact the API does not say.                         *)
Selection(listed, r) ==
    [artifact |-> CHOOSE a \in listed : TRUE, run |-> r.run, attempt |-> r.attempt]
SelectionNames(sel, r) == sel.run = r.run /\ sel.attempt = r.attempt

(* The bytes downloaded are those selected, and unpack into the layout.    *)
Extracted(bytes, sel) == bytes.id = sel.artifact.id /\ bytes.fault \notin ContainerFaults

-----------------------------------------------------------------------------
(* Evidence of the end-to-end run, and its promotion                       *)

(* Another extractor with the same rules and the evidence's layout.        *)
EvidenceExtracted(bytes, sel) ==
    bytes.id = sel.artifact.id /\ bytes.fault \notin ContainerFaults
ManifestInventory(a) == a.fault \notin InventoryFaults
EvidenceWithoutReports(a) ==
    /\ a.fault \notin IdentityFaults \cup ResultFaults
    /\ ManifestInventory(a)

EvidenceAccepted(a) ==
    /\ a.fault \notin IdentityFaults \cup ResultFaults
    /\ ManifestInventory(a)
    /\ a.fault \notin ReportFaults

Promotable(bytes, sel, r) ==
    SelectionNames(sel, r) /\ EvidenceExtracted(bytes, sel) /\ EvidenceAccepted(bytes)

(* The six files an attempt of a stage writes about a subject.             *)
SourceOf(stage, r, subject, cause) ==
    LET name == [stage |-> stage, run |-> r.run, attempt |-> r.attempt] IN
    [id |-> name, says |-> name, subject |-> subject, cause |-> cause,
     fault |-> "none", exec |-> "unrun"]
PromotedSource(r, evidence, cause) == SourceOf("promotion", r, evidence.id, cause)

-----------------------------------------------------------------------------
(* A transition source                                                     *)

LayoutExact(a) == a.fault \notin LayoutFaults \cup ContainerFaults
ProvenanceOfAnyAttempt(a, stage, r) ==
    /\ a.fault \notin ProvenanceFaults
    /\ a.says.stage = stage /\ a.says.run = r.run

(* What the provenance declares, not who wrote it, is compared.            *)
ProvenanceNames(a, stage, r) ==
    /\ a.fault \notin ProvenanceFaults
    /\ a.says = [stage |-> stage, run |-> r.run, attempt |-> r.attempt]
TransitionVerified(a) == a.fault \notin TransitionFaults
CommonAgrees(a) == a.fault # "common"
RolesAgree(a) == CommonAgrees(a) /\ a.fault \notin RoleFaults
ValidSource(a, stage, r) ==
    /\ LayoutExact(a)
    /\ ProvenanceNames(a, stage, r)
    /\ TransitionVerified(a)
    /\ RolesAgree(a)

-----------------------------------------------------------------------------
(* The release and the production source                                   *)

ReleaseIsPlain(rel) == rel.exists /\ rel.plain
(* A plain release whose single asset is uploaded; GitHub may list no      *)
(* digest for it, and then the expected one is compared with nothing.      *)
LiveObserved(rel, id) ==
    /\ ReleaseIsPlain(rel)
    /\ ~rel.extra
    /\ rel.asset.state = "uploaded"
    /\ rel.asset.listed => rel.asset.bytes.id = id
(* The same, given the bytes downloaded.                                   *)
DownloadObserved(rel, bytes) == LiveObserved(rel, bytes.id)

SourceSelected(sel, r) == SelectionNames(sel, r)
ProductionAccepted(picked, sel, r, rel, bytes) ==
    /\ SourceSelected(sel, r)
    /\ Extracted(picked, sel)
    /\ ValidSource(picked, "promotion", r)
    /\ bytes.id = picked.id
    /\ DownloadObserved(rel, bytes)
DeployedUnderTag(r, bytes, cause) == SourceOf("release", r, bytes.id, cause)

DeployedSource(r, bytes, cause) == SourceOf("deployment", r, bytes.id, cause)

-----------------------------------------------------------------------------
(* The runtime verification                                                *)

(* The bytes of the live asset are extracted under a selection made up     *)
(* from the release itself.                                                *)
LiveSelection(rel, bytes) == [artifact |-> bytes, run |-> 0, attempt |-> 0]
LiveExtracted(rel, bytes) ==
    DownloadObserved(rel, bytes) /\ Extracted(bytes, LiveSelection(rel, bytes))

(* The promotion run and attempt are whichever the released source itself  *)
(* declares.                                                               *)
PromotedRelease(bytes) == ValidSource(bytes, "promotion", bytes.says)

WheelInspected(e) == e \notin WheelFaults
InstallValidated(e) == e \notin InstallFaults
BundleBound(e) == e \notin BundleFaults
CliBound(e) == e \notin CliFaults
RuntimeWithoutInstall(rel, bytes, e) ==
    /\ DownloadObserved(rel, bytes)
    /\ PromotedRelease(bytes)
    /\ WheelInspected(e)
    /\ BundleBound(e)
    /\ CliBound(e)

RuntimeAccepted(rel, bytes, e) ==
    /\ DownloadObserved(rel, bytes)
    /\ PromotedRelease(bytes)
    /\ WheelInspected(e)
    /\ InstallValidated(e)
    /\ BundleBound(e)
    /\ CliBound(e)
ExecutedSource(r, bytes, cause, e) ==
    [SourceOf("runtime", r, bytes.id, cause) EXCEPT !.exec = e]

(* The sign job: provenance of this very run and attempt, and the release  *)
(* read again.                                                             *)
RuntimeObserved(a, r, rel) ==
    ProvenanceNames(a, "runtime", r) /\ LiveObserved(rel, a.subject)

-----------------------------------------------------------------------------
(* The signed chain and its audit                                          *)

(* What the sign job binds into the attested manifest.                     *)
ChainOf(sel, bytes, r, rel) ==
    [provenance |-> bytes.says, selection |-> sel, extraction |-> bytes.id,
     observation |-> r, live |-> rel.asset, validation |-> bytes.says,
     attested |-> bytes.id]
ChainSource(c, r) ==
    /\ c.provenance = [stage |-> "runtime", run |-> r.run, attempt |-> r.attempt]
    /\ SelectionNames(c.selection, r)
    /\ c.extraction = c.selection.artifact.id
ChainObservation(c, r) ==
    c.observation = r /\ c.validation = c.provenance /\ c.attested = c.extraction
Audited(c, r) == ChainSource(c, r) /\ ChainObservation(c, r)
=============================================================================
