-------------------------- MODULE EvidenceBundle --------------------------
(***************************************************************************)
(* An evidence directory, the manifest builder and the bundle verifier     *)
(* (evidence.py: collect_files, write_manifest and verify_manifest).       *)
(*                                                                         *)
(* The directory is shared: while the builder hashes it or the verifier    *)
(* checks it, other programs may still write there, and the builder and    *)
(* the verifier may overlap.  Neither takes a lock or a snapshot; each     *)
(* reads one file at a time.  A file is its content (size and SHA-256 are  *)
(* equal exactly when the contents are); verify_manifest also loads the    *)
(* manifest at its start and hashes it again at its end.                   *)
(***************************************************************************)
EXTENDS Naturals

CONSTANTS
  Path,      \* relative paths of the files of the directory
  Content,   \* contents of a regular file
  Absent,    \* no file
  Link,      \* a symbolic link to a regular file elsewhere
  Missing,   \* no manifest file
  Torn,      \* a manifest file that does not parse: being written, or malformed
  MaxEdits,  \* bound on the writes of other programs
  MaxBuilds  \* bound on the manifests written

ASSUME BundleAssumption ==
  /\ Absent \notin Content
  /\ Link \notin Content
  /\ Link # Absent
  /\ Missing \notin [Path -> Content \cup {Absent}]
  /\ Torn \notin [Path -> Content \cup {Absent}]
  /\ Missing # Torn
  /\ MaxEdits \in Nat
  /\ MaxBuilds \in Nat

VARIABLES
  files,     \* files[p]: what is at p
  manifest,  \* the manifest file: its entries (an inventory), Missing or Torn
  builder,   \* write_manifest: step, paths still to hash, entries so far
  verifier,  \* verify_manifest: step, entries loaded, paths still to check, mismatch found
  report,    \* what the last verification returned
  changed,   \* paths written by others since the last verification loaded the manifest
  stale,     \* paths written by others since the last build started
  edits, builds

vars == <<files, manifest, builder, verifier, report, changed, stale, edits, builds>>

(* An inventory maps each listed path to its recorded content; Absent      *)
(* stands for a path that is not listed.                                   *)
Inventories == [Path -> Content \cup {Absent}]
Empty == [p \in Path |-> Absent]
Listed(inventory) == {p \in Path : inventory[p] # Absent}
NoReport == [status |-> "none", entries |-> Empty, manifest |-> Missing]

----------------------------------------------------------------------------
(* The builder.  rglob lists the directory first (is_file follows links),  *)
(* then each listed file is hashed; a file gone by then is left out.       *)

StartBuild ==
  /\ builder.step = "idle" /\ builds < MaxBuilds
  /\ builder' = [step |-> "hash", todo |-> {p \in Path : files[p] # Absent}, entries |-> Empty]
  /\ builds' = builds + 1
  /\ stale' = {}
  /\ UNCHANGED <<files, manifest, verifier, report, changed, edits>>

HashCached(p, content) ==
  /\ builder.step = "hash" /\ p \in builder.todo
  /\ builder' = [builder EXCEPT !.todo = @ \ {p}, !.entries[p] = content]
  /\ UNCHANGED <<files, manifest, verifier, report, changed, stale, edits, builds>>

(* Reading through a link hashes the file it points to, whatever that is.  *)
HashFile(p, content) ==
  /\ builder.step = "hash" /\ p \in builder.todo
  /\ files[p] \in Content \cup {Absent} => content = files[p]
  /\ builder' = [builder EXCEPT !.todo = @ \ {p}, !.entries[p] = content]
  /\ UNCHANGED <<files, manifest, verifier, report, changed, stale, edits, builds>>

(* write_text truncates the manifest and then fills it: two steps a reader *)
(* can see.                                                                *)
TruncateManifest ==
  /\ builder.step = "hash" /\ builder.todo = {}
  /\ manifest' = Torn
  /\ builder' = [builder EXCEPT !.step = "write"]
  /\ UNCHANGED <<files, verifier, report, changed, stale, edits, builds>>

FillWithProgress ==
  /\ builder.step = "write"
  /\ manifest' = builder
  /\ builder' = [builder EXCEPT !.step = "idle"]
  /\ UNCHANGED <<files, verifier, report, changed, stale, edits, builds>>

FillManifest ==
  /\ builder.step = "write"
  /\ manifest' = builder.entries
  /\ builder' = [builder EXCEPT !.step = "idle"]
  /\ UNCHANGED <<files, verifier, report, changed, stale, edits, builds>>

----------------------------------------------------------------------------
(* The verifier.  An EvidenceError ends it with the status INVALID.        *)

Finish(status) ==
  /\ verifier' = [verifier EXCEPT !.step = "idle"]
  /\ report' = [status |-> status, entries |-> verifier.entries, manifest |-> manifest]

LoadManifest ==
  /\ verifier.step = "idle"
  /\ changed' = {}
  /\ IF manifest \in {Missing, Torn}
     THEN report' = [NoReport EXCEPT !.status = "INVALID"] /\ UNCHANGED verifier
     ELSE /\ report' = NoReport
          /\ verifier' = [step |-> "check", entries |-> manifest,
                          todo |-> Listed(manifest), mismatch |-> FALSE]
  /\ UNCHANGED <<files, manifest, builder, stale, edits, builds>>

CheckFile(p) ==
  /\ verifier.step = "check" /\ p \in verifier.todo
  /\ IF files[p] = Link
     THEN Finish("INVALID")
     ELSE /\ verifier' = [verifier EXCEPT !.todo = @ \ {p},
                          !.mismatch = @ \/ files[p] # verifier.entries[p]]
          /\ UNCHANGED report
  /\ UNCHANGED <<files, manifest, builder, changed, stale, edits, builds>>

NothingUnlisted == {}
ListedCountsAsUnlisted == {p \in Path : files[p] # Absent}

Unlisted == {p \in Path : files[p] # Absent /\ verifier.entries[p] = Absent}

(* The second walk over the directory: links and unlisted files. *)
ScanDirectory ==
  /\ verifier.step = "check" /\ verifier.todo = {}
  /\ IF \E p \in Path : files[p] = Link
     THEN Finish("INVALID")
     ELSE /\ verifier' = [verifier EXCEPT !.step = "report", !.mismatch = @ \/ Unlisted # {}]
          /\ UNCHANGED report
  /\ UNCHANGED <<files, manifest, builder, changed, stale, edits, builds>>

WriteReport ==
  /\ verifier.step = "report"
  /\ Finish(IF verifier.mismatch THEN "INTEGRITY_MISMATCH" ELSE "VERIFIED")
  /\ UNCHANGED <<files, manifest, builder, changed, stale, edits, builds>>

----------------------------------------------------------------------------
(* Another program writes, replaces or removes a file. *)
Edit(p, content) ==
  /\ edits < MaxEdits
  /\ content # files[p]
  /\ files' = [files EXCEPT ![p] = content]
  /\ edits' = edits + 1
  /\ changed' = changed \cup {p}
  /\ stale' = stale \cup {p}
  /\ UNCHANGED <<manifest, builder, verifier, report, builds>>

Init ==
  /\ files \in [Path -> Content \cup {Absent, Link}]
  /\ manifest \in Inventories \cup {Missing}
  /\ builder = [step |-> "idle", todo |-> {}, entries |-> Empty]
  /\ verifier = [step |-> "idle", entries |-> Empty, todo |-> {}, mismatch |-> FALSE]
  /\ report = NoReport
  /\ changed = {} /\ stale = Path
  /\ edits = 0 /\ builds = 0

BuilderStep ==
  \/ StartBuild
  \/ \E p \in Path, content \in Content \cup {Absent} : HashFile(p, content)
  \/ TruncateManifest
  \/ FillManifest

VerifierStep ==
  \/ LoadManifest
  \/ \E p \in Path : CheckFile(p)
  \/ ScanDirectory
  \/ WriteReport

Next ==
  \/ BuilderStep
  \/ VerifierStep
  \/ \E p \in Path, content \in Content \cup {Absent, Link} : Edit(p, content)

Spec == Init /\ [][Next]_vars

----------------------------------------------------------------------------
(* Every variable has the shape given above. *)
TypeOK ==
  /\ files \in [Path -> Content \cup {Absent, Link}]
  /\ manifest \in Inventories \cup {Missing, Torn}
  /\ builder \in [step : {"idle", "hash", "write"}, todo : SUBSET Path, entries : Inventories]
  /\ verifier \in [step : {"idle", "check", "report"}, entries : Inventories,
                   todo : SUBSET Path, mismatch : BOOLEAN]
  /\ report \in [status : {"none", "INVALID", "INTEGRITY_MISMATCH", "VERIFIED"},
                 entries : Inventories, manifest : Inventories \cup {Missing, Torn}]
  /\ changed \subseteq Path /\ stale \subseteq Path
  /\ edits \in 0 .. MaxEdits /\ builds \in 0 .. MaxBuilds

(* A bundle reported VERIFIED is the one the manifest lists, file by file,  *)
(* except where someone wrote after the verifier had loaded the manifest:   *)
(* neither the order of the checks nor the separate walk for unlisted files *)
(* lets a difference through that was there from the start.                 *)
VerdictHoldsForUntouchedFiles ==
  report.status = "VERIFIED" =>
    \A p \in Path \ changed : files[p] = report.entries[p]

(* On a quiet directory the verdict is exact in the other direction too: a  *)
(* mismatch is a real difference, and a rejection of a loaded manifest      *)
(* means there is a symbolic link.                                          *)
QuietVerdictIsExact ==
  changed = {} =>
    /\ report.status = "INTEGRITY_MISMATCH" => files # report.entries
    /\ report.status = "INVALID" /\ report.entries # Empty => \E p \in Path : files[p] = Link

(* A finished manifest records every file nobody wrote while it was built   *)
(* or since, unless the file is a link (which it records as if it were a    *)
(* file, and which the verifier will refuse).                               *)
ManifestRecordsUntouchedFiles ==
  builds > 0 /\ builder.step = "idle" =>
    \A p \in Path \ stale : files[p] = Link \/ manifest[p] = files[p]

(* evidence.py:186: "The report binds both the manifest bytes and the       *)
(* canonical source inventory": the manifest whose digest is reported is    *)
(* the one whose entries were checked.                                      *)
ReportBindsManifest ==
  report.status = "VERIFIED" => report.manifest = report.entries
=============================================================================
