------------------------ MODULE EvidenceBundleProofs ------------------------
(* The verdict of the bundle verifier and the inventory of the builder,      *)
(* for any set of paths and contents and any number of concurrent writes.    *)
EXTENDS EvidenceBundle, TLAPS

(* Every state is typed. *)
THEOREM BundleTypeCorrect == Spec => []TypeOK
<1>1. Init => TypeOK
  BY BundleAssumption DEF Init, TypeOK, Empty, Inventories, NoReport
<1>2. TypeOK /\ [Next]_vars => TypeOK'
  <2> SUFFICES ASSUME TypeOK, [Next]_vars PROVE TypeOK'
    OBVIOUS
  <2> USE BundleAssumption DEF TypeOK
  <2>1. CASE StartBuild
    BY <2>1 DEF StartBuild, Empty, Inventories
  <2>2. ASSUME NEW p \in Path, NEW content \in Content \cup {Absent}, HashFile(p, content)
        PROVE  TypeOK'
    <3>1. [builder.entries EXCEPT ![p] = content] \in Inventories
      BY DEF Inventories
    <3>2. builder' \in [step : {"idle", "hash", "write"}, todo : SUBSET Path, entries : Inventories]
      BY <2>2, <3>1 DEF HashFile
    <3> QED
      BY <2>2, <3>2 DEF HashFile
  <2>3. CASE TruncateManifest
    BY <2>3 DEF TruncateManifest
  <2>4. CASE FillManifest
    BY <2>4 DEF FillManifest
  <2>5. CASE LoadManifest
    <3>1. Empty \in Inventories /\ Listed(manifest) \in SUBSET Path
      BY DEF Empty, Inventories, Listed
    <3>2. NoReport \in [status : {"none", "INVALID", "INTEGRITY_MISMATCH", "VERIFIED"},
                       entries : Inventories, manifest : Inventories \cup {Missing, Torn}]
      BY <3>1 DEF NoReport
    <3>3. UNCHANGED <<files, manifest, builder, stale, edits, builds>> /\ changed' = {}
      BY <2>5 DEF LoadManifest
    <3>4. CASE manifest \in {Missing, Torn}
      <4>1. UNCHANGED verifier /\ report' = [NoReport EXCEPT !.status = "INVALID"]
        BY <2>5, <3>4 DEF LoadManifest
      <4> QED
        BY <3>2, <3>3, <4>1
    <3>5. CASE manifest \notin {Missing, Torn}
      <4>1. /\ report' = NoReport
            /\ verifier' = [step |-> "check", entries |-> manifest,
                            todo |-> Listed(manifest), mismatch |-> FALSE]
        BY <2>5, <3>5 DEF LoadManifest
      <4> QED
        BY <3>1, <3>2, <3>3, <3>5, <4>1
    <3> QED
      BY <3>4, <3>5
  <2>6. ASSUME NEW p \in Path, CheckFile(p) PROVE TypeOK'
    <3>1. CASE files[p] = Link
      BY <2>6, <3>1 DEF CheckFile, Finish
    <3>2. CASE files[p] # Link
      <4> DEFINE found == verifier.mismatch \/ files[p] # verifier.entries[p]
      <4>1. found \in BOOLEAN
        OBVIOUS
      <4>2. verifier' = [verifier EXCEPT !.todo = @ \ {p}, !.mismatch = found]
        BY <2>6, <3>2 DEF CheckFile
      <4>3. UNCHANGED <<files, manifest, builder, report, changed, stale, edits, builds>>
        BY <2>6, <3>2 DEF CheckFile
      <4> HIDE DEF found
      <4> QED
        BY <4>1, <4>2, <4>3
    <3> QED
      BY <3>1, <3>2
  <2>7. CASE ScanDirectory
    <3>1. CASE \E p \in Path : files[p] = Link
      BY <2>7, <3>1 DEF ScanDirectory, Finish
    <3>2. CASE ~\E p \in Path : files[p] = Link
      <4> DEFINE found == verifier.mismatch \/ Unlisted # {}
      <4>1. found \in BOOLEAN
        OBVIOUS
      <4>2. verifier' = [verifier EXCEPT !.step = "report", !.mismatch = found]
        BY <2>7, <3>2 DEF ScanDirectory
      <4>3. UNCHANGED <<files, manifest, builder, report, changed, stale, edits, builds>>
        BY <2>7, <3>2 DEF ScanDirectory
      <4> HIDE DEF found
      <4> QED
        BY <4>1, <4>2, <4>3
    <3> QED
      BY <3>1, <3>2
  <2>8. CASE WriteReport
    BY <2>8 DEF WriteReport, Finish
  <2>9. ASSUME NEW p \in Path, NEW content \in Content \cup {Absent, Link}, Edit(p, content)
        PROVE  TypeOK'
    BY <2>9 DEF Edit
  <2>10. CASE UNCHANGED vars
    BY <2>10 DEF vars
  <2> QED
    BY <2>1, <2>2, <2>3, <2>4, <2>5, <2>6, <2>7, <2>8, <2>9, <2>10 DEF Next, BuilderStep, VerifierStep
<1> QED
  BY <1>1, <1>2, PTL DEF Spec

----------------------------------------------------------------------------
(* What a verification in progress knows: every path it has dealt with and  *)
(* nobody has written since matches its entry, or a mismatch is recorded.   *)
(* A path is dealt with once it is checked, or, when it is not listed, once *)
(* the directory has been scanned.                                          *)
Settled(p) ==
  \/ verifier.step = "report"
  \/ verifier.step = "check" /\ p \in Listed(verifier.entries) \ verifier.todo

VerifierKnows ==
  ~verifier.mismatch =>
    \A p \in Path \ changed : Settled(p) => files[p] = verifier.entries[p]

VerdictInvariant == TypeOK /\ VerifierKnows /\ VerdictHoldsForUntouchedFiles

(* Every step of the builder, the verifier or another program keeps what    *)
(* the verifier knows about the files nobody wrote.                         *)
LEMMA VerdictStep == VerdictInvariant /\ TypeOK' /\ [Next]_vars => VerdictInvariant'
<1> SUFFICES ASSUME VerdictInvariant, TypeOK', [Next]_vars PROVE VerdictInvariant'
  OBVIOUS
<1> USE BundleAssumption DEF VerdictInvariant, VerifierKnows, VerdictHoldsForUntouchedFiles, Settled
<1>1. ASSUME UNCHANGED <<files, verifier, report, changed>> PROVE VerdictInvariant'
  BY <1>1 DEF Listed
<1>2. CASE BuilderStep
  BY <1>1, <1>2 DEF BuilderStep, StartBuild, HashFile, TruncateManifest, FillManifest
<1>3. CASE LoadManifest
  <2>1. report'.status # "VERIFIED"
    BY <1>3 DEF LoadManifest, NoReport
  <2>2. VerifierKnows'
    BY <1>3 DEF LoadManifest, TypeOK
  <2> QED
    BY <2>1, <2>2
<1>4. ASSUME NEW p \in Path, CheckFile(p) PROVE VerdictInvariant'
  <2>1. CASE files[p] = Link
    BY <1>4, <2>1 DEF CheckFile, Finish, TypeOK
  <2>2. CASE files[p] # Link
    <3>1. /\ verifier' = [verifier EXCEPT !.todo = @ \ {p},
                          !.mismatch = @ \/ files[p] # verifier.entries[p]]
          /\ UNCHANGED <<files, report, changed>>
      BY <1>4, <2>2 DEF CheckFile
    <3>2. /\ verifier'.entries = verifier.entries /\ verifier'.step = verifier.step
          /\ verifier'.todo = verifier.todo \ {p}
          /\ verifier'.mismatch = (verifier.mismatch \/ files[p] # verifier.entries[p])
      BY <3>1 DEF TypeOK
    <3>3. VerifierKnows'
      BY <3>1, <3>2 DEF Listed
    <3> QED
      BY <3>1, <3>3
  <2> QED
    BY <2>1, <2>2
<1>5. CASE ScanDirectory
  <2>1. CASE \E p \in Path : files[p] = Link
    BY <1>5, <2>1 DEF ScanDirectory, Finish, TypeOK
  <2>2. CASE ~\E p \in Path : files[p] = Link
    <3>1. /\ verifier.step = "check" /\ verifier.todo = {}
          /\ verifier' = [verifier EXCEPT !.step = "report", !.mismatch = @ \/ Unlisted # {}]
          /\ UNCHANGED <<files, report, changed>>
      BY <1>5, <2>2 DEF ScanDirectory
    <3>2. /\ verifier'.entries = verifier.entries /\ verifier'.step = "report"
          /\ verifier'.mismatch = (verifier.mismatch \/ Unlisted # {})
      BY <3>1 DEF TypeOK
    <3>3. ASSUME ~verifier'.mismatch, NEW p \in Path \ changed
          PROVE  files[p] = verifier.entries[p]
      <4>1. CASE p \in Listed(verifier.entries)
        BY <3>1, <3>2, <3>3, <4>1
      <4>2. CASE p \notin Listed(verifier.entries)
        BY <3>2, <3>3, <4>2 DEF Listed, Unlisted
      <4> QED
        BY <4>1, <4>2
    <3> QED
      BY <3>1, <3>2, <3>3
  <2> QED
    BY <2>1, <2>2
<1>6. CASE WriteReport
  BY <1>6 DEF WriteReport, Finish, TypeOK
<1>7. ASSUME NEW p \in Path, NEW content \in Content \cup {Absent, Link}, Edit(p, content)
      PROVE  VerdictInvariant'
  <2>1. /\ \A q \in Path \ changed' : q \in Path \ changed /\ files'[q] = files[q]
        /\ UNCHANGED <<verifier, report>>
    BY <1>7 DEF Edit, TypeOK
  <2> QED
    BY <2>1 DEF Listed
<1>8. CASE UNCHANGED vars
  BY <1>1, <1>8 DEF vars
<1> QED
  BY <1>2, <1>3, <1>4, <1>5, <1>6, <1>7, <1>8 DEF Next, VerifierStep

(* A VERIFIED report holds for every file nobody wrote since the manifest   *)
(* was loaded.                                                              *)
THEOREM VerdictSound == Spec => []VerdictHoldsForUntouchedFiles
<1>1. Init => VerifierKnows /\ VerdictHoldsForUntouchedFiles
  BY DEF Init, VerifierKnows, Settled, VerdictHoldsForUntouchedFiles, NoReport
<1> QED
  BY <1>1, VerdictStep, BundleTypeCorrect, PTL DEF Spec, VerdictInvariant

----------------------------------------------------------------------------
(* What a build in progress knows: a path already hashed, or not there when *)
(* the directory was listed, that nobody wrote since, has the right entry.  *)
BuilderKnows ==
  builder.step \in {"hash", "write"} =>
    \A p \in Path \ (stale \cup builder.todo) : files[p] = Link \/ builder.entries[p] = files[p]

HashingDone == builder.step = "write" => builder.todo = {}

BuildInvariant == TypeOK /\ BuilderKnows /\ HashingDone /\ ManifestRecordsUntouchedFiles

(* Every step keeps what the builder knows about the files nobody wrote. *)
LEMMA BuildStep == BuildInvariant /\ TypeOK' /\ [Next]_vars => BuildInvariant'
<1> SUFFICES ASSUME BuildInvariant, TypeOK', [Next]_vars PROVE BuildInvariant'
  OBVIOUS
<1> USE BundleAssumption DEF BuildInvariant, BuilderKnows, HashingDone, ManifestRecordsUntouchedFiles
<1>1. ASSUME UNCHANGED <<files, manifest, builder, stale, builds>> PROVE BuildInvariant'
  BY <1>1
<1>2. CASE StartBuild
  BY <1>2 DEF StartBuild, Empty, TypeOK
<1>3. ASSUME NEW p \in Path, NEW content \in Content \cup {Absent}, HashFile(p, content)
      PROVE  BuildInvariant'
  <2>1. /\ builder'.step = "hash" /\ builder.step = "hash"
        /\ builder'.todo = builder.todo \ {p}
        /\ builder'.entries = [builder.entries EXCEPT ![p] = content]
        /\ UNCHANGED <<files, manifest, stale, builds>>
    BY <1>3 DEF HashFile, TypeOK
  <2>2. files[p] = Link \/ content = files[p]
    BY <1>3 DEF HashFile, TypeOK
  <2>3. BuilderKnows'
    BY <2>1, <2>2 DEF TypeOK, Inventories
  <2> QED
    BY <2>1, <2>3
<1>4. CASE TruncateManifest
  BY <1>4 DEF TruncateManifest, TypeOK
<1>5. CASE FillManifest
  BY <1>5 DEF FillManifest, TypeOK
<1>6. CASE VerifierStep
  BY <1>1, <1>6 DEF VerifierStep, LoadManifest, CheckFile, ScanDirectory, WriteReport
<1>7. ASSUME NEW p \in Path, NEW content \in Content \cup {Absent, Link}, Edit(p, content)
      PROVE  BuildInvariant'
  <2>1. /\ \A q \in Path \ stale' : q \in Path \ stale /\ files'[q] = files[q]
        /\ UNCHANGED <<manifest, builder, builds>>
    BY <1>7 DEF Edit, TypeOK
  <2> QED
    BY <2>1
<1>8. CASE UNCHANGED vars
  BY <1>1, <1>8 DEF vars
<1> QED
  BY <1>2, <1>3, <1>4, <1>5, <1>6, <1>7, <1>8 DEF Next, BuilderStep

(* A finished manifest records every regular file that stayed as it was     *)
(* while it was built.                                                      *)
THEOREM InventorySound == Spec => []ManifestRecordsUntouchedFiles
<1>1. Init => BuilderKnows /\ HashingDone /\ ManifestRecordsUntouchedFiles
  BY DEF Init, BuilderKnows, HashingDone, ManifestRecordsUntouchedFiles
<1> QED
  BY <1>1, BuildStep, BundleTypeCorrect, PTL DEF Spec, BuildInvariant
----------------------------------------------------------------------------
(* What a verification in progress knows of a directory nobody has written  *)
(* since the manifest was loaded: a mismatch it recorded is a difference.   *)
MismatchIsReal ==
  changed = {} /\ verifier.step # "idle" /\ verifier.mismatch => files # verifier.entries

QuietInvariant == MismatchIsReal /\ QuietVerdictIsExact

(* Every step keeps the negative findings exact on a quiet directory; a     *)
(* write by another program makes the directory one that is not quiet.      *)
LEMMA QuietStep == QuietInvariant /\ TypeOK /\ [Next]_vars => QuietInvariant'
<1> SUFFICES ASSUME QuietInvariant, TypeOK, [Next]_vars PROVE QuietInvariant'
  OBVIOUS
<1> USE BundleAssumption DEF QuietInvariant, MismatchIsReal, QuietVerdictIsExact
<1>1. ASSUME UNCHANGED <<files, verifier, report, changed>> PROVE QuietInvariant'
  BY <1>1
<1>2. CASE BuilderStep
  BY <1>1, <1>2 DEF BuilderStep, StartBuild, HashFile, TruncateManifest, FillManifest
<1>3. CASE LoadManifest
  <2>1. CASE manifest \in {Missing, Torn}
    BY <1>3, <2>1 DEF LoadManifest, NoReport
  <2>2. CASE manifest \notin {Missing, Torn}
    BY <1>3, <2>2 DEF LoadManifest, NoReport
  <2> QED
    BY <2>1, <2>2
<1>4. ASSUME NEW p \in Path, CheckFile(p) PROVE QuietInvariant'
  <2>1. CASE files[p] = Link
    BY <1>4, <2>1 DEF CheckFile, Finish, TypeOK
  <2>2. CASE files[p] # Link
    BY <1>4, <2>2 DEF CheckFile, TypeOK
  <2> QED
    BY <2>1, <2>2
<1>5. CASE ScanDirectory
  <2>1. CASE \E p \in Path : files[p] = Link
    BY <1>5, <2>1 DEF ScanDirectory, Finish, TypeOK
  <2>2. CASE ~\E p \in Path : files[p] = Link
    <3>1. Unlisted # {} => files # verifier.entries
      BY DEF Unlisted
    <3>2. /\ verifier.step = "check"
          /\ verifier' = [verifier EXCEPT !.step = "report", !.mismatch = @ \/ Unlisted # {}]
          /\ UNCHANGED <<files, report, changed>>
      BY <1>5, <2>2 DEF ScanDirectory
    <3> QED
      BY <3>1, <3>2 DEF TypeOK
  <2> QED
    BY <2>1, <2>2
<1>6. CASE WriteReport
  BY <1>6 DEF WriteReport, Finish, TypeOK
<1>7. ASSUME NEW p \in Path, NEW content \in Content \cup {Absent, Link}, Edit(p, content)
      PROVE  QuietInvariant'
  <2>1. changed' # {}
    BY <1>7 DEF Edit
  <2> QED
    BY <2>1
<1>8. CASE UNCHANGED vars
  BY <1>1, <1>8 DEF vars
<1> QED
  BY <1>2, <1>3, <1>4, <1>5, <1>6, <1>7, <1>8 DEF Next, VerifierStep

(* On a directory nobody writes during a verification, a reported mismatch  *)
(* is a difference and a rejected inventory means a symbolic link.          *)
THEOREM QuietVerdictExact == Spec => []QuietVerdictIsExact
<1>1. Init => QuietInvariant
  BY DEF Init, QuietInvariant, MismatchIsReal, QuietVerdictIsExact, NoReport
<1> QED
  BY <1>1, QuietStep, BundleTypeCorrect, PTL DEF Spec, QuietInvariant
=============================================================================
