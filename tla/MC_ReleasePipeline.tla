------------------------ MODULE MC_ReleasePipeline ------------------------
(* Bounds of the release pipeline: one representative of each way the      *)
(* scripts can refuse an evidence archive, an asset and an execution.  An  *)
(* archive of another origin declares the promotion attempt the scripts    *)
(* ask for, or another workflow.                                           *)
EXTENDS ReleasePipeline

MC_EvidenceFaults == {"none", "collision", "digest", "alignment"}
MC_AssetFaults == {"none", "mode"}
MC_Claims == {[stage |-> s, run |-> 1, attempt |-> 1] : s \in {"promotion", "deployment"}}
MC_Executions == {"good", "wheel-metadata", "not-isolated", "bundle-digest", "cli-status"}

(* One re-run with a kill and an edit, or two re-runs alone.               *)
FewDisturbances == reruns <= 1 \/ kills + edits = 0
=============================================================================
