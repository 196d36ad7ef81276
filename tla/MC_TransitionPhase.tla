------------------------ MODULE MC_TransitionPhase ------------------------
(* One key per group of intention keys the evaluator never tells apart, and *)
(* two instants, since it only ever compares two of them.                   *)
EXTENDS TransitionPhase, FiniteSets

MCDeclarationKeys == {"statement"}
MCStepKeys == {"action"}
MCIntentJudgements == {"result_matches_expectation"}

(* Bound: only records contradictory in at most two ways are written to      *)
(* further.  A rejected record stays rejected, since fields are not erased. *)
FewIssues ==
  /\ Accepted
  /\ Cardinality({i \in 1 .. 5 : <<IntentIssue, CommitIssue, ExecutionIssue,
                                  ResultIssue, VerificationIssue>>[i]}) <= 2
=============================================================================
