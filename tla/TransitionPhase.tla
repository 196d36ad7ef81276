-------------------------- MODULE TransitionPhase --------------------------
(***************************************************************************)
(* The transition-phase record and its evaluator (transition_phase.py, and *)
(* the verify-transition-phase command of cli.py).                         *)
(*                                                                         *)
(* A recorder fills one JSON record while a transition happens: fields are *)
(* null until they are written and are not erased afterwards.  At any time *)
(* the command evaluates the record as it stands, with evaluated_ns = now, *)
(* and either rejects it (exit 2, the report file is left alone) or writes *)
(* a report.  Texts and references matter only as present or null.         *)
(***************************************************************************)
EXTENDS Integers

CONSTANTS
  MaxTime,          \* bound on the clock and on every time stamp
  DeclarationKeys,  \* intention keys of a declaration: intent_id, statement
  StepKeys,         \* intention keys of a step: action, expected_result, stopping_condition
  IntentJudgements  \* verdicts on the intention: result_matches_expectation, stopping_condition_met

ASSUME KeysAssumption ==
  /\ MaxTime \in Nat
  /\ DeclarationKeys # {}
  /\ StepKeys # {}
  /\ DeclarationKeys \cap StepKeys = {}
  /\ IntentJudgements # {}
  /\ "destination_observed" \notin IntentJudgements

VARIABLES
  now,           \* the clock; evaluated_ns of an evaluation made now
  time,          \* the other time stamps of the record, None when null
  intention,     \* the intention keys that are present
  space,         \* [boundary |-> present?, destination |-> null, same as the origin, or another place]
  evidence,      \* the evidence references that are present
  verification,  \* each judgement: "null", "true" or "false"
  report,        \* the report file: the last report written, or NoReport
  exit           \* exit code of the last evaluation, None before the first

record == <<time, intention, space, evidence, verification>>
recordVars == <<now, time, intention, space, evidence, verification, report, exit>>

None == -1
Stamps == {"intent_declared_ns", "commit_ns", "action_started_ns", "result_observed_ns"}
TimeKeys == Stamps \cup {"observed_before_ns", "deadline_ns"}
IntentionKeys == DeclarationKeys \cup StepKeys
EvidenceKeys == {"intent_ref", "action_ref", "result_ref", "verification_ref"}
Judgements == IntentJudgements \cup {"destination_observed"}
NoReport == [phase |-> "none", status |-> "none", time |-> "none", intention |-> "none",
             space |-> "none", deadline |-> None]

Present(key) == time[key] # None

----------------------------------------------------------------------------
(* _validate_chronology and the errors of _normalize_record. *)

InOrder(earlier, later) == Present(earlier) /\ Present(later) => time[earlier] <= time[later]

Chronological ==
  /\ InOrder("observed_before_ns", "intent_declared_ns")
  /\ InOrder("observed_before_ns", "commit_ns")
  /\ InOrder("observed_before_ns", "action_started_ns")
  /\ InOrder("observed_before_ns", "result_observed_ns")
  /\ InOrder("intent_declared_ns", "commit_ns")
  /\ InOrder("intent_declared_ns", "action_started_ns")
  /\ InOrder("intent_declared_ns", "result_observed_ns")
  /\ InOrder("commit_ns", "action_started_ns")
  /\ InOrder("commit_ns", "result_observed_ns")
  /\ InOrder("action_started_ns", "result_observed_ns")
  /\ \A key \in Stamps \cup {"observed_before_ns"} : time[key] <= now
  /\ Present("commit_ns") => Present("intent_declared_ns")
  /\ Present("action_started_ns") => Present("commit_ns")
  /\ Present("result_observed_ns") => Present("action_started_ns")
  /\ InOrder("observed_before_ns", "deadline_ns")

Accepted == Chronological /\ space.destination # "origin"

----------------------------------------------------------------------------
(* evaluate_transition: the chain of milestones, each resting on the last. *)

PlaceDeclared == space.boundary /\ space.destination # "null"

IntentDeclared ==
  /\ DeclarationKeys \subseteq intention
  /\ Present("intent_declared_ns")
  /\ "intent_ref" \in evidence

CommitmentComplete ==
  IntentDeclared /\ StepKeys \subseteq intention /\ PlaceDeclared /\ Present("commit_ns")

ExecutionObserved ==
  CommitmentComplete /\ Present("action_started_ns") /\ "action_ref" \in evidence

ResultWithoutReference ==
  ExecutionObserved /\ Present("result_observed_ns")

ResultObserved ==
  ExecutionObserved /\ Present("result_observed_ns") /\ "result_ref" \in evidence

VerificationComplete ==
  /\ ResultObserved
  /\ \A j \in Judgements : verification[j] # "null"
  /\ "verification_ref" \in evidence

(* A claim is any trace of a milestone; a claim without it is an issue. *)
IntentClaimed ==
  intention # {} \/ Present("intent_declared_ns") \/ "intent_ref" \in evidence
VerificationClaimed ==
  "verification_ref" \in evidence \/ \E j \in Judgements : verification[j] # "null"

IntentIssue == IntentClaimed /\ ~IntentDeclared
CommitIssue == Present("commit_ns") /\ ~CommitmentComplete
ExecutionIssue ==
  (Present("action_started_ns") \/ "action_ref" \in evidence) /\ ~ExecutionObserved
ResultIssue ==
  (Present("result_observed_ns") \/ "result_ref" \in evidence) /\ ~ResultObserved
VerificationIssue == VerificationClaimed /\ ~VerificationComplete

HasIssue == IntentIssue \/ CommitIssue \/ ExecutionIssue \/ ResultIssue \/ VerificationIssue

DeadlineOutlivesResult ==
  /\ Present("deadline_ns")
  /\ time["result_observed_ns"] > time["deadline_ns"] \/ now > time["deadline_ns"]

DeadlineExceeded ==
  /\ Present("deadline_ns")
  /\ \/ time["result_observed_ns"] > time["deadline_ns"]
     \/ ~VerificationComplete /\ now > time["deadline_ns"]

VerificationFailed == \E j \in Judgements : verification[j] = "false"

PhaseMislabelled ==
  IF HasIssue \/ DeadlineExceeded \/ VerificationFailed THEN "RECALIBRATE"
  ELSE IF VerificationComplete THEN "REFLECT"
  ELSE IF ResultObserved THEN "EXECUTE"
  ELSE IF ExecutionObserved THEN "VERIFY"
  ELSE IF CommitmentComplete THEN "COMMIT"
  ELSE IF IntentDeclared THEN "EXPAND" ELSE "CALIBRATE"

Phase ==
  IF HasIssue \/ DeadlineExceeded \/ VerificationFailed THEN "RECALIBRATE"
  ELSE IF VerificationComplete THEN "REFLECT"
  ELSE IF ResultObserved THEN "VERIFY"
  ELSE IF ExecutionObserved THEN "EXECUTE"
  ELSE IF CommitmentComplete THEN "COMMIT"
  ELSE IF IntentDeclared THEN "EXPAND" ELSE "CALIBRATE"

----------------------------------------------------------------------------
(* The three axes, each judged on its own. *)

TimeAxis ==
  IF DeadlineExceeded THEN "BLOCK"
  ELSE IF Present("result_observed_ns") THEN "PASS" ELSE "WAIT"

IntentionAxis ==
  IF HasIssue \/ \E j \in IntentJudgements : verification[j] = "false" THEN "BLOCK"
  ELSE IF VerificationComplete THEN "PASS" ELSE "WAIT"

SpaceAxisIgnoresRefusal ==
  IF \/ Present("commit_ns") /\ ~PlaceDeclared
     \/ verification["destination_observed"] # "null" /\ ~VerificationComplete
  THEN "BLOCK"
  ELSE IF PlaceDeclared /\ verification["destination_observed"] = "true" THEN "PASS" ELSE "WAIT"

SpaceAxis ==
  IF \/ Present("commit_ns") /\ ~PlaceDeclared
     \/ verification["destination_observed"] # "null" /\ ~VerificationComplete
     \/ verification["destination_observed"] = "false"
  THEN "BLOCK"
  ELSE IF PlaceDeclared /\ verification["destination_observed"] = "true" THEN "PASS" ELSE "WAIT"

Status ==
  IF Phase = "REFLECT" /\ TimeAxis = "PASS" /\ IntentionAxis = "PASS" /\ SpaceAxis = "PASS"
  THEN "VERIFIED"
  ELSE IF Phase = "RECALIBRATE" THEN "RECALIBRATE" ELSE "IN_PROGRESS"

Report == [phase |-> Phase, status |-> Status,
           time |-> TimeAxis, intention |-> IntentionAxis, space |-> SpaceAxis,
           deadline |-> time["deadline_ns"]]

ExitCodeFour == [VERIFIED |-> 0, IN_PROGRESS |-> 4, RECALIBRATE |-> 3]

ExitCode == [VERIFIED |-> 0, IN_PROGRESS |-> 1, RECALIBRATE |-> 3]

----------------------------------------------------------------------------
(* The recorder opens a record with its origin, the observation before the *)
(* intention and, perhaps, a deadline; then it writes null fields, in any  *)
(* order: an event with any stamp it can have read off its clock, a        *)
(* deadline that was left null with any instant, past or to come.          *)

RecordInit ==
  /\ now \in 0 .. MaxTime
  /\ \E deadline \in {None} \cup 0 .. MaxTime :
       time = [key \in TimeKeys |-> CASE key = "observed_before_ns" -> now
                                      [] key = "deadline_ns" -> deadline
                                      [] OTHER -> None]
  /\ intention = {}
  /\ space = [boundary |-> FALSE, destination |-> "null"]
  /\ evidence = {}
  /\ verification = [j \in Judgements |-> "null"]
  /\ report = NoReport
  /\ exit = None

WriteStamp(key, stamp) ==
  /\ ~Present(key)
  /\ time' = [time EXCEPT ![key] = stamp]
  /\ UNCHANGED <<now, intention, space, evidence, verification, report, exit>>

WriteIntention(key) ==
  /\ key \notin intention
  /\ intention' = intention \cup {key}
  /\ UNCHANGED <<now, time, space, evidence, verification, report, exit>>

WriteBoundary ==
  /\ ~space.boundary
  /\ space' = [space EXCEPT !.boundary = TRUE]
  /\ UNCHANGED <<now, time, intention, evidence, verification, report, exit>>

WriteDestination(place) ==
  /\ space.destination = "null"
  /\ space' = [space EXCEPT !.destination = place]
  /\ UNCHANGED <<now, time, intention, evidence, verification, report, exit>>

WriteEvidence(ref) ==
  /\ ref \notin evidence
  /\ evidence' = evidence \cup {ref}
  /\ UNCHANGED <<now, time, intention, space, verification, report, exit>>

WriteJudgement(j, verdict) ==
  /\ verification[j] = "null"
  /\ verification' = [verification EXCEPT ![j] = verdict]
  /\ UNCHANGED <<now, time, intention, space, evidence, report, exit>>

Tick ==
  /\ now < MaxTime
  /\ now' = now + 1
  /\ UNCHANGED <<time, intention, space, evidence, verification, report, exit>>

(* verify-transition-phase on the record as it stands. *)
Evaluate ==
  /\ IF Accepted
     THEN report' = Report /\ exit' = ExitCode[Status]
     ELSE exit' = 2 /\ UNCHANGED report
  /\ UNCHANGED <<now, time, intention, space, evidence, verification>>

Write ==
  \/ \E key \in Stamps, stamp \in 0 .. now : WriteStamp(key, stamp)
  \/ \E stamp \in 0 .. MaxTime : WriteStamp("deadline_ns", stamp)
  \/ \E key \in IntentionKeys : WriteIntention(key)
  \/ WriteBoundary
  \/ \E place \in {"origin", "elsewhere"} : WriteDestination(place)
  \/ \E ref \in EvidenceKeys : WriteEvidence(ref)
  \/ \E j \in Judgements, verdict \in {"true", "false"} : WriteJudgement(j, verdict)

RecordNext == Write \/ Tick \/ Evaluate

RecordSpec == RecordInit /\ [][RecordNext]_recordVars

----------------------------------------------------------------------------
Phases == {"CALIBRATE", "EXPAND", "COMMIT", "EXECUTE", "VERIFY", "REFLECT", "RECALIBRATE"}
Statuses == {"VERIFIED", "IN_PROGRESS", "RECALIBRATE"}
AxisStatuses == {"PASS", "WAIT", "BLOCK"}
Reports == [phase : Phases, status : Statuses,
            time : AxisStatuses, intention : AxisStatuses, space : AxisStatuses,
            deadline : {None} \cup 0 .. MaxTime]

(* Every variable has the shape the record schema gives it. *)
RecordTypeOK ==
  /\ now \in 0 .. MaxTime
  /\ time \in [TimeKeys -> {None} \cup 0 .. MaxTime]
  /\ intention \subseteq IntentionKeys
  /\ space \in [boundary : BOOLEAN, destination : {"null", "origin", "elsewhere"}]
  /\ evidence \subseteq EvidenceKeys
  /\ verification \in [Judgements -> {"null", "true", "false"}]
  /\ report \in Reports \cup {NoReport}
  /\ exit \in {None, 0, 1, 2, 3}

(* The axes and the phase are computed by separate code from the same      *)
(* record and must not disagree: whatever the record, an evaluation that   *)
(* reaches REFLECT passes all three axes (so the extra test on the axes    *)
(* never downgrades it), and RECALIBRATE is reported exactly when some     *)
(* axis blocks.                                                            *)
AxesAgreeWithPhase ==
  Accepted =>
    /\ Phase = "REFLECT" => Status = "VERIFIED"
    /\ Phase = "RECALIBRATE" <=> "BLOCK" \in {TimeAxis, IntentionAxis, SpaceAxis}

(* A transition is verified only with the whole story behind it: intention,*)
(* commitment, execution and result stamped in that order, the result no   *)
(* later than the deadline the report names, every reference present,      *)
(* every judgement positive, and a destination that is not the origin.     *)
VerifiedHasWholeStory ==
  report.status = "VERIFIED" =>
    /\ None < time["intent_declared_ns"]
    /\ time["observed_before_ns"] <= time["intent_declared_ns"]
    /\ time["intent_declared_ns"] <= time["commit_ns"]
    /\ time["commit_ns"] <= time["action_started_ns"]
    /\ time["action_started_ns"] <= time["result_observed_ns"]
    /\ report.deadline # None => time["result_observed_ns"] <= report.deadline
    /\ evidence = EvidenceKeys
    /\ intention = IntentionKeys
    /\ \A j \in Judgements : verification[j] = "true"
    /\ space = [boundary |-> TRUE, destination |-> "elsewhere"]

(* Only a deadline declared afterwards takes a verdict VERIFIED back:      *)
(* however much later the record is evaluated again, and whatever else was *)
(* written to it since, the verdict is the same, unless the record had no  *)
(* deadline when it was verified and has been given one that its result    *)
(* had already missed.  The clause of the deadline on unfinished           *)
(* transitions must not catch up with a finished one, and a deadline the   *)
(* verdict took into account is not replaced.                              *)
OnlyALateDeadlineRevokes ==
  report.status = "VERIFIED" =>
    \/ Accepted /\ Status = "VERIFIED"
    \/ /\ report.deadline = None
       /\ Present("deadline_ns")
       /\ time["deadline_ns"] < time["result_observed_ns"]

(* Consecutive reports never go back to an earlier phase: writing more     *)
(* evidence only advances the record or makes it contradictory.            *)
Rank == [CALIBRATE |-> 0, EXPAND |-> 1, COMMIT |-> 2, EXECUTE |-> 3, VERIFY |-> 4, REFLECT |-> 5]
PhasesAdvance ==
  [][report.phase \in DOMAIN Rank /\ report'.phase \in DOMAIN Rank
       => Rank[report.phase] <= Rank[report'.phase]]_recordVars

(* docs/TRANSITION_PHASE_CONTRACT.md, invariant 6: a missed deadline cannot*)
(* be converted into success by later narration.  A transition reported as *)
(* past its deadline is never reported VERIFIED afterwards.                *)
MissedDeadlineIsFinal ==
  [][report.time = "BLOCK" => report'.status # "VERIFIED"]_recordVars
=============================================================================
