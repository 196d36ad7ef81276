--------------------------- MODULE TransitionProofs ---------------------------
(* A transition record and the archive it travels in.  First the evaluator of   *)
(* the record: what its reports guarantee for every clock bound and every set   *)
(* of intention keys and judgements.  Then the intake of a downloaded archive:  *)
(* what an accepted directory holds, for any archives, any limits and any       *)
(* number of kills and further tries.                                           *)
EXTENDS TransitionPhase, ArchiveIntake, SequenceTheorems, TLAPS

(* Every state of the record, the report file and the exit code is typed. *)
THEOREM TypeCorrect == RecordSpec => []RecordTypeOK
<1>1. RecordInit => RecordTypeOK
  BY KeysAssumption DEF RecordInit, RecordTypeOK, TimeKeys, Stamps, None
<1>2. RecordTypeOK /\ [RecordNext]_recordVars => RecordTypeOK'
  <2> SUFFICES ASSUME RecordTypeOK, [RecordNext]_recordVars PROVE RecordTypeOK'
    OBVIOUS
  <2> USE KeysAssumption DEF RecordTypeOK, None
  <2>1. ASSUME NEW key \in Stamps, NEW stamp \in 0 .. now, WriteStamp(key, stamp) PROVE RecordTypeOK'
    BY <2>1 DEF WriteStamp, TimeKeys
  <2>10. ASSUME NEW stamp \in 0 .. MaxTime, WriteStamp("deadline_ns", stamp) PROVE RecordTypeOK'
    BY <2>10 DEF WriteStamp, TimeKeys
  <2>2. ASSUME NEW key \in IntentionKeys, WriteIntention(key) PROVE RecordTypeOK'
    BY <2>2 DEF WriteIntention
  <2>3. CASE WriteBoundary
    BY <2>3 DEF WriteBoundary
  <2>4. ASSUME NEW place \in {"origin", "elsewhere"}, WriteDestination(place) PROVE RecordTypeOK'
    BY <2>4 DEF WriteDestination
  <2>5. ASSUME NEW ref \in EvidenceKeys, WriteEvidence(ref) PROVE RecordTypeOK'
    BY <2>5 DEF WriteEvidence
  <2>6. ASSUME NEW j \in Judgements, NEW verdict \in {"true", "false"}, WriteJudgement(j, verdict)
        PROVE RecordTypeOK'
    BY <2>6 DEF WriteJudgement
  <2>7. CASE Tick
    BY <2>7 DEF Tick
  <2>8. CASE Evaluate
    <3>1. Report \in Reports
      BY DEF Report, Reports, Phases, Statuses, AxisStatuses, Phase, Status,
             TimeAxis, IntentionAxis, SpaceAxis, TimeKeys
    <3>2. ExitCode[Status] \in {0, 1, 3}
      BY DEF ExitCode, Status
    <3> QED
      BY <2>8, <3>1, <3>2 DEF Evaluate
  <2>9. CASE UNCHANGED recordVars
    BY <2>9 DEF recordVars
  <2> QED
    BY <2>1, <2>10, <2>2, <2>3, <2>4, <2>5, <2>6, <2>7, <2>8, <2>9 DEF RecordNext, Write
<1> QED
  BY <1>1, <1>2, PTL DEF RecordSpec

(* The phase and the three axes never disagree: this is a fact about the    *)
(* evaluator on any typed record, reachable or not.                         *)
LEMMA AxesFromRecord == RecordTypeOK => AxesAgreeWithPhase
<1> SUFFICES ASSUME RecordTypeOK PROVE AxesAgreeWithPhase
  OBVIOUS
<1> USE KeysAssumption DEF Judgements
<1>1. ASSUME Phase = "REFLECT"
      PROVE  /\ VerificationComplete /\ ~HasIssue /\ ~DeadlineExceeded
             /\ ~VerificationFailed
  BY <1>1 DEF Phase
<1>2. ASSUME Phase = "REFLECT" PROVE Status = "VERIFIED"
  <2>1. TimeAxis = "PASS"
    BY <1>1, <1>2 DEF TimeAxis, VerificationComplete, ResultObserved
  <2>2. IntentionAxis = "PASS"
    BY <1>1, <1>2 DEF IntentionAxis, VerificationFailed
  <2>3. SpaceAxis = "PASS"
    <3>1. verification["destination_observed"] = "true"
      BY <1>1, <1>2 DEF VerificationFailed, VerificationComplete, RecordTypeOK
    <3>2. PlaceDeclared
      BY <1>1, <1>2 DEF VerificationComplete, ResultObserved, ExecutionObserved, CommitmentComplete
    <3> QED
      BY <1>1, <1>2, <3>1, <3>2 DEF SpaceAxis
  <2> QED
    BY <1>2, <2>1, <2>2, <2>3 DEF Status
<1>3. (Phase = "RECALIBRATE") <=> (HasIssue \/ DeadlineExceeded \/ VerificationFailed)
  BY DEF Phase
<1>4. (TimeAxis = "BLOCK") <=> DeadlineExceeded
  BY DEF TimeAxis
<1>5. (IntentionAxis = "BLOCK") <=> (HasIssue \/ \E j \in IntentJudgements : verification[j] = "false")
  BY DEF IntentionAxis
<1>6. SpaceAxis = "BLOCK" => HasIssue \/ VerificationFailed
  BY DEF SpaceAxis, HasIssue, CommitIssue, VerificationIssue, VerificationClaimed,
         VerificationFailed, CommitmentComplete
<1>7. verification["destination_observed"] = "false" => SpaceAxis = "BLOCK"
  BY DEF SpaceAxis
<1>8. Phase = "RECALIBRATE" <=> "BLOCK" \in {TimeAxis, IntentionAxis, SpaceAxis}
  BY <1>3, <1>4, <1>5, <1>6, <1>7 DEF VerificationFailed
<1> QED
  BY <1>2, <1>8 DEF AxesAgreeWithPhase

(* The agreement of phase and axes, as an invariant of the specification. *)
THEOREM AxesAgree == RecordSpec => []AxesAgreeWithPhase
BY TypeCorrect, AxesFromRecord, PTL

(* What a verdict VERIFIED rests on, apart from the deadline.  A record that has  *)
(* this story has no null field left but the deadline.                            *)
Story ==
  /\ \A key \in Stamps : Present(key)
  /\ time["observed_before_ns"] <= time["intent_declared_ns"]
  /\ time["intent_declared_ns"] <= time["commit_ns"]
  /\ time["commit_ns"] <= time["action_started_ns"]
  /\ time["action_started_ns"] <= time["result_observed_ns"]
  /\ time["result_observed_ns"] <= now
  /\ evidence = EvidenceKeys
  /\ intention = IntentionKeys
  /\ space = [boundary |-> TRUE, destination |-> "elsewhere"]
  /\ \A j \in Judgements : verification[j] = "true"

(* The result is no later than the deadline, if there is one. *)
InTime == Present("deadline_ns") => time["result_observed_ns"] <= time["deadline_ns"]

LEMMA StoryOfVerified ==
  ASSUME RecordTypeOK, Accepted, Status = "VERIFIED"
  PROVE  Story /\ InTime
<1>1. VerificationComplete /\ ~VerificationFailed /\ ~DeadlineExceeded
  BY DEF Status, Phase
<1>2. \A j \in Judgements : verification[j] = "true"
  BY <1>1 DEF VerificationComplete, VerificationFailed, RecordTypeOK
<1>3. InTime
  BY <1>1, KeysAssumption DEF InTime, DeadlineExceeded, Present, RecordTypeOK, TimeKeys, Stamps, None
<1>4. IntentDeclared /\ CommitmentComplete /\ ExecutionObserved /\ ResultObserved
  BY <1>1 DEF VerificationComplete, ResultObserved, ExecutionObserved, CommitmentComplete
<1>5. \A key \in Stamps : Present(key)
  BY <1>4 DEF Stamps, IntentDeclared, CommitmentComplete, ExecutionObserved, ResultObserved
<1>6. evidence = EvidenceKeys
  BY <1>1, <1>4 DEF RecordTypeOK, EvidenceKeys, IntentDeclared, ExecutionObserved, ResultObserved,
                    VerificationComplete
<1>7. intention = IntentionKeys
  BY <1>4 DEF RecordTypeOK, IntentionKeys, IntentDeclared, CommitmentComplete
<1>8. space = [boundary |-> TRUE, destination |-> "elsewhere"]
  BY <1>4 DEF RecordTypeOK, Accepted, CommitmentComplete, PlaceDeclared
<1>9. /\ time["intent_declared_ns"] <= time["commit_ns"]
      /\ time["commit_ns"] <= time["action_started_ns"]
      /\ time["action_started_ns"] <= time["result_observed_ns"]
      /\ time["result_observed_ns"] <= now
  BY <1>5, KeysAssumption
     DEF Stamps, Accepted, Chronological, InOrder, Present, RecordTypeOK, TimeKeys, None
<1>10. time["observed_before_ns"] <= time["intent_declared_ns"]
  BY <1>5, KeysAssumption
     DEF Stamps, Accepted, Chronological, InOrder, Present, RecordTypeOK, TimeKeys, None
<1> QED
  BY <1>2, <1>3, <1>5, <1>6, <1>7, <1>8, <1>9, <1>10 DEF Story

(* Conversely a record with the whole story, in time for its deadline if it has   *)
(* one, is accepted and verified, whenever it is evaluated.                       *)
LEMMA StoryVerifies ==
  ASSUME RecordTypeOK, Story, InTime
  PROVE  Accepted /\ Status = "VERIFIED"
<1>1. Accepted
  <2>1. \A key \in TimeKeys : time[key] \in Int
    BY KeysAssumption DEF RecordTypeOK, None
  <2>2. /\ now \in Int
        /\ time["observed_before_ns"] \in Int /\ time["intent_declared_ns"] \in Int
        /\ time["commit_ns"] \in Int /\ time["action_started_ns"] \in Int
        /\ time["result_observed_ns"] \in Int
    BY <2>1, KeysAssumption DEF RecordTypeOK, TimeKeys, Stamps
  <2>3. /\ InOrder("observed_before_ns", "intent_declared_ns")
        /\ InOrder("observed_before_ns", "commit_ns")
        /\ InOrder("observed_before_ns", "action_started_ns")
        /\ InOrder("observed_before_ns", "result_observed_ns")
        /\ InOrder("intent_declared_ns", "commit_ns")
        /\ InOrder("intent_declared_ns", "action_started_ns")
        /\ InOrder("intent_declared_ns", "result_observed_ns")
        /\ InOrder("commit_ns", "action_started_ns")
        /\ InOrder("commit_ns", "result_observed_ns")
        /\ InOrder("action_started_ns", "result_observed_ns")
    <3>1. /\ time["observed_before_ns"] <= time["intent_declared_ns"]
          /\ time["intent_declared_ns"] <= time["commit_ns"]
          /\ time["commit_ns"] <= time["action_started_ns"]
          /\ time["action_started_ns"] <= time["result_observed_ns"]
      BY DEF Story
    <3> QED
      BY <2>2, <3>1, SMT DEF InOrder
  <2>4. InOrder("observed_before_ns", "deadline_ns")
    BY <2>1, <2>2 DEF InOrder, Story, InTime, TimeKeys, Stamps
  <2>5. \A key \in Stamps : Present(key)
    BY DEF Story
  <2>6. space.destination # "origin"
    BY DEF Story
  <2>7. \A key \in Stamps \cup {"observed_before_ns"} : time[key] <= now
    BY <2>2, SMT DEF Story, Stamps
  <2> QED
    BY <2>3, <2>4, <2>5, <2>6, <2>7 DEF Accepted, Chronological, Stamps
<1>2. VerificationComplete /\ ~VerificationFailed /\ ~HasIssue
  <2>1. IntentDeclared
    BY DEF Story, IntentDeclared, Stamps, EvidenceKeys, IntentionKeys
  <2>2. CommitmentComplete
    BY <2>1 DEF Story, CommitmentComplete, PlaceDeclared, Stamps, IntentionKeys
  <2>3. ExecutionObserved
    BY <2>2 DEF Story, ExecutionObserved, Stamps, EvidenceKeys
  <2>4. ResultObserved
    BY <2>3 DEF Story, ResultObserved, Stamps, EvidenceKeys
  <2>5. VerificationComplete /\ ~VerificationFailed
    BY <2>4 DEF Story, VerificationComplete, VerificationFailed, EvidenceKeys
  <2> QED
    BY <2>1, <2>2, <2>3, <2>4, <2>5
       DEF HasIssue, IntentIssue, CommitIssue, ExecutionIssue, ResultIssue, VerificationIssue
<1>3. ~DeadlineExceeded
  BY <1>2, KeysAssumption DEF InTime, DeadlineExceeded, Present, RecordTypeOK, TimeKeys, Stamps, None
<1>4. Phase = "REFLECT"
  BY <1>2, <1>3 DEF Phase
<1> QED
  BY <1>1, <1>4, AxesFromRecord DEF AxesAgreeWithPhase

(* The inductive invariant: what was reported VERIFIED keeps its story, and the   *)
(* deadline the report names is still the record's.  A deadline written since is  *)
(* not constrained, which is why the story is kept apart from the verdict.        *)
StoryKept ==
  report.status = "VERIFIED" =>
    /\ Story
    /\ report.deadline # None => report.deadline = time["deadline_ns"] /\ InTime

LEMMA StoryStays == RecordSpec => []StoryKept
<1>1. RecordInit => StoryKept
  BY DEF RecordInit, StoryKept, NoReport
<1>2. RecordTypeOK /\ StoryKept /\ [RecordNext]_recordVars => StoryKept'
  <2> SUFFICES ASSUME RecordTypeOK, StoryKept, [RecordNext]_recordVars, report'.status = "VERIFIED"
               PROVE  /\ Story'
                      /\ report'.deadline # None => report'.deadline = time'["deadline_ns"] /\ InTime'
    BY DEF StoryKept
  <2>1. CASE Evaluate
    <3>1. UNCHANGED <<now, time, intention, space, evidence, verification>>
      BY <2>1 DEF Evaluate
    <3>2. Story /\ (report'.deadline # None => report'.deadline = time["deadline_ns"] /\ InTime)
      <4>1. CASE Accepted
        BY <2>1, <4>1, StoryOfVerified DEF Evaluate, Report
      <4>2. CASE ~Accepted
        BY <2>1, <4>2 DEF Evaluate, StoryKept
      <4> QED
        BY <4>1, <4>2
    <3> QED
      BY <3>1, <3>2 DEF Story, InTime, Present
  <2>2. CASE Tick
    <3>1. /\ now' = now + 1 /\ now \in Nat /\ time["result_observed_ns"] \in Int
          /\ UNCHANGED <<time, intention, space, evidence, verification, report>>
      BY <2>2, KeysAssumption DEF Tick, RecordTypeOK, TimeKeys, Stamps, None
    <3> QED
      BY <3>1 DEF StoryKept, Story, InTime, Present
  <2>3. CASE Write
    <3>1. UNCHANGED report /\ Story
      BY <2>3 DEF Write, WriteStamp, WriteIntention, WriteBoundary, WriteDestination,
                  WriteEvidence, WriteJudgement, StoryKept
    <3>2. PICK stamp \in 0 .. MaxTime : WriteStamp("deadline_ns", stamp)
      BY <2>3, <3>1 DEF Story, Write, WriteStamp, WriteIntention, WriteBoundary,
                        WriteDestination, WriteEvidence, WriteJudgement
    <3>3. /\ \A key \in Stamps \cup {"observed_before_ns"} : time'[key] = time[key]
          /\ UNCHANGED <<now, intention, space, evidence, verification>>
          /\ time["deadline_ns"] = None
      BY <3>2 DEF WriteStamp, Present, RecordTypeOK, TimeKeys, Stamps
    <3>4. Story'
      BY <3>1, <3>3 DEF Story, Present, Stamps
    <3>5. report'.deadline = None
      BY <3>1, <3>3 DEF StoryKept
    <3> QED
      BY <3>4, <3>5
  <2>4. CASE UNCHANGED recordVars
    BY <2>4 DEF recordVars, StoryKept, Story, InTime, Present
  <2> QED
    BY <2>1, <2>2, <2>3, <2>4 DEF RecordNext
<1> QED
  BY <1>1, <1>2, TypeCorrect, PTL DEF RecordSpec

(* A verdict VERIFIED, once reported, is the verdict of every later evaluation,   *)
(* unless the record had no deadline and has been given one its result had missed.*)
THEOREM VerdictRevokedByDeadlineOnly == RecordSpec => []OnlyALateDeadlineRevokes
<1>1. RecordTypeOK /\ StoryKept => OnlyALateDeadlineRevokes
  <2> SUFFICES ASSUME RecordTypeOK, StoryKept, report.status = "VERIFIED"
               PROVE  \/ Accepted /\ Status = "VERIFIED"
                      \/ /\ report.deadline = None
                         /\ Present("deadline_ns")
                         /\ time["deadline_ns"] < time["result_observed_ns"]
    BY DEF OnlyALateDeadlineRevokes
  <2>1. Story
    BY DEF StoryKept
  <2>2. CASE InTime
    BY <2>1, <2>2, StoryVerifies
  <2>3. CASE ~InTime
    <3>1. report.deadline = None
      BY <2>3 DEF StoryKept
    <3>2. time["deadline_ns"] \in Int /\ time["result_observed_ns"] \in Int
      BY KeysAssumption DEF RecordTypeOK, TimeKeys, Stamps, None
    <3> QED
      BY <2>3, <3>1, <3>2 DEF InTime
  <2> QED
    BY <2>2, <2>3
<1> QED
  BY <1>1, TypeCorrect, StoryStays, PTL

(* Whatever was reported VERIFIED has its whole story in the record. *)
THEOREM WholeStory == RecordSpec => []VerifiedHasWholeStory
<1>1. RecordTypeOK /\ StoryKept => VerifiedHasWholeStory
  <2> SUFFICES ASSUME RecordTypeOK, StoryKept, report.status = "VERIFIED"
               PROVE  VerifiedHasWholeStory
    BY DEF VerifiedHasWholeStory
  <2>1. Story
    BY DEF StoryKept
  <2>2. None < time["intent_declared_ns"]
    BY <2>1, KeysAssumption DEF Story, Present, RecordTypeOK, TimeKeys, Stamps, None
  <2>3. report.deadline # None => time["result_observed_ns"] <= report.deadline
    BY DEF StoryKept, InTime, Present
  <2> QED
    BY <2>1, <2>2, <2>3 DEF VerifiedHasWholeStory, Story
<1> QED
  BY <1>1, TypeCorrect, StoryStays, PTL
----------------------------------------------------------------------------
(* A field that is written stays written, so a milestone that was reached   *)
(* stays reached: the record still has what the last report said it has.    *)
Reached ==
  /\ report.phase = "EXPAND" => IntentDeclared
  /\ report.phase = "COMMIT" => CommitmentComplete
  /\ report.phase = "EXECUTE" => ExecutionObserved
  /\ report.phase = "VERIFY" => ResultObserved
  /\ report.phase = "REFLECT" => VerificationComplete

(* Whatever the recorder writes and however time passes, no milestone of    *)
(* the record is lost.                                                      *)
LEMMA MilestonesStay ==
  ASSUME RecordTypeOK, Write \/ Tick \/ UNCHANGED recordVars
  PROVE  /\ IntentDeclared => IntentDeclared'
         /\ CommitmentComplete => CommitmentComplete'
         /\ ExecutionObserved => ExecutionObserved'
         /\ ResultObserved => ResultObserved'
         /\ VerificationComplete => VerificationComplete'
<1>1. /\ \A key \in Stamps : Present(key) => Present(key)'
      /\ intention \subseteq intention' /\ evidence \subseteq evidence'
      /\ PlaceDeclared => PlaceDeclared'
      /\ \A j \in Judgements : verification[j] # "null" => verification'[j] # "null"
  <2> USE DEF RecordTypeOK, Present, PlaceDeclared
  <2>1. ASSUME NEW k \in Stamps, NEW stamp \in 0 .. now, WriteStamp(k, stamp),
               NEW key \in Stamps, Present(key)
        PROVE  Present(key)'
    BY <2>1 DEF WriteStamp
  <2>10. ASSUME NEW stamp \in 0 .. MaxTime, WriteStamp("deadline_ns", stamp),
                NEW key \in Stamps, Present(key)
         PROVE  Present(key)'
    BY <2>10 DEF WriteStamp, Stamps
  <2>2. ASSUME NEW key \in IntentionKeys, WriteIntention(key) PROVE intention \subseteq intention'
    BY <2>2 DEF WriteIntention
  <2>3. ASSUME WriteBoundary, PlaceDeclared PROVE PlaceDeclared'
    BY <2>3 DEF WriteBoundary
  <2>4. ASSUME NEW place \in {"origin", "elsewhere"}, WriteDestination(place), PlaceDeclared
        PROVE  PlaceDeclared'
    BY <2>4 DEF WriteDestination
  <2>5. ASSUME NEW ref \in EvidenceKeys, WriteEvidence(ref) PROVE evidence \subseteq evidence'
    BY <2>5 DEF WriteEvidence
  <2>6. ASSUME NEW i \in Judgements, NEW verdict \in {"true", "false"}, WriteJudgement(i, verdict),
               NEW j \in Judgements, verification[j] # "null"
        PROVE  verification'[j] # "null"
    BY <2>6 DEF WriteJudgement
  <2>7. CASE Tick
    BY <2>7 DEF Tick
  <2>8. CASE UNCHANGED recordVars
    BY <2>8 DEF recordVars
  <2>9. CASE Write
    <3>1. \/ UNCHANGED time
          \/ \E k \in Stamps, stamp \in 0 .. now : WriteStamp(k, stamp)
          \/ \E stamp \in 0 .. MaxTime : WriteStamp("deadline_ns", stamp)
      BY <2>9 DEF Write, WriteIntention, WriteBoundary, WriteDestination, WriteEvidence, WriteJudgement
    <3>2. UNCHANGED intention \/ \E key \in IntentionKeys : WriteIntention(key)
      BY <2>9 DEF Write, WriteStamp, WriteBoundary, WriteDestination, WriteEvidence, WriteJudgement
    <3>3. \/ UNCHANGED space \/ WriteBoundary
          \/ \E place \in {"origin", "elsewhere"} : WriteDestination(place)
      BY <2>9 DEF Write, WriteStamp, WriteIntention, WriteEvidence, WriteJudgement
    <3>4. UNCHANGED evidence \/ \E ref \in EvidenceKeys : WriteEvidence(ref)
      BY <2>9 DEF Write, WriteStamp, WriteIntention, WriteBoundary, WriteDestination, WriteJudgement
    <3>5. \/ UNCHANGED verification
          \/ \E j \in Judgements, verdict \in {"true", "false"} : WriteJudgement(j, verdict)
      BY <2>9 DEF Write, WriteStamp, WriteIntention, WriteBoundary, WriteDestination, WriteEvidence
    <3>6. \A key \in Stamps : Present(key) => Present(key)'
      BY <3>1, <2>1, <2>10
    <3>7. intention \subseteq intention' /\ evidence \subseteq evidence'
      BY <3>2, <3>4, <2>2, <2>5
    <3>8. PlaceDeclared => PlaceDeclared'
      BY <3>3, <2>3, <2>4
    <3>9. \A j \in Judgements : verification[j] # "null" => verification'[j] # "null"
      BY <3>5, <2>6
    <3> QED
      BY <3>6, <3>7, <3>8, <3>9
  <2> QED
    BY <2>7, <2>8, <2>9
<1>2. IntentDeclared => IntentDeclared'
  BY <1>1 DEF IntentDeclared, Stamps
<1>3. CommitmentComplete => CommitmentComplete'
  BY <1>1, <1>2 DEF CommitmentComplete, Stamps
<1>4. ExecutionObserved => ExecutionObserved'
  BY <1>1, <1>3 DEF ExecutionObserved, Stamps
<1>5. ResultObserved => ResultObserved'
  BY <1>1, <1>4 DEF ResultObserved, Stamps
<1>6. VerificationComplete => VerificationComplete'
  BY <1>1, <1>5 DEF VerificationComplete
<1> QED
  BY <1>2, <1>3, <1>4, <1>5, <1>6

(* The phase that is computed names the last milestone of the record. *)
LEMMA PhaseOfMilestones ==
  /\ Phase = "CALIBRATE" => ~IntentDeclared
  /\ Phase = "EXPAND" => IntentDeclared /\ ~CommitmentComplete
  /\ Phase = "COMMIT" => CommitmentComplete /\ ~ExecutionObserved
  /\ Phase = "EXECUTE" => ExecutionObserved /\ ~ResultObserved
  /\ Phase = "VERIFY" => ResultObserved /\ ~VerificationComplete
  /\ Phase = "REFLECT" => VerificationComplete
BY DEF Phase

(* The last report is never ahead of the record. *)
LEMMA ReachedHolds == RecordSpec => []Reached
<1>1. RecordInit => Reached
  BY DEF RecordInit, Reached, NoReport
<1>2. RecordTypeOK /\ Reached /\ [RecordNext]_recordVars => Reached'
  <2> SUFFICES ASSUME RecordTypeOK, Reached, [RecordNext]_recordVars PROVE Reached'
    OBVIOUS
  <2>1. CASE Evaluate
    <3>1. /\ IntentDeclared' <=> IntentDeclared
          /\ CommitmentComplete' <=> CommitmentComplete
          /\ ExecutionObserved' <=> ExecutionObserved
          /\ ResultObserved' <=> ResultObserved
          /\ VerificationComplete' <=> VerificationComplete
      BY <2>1 DEF Evaluate, IntentDeclared, CommitmentComplete, ExecutionObserved, ResultObserved,
                  VerificationComplete, PlaceDeclared, Present
    <3>2. UNCHANGED report \/ report'.phase = Phase
      BY <2>1 DEF Evaluate, Report
    <3> QED
      BY <3>1, <3>2, PhaseOfMilestones DEF Reached
  <2>2. CASE Write \/ Tick \/ UNCHANGED recordVars
    <3>1. UNCHANGED report
      BY <2>2 DEF Write, WriteStamp, WriteIntention, WriteBoundary, WriteDestination,
                  WriteEvidence, WriteJudgement, Tick, recordVars
    <3> QED
      BY <2>2, <3>1, MilestonesStay DEF Reached
  <2> QED
    BY <2>1, <2>2 DEF RecordNext
<1> QED
  BY <1>1, <1>2, TypeCorrect, PTL DEF RecordSpec

(* The milestones are a chain: each rests on all the earlier ones. *)
LEMMA MilestonesAreAChain ==
  /\ VerificationComplete => ResultObserved
  /\ ResultObserved => ExecutionObserved
  /\ ExecutionObserved => CommitmentComplete
  /\ CommitmentComplete => IntentDeclared
BY DEF VerificationComplete, ResultObserved, ExecutionObserved, CommitmentComplete

(* A later report never goes back to an earlier phase of the transition:    *)
(* the phase computed is at least the one of the milestones still there.    *)
THEOREM ReportsAdvance == RecordSpec => PhasesAdvance
<1> DEFINE Advances == report.phase \in DOMAIN Rank /\ report'.phase \in DOMAIN Rank
                         => Rank[report.phase] <= Rank[report'.phase]
<1>1. DOMAIN Rank = {"CALIBRATE", "EXPAND", "COMMIT", "EXECUTE", "VERIFY", "REFLECT"}
  BY DEF Rank
<1>2. /\ Rank["CALIBRATE"] = 0 /\ Rank["EXPAND"] = 1 /\ Rank["COMMIT"] = 2
      /\ Rank["EXECUTE"] = 3 /\ Rank["VERIFY"] = 4 /\ Rank["REFLECT"] = 5
  BY DEF Rank
<1>3. RecordTypeOK /\ Reached /\ [RecordNext]_recordVars => [Advances]_recordVars
  <2> SUFFICES ASSUME RecordTypeOK, Reached, [RecordNext]_recordVars,
                      report.phase \in DOMAIN Rank, report'.phase \in DOMAIN Rank
               PROVE  Rank[report.phase] <= Rank[report'.phase]
    OBVIOUS
  <2>1. UNCHANGED report \/ report'.phase = Phase
    BY DEF RecordNext, Write, WriteStamp, WriteIntention, WriteBoundary, WriteDestination,
           WriteEvidence, WriteJudgement, Tick, Evaluate, Report, recordVars
  <2>2. CASE UNCHANGED report
    BY <2>2, <1>1, <1>2
  <2>3. CASE report'.phase = Phase
    BY <2>3, <1>1, <1>2, PhaseOfMilestones, MilestonesAreAChain DEF Reached
  <2> QED
    BY <2>1, <2>2, <2>3
<1> QED
  BY <1>3, TypeCorrect, ReachedHolds, PTL DEF RecordSpec, PhasesAdvance

-----------------------------------------------------------------------------
(* The intake of an archive.                                                    *)

Members == archive.members
Size == Len(archive.members)
Past == {"scan", "write", "inventory", "accepted"}

(* The members the scan has passed. *)
Passed(n) ==
    /\ \A k \in 1..n :
          /\ Canonical(Members[k].name) /\ PlainMode(Members[k])
          /\ Members[k].dir \/ Members[k].size <= MaxFileBytes
    /\ \A j, k \in 1..n : Key(Members[j].name) = Key(Members[k].name) => j = k
FilesOf(n) == {Members[k].name : k \in {i \in 1..n : ~Members[i].dir}}

(* The file a member becomes. *)
Written(k) == [name |-> Members[k].name, content |-> Members[k].content, try |-> tries]

ScanInv ==
    pc = "scan" =>
        /\ folded = {Key(Members[k].name) : k \in 1..(at - 1)}
        /\ Passed(at - 1) /\ files = FilesOf(at - 1) /\ tree = {}

WriteInv ==
    pc \in {"write", "inventory", "accepted"} =>
        /\ Passed(Size) /\ files = FilesOf(Size)
        /\ kind = "source" => files = ExpectedSource
        /\ tree = {Written(k) : k \in {i \in 1..(at - 1) : ~Members[i].dir}}
        /\ \A k \in 1..(at - 1) :
              ~Members[k].dir => Members[k].content \notin {"short", "damaged"}

AcceptInv ==
    /\ pc \in {"inventory", "accepted"} => at = Size + 1
    /\ pc = "inventory" => kind = "evidence"
    /\ pc = "accepted" /\ kind = "evidence" =>
          files = archive.listing \cup {"manifest"} /\ ListedAsWritten

(* A directory is written by the try that made it and by no other. *)
TryInv ==
    /\ pc \in Past => Size \in 1..MaxEntries /\ at <= Size + 1 /\ exists
    /\ ~exists => tree = {}
    /\ pc # "idle" => tries \in 1..MaxTries
    /\ \A f \in tree : f.try <= tries
    /\ pc = "open" => folded = {} /\ files = {} /\ \A f \in tree : f.try < tries

IInv ==
    /\ TypeOK /\ TryInv /\ ScanInv /\ WriteInv /\ AcceptInv
    /\ OneArchivePerTree /\ WrittenIsSound

LEMMA MembersTyped ==
    ASSUME archive \in Archives
    PROVE  /\ Size \in Nat /\ DOMAIN Members = 1..Size
           /\ \A k \in 1..Size : Members[k] \in Member
           /\ archive.listing \subseteq Names
<1>1. Members \in Seq(Member) /\ archive.listing \subseteq Names
  BY IntakeAssumption DEF Members
<1> QED
  BY <1>1, LenProperties, ElementOfSeq DEF Members, Size

LEMMA KeyTyped == \A n \in Names : Key(n) \in Names
BY DEF Key, Names

(* A table the scan has passed to its end is sound. *)
LEMMA PassedIsSound ==
    ASSUME archive \in Archives, Passed(Size) PROVE Sound(Members)
<1> SUFFICES ASSUME NEW i \in 1..Size
             PROVE  /\ Canonical(Members[i].name)
                    /\ PlainMode(Members[i])
                    /\ Members[i].dir \/ Members[i].size <= MaxFileBytes
                    /\ \A k \in 1..(i - 1) : Key(Members[k].name) # Key(Members[i].name)
  BY DEF Sound, Members, Size
<1>1. Size \in Nat
  BY MembersTyped
<1>2. ASSUME NEW k \in 1..(i - 1) PROVE Key(Members[k].name) # Key(Members[i].name)
  <2>1. k \in 1..Size /\ k # i
    BY <1>1
  <2> QED
    BY <2>1 DEF Passed
<1> QED
  BY <1>2 DEF Passed

-----------------------------------------------------------------------------
LEMMA LimitsTyped ==
    /\ MaxEntries \in Nat /\ MaxFileBytes \in Nat
    /\ MaxTotalBytes \in Nat /\ MaxTries \in Nat
BY IntakeAssumption

(* What the scan does to the members passed, when it passes one more. *)
LEMMA OneMorePassed ==
    ASSUME archive \in Archives, NEW n \in 1..Size, Passed(n - 1),
           NEW seen, seen = {Key(Members[k].name) : k \in 1..(n - 1)},
           Canonical(Members[n].name), PlainMode(Members[n]), Key(Members[n].name) \notin seen,
           Members[n].dir \/ Members[n].size <= MaxFileBytes
    PROVE  /\ Passed(n)
           /\ seen \cup {Key(Members[n].name)} = {Key(Members[k].name) : k \in 1..n}
           /\ Members[n].dir => FilesOf(n) = FilesOf(n - 1)
           /\ ~Members[n].dir => FilesOf(n) = FilesOf(n - 1) \cup {Members[n].name}
<1>1. Size \in Nat /\ n \in Nat
  BY MembersTyped
<1>2. 1..n = 1..(n - 1) \cup {n}
  BY <1>1
<1> HIDE DEF Members, Size
<1>3. Passed(n)
  BY <1>2 DEF Passed
<1>4. seen \cup {Key(Members[n].name)} = {Key(Members[k].name) : k \in 1..n}
  BY <1>2
<1>5. /\ Members[n].dir => FilesOf(n) = FilesOf(n - 1)
      /\ ~Members[n].dir => FilesOf(n) = FilesOf(n - 1) \cup {Members[n].name}
  BY <1>2 DEF FilesOf
<1> QED
  BY <1>3, <1>4, <1>5

-----------------------------------------------------------------------------
LEMMA Invariance == Spec => []IInv
<1>1. Init => IInv
  <2> SUFFICES ASSUME Init PROVE IInv
    OBVIOUS
  <2>1. at \in 1..(MaxEntries + 1) /\ total \in 0..MaxTotalBytes /\ tries \in 0..MaxTries
    BY LimitsTyped DEF Init
  <2>2. TypeOK
    BY <2>1 DEF Init, TypeOK, Steps
  <2> QED
    BY <2>2 DEF Init, IInv, TryInv, ScanInv, WriteInv, AcceptInv, OneArchivePerTree,
                WrittenIsSound, Past
<1>2. IInv /\ [Next]_vars => IInv'
  <2> SUFFICES ASSUME IInv, [Next]_vars PROVE IInv'
    OBVIOUS
  <2>0. TypeOK /\ TryInv /\ archive \in Archives
    BY DEF IInv, TypeOK
  <2>s. Size \in Nat
    BY <2>0, MembersTyped
  <2>f. ASSUME NEW how \in {"refused", "crashed"}, pc # "idle", pc' = how,
               UNCHANGED <<kind, archive, at, scan, tree, tries>>, exists' \in {exists, TRUE}
        PROVE  IInv'
    <3>1. UNCHANGED <<kind, archive, at, folded, files, total, tree, tries>>
      BY <2>f DEF scan
    <3>2. TypeOK'
      BY <2>0, <2>f, <3>1 DEF TypeOK, Steps
    <3>3. TryInv'
      <4>1. ~exists' => ~exists
        BY <2>f
      <4>2. pc' \notin Past /\ pc' # "open" /\ pc' # "idle"
        BY <2>f DEF Past
      <4>3. tries \in 1..MaxTries /\ (~exists => tree = {}) /\ \A f \in tree : f.try <= tries
        BY <2>0, <2>f DEF TryInv
      <4> QED
        BY <3>1, <4>1, <4>2, <4>3 DEF TryInv
    <3>4. ScanInv' /\ WriteInv' /\ AcceptInv'
      BY <2>f DEF ScanInv, WriteInv, AcceptInv
    <3>5. OneArchivePerTree' /\ WrittenIsSound'
      BY <3>1 DEF IInv, OneArchivePerTree, WrittenIsSound, Sound
    <3> QED
      BY <3>2, <3>3, <3>4, <3>5 DEF IInv
  <2>1. CASE Open
    <3>1. CASE exists \/ Size \notin 1..MaxEntries
      <4>1. pc = "open" /\ pc' = "refused" /\ exists' = TRUE
            /\ UNCHANGED <<kind, archive, at, scan, tree, tries>>
        BY <2>1, <3>1 DEF Open, Size
      <4> QED
        BY <2>f, <4>1
    <3>2. CASE ~exists /\ Size \in 1..MaxEntries
      <4>1. pc = "open" /\ pc' = "scan" /\ at' = 1 /\ exists' = TRUE
            /\ UNCHANGED <<kind, archive, folded, files, total, tree, tries>>
        BY <2>1, <3>2 DEF Open, Size, scan
      <4>2. tree = {} /\ folded = {} /\ files = {}
        BY <2>0, <3>2, <4>1 DEF TryInv
      <4>3. at' \in 1..(MaxEntries + 1) /\ at' <= Size + 1
        BY <4>1, <2>s, LimitsTyped
      <4>4. TypeOK'
        BY <2>0, <4>1, <4>3 DEF TypeOK, Steps
      <4>5. TryInv'
        BY <2>0, <3>2, <4>1, <4>2, <4>3 DEF TryInv, Past, Size
      <4>6. ScanInv'
        <5>1. 1..(at' - 1) = {}
          BY <4>1
        <5> QED
          BY <4>1, <4>2, <5>1 DEF ScanInv, Passed, FilesOf, Members
      <4>7. WriteInv' /\ AcceptInv'
        BY <4>1 DEF WriteInv, AcceptInv
      <4>8. OneArchivePerTree' /\ WrittenIsSound'
        BY <4>1, <4>2 DEF OneArchivePerTree, WrittenIsSound
      <4> QED
        BY <4>4, <4>5, <4>6, <4>7, <4>8 DEF IInv
    <3> QED
      BY <3>1, <3>2
  <2>2. CASE ScanMember
    <3>1. CASE ~Admissible(member)
      <4>1. pc # "idle" /\ pc' = "refused"
            /\ UNCHANGED <<kind, archive, at, scan, exists, tree, tries>>
        BY <2>2, <3>1 DEF ScanMember, Fail
      <4> QED
        BY <2>f, <4>1
    <3>2. CASE Admissible(member)
      <4>1. /\ pc = "scan" /\ at <= Size /\ at' = at + 1
            /\ folded' = folded \cup {Key(member.name)}
            /\ files' = IF member.dir THEN files ELSE files \cup {member.name}
            /\ total' = IF member.dir THEN total ELSE total + member.size
            /\ UNCHANGED <<kind, archive, pc, exists, tree, tries>>
        BY <2>2, <3>2 DEF ScanMember, Size
      <4>2. at \in 1..Size /\ at \in Nat /\ Size <= MaxEntries
        BY <2>0, <2>s, <4>1, LimitsTyped DEF TypeOK, TryInv, Past
      <4>3. member = Members[at] /\ member \in Member
        BY <2>0, <4>2, MembersTyped DEF member, Members
      <4>4. member.name \in Names /\ Key(member.name) \in Names /\ member.size \in Nat
        BY <4>3, KeyTyped DEF Member
      <4>5. at' \in 1..(MaxEntries + 1) /\ at' <= Size + 1
        BY <4>1, <4>2, <2>s, LimitsTyped
      <4>6. total' \in 0..MaxTotalBytes
        BY <2>0, <3>2, <4>1, <4>4, LimitsTyped DEF TypeOK, Admissible, SizeAllowed
      <4>7. folded' \subseteq Names /\ files' \subseteq Names
        BY <2>0, <4>1, <4>4 DEF TypeOK
      <4>8. TypeOK'
        BY <2>0, <4>1, <4>5, <4>6, <4>7 DEF TypeOK
      <4>9. TryInv'
        BY <2>0, <4>1, <4>5 DEF TryInv, Past, Size
      <4>10. ScanInv'
        <5>1. /\ folded = {Key(Members[k].name) : k \in 1..(at - 1)}
              /\ Passed(at - 1) /\ files = FilesOf(at - 1) /\ tree = {}
          BY <4>1 DEF IInv, ScanInv
        <5>2. /\ Canonical(Members[at].name) /\ PlainMode(Members[at])
              /\ Key(Members[at].name) \notin folded
              /\ Members[at].dir \/ Members[at].size <= MaxFileBytes
          BY <3>2, <4>3 DEF Admissible, SizeAllowed
        <5>3. /\ Passed(at)
              /\ folded \cup {Key(Members[at].name)} = {Key(Members[k].name) : k \in 1..at}
              /\ Members[at].dir => FilesOf(at) = FilesOf(at - 1)
              /\ ~Members[at].dir => FilesOf(at) = FilesOf(at - 1) \cup {Members[at].name}
          BY <2>0, <4>2, <5>1, <5>2, OneMorePassed
        <5>4. /\ folded' = {Key(Members[k].name) : k \in 1..at}
              /\ files' = FilesOf(at)
          BY <4>1, <4>3, <5>1, <5>3
        <5>5. at' - 1 = at /\ Members' = Members /\ tree' = {}
          BY <4>1, <4>2, <5>1 DEF Members
        <5> QED
          BY <5>3, <5>4, <5>5 DEF ScanInv, Passed, FilesOf
      <4>11. WriteInv' /\ AcceptInv'
        BY <4>1 DEF WriteInv, AcceptInv
      <4>12. OneArchivePerTree' /\ WrittenIsSound'
        BY <4>1 DEF IInv, ScanInv, OneArchivePerTree, WrittenIsSound
      <4> QED
        BY <4>8, <4>9, <4>10, <4>11, <4>12 DEF IInv
    <3> QED
      BY <3>1, <3>2
  <2>3. CASE EndScan
    <3>1. CASE kind = "source" /\ files # ExpectedSource
      <4>1. pc # "idle" /\ pc' = "refused"
            /\ UNCHANGED <<kind, archive, at, scan, exists, tree, tries>>
        BY <2>3, <3>1 DEF EndScan, Fail
      <4> QED
        BY <2>f, <4>1
    <3>2. CASE ~(kind = "source" /\ files # ExpectedSource)
      <4>1. /\ pc = "scan" /\ at > Size /\ pc' = "write" /\ at' = 1
            /\ UNCHANGED <<kind, archive, folded, files, total, exists, tree, tries>>
        BY <2>3, <3>2 DEF EndScan, Size, scan
      <4>2. Passed(at - 1) /\ files = FilesOf(at - 1) /\ tree = {}
        BY <4>1 DEF IInv, ScanInv
      <4>3. at = Size + 1 /\ at - 1 = Size /\ Size <= MaxEntries
        BY <2>0, <2>s, <4>1, LimitsTyped DEF TypeOK, TryInv, Past
      <4>4. at' \in 1..(MaxEntries + 1) /\ at' <= Size + 1
        BY <4>1, <2>s, LimitsTyped
      <4>5. TypeOK'
        BY <2>0, <4>1, <4>4 DEF TypeOK, Steps
      <4>6. TryInv'
        BY <2>0, <4>1, <4>4 DEF TryInv, Past, Size
      <4>7. WriteInv'
        <5>1. 1..(at' - 1) = {} /\ Members' = Members /\ Size' = Size
          BY <4>1 DEF Members, Size
        <5>2. Passed(Size) /\ files = FilesOf(Size)
          BY <4>2, <4>3
        <5>3. Passed(Size)' /\ files' = FilesOf(Size)'
          BY <4>1, <5>1, <5>2 DEF Passed, FilesOf
        <5>4. tree' = {Written(k)' : k \in {i \in 1..(at' - 1) : ~Members'[i].dir}}
          BY <4>1, <4>2, <5>1
        <5> QED
          BY <3>2, <4>1, <5>1, <5>3, <5>4 DEF WriteInv
      <4>8. ScanInv' /\ AcceptInv'
        BY <4>1 DEF ScanInv, AcceptInv
      <4>9. OneArchivePerTree' /\ WrittenIsSound'
        BY <4>1, <4>2 DEF OneArchivePerTree, WrittenIsSound
      <4> QED
        BY <4>5, <4>6, <4>7, <4>8, <4>9 DEF IInv
    <3> QED
      BY <3>1, <3>2
  <2>4. CASE WriteMember
    <3>1. /\ pc = "write" /\ at <= Size
          /\ UNCHANGED <<kind, archive, folded, files, total, exists, tries>>
      BY <2>4 DEF WriteMember, Size, scan
    <3>2. at \in 1..Size /\ at \in Nat /\ Size <= MaxEntries /\ tries \in 1..MaxTries
      BY <2>0, <2>s, <3>1, LimitsTyped DEF TypeOK, TryInv, Past
    <3>3. member = Members[at] /\ Members[at] \in Member
      BY <2>0, <3>2, MembersTyped DEF member, Members
    <3>4. /\ Passed(Size) /\ files = FilesOf(Size)
          /\ kind = "source" => files = ExpectedSource
          /\ tree = {Written(k) : k \in {i \in 1..(at - 1) : ~Members[i].dir}}
          /\ \A k \in 1..(at - 1) :
                ~Members[k].dir => Members[k].content \notin {"short", "damaged"}
      BY <3>1 DEF IInv, WriteInv
    <3>5. Members' = Members /\ Size' = Size /\ Passed(Size)' /\ files' = FilesOf(Size)'
      BY <3>1, <3>4 DEF Members, Size, Passed, FilesOf
    <3>6. Written(at) \in [name: Names, content: Contents, try: 1..MaxTries]
      BY <3>2, <3>3 DEF Written, Member
    <3>7. tree' \in {tree, tree \cup {Written(at)}}
      BY <2>4, <3>3 DEF WriteMember, Written
    <3>8. at' \in {at, at + 1} /\ at' \in 1..(MaxEntries + 1) /\ at' <= Size + 1
      BY <2>4, <2>s, <3>2, LimitsTyped DEF WriteMember
    <3>9. pc' \in {"write", "refused", "crashed"}
      BY <2>4, <3>1 DEF WriteMember
    <3>10. TypeOK'
      BY <2>0, <3>1, <3>6, <3>7, <3>8, <3>9 DEF TypeOK, Steps
    <3>11. \A f \in tree' : f.try = tries
      BY <3>4, <3>7 DEF Written
    <3>12. TryInv'
      <4>1. \A f \in tree' : f.try <= tries
        BY <3>2, <3>11
      <4>2. exists'
        BY <2>0, <3>1 DEF TryInv, Past
      <4> QED
        BY <2>0, <3>1, <3>2, <3>5, <3>8, <3>9, <4>1, <4>2 DEF TryInv, Past
    <3>13. ScanInv' /\ AcceptInv'
      BY <3>9 DEF ScanInv, AcceptInv
    <3>14. WriteInv'
      <4> SUFFICES ASSUME pc' = "write" PROVE WriteInv'
        BY <3>9 DEF WriteInv
      <4>1. /\ at' = at + 1
            /\ tree' = IF Members[at].dir THEN tree ELSE tree \cup {Written(at)}
            /\ ~Members[at].dir => Members[at].content \notin {"short", "damaged"}
        BY <2>4, <3>3 DEF WriteMember, Written
      <4>2. 1..(at' - 1) = 1..(at - 1) \cup {at}
        BY <3>2, <4>1
      <4>3. \A k : Written(k)' = Written(k)
        BY <3>1, <3>5 DEF Written
      <4>4. tree' = {Written(k) : k \in {i \in 1..(at' - 1) : ~Members[i].dir}}
        BY <3>4, <4>1, <4>2
      <4>5. tree' = {Written(k)' : k \in {i \in 1..(at' - 1) : ~Members'[i].dir}}
        BY <3>5, <4>3, <4>4
      <4>6. \A k \in 1..(at' - 1) :
               ~Members'[k].dir => Members'[k].content \notin {"short", "damaged"}
        BY <3>4, <3>5, <4>1, <4>2
      <4> QED
        BY <3>1, <3>4, <3>5, <4>5, <4>6 DEF WriteInv
    <3>15. OneArchivePerTree'
      BY <3>11 DEF OneArchivePerTree
    <3>16. WrittenIsSound'
      BY <2>0, <3>1, <3>4, PassedIsSound DEF WrittenIsSound, Members, Sound
    <3> QED
      BY <3>10, <3>12, <3>13, <3>14, <3>15, <3>16 DEF IInv
  <2>5. CASE EndWrite \/ Inventory
    <3>1. /\ pc \in {"write", "inventory"}
          /\ UNCHANGED <<kind, archive, at, folded, files, total, exists, tree, tries>>
      BY <2>5 DEF EndWrite, Inventory, scan
    <3>2. CASE pc' = "refused"
      BY <2>f, <3>1, <3>2 DEF scan
    <3>3. CASE pc' # "refused"
      <4>1. /\ pc' \in {"inventory", "accepted"}
            /\ pc' = "inventory" => kind = "evidence"
            /\ pc' = "accepted" /\ kind = "evidence" =>
                  files = archive.listing \cup {"manifest"} /\ ListedAsWritten
        BY <2>0, <2>5, <3>3 DEF EndWrite, Inventory, TypeOK, Kinds
      <4>2. at = Size + 1
        <5>1. CASE EndWrite
          BY <2>0, <2>s, <5>1, LimitsTyped DEF EndWrite, TypeOK, TryInv, Past, Size
        <5>2. CASE Inventory
          BY <5>2 DEF Inventory, IInv, AcceptInv
        <5> QED
          BY <2>5, <5>1, <5>2
      <4>3. Members' = Members /\ Size' = Size
        BY <3>1 DEF Members, Size
      <4>4. TypeOK'
        BY <2>0, <3>1, <4>1 DEF TypeOK, Steps
      <4>5. TryInv'
        BY <2>0, <3>1, <4>1, <4>3 DEF TryInv, Past
      <4>6. ScanInv'
        BY <4>1 DEF ScanInv
      <4>7. WriteInv'
        BY <3>1, <4>3 DEF IInv, WriteInv, Passed, FilesOf, Written
      <4>8. AcceptInv'
        BY <3>1, <4>1, <4>2, <4>3 DEF AcceptInv, ListedAsWritten
      <4>9. OneArchivePerTree' /\ WrittenIsSound'
        BY <3>1 DEF IInv, OneArchivePerTree, WrittenIsSound, Sound
      <4> QED
        BY <4>4, <4>5, <4>6, <4>7, <4>8, <4>9 DEF IInv
    <3> QED
      BY <3>2, <3>3
  <2>6. ASSUME NEW a \in Retried \cup {archive}, Start(a) PROVE IInv'
    <3>1. /\ tries < MaxTries /\ tries' = tries + 1 /\ archive' = a
          /\ pc' = "open" /\ at' = 1 /\ folded' = {} /\ files' = {} /\ total' = 0
          /\ UNCHANGED <<kind, exists, tree>>
      BY <2>6 DEF Start
    <3>2. a \in Archives
      BY <2>0, IntakeAssumption
    <3>3. tries \in Nat /\ tries' \in 1..MaxTries
      BY <2>0, <3>1, LimitsTyped DEF TypeOK
    <3>4. at' \in 1..(MaxEntries + 1) /\ total' \in 0..MaxTotalBytes /\ tries' \in 0..MaxTries
      BY <3>1, <3>3, LimitsTyped
    <3>5. TypeOK'
      BY <2>0, <3>1, <3>2, <3>4 DEF TypeOK, Steps
    <3>6. \A f \in tree : f.try \in Nat /\ f.try < tries'
      BY <2>0, <3>1, <3>3, LimitsTyped DEF TypeOK, TryInv
    <3>7. TryInv'
      <4>1. \A f \in tree' : f.try < tries' /\ f.try <= tries'
        BY <3>1, <3>3, <3>6
      <4> QED
        BY <2>0, <3>1, <3>3, <4>1 DEF TryInv, Past
    <3>8. ScanInv' /\ WriteInv' /\ AcceptInv'
      BY <3>1 DEF ScanInv, WriteInv, AcceptInv
    <3>9. OneArchivePerTree'
      BY <3>1 DEF IInv, OneArchivePerTree
    <3>10. WrittenIsSound'
      <4>1. \A f \in tree' : f.try # tries'
        BY <3>1, <3>3, <3>6
      <4> QED
        BY <4>1 DEF WrittenIsSound
    <3> QED
      BY <3>5, <3>7, <3>8, <3>9, <3>10 DEF IInv
  <2>7. CASE Kill
    <3>1. /\ pc # "idle" /\ pc' = "crashed"
          /\ UNCHANGED <<kind, archive, at, scan, exists, tree, tries>>
      BY <2>7 DEF Kill
    <3> QED
      BY <2>f, <3>1
  <2>8. CASE UNCHANGED vars
    <3>1. UNCHANGED <<kind, archive, pc, at, folded, files, total, exists, tree, tries>>
      BY <2>8 DEF vars
    <3>2. Members' = Members /\ Size' = Size
      BY <3>1 DEF Members, Size
    <3>3. TypeOK' /\ TryInv'
      BY <2>0, <3>1, <3>2 DEF TypeOK, TryInv, Past
    <3>4. ScanInv' /\ WriteInv' /\ AcceptInv'
      BY <3>1, <3>2 DEF IInv, ScanInv, WriteInv, AcceptInv, Passed, FilesOf, Written,
                        ListedAsWritten
    <3>5. OneArchivePerTree' /\ WrittenIsSound'
      BY <3>1 DEF IInv, OneArchivePerTree, WrittenIsSound, Sound
    <3> QED
      BY <3>3, <3>4, <3>5 DEF IInv
  <2> QED
    BY <2>1, <2>2, <2>3, <2>4, <2>5, <2>6, <2>7, <2>8 DEF Next, Intake
<1> QED
  BY <1>1, <1>2, PTL DEF Spec

(* Every variable stays in its type: the counts never leave their limits, whatever       *)
(* the tables of the archives say.                                                       *)
THEOREM IntakeTypeCorrect == Spec => []TypeOK
<1>1. IInv => TypeOK
  BY DEF IInv
<1> QED
  BY <1>1, Invariance, PTL

(* Extraction writes nothing of an archive with a single unsound member, in this try or  *)
(* any other.                                                                            *)
THEOREM TableIsSound == Spec => []WrittenIsSound
<1>1. IInv => WrittenIsSound
  BY DEF IInv
<1> QED
  BY <1>1, Invariance, PTL

(* However often the scripts are killed and started again, a directory only ever holds   *)
(* files of one download.                                                                *)
THEOREM OneArchive == Spec => []OneArchivePerTree
<1>1. IInv => OneArchivePerTree
  BY DEF IInv
<1> QED
  BY <1>1, Invariance, PTL

(* The directory a script accepts holds what the source must hold, or what its own       *)
(* manifest lists, and nothing else, nothing twice and nothing of an earlier try.        *)
THEOREM TreeIsExact == Spec => []AcceptedTreeIsExact
<1>1. IInv => AcceptedTreeIsExact
  <2> SUFFICES ASSUME IInv, pc = "accepted"
               PROVE  /\ {f.name : f \in tree} =
                            IF kind = "source" THEN ExpectedSource
                            ELSE archive.listing \cup {"manifest"}
                      /\ \A f, g \in tree : Key(f.name) = Key(g.name) => f = g
                      /\ \A f \in tree :
                            /\ f.try = tries
                            /\ f.content \notin {"short", "damaged"}
                            /\ kind = "evidence" /\ f.name # "manifest" => f.content = "whole"
    BY DEF AcceptedTreeIsExact
  <2> DEFINE Files == {i \in 1..Size : ~Members[i].dir}
  <2>1. Size \in Nat /\ at = Size + 1 /\ at - 1 = Size
    BY MembersTyped DEF IInv, TypeOK, AcceptInv
  <2>2. /\ Passed(Size) /\ files = FilesOf(Size)
        /\ kind = "source" => files = ExpectedSource
        /\ tree = {Written(k) : k \in Files}
        /\ \A k \in Files : Members[k].content \notin {"short", "damaged"}
    BY <2>1 DEF IInv, WriteInv
  <2>3. {f.name : f \in tree} = files
    <3>1. {f.name : f \in tree} = {Written(k).name : k \in Files}
      BY <2>2
    <3>2. \A k \in Files : Written(k).name = Members[k].name
      BY DEF Written
    <3> QED
      BY <2>2, <3>1, <3>2 DEF FilesOf
  <2>4. kind = "evidence" => files = archive.listing \cup {"manifest"} /\ ListedAsWritten
    BY DEF IInv, AcceptInv
  <2>5. ASSUME NEW f \in tree, NEW g \in tree, Key(f.name) = Key(g.name) PROVE f = g
    <3>1. PICK j \in Files : f = Written(j)
      BY <2>2
    <3>2. PICK k \in Files : g = Written(k)
      BY <2>2
    <3>3. j = k
      BY <2>2, <2>5, <3>1, <3>2 DEF Passed, Written
    <3> QED
      BY <3>1, <3>2, <3>3
  <2>6. ASSUME NEW f \in tree
        PROVE  /\ f.try = tries
               /\ f.content \notin {"short", "damaged"}
               /\ kind = "evidence" /\ f.name # "manifest" => f.content = "whole"
    <3>1. f.try = tries /\ f.content \notin {"short", "damaged"}
      BY <2>2 DEF Written
    <3>2. ASSUME kind = "evidence", f.name # "manifest" PROVE f.content = "whole"
      <4>1. f.name \in archive.listing
        BY <2>3, <2>4, <3>2
      <4>2. PICK g \in tree : g.name = f.name /\ g.content = "whole"
        BY <2>4, <3>2, <4>1 DEF ListedAsWritten
      <4> QED
        BY <2>5, <4>2
    <3> QED
      BY <3>1, <3>2
  <2>7. kind \in {"source", "evidence"}
    BY DEF IInv, TypeOK, Kinds
  <2> QED
    BY <2>2, <2>3, <2>4, <2>5, <2>6, <2>7
<1> QED
  BY <1>1, Invariance, PTL
===============================================================================
