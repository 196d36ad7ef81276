SPECIFICATION RecordSpec
CONSTANTS
  MaxTime = 1
  DeclarationKeys <- MCDeclarationKeys
  StepKeys <- MCStepKeys
  IntentJudgements <- MCIntentJudgements
CONSTRAINT FewIssues
INVARIANTS
  RecordTypeOK
  AxesAgreeWithPhase
  VerifiedHasWholeStory
  OnlyALateDeadlineRevokes
PROPERTY PhasesAdvance
