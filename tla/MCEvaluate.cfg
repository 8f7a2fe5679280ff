SPECIFICATION FairSpec
CONSTANTS
  None = None
  bedrock_input_price_per_1k = 3
  bedrock_output_price_per_1k = 15
  nim_gpu_hourly_rate = 1624
  Setups <- AllSetups
  Texts <- AllTexts
  Usages <- SomeUsages
  Pause <- SomePauses
  MaxEvaluations = 2
INVARIANTS EvaluateTypeOK PiiReachesNoModel NeverOverbilled ReportAddsUp
PROPERTIES OnlyPiiStopped VerdictIsFinal AnswerPassedRails EvaluationEnds OneRowEach
CHECK_DEADLOCK FALSE
