SPECIFICATION Spec
CHECK_DEADLOCK FALSE
CONSTANTS
  Period = 3
  RichSlot = 3
  LeanSlot = 2
  LeanPerRich = 2
  RichAirtime = 2
  LeanAirtime = 1
  TxTimeout = 3
  ClaimSlack = 0
  Backoff = 2
  RadioFailures = 2
  SdFailures = 1
  MaxGap = 2
  MaxTime = 14
PROPERTIES SentWithoutGaps
