CONSTANTS
  e1 = e1
  e2 = e2
  Encoders = {e1, e2}
  Size = 3
  MaxSamples = 7
SPECIFICATION FairSpec
CHECK_DEADLOCK FALSE
INVARIANT EosLoss
PROPERTIES QueueSpec SampleStored EncodersEnd
