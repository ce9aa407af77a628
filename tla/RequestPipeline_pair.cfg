CONSTANTS
  Call = {c1}
  MaxEvents = 1
SPECIFICATION PipelineSpec
INVARIANT WebhookCoherent
CHECK_DEADLOCK FALSE
