CONSTANTS
  Keys = {k1}
  Tasks = {t1}
  MaxConcurrent = 1
  MaxQueueSize = 1
  MaxGenerations = 0
  MaxDisposals = 0
  opus = opus
  sonnet = sonnet
  haiku = haiku
  gpt = gpt
  anthropic = anthropic
  openai = openai
  Runs = {r1}
  Models <- MCModels
  Providers = {anthropic, openai}
  ProviderOf <- MCProviderOf
  TierOf <- MCTierOf
  Configs <- OneVendor
  MaxRetries = 1
  Threshold = 3
  HalfOpenMax = 1
  FailureCap = 3
SPECIFICATION MCSpec
PROPERTY OpenCircuitIsTried
