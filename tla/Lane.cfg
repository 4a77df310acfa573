CONSTANTS
  Keys = {k1, k2}
  Tasks = {t1, t2, t3, t4}
  MaxConcurrent = 2
  MaxQueueSize = 2
  MaxGenerations = 1
  MaxDisposals = 1
  opus = opus
  sonnet = sonnet
  haiku = haiku
  gpt = gpt
  anthropic = anthropic
  openai = openai
  Runs = {r1, r2}
  Models <- MCModels
  Providers = {anthropic, openai}
  ProviderOf <- MCProviderOf
  TierOf <- MCTierOf
  Configs <- Chains
  MaxRetries = 1
  Threshold = 3
  HalfOpenMax = 1
  FailureCap = 4
SPECIFICATION MCSpec
INVARIANTS SlotsAccounted
PROPERTIES NoOvertaking ImplementsPool WaiterServed ModelsTried RunEnds
