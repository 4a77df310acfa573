CONSTANTS
  Coins = {}
  Alerts = {a1, a2}
  Eager = {a2}
  Cooldown = 2
  MaxTold = 3
  MaxCrashes = 1
  Callers = {"c1", "c2", "c3"}
  Symbols = {"A", "B"}
  MaxRequests = 2
  Window = 2
  DailyLimit = 2
  Ttl = 1
SPECIFICATION MCSpec
INVARIANTS HistoryBacksCount QuotaKept AnswersAddUp
PROPERTIES CooldownKept KeepsWatching
