\* up unlock with a duration, and .env.up files pulled meanwhile.
CONSTANTS
  Root = {r1}
  NoRoot = NoRoot
  CliSlot = {cli}
  ExtSlot = {}
  Habit <- OnlyAutoLock
  MaxVersion = 3
  MaxKids = 1
SPECIFICATION Spec
PROPERTY GoneOnlyBehindUp
