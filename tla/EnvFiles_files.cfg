\* Nobody edits .env under a command that will not look at it again; everything else may happen.
CONSTANTS
  Root = {r1}
  NoRoot = NoRoot
  CliSlot = {cli}
  ExtSlot = {ext}
  Habit <- NobodyEditsUnderACommand
  MaxVersion = 3
  MaxKids = 1
SPECIFICATION Spec
INVARIANT TypeOK
INVARIANT LossNeedsHabit
INVARIANT LossInvariant
