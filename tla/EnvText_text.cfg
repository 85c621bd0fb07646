\* Two keys whose values have seven of the eight forms, two different values typed in all.
CONSTANTS
  KeyOrder <- TwoKeys
  Style <- Styles
  MaxWritten = 2
  MaxVersion = 2
  NoFile = NoFile
  NoText = NoText
  NoSlice = NoSlice
  NoKey = NoKey
  NoValue = NoValue
SPECIFICATION Spec
INVARIANT TypeOK
INVARIANT RunReadsAsUnlocked
PROPERTY OnlyMergesChange
PROPERTY ImportReadsBack
PROPERTY VersionTellsChange
