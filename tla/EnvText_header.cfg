\* Values without anything special in them, two of them typed in all.
CONSTANTS
  KeyOrder <- TwoKeys
  Style <- ShortStyles
  MaxWritten = 2
  MaxVersion = 2
  NoFile = NoFile
  NoText = NoText
  NoSlice = NoSlice
  NoKey = NoKey
  NoValue = NoValue
SPECIFICATION Spec
INVARIANT ValuesAreSealed
