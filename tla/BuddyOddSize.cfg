SPECIFICATION FairSpec
CONSTANTS
  CPU = {c1}
  MaxK = 2
  MinOrder = 9
  Null = Null
  Size <- MCSize
  Boot <- MCBoot
  Sizes <- MCOddSizes
  Junk = {Null}
PROPERTY LargeEnough
