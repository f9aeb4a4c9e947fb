SPECIFICATION FairSpec
CONSTANTS
  c1 = c1
  c2 = c2
  c3 = c3
  Calls = {c1, c2}
  SdkCalls = {c2}
  FamilyOf <- TwoFamilies
  MaxRevokes = 1
PROPERTIES Licensed WaitEnds
