CONSTANTS
  s1 = s1
  s2 = s2
  NoSpeaker = NoSpeaker
  Speakers = {s1, s2}
  MaxResponses = 2
  MaxDurable = 2
  MaxTail = 2
SPECIFICATION AccSpec
SYMMETRY MCSymmetry
INVARIANTS
  NoneStranded
  DurableText
  CreditedToSpeaker
  OpenInOrder
PROPERTIES
  KeepsContract
