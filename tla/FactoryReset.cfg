SPECIFICATION Spec
CONSTANTS
  s1 = s1
  s2 = s2
  Slots <- TwoSlots
  MaxBoots = 1
PROPERTIES
  FactoryResetErases
