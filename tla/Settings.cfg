CONSTANTS
  StartKeys <- MCStartKeys
  MaxEdits = 2
SPECIFICATION Spec
INVARIANT ShownIsSaved
INVARIANT BadValuesHaveACause
PROPERTY ResetRestores
