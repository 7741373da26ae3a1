\* Two sections at most, of two forms of one name or without a name, and one comment.
SPECIFICATION Spec
CONSTANTS
  Sections <- TwoForms
  Names <- TwoNames
  Values = {v, w}
  Nothing = Nothing
  MaxSections = 2
  MaxComments = 1
  MaxIndex = 2
SYMMETRY ValueSymmetry
INVARIANTS
  ValuesFound
  RoundTrip
PROPERTY IsConfigMap
