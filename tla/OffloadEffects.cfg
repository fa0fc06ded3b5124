CONSTANTS
  e1 = e1
  e2 = e2
  o1 = o1
  o2 = o2
  s1 = s1
  s2 = s2
  Null = Null
  Effects = {e1, e2}
  Outputs = {o1, o2}
  Sessions = {s1, s2}
  Kinds = {"bass", "virtualizer", "equalizer", "presetReverb", "envReverb"}
  PbeEnabled = TRUE
SYMMETRY Symmetry
SPECIFICATION Spec
INVARIANTS
  NothingLeftOn
  RightModulesOn
