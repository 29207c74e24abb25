SPECIFICATION Spec
CONSTANTS
  f1 = f1
  f2 = f2
  f3 = f3
  d1 = d1
  d2 = d2
  File = {f1, f2, f3}
  Dir = {d1, d2}
  DirOf <- Folders
  Replaceable = {}
SYMMETRY Alike
INVARIANT InterruptedCanResume
