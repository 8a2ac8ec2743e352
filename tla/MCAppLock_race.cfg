\* Three copies: the takeover of a stale lock races with another one.
CONSTANTS
  Procs = {p1, p2, p3}
  Killable = {p1}
  NoFile = NoFile
  Garbage = Garbage
SPECIFICATION Spec
INVARIANT MutualExclusion
