SPECIFICATION AllSpec

CONSTANTS
  t1 = t1
  t2 = t2
  s1 = s1
  s2 = s2
  c1 = c1
  c2 = c2
  r1 = r1
  r2 = r2
  r3 = r3
  r4 = r4
  NoRep = NoRep
  NoStr = NoStr
  None = None
  EmptyRep = EmptyRep
  Thread <- TwoThreads
  Str <- TwoStrings
  Char <- TwoChars
  Rep <- FourReps
  MaxLen = 2
  Aliasing = FALSE
  Letter <- TwoChars
  Nul = nul
  Junk = junk
  MaxEdit = 4
  AssignsPast = FALSE
  AppendsGrown = FALSE

SYMMETRY Symmetry

INVARIANTS
  RefCountExact
  NoUseAfterFree
  LeakedAlone
  EditsExact

PROPERTIES
  ValuesIsolated
