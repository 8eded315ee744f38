SPECIFICATION RollSpec
CONSTANTS
  s1 = s1 s2 = s2 s3 = s3 w1 = w1 w2 = w2 r1 = r1 r2 = r2
  Workers = {w1}
  Sites = {s1, s2, s3}
  Requests = {r1}
SYMMETRY Interchangeable
INVARIANT NeverOverbooked
