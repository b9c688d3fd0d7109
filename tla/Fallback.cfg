SPECIFICATION FallbackSpec
CONSTANTS
  Primary = {p1, p2}
  Spill = {s1, s2}
  Untracked = {"fallback"}
  Requests = {0, 1, 2, 3}
INVARIANT
  RecordsAgree
