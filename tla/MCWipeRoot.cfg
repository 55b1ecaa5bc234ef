SPECIFICATION WipeSpec
INVARIANTS
  EmptyIsEmpty
  Wiped
  EmptyMade
CONSTANTS
  Volumes = {v1, v2}
  Needed = {v1}
