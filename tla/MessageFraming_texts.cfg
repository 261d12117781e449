SPECIFICATION Spec
CONSTANTS
  Alphabet = {"a", "quote", "backslash", "separator", "{", "]"}
  MaxText = 3
  Extra = {54, 55, 56, 57, 170, 195, 206}
  Overhead = 33
INVARIANTS
  TypeOK
  ArrivesUnchanged
  NeverWaitsForMore
