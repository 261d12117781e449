SPECIFICATION Spec
CONSTANTS
  Alphabet = {"a"}
  MaxText = 1
  Extra = {87, 88, 89}
  Overhead = 33
INVARIANTS
  NeverWaitsForMore
