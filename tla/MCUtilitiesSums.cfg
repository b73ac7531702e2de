SPECIFICATION SumsSpec
CONSTANTS
  Keys = {k1, k2, k3}
  Values = {v1, v2}
  Sizes = {1, 2, 4}
  maxEntries = 2
  maxBytes = 3
  MaxUses = 4
  Users = {u1, u2}
  Cooldowns = {2, 3}
  Bursts = {0, 1, 2}
  MaxTime = 5
  MAX_BYTES = 4
  Chunks = {1, 2, 3}
  Lengths = {0, 2, 9}
  MaxSent = 7
  Extracted = {2, 6}
  Names = {"x"}
  Operators = {"or", "and", "==", "..", "-", "*", "^"}
  UnaryOps = {"-", "#", "not"}
  Brackets = {"(", "({", "f(", "iife"}
  MaxPieces = 5
  maxPasses = 3
  Width = 4
  Statements = {"use", "local"}
  Conditions = {"true"}
  MaxNest = 4
  maxSweeps = 10
  minEntries = 2
  MaxStatements = 4
INVARIANT LookupsKeepMeaning
