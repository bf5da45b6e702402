SPECIFICATION Spec
CONSTANTS
  ana23 = ana23
  juan87 = juan87
  laura = laura
  Nick <- MCNick
  PromoName = {"verano"}
  Amount = {0, 1, 2}
  Sessions <- MCSessions
  NOBODY = NOBODY
INVARIANT
  ShownCanBeAnswered
SYMMETRY NickSymmetry
CHECK_DEADLOCK FALSE
