SPECIFICATION EvalSpec
CONSTANTS
  true = true
  false = false
  TRUE_ = TRUE_
  empty = empty
  zero = zero
  t50 = t50
  t51 = t51
  t101 = t101
  minus = minus
  text = text
  attr = attr
  NotInt = NotInt
  Strings <- MCStrings
  Bucket <- MCBucket
  Atoi <- MCAtoi
  Numbers <- MCNumbers
  Jsons <- MCJsons
  True = true
  False = false
  Capitals = {TRUE_}
  EmptyString = empty
  Attributes = {attr}
  Strategies <- MCStrategies
INVARIANTS
  PublishedReadsTyped
  FirstMatchWins
  RolloutShare
PROPERTIES
  RolloutGrows
