SPECIFICATION Spec
CONSTANTS
  Brains = {structural, tactical}
  MaxMinutes = 2
  MaxOffers = 2
INVARIANTS
  RiskAnswers
CHECK_DEADLOCK FALSE
