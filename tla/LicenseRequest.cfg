CONSTANTS
  Profiles <- CallProfiles
  Validities = {0, 1, 5}
SPECIFICATION FairSpec
INVARIANTS
  OverrunBounded
PROPERTIES
  IsFairTimedCall
