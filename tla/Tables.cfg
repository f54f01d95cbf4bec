SPECIFICATION Spec
INVARIANTS DomainRulesHold NumbersHold AccessRulesHold
CHECK_DEADLOCK FALSE
