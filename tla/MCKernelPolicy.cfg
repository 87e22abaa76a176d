SPECIFICATION Spec
CONSTANTS
  app = app
  shell = shell
  one = one
  two = two
  NoMatch = NoMatch
  Comm = {app, shell}
  Decision = {one, two}
  Policies <- SomePolicies
  MaxGeneration = 4
  MaxRules = 2
  Exec = {x}
INVARIANTS
  TypeOK
  ActiveComplete
  NoRuleLeaks
  PopulateFits
  LookupFaithful
PROPERTIES
  PolicyIsRegister
