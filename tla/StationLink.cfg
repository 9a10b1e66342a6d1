SPECIFICATION FairSpec
INVARIANTS
  PortalOnlyInTrouble
PROPERTIES
  ControlGoesOn
  OutageIsFinal
  PortalYields
