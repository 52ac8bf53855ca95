\* Every request target through a service with and without an override.
CONSTANTS
  Schemes <- MCSchemes
  Authorities <- MCAuthorities
  HeaderNames <- MCHeaderNames
  MaxValues <- MCMaxValues
  Targets <- MCTargets
  TargetOverride <- MCTargetOverride
SPECIFICATION Spec
INVARIANTS
  NeverPanics
  ForwardedAsConfigured
