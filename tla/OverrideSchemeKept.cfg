\* Does set_authority keep the scheme of an absolute-form target?
CONSTANTS
  Schemes <- MCSchemes
  Authorities <- MCAuthorities
  HeaderNames <- MCHeaderNames
  MaxValues <- MCMaxValues
  Targets <- MCTargets
  TargetOverride <- MCTargetOverride
SPECIFICATION Spec
INVARIANTS
  SchemeKept
