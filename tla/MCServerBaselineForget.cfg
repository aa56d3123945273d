SPECIFICATION Spec
CONSTANTS
  Fault = {"service-down", "conflicts"}
  Crash = "check-failed"
  Fixable = {"service-down"}
  Collected = {"conflicts"}
  Tiers <- ServerTiers
INVARIANT FixesNeverForgotten
