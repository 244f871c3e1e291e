SPECIFICATION FairSpec
CONSTANTS
  Internal = {edp, lvds}
  External = {hdmi}
  MaxFails = 2
  MaxCrashes = 1
INVARIANTS
  NoPanelForgotten
  OwnershipExact
  PanelOnInOneLife
PROPERTIES
  OnlyOursEnabled
  PanelsComeBack
