CONSTANTS
  f1 = f1
  f2 = f2
  a1 = a1
  a2 = a2
  a3 = a3
  a4 = a4
  small = small
  large = large
  gray = gray
  yuv = yuv
  none = none
  Frames <- MCFrames
  Addresses <- MCAddresses
  Formats <- MCFormats
  PixelFormat <- MCPixelFormat
  PlaneSizes <- MCPlaneSizes
  NoFormat = none
SYMMETRY Symmetry
SPECIFICATION Spec
INVARIANTS
  TypeOK
  PlanesFit
  NoPlaneFreedEarly
PROPERTY LosesOnePlane
