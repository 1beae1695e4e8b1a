SPECIFICATION Spec
CONSTANTS
  TblSize = 640
  Need <- BoardNeed
PROPERTY
  BootsOncePlugged
