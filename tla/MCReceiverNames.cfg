\* A session may end.
SPECIFICATION Spec
CHECK_DEADLOCK FALSE
CONSTANTS
  UseWindows1252Encoding = FALSE
  MaxNameLength = 20
  MaxDataLength = 32
  PaddingSize = 35
  LoginBuffer = 1024
  SessionBuffer = 2048
  NewId = 4096
  Scripts <- MCLogins
INVARIANT NamesFit
