CONSTANTS
  watch = watch
  cli = cli
  w1 = w1
  w2 = w2
  c1 = c1
  Proc = {watch, cli}
  Context = {w1, w2, c1}
  Host <- MCHost
  Pid = {1, 2, 3}
  Nobody = Nobody
  NoFile = NoFile
  MaxUpdates = 2
  FailAt = {"write", "unlink", "rename", "release"}
  CrashAt = {watch, cli}
  Windows = {}
SPECIFICATION Spec
PROPERTY HolderKeeps
PROPERTY ImplementsRegister
