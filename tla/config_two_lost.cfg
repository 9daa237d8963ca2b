SPECIFICATION Spec
CONSTANTS
  i1 = i1
  i2 = i2
  i3 = i3
  Inode = {i1, i2, i3}
  Remote = {"x"}
  Local = {"a", "b"}
  window = window
  runner = runner
  command = command
  tray = tray
  cli = cli
  Client = {window, command}
  Process = {tray, cli}
  ProcessOf <- TrayAndCli
  MaxPairs = 2
  MaxCrashes = 0
PROPERTY NoLostUpdate
