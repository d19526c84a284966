SPECIFICATION Spec
CHECK_DEADLOCK FALSE
CONSTANTS
  Users = {"t1", "t2"}
  Wirings <- WiringsDef
  Opened <- OpenedDef
  Driver <- DriverDef
  Slaves = {"slv"}
  Other <- OtherDef
  Size = 3
  Reserve = 1
  Restart = 1
  SmallRead = 1
  Keys <- KeysDef
  Texts <- TextsDef
  Sizes = {3}
  Settings <- SettingsDef
  Controls = {"TCOOFF", "TCOON"}
  Group <- GroupDef
  ControlTty <- ControlTtyDef
  Orphaned = {1}
  Columns = 3
  TabStop = 2
  Lines = 3
  ConsoleMem = 12
  NPAR = 2
  MaxPar = 9
  Setups <- SetupsDef
  Hands <- HandsDef
  MaxHeld = 3
  QueueSize = 5
  ConsoleKeys = {0, 1}
INVARIANTS  NoLineWaits OutputWillWake  ModifiersHeld
