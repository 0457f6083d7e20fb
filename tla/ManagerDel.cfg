CONSTANTS
  Root = "cfg"
  Simple = {"Port", "Name", "Temp"}
  Components <- MCComponents
  Component <- MCComponent
  Owned = {"user", "temp"}
  MaxCount <- MCMaxCount
  Layout <- MCLayout
  Settable = {"Port", "Name", "Temp"}
  HasDefault = {"Name", "Temp"}
  Persistent = {"cfg", "User", "Loc", "Name", "Temp"}
  Value = {d, v}
  Default = d
  Zero = d
  Number = {0, 1, 2, 3, 4}
  Wrap = 4
  Addr = {b1, b2, b3, b4}
  Base = base
  NULL = NULL
SYMMETRY Symmetry
SPECIFICATION Spec
INVARIANT NoLeak
