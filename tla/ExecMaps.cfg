SPECIFICATION Spec
CONSTANTS
  drive = drive  sub = sub  lnk = lnk  out = out  apps = apps  alias = alias
  Paths <- MCPaths
  Drives = {drive}
  Resolve <- MCResolve
  LinkPaths = {lnk, out}
  AliasPaths = {alias}
  WindowsApps = apps
  Asked = {"root", "readonly", "temp", "powershell", "path", "cwd", "gitroot", "appstate", "appexec", "executable"}
  MaxItems = 2
INVARIANTS RecordIsHonest TempShielded CollisionNeedsTwoSpellings LinksResolve
CHECK_DEADLOCK FALSE
