--------------------------- MODULE MCExecMappings ---------------------------
(***************************************************************************)
(* A small file system for ExecMappings: a drive, a directory, a directory *)
(* link to it (a second spelling of it), another link to the drive,        *)
(* WindowsApps with an alias in it.                                        *)
(***************************************************************************)
EXTENDS ExecMappings, TLC

CONSTANTS drive, sub, lnk, out, apps, alias

MCPaths == {drive, sub, lnk, out, apps, alias}

MCResolve == [p \in MCPaths |-> CASE p = lnk -> sub [] p = out -> drive [] OTHER -> p]

=============================================================================
