---------------------------- MODULE MCSyncConfig -----------------------------
(* Instances of SyncConfig for TLC.                                        *)
EXTENDS SyncConfig, TLC

CONSTANTS window, runner, command, tray, cli, i1, i2, i3

(* The settings window and the background runner are goroutines of the     *)
(* tray; a `sync` command is a process of its own.                         *)
InTray     == window :> tray @@ runner :> tray
TrayAndCli == window :> tray @@ command :> cli

(* Inodes are interchangeable, and so are the goroutines of one process.   *)
InodesAndUsers == Permutations(Inode) \cup Permutations(Client)
=============================================================================
