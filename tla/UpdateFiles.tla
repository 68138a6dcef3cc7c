------------------------------ MODULE UpdateFiles ------------------------------
(***************************************************************************)
(* Which files of a release a machine takes, and where they go             *)
(* (kupdate.cpp).  A release holds the files for every kind of machine.     *)
(* Names stand for the classes of names that the code tells apart.          *)
(***************************************************************************)

CONSTANT Names  \* the files of a release

DiskDrivers == {"kfdisk.sys", "kfdisk64.sys", "kpdisk.sys", "kpdisk64.sys"}
BootDrivers == {"kboot.sys", "kboot64.sys", "kdump.sys", "kdump64.sys",
                "kshutdown.sys", "kshutdown64.sys"}
Copiers == {"kcopy.exe", "kcopy64.exe"}
SystemLibraries == {"kres.dll", "kres64.dll", "kshut.dll", "kshut64.dll"}
Programs == {"ktask.exe", "autonum.exe", "superstation.exe", "kpdiskdll.dll"}

AllNames == DiskDrivers \cup BootDrivers \cup Copiers \cup SystemLibraries \cup Programs

ASSUME NamesAssumption == Names \subseteq AllNames

Drivers == DiskDrivers \cup BootDrivers
With64 == {"kfdisk64.sys", "kpdisk64.sys", "kboot64.sys", "kdump64.sys", "kshutdown64.sys",
           "kcopy64.exe", "kres64.dll", "kshut64.dll"}

(* What the code asks of the system and of its settings.                     *)
Machines == [diskless : BOOLEAN, wow64 : BOOLEAN, noupdate : BOOLEAN]

-----------------------------------------------------------------------------
FilterDiskless(f) == f \notin DiskDrivers \cup {"autonum.exe", "kpdiskdll.dll"}
FilterDisk(f) == f \notin BootDrivers \cup SystemLibraries \cup Copiers \cup {"superstation.exe"}

(* 64 bit drivers and copier only, and not the 32 bit kres.                   *)
Filter64(f) == /\ f \in Copiers \cup Drivers => f \in With64
               /\ f # "kres.dll"
Filter32(f) == f \notin With64

Wanted(m) == {f \in Names : /\ IF m.diskless THEN FilterDiskless(f) ELSE FilterDisk(f)
                            /\ IF m.wow64 THEN Filter64(f) ELSE Filter32(f)}

-----------------------------------------------------------------------------
(* A driver loses its 64 where the system loads it from.                      *)
DriverName(f) == CASE f = "kfdisk64.sys" -> "kfdisk.sys"
                   [] f = "kpdisk64.sys" -> "kpdisk.sys"
                   [] OTHER -> f

(* The libraries that are also put where the system looks for them.           *)
Libraries(m) ==
  Wanted(m) \cap IF m.wow64 THEN {"kres64.dll", "kshut64.dll", "kshut.dll"}
                            ELSE {"kres.dll", "kshut.dll"}

AppPlace(f) == <<"app", f>>

SystemPlace(m, f) ==
  CASE f \in Drivers -> <<"drivers", DriverName(f)>>
    [] m.wow64 /\ f = "kshut64.dll" -> <<"system32", "kshut.dll">>
    [] m.wow64 /\ f = "kshut.dll" -> <<"SysWOW64", "kshut.dll">>
    [] OTHER -> <<"system32", f>>

Places(m) == {AppPlace(f) : f \in Wanted(m)}
             \cup {SystemPlace(m, f) : f \in (Wanted(m) \cap Drivers) \cup Libraries(m)}
=============================================================================
