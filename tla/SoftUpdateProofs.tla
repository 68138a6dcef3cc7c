---------------------------- MODULE SoftUpdateProofs ----------------------------
(***************************************************************************)
(* The update of the client for any release and any number of versions, with  *)
(* crashes, failures and releases at any moment.                            *)
(***************************************************************************)
EXTENDS SoftUpdate, TLAPS

Installing == {"install"} \cup Working
Downloading == {"download", "block"}

(* A file that the loop has passed is there, and whole if the release stands.   *)
FetchedInv ==
  /\ pc \in Downloading => \A f \in list \ left : tmp[f] # Gone
  /\ pc \in Downloading /\ index = ver =>
       \A f \in list \ left : tmp[f] = Version(f, index[f])
  /\ pc \in Installing /\ index = ver => \A f \in list : tmp[f] = Version(f, index[f])
  /\ pc = "block" /\ got # 0 /\ index = ver => got = index[file]

(* The release only goes forward, so that an index overtaken stays overtaken.   *)
IndexInv == \A f \in Names : index[f] <= ver[f]

(* ForceUpdateFile works on the place of the file or, that done, on the one of    *)
(* the system.                                                              *)
PlaceInv ==
  pc \in Working =>
    /\ dst # AppPlace(file) =>
         /\ file \in MyDrivers \cup MyLibraries /\ dst = SystemPlace(machine, file)
         /\ disk[AppPlace(file)] = tmp[file]
    /\ pc = "driver" => dst # AppPlace(file) /\ file \in MyDrivers
    /\ file \in MyLibraries => file \in due

(* What is not on the list is as in the index, what the loop has passed is as it  *)
(* was downloaded.                                                          *)
InstalledInv ==
  /\ pc \in Downloading \cup Installing =>
       \A f \in MyFiles \ list : disk[AppPlace(f)] = Version(f, index[f])
  /\ pc \in Installing => \A f \in list \ left : disk[AppPlace(f)] = tmp[f]

(* A report of success is for as long as the process runs or is off.            *)
ReportInv ==
  /\ report = "ok" => pc \in {"done", "reboot", "off"}
  /\ pc = "reboot" => report = "ok"

(* A file moved away is replaced, and then the flag is set.                    *)
RenamedInv ==
  /\ pc \in {"started"} \cup Downloading => ~renamed
  /\ pc \in Installing \ {"recopy"} /\ renamed => reboot

UpdateInv ==
  /\ TypeOK /\ FetchedInv /\ IndexInv /\ PlaceInv /\ InstalledInv /\ ReportInv /\ RenamedInv
  /\ SuccessIsCurrent /\ SecondCopyAgrees /\ RunsWhatIsInstalled

-----------------------------------------------------------------------------
(* A place of the client is not one of the system, and names one file.         *)
LEMMA AppPlaces ==
  /\ \A f, g : AppPlace(f) = AppPlace(g) => f = g
  /\ \A m, f, g : AppPlace(f) # SystemPlace(m, g)
<1>1. \A f, g : AppPlace(f) = AppPlace(g) => f = g
  BY DEF AppPlace
<1>2. ASSUME NEW m, NEW f, NEW g PROVE AppPlace(f) # SystemPlace(m, g)
  <2>1. AppPlace(f)[1] = "app"  BY DEF AppPlace
  <2>2. SystemPlace(m, g)[1] \in {"drivers", "system32", "SysWOW64"}
    BY DEF SystemPlace
  <2> QED  BY <2>1, <2>2
<1> QED  BY <1>1, <1>2

(* No two files that a machine takes go to the same place of the system, although *)
(* the 64 bit drivers lose the 64 of their names (FilterDisk, Filter64, Filter32 *)
(* and UpdateFile): otherwise each start would replace one by the other.        *)
THEOREM NoSharedPlace ==
  ASSUME NEW m \in Machines,
         NEW f \in (Wanted(m) \cap Drivers) \cup Libraries(m),
         NEW g \in (Wanted(m) \cap Drivers) \cup Libraries(m),
         SystemPlace(m, f) = SystemPlace(m, g)
  PROVE  f = g
<1> USE DEF Machines
<1>1. CASE f \in Drivers /\ g \in Drivers
  <2>1. DriverName(f) = DriverName(g)
    BY <1>1 DEF SystemPlace
  <2>2. CASE m.wow64
    <3>1. f \in Drivers \cap With64 /\ g \in Drivers \cap With64
      BY <1>1, <2>2 DEF Wanted, Filter64, Libraries
    <3> QED  BY <2>1, <3>1 DEF DriverName, Drivers, With64, DiskDrivers, BootDrivers
  <2>3. CASE ~m.wow64
    <3>1. f \in Drivers \ With64 /\ g \in Drivers \ With64
      BY <1>1, <2>3 DEF Wanted, Filter32, Libraries
    <3> QED  BY <2>1, <3>1 DEF DriverName, Drivers, With64, DiskDrivers, BootDrivers
  <2> QED  BY <2>2, <2>3
<1>2. CASE f \notin Drivers /\ g \notin Drivers
  <2>1. f \in Libraries(m) /\ g \in Libraries(m)
    BY <1>2
  <2> QED  BY <1>2, <2>1 DEF Libraries, SystemPlace
<1>3. CASE f \in Drivers /\ g \notin Drivers
  BY <1>3 DEF SystemPlace
<1>4. CASE f \notin Drivers /\ g \in Drivers
  BY <1>4 DEF SystemPlace
<1> QED  BY <1>1, <1>2, <1>3, <1>4

(* The places of a machine.                                                 *)
LEMMA PlacesOfMachine ==
  ASSUME NEW m \in Machines
  PROVE  /\ Wanted(m) \subseteq Names /\ Libraries(m) \subseteq Wanted(m)
         /\ \A f \in Wanted(m) : AppPlace(f) \in Places(m)
         /\ \A f \in (Wanted(m) \cap Drivers) \cup Libraries(m) : SystemPlace(m, f) \in Places(m)
  BY DEF Wanted, Libraries, Places

(* What the steps need to know of the places of this machine.                   *)
LEMMA MyPlaces ==
  ASSUME TypeOK
  PROVE  /\ MyFiles \subseteq Names /\ MyLibraries \subseteq MyFiles
         /\ \A f \in MyFiles : AppPlace(f) \in Places(machine)
         /\ \A f \in MyDrivers \cup MyLibraries : SystemPlace(machine, f) \in Places(machine)
         /\ \A f, g \in MyDrivers \cup MyLibraries :
              SystemPlace(machine, f) = SystemPlace(machine, g) => f = g
  BY PlacesOfMachine, NoSharedPlace DEF TypeOK, MyFiles, MyDrivers, MyLibraries

LEMMA GoneIsNoVersion ==
  /\ Gone \in Contents /\ Torn \in Contents /\ Torn # Gone
  /\ \A f \in Names, v \in 1..MaxVersion : Version(f, v) \in Contents /\ Version(f, v) # Gone
  BY DEF Gone, Torn, Contents, Version

(* A write to dst is a write to one place of the file the loop is at.           *)
LEMMA WriteKeepsOthers ==
  ASSUME TypeOK, PlaceInv, pc \in Working, NEW c \in Contents, Put(dst, c)
  PROVE  /\ file \in MyFiles
         /\ disk' \in [Places(machine) -> Contents] /\ disk'[dst] = c
         /\ \A f \in MyFiles : f # file \/ dst # AppPlace(file)
              => disk'[AppPlace(f)] = disk[AppPlace(f)]
         /\ \A f \in MyLibraries : f # file
              => disk'[SystemPlace(machine, f)] = disk[SystemPlace(machine, f)]
<1>1. file \in MyFiles /\ dst \in Places(machine) /\ disk \in [Places(machine) -> Contents]
  BY DEF TypeOK, Working
<1>2. disk' \in [Places(machine) -> Contents] /\ disk'[dst] = c
  BY <1>1 DEF Put
<1>3. \A q \in Places(machine) : q # dst => disk'[q] = disk[q]
  BY <1>1 DEF Put
<1>4. dst = AppPlace(file) \/ (file \in MyDrivers \cup MyLibraries /\ dst = SystemPlace(machine, file))
  BY DEF PlaceInv
<1>5. \A f \in MyFiles : f # file \/ dst # AppPlace(file) => AppPlace(f) # dst
  BY <1>4, AppPlaces
<1>6. \A f \in MyLibraries : f # file => SystemPlace(machine, f) # dst
  BY <1>4, AppPlaces, MyPlaces
<1> QED  BY <1>1, <1>2, <1>3, <1>5, <1>6, MyPlaces

-----------------------------------------------------------------------------
LEMMA InitUpdateInv == Init => UpdateInv
<1> SUFFICES ASSUME Init PROVE UpdateInv  OBVIOUS
<1> DEFINE At(q, f) == q = AppPlace(f) \/ (f \in Drivers \cup MyLibraries /\ q = SystemPlace(machine, f))
<1>1. machine \in Machines /\ MaxVersion \in Nat \ {0}
  BY MaxVersionAssumption DEF Init
<1>2. /\ MyFiles \subseteq Names /\ MyLibraries \subseteq MyFiles
      /\ \A f \in MyFiles : AppPlace(f) \in Places(machine)
      /\ \A f \in MyDrivers \cup MyLibraries : SystemPlace(machine, f) \in Places(machine)
      /\ \A f, g \in MyDrivers \cup MyLibraries :
           SystemPlace(machine, f) = SystemPlace(machine, g) => f = g
  BY <1>1, PlacesOfMachine, NoSharedPlace DEF MyFiles, MyDrivers, MyLibraries
<1>3. \A q \in Places(machine) : \E f \in MyFiles : At(q, f)
  BY <1>2 DEF Places, MyFiles, MyLibraries
<1>4. \A q \in Places(machine) : (CHOOSE f \in MyFiles : At(q, f)) \in MyFiles
  BY <1>3
<1>5. disk = [q \in Places(machine) |-> Version(CHOOSE f \in MyFiles : At(q, f), 1)]
  BY DEF Init
<1>6. disk \in [Places(machine) -> Contents]
  <2>1. 1 \in 1..MaxVersion
    BY <1>1
  <2>2. ASSUME NEW q \in Places(machine)
        PROVE  Version(CHOOSE f \in MyFiles : At(q, f), 1) \in Contents
    <3> DEFINE g == CHOOSE f \in MyFiles : At(q, f)
    <3>1. g \in Names  BY <1>2, <1>4
    <3> HIDE DEF g
    <3>2. Version(g, 1) \in Contents  BY <2>1, <3>1, GoneIsNoVersion
    <3> QED  BY <3>2 DEF g
  <2> QED  BY <1>5, <2>2
<1>7. ASSUME NEW f \in MyFiles PROVE (CHOOSE g \in MyFiles : At(AppPlace(f), g)) = f
  <2>1. At(AppPlace(f), f)  OBVIOUS
  <2>2. \A g \in MyFiles : At(AppPlace(f), g) => g = f
    BY AppPlaces
  <2> QED  BY <2>1, <2>2
<1>8. ASSUME NEW f \in MyLibraries PROVE (CHOOSE g \in MyFiles : At(SystemPlace(machine, f), g)) = f
  <2>1. At(SystemPlace(machine, f), f)  OBVIOUS
  <2>2. \A g \in MyFiles : At(SystemPlace(machine, f), g) => g = f
    BY <1>2, AppPlaces DEF MyDrivers
  <2> QED  BY <1>2, <2>1, <2>2
<1>9. /\ \A f \in MyFiles : disk[AppPlace(f)] = Version(f, 1)
      /\ \A f \in MyLibraries : disk[SystemPlace(machine, f)] = Version(f, 1)
  BY <1>2, <1>5, <1>7, <1>8
<1>10. TypeOK
  <2>1. ver \in [Names -> 1..MaxVersion] /\ tmp \in [Names -> Contents]
    BY <1>1, GoneIsNoVersion DEF Init
  <2>2. pc = "off" /\ "off" \notin Working \cup {"block", "install"}
    BY DEF Init, Working
  <2>3. index \in [Names -> 1..MaxVersion] /\ got \in 0..MaxVersion
    BY <1>1, <2>1 DEF Init
  <2>4. /\ list = {} /\ left = {} /\ file = None /\ dst = Nowhere /\ reboot = FALSE
        /\ renamed = FALSE /\ due = {} /\ report = None
    BY DEF Init
  <2> HIDE DEF At
  <2> QED  BY <1>1, <1>6, <2>1, <2>2, <2>3, <2>4 DEF TypeOK
<1>11. SecondCopyAgrees
  BY <1>2, <1>9 DEF SecondCopyAgrees
<1>12. /\ FetchedInv /\ IndexInv /\ PlaceInv /\ InstalledInv /\ ReportInv /\ RenamedInv
       /\ SuccessIsCurrent /\ RunsWhatIsInstalled
  BY <1>1 DEF Init, FetchedInv, IndexInv, PlaceInv, InstalledInv, ReportInv, RenamedInv,
              SuccessIsCurrent, RunsWhatIsInstalled, Downloading, Installing, Working, None
<1> QED  BY <1>10, <1>11, <1>12 DEF UpdateInv

(* The steps that write no file of the machine.                               *)

LEMMA BeginStep == ASSUME UpdateInv, pc \in {"off", "reboot"}, Begin PROVE UpdateInv'
<1> USE DEF UpdateInv, MyFiles, MyDrivers, MyLibraries, Downloading, Installing, Working
<1>1. TypeOK'
  <2>1. /\ machine' \in Machines /\ ver' \in [Names -> 1..MaxVersion]
        /\ index' \in [Names -> 1..MaxVersion] /\ disk' \in [Places(machine') -> Contents]
        /\ tmp' \in [Names -> Contents] /\ due' \subseteq Libraries(machine')
    BY DEF TypeOK, Begin, MyLibraries
  <2>2. got' \in 0..MaxVersion
    BY MaxVersionAssumption DEF Begin
  <2>3. /\ pc' = "started" /\ list' = {} /\ left' = {} /\ file' = None /\ dst' = Nowhere
        /\ reboot' = FALSE /\ renamed' = FALSE /\ report' = None
    BY DEF Begin
  <2> QED  BY <2>1, <2>2, <2>3 DEF TypeOK, Working, MyLibraries
<1>2. FetchedInv' /\ IndexInv'
  BY MaxVersionAssumption, GoneIsNoVersion, MyPlaces DEF TypeOK, FetchedInv,
     IndexInv, Begin, None
<1>3. PlaceInv' /\ InstalledInv'
  BY DEF PlaceInv, InstalledInv, Begin
<1>4. ReportInv' /\ RenamedInv' /\ RunsWhatIsInstalled'
  BY DEF ReportInv, RenamedInv, RunsWhatIsInstalled, Begin, None
<1>5. SuccessIsCurrent' /\ SecondCopyAgrees'
  <2>1. SuccessIsCurrent'
    BY DEF Begin, SuccessIsCurrent, None
  <2>2. SecondCopyAgrees'
    BY DEF Begin, SecondCopyAgrees
  <2> QED  BY <2>1, <2>2
<1> QED  BY <1>1, <1>2, <1>3, <1>4, <1>5

LEMMA NoUpdateStep == ASSUME UpdateInv, NoUpdate PROVE UpdateInv'
<1> USE DEF UpdateInv, MyFiles, MyDrivers, MyLibraries, Downloading, Installing, Working
<1>1. TypeOK'
  BY MaxVersionAssumption, GoneIsNoVersion, MyPlaces DEF TypeOK, NoUpdate,
     Return
<1>2. FetchedInv' /\ IndexInv'
  BY MaxVersionAssumption, GoneIsNoVersion, MyPlaces DEF TypeOK, FetchedInv,
     IndexInv, NoUpdate, Return
<1>3. PlaceInv' /\ InstalledInv'
  BY MyPlaces DEF TypeOK, PlaceInv, InstalledInv, NoUpdate, Return
<1>4. ReportInv' /\ RenamedInv' /\ RunsWhatIsInstalled'
  BY DEF ReportInv, RenamedInv, RunsWhatIsInstalled, NoUpdate, Return
<1>5. SuccessIsCurrent' /\ SecondCopyAgrees'
  BY MyPlaces DEF TypeOK, FetchedInv, IndexInv, PlaceInv, InstalledInv,
     ReportInv, SuccessIsCurrent, SecondCopyAgrees, NoUpdate, Return
<1> QED  BY <1>1, <1>2, <1>3, <1>4, <1>5

LEMMA GetNeedUpdateListStep == ASSUME UpdateInv, GetNeedUpdateList PROVE UpdateInv'
<1> USE DEF UpdateInv, MyFiles, MyDrivers, MyLibraries, Downloading, Installing, Working
<1>1. TypeOK'
  BY MaxVersionAssumption, GoneIsNoVersion, MyPlaces DEF TypeOK,
     GetNeedUpdateList, NeedsUpdate
<1>2. FetchedInv' /\ IndexInv'
  BY MaxVersionAssumption, GoneIsNoVersion, MyPlaces DEF TypeOK, FetchedInv,
     IndexInv, GetNeedUpdateList, NeedsUpdate
<1>3. PlaceInv' /\ InstalledInv'
  BY MyPlaces DEF TypeOK, PlaceInv, InstalledInv, GetNeedUpdateList,
     NeedsUpdate
<1>4. ReportInv' /\ RenamedInv' /\ RunsWhatIsInstalled'
  BY DEF ReportInv, RenamedInv, RunsWhatIsInstalled, GetNeedUpdateList,
     NeedsUpdate
<1>5. SuccessIsCurrent' /\ SecondCopyAgrees'
  BY MyPlaces DEF TypeOK, FetchedInv, IndexInv, PlaceInv, InstalledInv,
     ReportInv, SuccessIsCurrent, SecondCopyAgrees, GetNeedUpdateList,
     NeedsUpdate
<1> QED  BY <1>1, <1>2, <1>3, <1>4, <1>5

LEMMA DownloadFileStep == ASSUME UpdateInv, NEW f \in Names, DownloadFile(f) PROVE UpdateInv'
<1> USE DEF UpdateInv, MyFiles, MyDrivers, MyLibraries, Downloading, Installing, Working
<1>1. TypeOK'
  BY MaxVersionAssumption, GoneIsNoVersion, MyPlaces DEF TypeOK,
     DownloadFile
<1>2. FetchedInv' /\ IndexInv'
  BY MaxVersionAssumption, GoneIsNoVersion, MyPlaces DEF TypeOK, FetchedInv,
     IndexInv, DownloadFile
<1>3. PlaceInv' /\ InstalledInv'
  BY MyPlaces DEF TypeOK, PlaceInv, InstalledInv, DownloadFile
<1>4. ReportInv' /\ RenamedInv' /\ RunsWhatIsInstalled'
  BY DEF ReportInv, RenamedInv, RunsWhatIsInstalled, DownloadFile
<1>5. SuccessIsCurrent' /\ SecondCopyAgrees'
  BY MyPlaces DEF TypeOK, FetchedInv, IndexInv, PlaceInv, InstalledInv,
     ReportInv, SuccessIsCurrent, SecondCopyAgrees, DownloadFile
<1> QED  BY <1>1, <1>2, <1>3, <1>4, <1>5

LEMMA FirstBlockStep == ASSUME UpdateInv, FirstBlock PROVE UpdateInv'
<1> USE DEF UpdateInv, MyFiles, MyDrivers, MyLibraries, Downloading, Installing, Working
<1>1. TypeOK'
  BY MaxVersionAssumption, GoneIsNoVersion, MyPlaces DEF TypeOK, FirstBlock
<1>2. FetchedInv' /\ IndexInv'
  BY MaxVersionAssumption, GoneIsNoVersion, MyPlaces DEF TypeOK, FetchedInv,
     IndexInv, FirstBlock
<1>3. PlaceInv' /\ InstalledInv'
  BY MyPlaces DEF TypeOK, PlaceInv, InstalledInv, FirstBlock
<1>4. ReportInv' /\ RenamedInv' /\ RunsWhatIsInstalled'
  BY DEF ReportInv, RenamedInv, RunsWhatIsInstalled, FirstBlock
<1>5. SuccessIsCurrent' /\ SecondCopyAgrees'
  BY MyPlaces DEF TypeOK, FetchedInv, IndexInv, PlaceInv, InstalledInv,
     ReportInv, SuccessIsCurrent, SecondCopyAgrees, FirstBlock
<1> QED  BY <1>1, <1>2, <1>3, <1>4, <1>5

LEMMA LastBlockStep == ASSUME UpdateInv, LastBlock PROVE UpdateInv'
<1> USE DEF UpdateInv, MyFiles, MyDrivers, MyLibraries, Downloading, Installing, Working
<1>1. TypeOK'
  BY MaxVersionAssumption, GoneIsNoVersion, MyPlaces DEF TypeOK, LastBlock
<1>2. FetchedInv' /\ IndexInv'
  BY MaxVersionAssumption, GoneIsNoVersion, MyPlaces DEF TypeOK, FetchedInv,
     IndexInv, LastBlock
<1>3. PlaceInv' /\ InstalledInv'
  BY MyPlaces DEF TypeOK, PlaceInv, InstalledInv, LastBlock
<1>4. ReportInv' /\ RenamedInv' /\ RunsWhatIsInstalled'
  BY DEF ReportInv, RenamedInv, RunsWhatIsInstalled, LastBlock
<1>5. SuccessIsCurrent' /\ SecondCopyAgrees'
  BY MyPlaces DEF TypeOK, FetchedInv, IndexInv, PlaceInv, InstalledInv,
     ReportInv, SuccessIsCurrent, SecondCopyAgrees, LastBlock
<1> QED  BY <1>1, <1>2, <1>3, <1>4, <1>5

LEMMA DownloadedStep == ASSUME UpdateInv, Downloaded PROVE UpdateInv'
<1> USE DEF UpdateInv, MyFiles, MyDrivers, MyLibraries, Downloading, Installing, Working
<1>1. TypeOK'
  BY MaxVersionAssumption, GoneIsNoVersion, MyPlaces DEF TypeOK, Downloaded,
     FetchedInv
<1>2. FetchedInv' /\ IndexInv'
  BY MaxVersionAssumption, GoneIsNoVersion, MyPlaces DEF TypeOK, FetchedInv,
     IndexInv, Downloaded, FetchedInv
<1>3. PlaceInv' /\ InstalledInv'
  BY MyPlaces DEF TypeOK, PlaceInv, InstalledInv, Downloaded, FetchedInv
<1>4. ReportInv' /\ RenamedInv' /\ RunsWhatIsInstalled'
  BY DEF ReportInv, RenamedInv, RunsWhatIsInstalled, Downloaded, FetchedInv
<1>5. SuccessIsCurrent' /\ SecondCopyAgrees'
  BY MyPlaces DEF TypeOK, FetchedInv, IndexInv, PlaceInv, InstalledInv,
     ReportInv, SuccessIsCurrent, SecondCopyAgrees, Downloaded, FetchedInv
<1> QED  BY <1>1, <1>2, <1>3, <1>4, <1>5

LEMMA InstallFileStep == ASSUME UpdateInv, NEW f \in Names, InstallFile(f) PROVE UpdateInv'
<1> USE DEF UpdateInv, MyFiles, MyDrivers, MyLibraries, Downloading, Installing, Working
<1>1. TypeOK'
  BY MaxVersionAssumption, GoneIsNoVersion, MyPlaces DEF TypeOK, InstallFile
<1>2. FetchedInv' /\ IndexInv'
  BY MaxVersionAssumption, GoneIsNoVersion, MyPlaces DEF TypeOK, FetchedInv,
     IndexInv, InstallFile
<1>3. PlaceInv' /\ InstalledInv'
  BY MyPlaces DEF TypeOK, PlaceInv, InstalledInv, InstallFile
<1>4. ReportInv' /\ RenamedInv' /\ RunsWhatIsInstalled'
  BY DEF ReportInv, RenamedInv, RunsWhatIsInstalled, InstallFile
<1>5. SuccessIsCurrent' /\ SecondCopyAgrees'
  BY MyPlaces DEF TypeOK, FetchedInv, IndexInv, PlaceInv, InstalledInv,
     ReportInv, SuccessIsCurrent, SecondCopyAgrees, InstallFile
<1> QED  BY <1>1, <1>2, <1>3, <1>4, <1>5

LEMMA UpdateDoneStep == ASSUME UpdateInv, UpdateDone PROVE UpdateInv'
<1> USE DEF UpdateInv, MyFiles, MyDrivers, MyLibraries, Downloading, Installing, Working
<1>1. TypeOK'
  BY MaxVersionAssumption, GoneIsNoVersion, MyPlaces DEF TypeOK, UpdateDone,
     Return
<1>2. FetchedInv' /\ IndexInv'
  BY MaxVersionAssumption, GoneIsNoVersion, MyPlaces DEF TypeOK, FetchedInv,
     IndexInv, UpdateDone, Return
<1>3. PlaceInv' /\ InstalledInv'
  BY MyPlaces DEF TypeOK, PlaceInv, InstalledInv, UpdateDone, Return
<1>4. ReportInv' /\ RenamedInv' /\ RunsWhatIsInstalled'
  BY DEF ReportInv, RenamedInv, RunsWhatIsInstalled, UpdateDone, Return
<1>5. SuccessIsCurrent' /\ SecondCopyAgrees'
  BY MyPlaces DEF TypeOK, FetchedInv, IndexInv, PlaceInv, InstalledInv,
     ReportInv, SuccessIsCurrent, SecondCopyAgrees, UpdateDone, Return
<1> QED  BY <1>1, <1>2, <1>3, <1>4, <1>5

LEMMA ShutdownStep == ASSUME UpdateInv, Shutdown PROVE UpdateInv'
<1> USE DEF UpdateInv, MyFiles, MyDrivers, MyLibraries, Downloading, Installing, Working
<1>1. TypeOK'
  BY MaxVersionAssumption, GoneIsNoVersion, MyPlaces DEF TypeOK, Shutdown,
     Off
<1>2. FetchedInv' /\ IndexInv'
  BY MaxVersionAssumption, GoneIsNoVersion, MyPlaces DEF TypeOK, FetchedInv,
     IndexInv, Shutdown, Off
<1>3. PlaceInv' /\ InstalledInv'
  BY MyPlaces DEF TypeOK, PlaceInv, InstalledInv, Shutdown, Off
<1>4. ReportInv' /\ RenamedInv' /\ RunsWhatIsInstalled'
  BY DEF ReportInv, RenamedInv, RunsWhatIsInstalled, Shutdown, Off
<1>5. SuccessIsCurrent' /\ SecondCopyAgrees'
  BY MyPlaces DEF TypeOK, FetchedInv, IndexInv, PlaceInv, InstalledInv,
     ReportInv, SuccessIsCurrent, SecondCopyAgrees, Shutdown, Off
<1> QED  BY <1>1, <1>2, <1>3, <1>4, <1>5

(* A release overtakes every index taken before.                              *)
LEMMA ReleaseStep == ASSUME UpdateInv, Release PROVE UpdateInv'
<1> USE DEF UpdateInv
<1>1. PICK changed \in SUBSET Names :
        /\ changed # {} /\ \A f \in changed : ver[f] < MaxVersion
        /\ ver' = [f \in Names |-> IF f \in changed THEN ver[f] + 1 ELSE ver[f]]
  BY DEF Release
<1>2. UNCHANGED <<machine, disk, tmp, pc, index, list, left, file, got, dst, reboot, renamed, due, report>>
  BY DEF Release, downVars
<1>3. /\ ver \in [Names -> 1..MaxVersion] /\ index \in [Names -> 1..MaxVersion]
      /\ MaxVersion \in Nat /\ \A f \in Names : index[f] <= ver[f]
  BY MaxVersionAssumption DEF TypeOK, IndexInv
<1>4. ver' \in [Names -> 1..MaxVersion]
  <2>1. \A f \in Names : (IF f \in changed THEN ver[f] + 1 ELSE ver[f]) \in 1..MaxVersion
    BY <1>1, <1>3
  <2> QED  BY <1>1, <2>1
<1>5. index' # ver'
  <2>1. PICK f \in changed : TRUE
    BY <1>1
  <2>2. f \in Names /\ ver'[f] = ver[f] + 1
    BY <1>1, <2>1
  <2>3. index[f] < ver'[f] /\ index[f] \in Nat
    BY <1>3, <2>2
  <2> QED  BY <1>2, <2>3
<1>6. IndexInv'
  <2>1. ASSUME NEW f \in Names PROVE index[f] <= ver'[f]
    <3>1. ver'[f] = IF f \in changed THEN ver[f] + 1 ELSE ver[f]
      BY <1>1
    <3> QED  BY <1>3, <3>1
  <2> QED  BY <1>2, <2>1 DEF IndexInv
<1>7. TypeOK'
  BY <1>2, <1>4 DEF TypeOK, MyFiles, MyLibraries
<1>8. FetchedInv'
  BY <1>2, <1>5 DEF FetchedInv
<1>9. PlaceInv' /\ InstalledInv' /\ SecondCopyAgrees'
  BY <1>2 DEF PlaceInv, InstalledInv, SecondCopyAgrees, MyFiles, MyDrivers, MyLibraries
<1>10. ReportInv' /\ RenamedInv' /\ RunsWhatIsInstalled' /\ SuccessIsCurrent'
  BY <1>2, <1>5 DEF ReportInv, RenamedInv, RunsWhatIsInstalled, SuccessIsCurrent
<1> QED  BY <1>6, <1>7, <1>8, <1>9, <1>10

(* The steps that write the place the loop is at: ForceUpdateFile goes on there. *)
LEMMA SamePlaceStep ==
  ASSUME UpdateInv, pc \in Working \ {"driver", "recopy"}, pc' \in Working \ {"driver"},
         NEW c \in Contents, Put(dst, c),
         UNCHANGED <<machine, ver, tmp, index, list, left, file, got, dst, reboot, due, report>>,
         renamed' = renamed \/ pc' = "recopy", pc' = "recopy" => renamed'
  PROVE  UpdateInv'
<1> USE DEF UpdateInv
<1>1. /\ file \in MyFiles
      /\ disk' \in [Places(machine) -> Contents] /\ disk'[dst] = c
      /\ \A f \in MyFiles : f # file \/ dst # AppPlace(file) => disk'[AppPlace(f)] = disk[AppPlace(f)]
      /\ \A f \in MyLibraries : f # file
           => disk'[SystemPlace(machine, f)] = disk[SystemPlace(machine, f)]
  BY WriteKeepsOthers
<1>2. TypeOK'
  BY <1>1 DEF TypeOK, MyFiles, MyLibraries, Working
<1>3. FetchedInv' /\ IndexInv'
  BY DEF FetchedInv, IndexInv, Downloading, Installing, Working
<1>4. PlaceInv'
  BY <1>1 DEF PlaceInv, MyDrivers, MyFiles, MyLibraries
<1>5. InstalledInv'
  BY <1>1, MyPlaces DEF TypeOK, InstalledInv, Downloading, Installing, Working, MyFiles
<1>6. ReportInv' /\ RenamedInv' /\ RunsWhatIsInstalled' /\ SuccessIsCurrent'
  BY DEF ReportInv, RenamedInv, RunsWhatIsInstalled, SuccessIsCurrent, Downloading, Installing, Working
<1>7. SecondCopyAgrees'
  BY <1>1, MyPlaces DEF PlaceInv, SecondCopyAgrees, MyFiles, MyLibraries
<1> QED  BY <1>2, <1>3, <1>4, <1>5, <1>6, <1>7

LEMMA HalfWrittenContents ==
  ASSUME TypeOK, pc \in Working, HalfWritten
  PROVE  \E c \in Contents : Put(dst, c)
  BY GoneIsNoVersion DEF TypeOK, HalfWritten, Working

LEMMA DeleteStep == ASSUME UpdateInv, Delete PROVE UpdateInv'
<1>1. \E c \in Contents : Put(dst, c)
  <2>1. CASE Put(dst, Gone)
    BY <2>1, GoneIsNoVersion
  <2>2. CASE UNCHANGED disk
    <3>1. disk \in [Places(machine) -> Contents] /\ dst \in Places(machine)
      BY DEF UpdateInv, TypeOK, Delete, Working
    <3> QED  BY <2>2, <3>1 DEF Put
  <2> QED  BY <2>1, <2>2 DEF Delete
<1>2. PICK c \in Contents : Put(dst, c)
  BY <1>1
<1> QED  BY <1>2, SamePlaceStep DEF Delete, downVars, Working

LEMMA CopyFailsStep == ASSUME UpdateInv, CopyFails PROVE UpdateInv'
<1>1. PICK c \in Contents : Put(dst, c)
  BY HalfWrittenContents DEF UpdateInv, CopyFails, Working
<1> QED  BY <1>1, SamePlaceStep DEF CopyFails, downVars, Working

LEMMA RenameStep == ASSUME UpdateInv, Rename PROVE UpdateInv'
  BY GoneIsNoVersion, SamePlaceStep DEF Rename, downVars, Working

(* The file has come to its place, and the next place or file follows.          *)
LEMMA ForceUpdatedStep ==
  ASSUME UpdateInv, pc \in {"copy", "recopy"}, Put(dst, tmp[file]), ForceUpdated,
         UNCHANGED <<machine, ver, tmp, index, list, got, renamed, report>>,
         reboot' = IF pc = "recopy" THEN TRUE ELSE reboot
  PROVE  UpdateInv'
<1> USE DEF UpdateInv
<1>1. tmp[file] \in Contents /\ pc \in Working /\ file \in left /\ file \in Names
  BY MyPlaces DEF TypeOK, Working
<1>2. /\ file \in MyFiles
      /\ disk' \in [Places(machine) -> Contents] /\ disk'[dst] = tmp[file]
      /\ \A f \in MyFiles : f # file \/ dst # AppPlace(file) => disk'[AppPlace(f)] = disk[AppPlace(f)]
      /\ \A f \in MyLibraries : f # file
           => disk'[SystemPlace(machine, f)] = disk[SystemPlace(machine, f)]
  BY <1>1, WriteKeepsOthers
<1>3. disk'[AppPlace(file)] = tmp[file]
  BY <1>1, <1>2 DEF PlaceInv
<1>4. \/ /\ dst = AppPlace(file) /\ file \in MyDrivers \cup MyLibraries
         /\ pc' \in {"driver", "delete"} /\ (pc' = "driver" => file \in MyDrivers)
         /\ dst' = SystemPlace(machine, file) /\ UNCHANGED <<left, file, due>>
      \/ /\ dst # AppPlace(file) \/ file \notin MyLibraries
         /\ left' = left \ {file} /\ pc' = "install" /\ file' = None /\ dst' = Nowhere
         /\ due' = due \ {file}
  BY DEF ForceUpdated, NextFile
<1>5. TypeOK'
  BY <1>1, <1>2, <1>4, MyPlaces DEF TypeOK, MyFiles, MyDrivers, MyLibraries, Working
<1>6. FetchedInv' /\ IndexInv'
  BY <1>1, <1>4 DEF FetchedInv, IndexInv, Downloading, Installing, Working
<1>7. PlaceInv'
  BY <1>1, <1>3, <1>4, AppPlaces DEF PlaceInv, MyFiles, MyDrivers, MyLibraries, Working
<1>8. InstalledInv'
  BY <1>1, <1>2, <1>3, <1>4, MyPlaces DEF TypeOK, InstalledInv, Downloading, Installing, Working, MyFiles
<1>9. ReportInv' /\ RenamedInv' /\ RunsWhatIsInstalled' /\ SuccessIsCurrent'
  BY <1>1, <1>4 DEF ReportInv, RenamedInv, RunsWhatIsInstalled, SuccessIsCurrent, Downloading, Installing, Working
<1>10. SecondCopyAgrees'
  <2>1. \A f \in MyLibraries \ due : f # file
    BY <1>1 DEF PlaceInv
  <2>2. \A f \in MyLibraries \ due : disk'[SystemPlace(machine, f)] = disk'[AppPlace(f)]
    BY <1>2, <2>1, MyPlaces DEF SecondCopyAgrees
  <2>3. CASE due' = due
    BY <2>2, <2>3 DEF SecondCopyAgrees, MyLibraries
  <2>4. CASE due' = due \ {file} /\ file \in MyLibraries
    <3>1. dst = SystemPlace(machine, file)
      BY <1>1, <1>4, <2>4 DEF PlaceInv
    <3>2. disk'[SystemPlace(machine, file)] = disk'[AppPlace(file)]
      BY <1>2, <1>3, <3>1
    <3> QED  BY <2>2, <2>4, <3>2 DEF SecondCopyAgrees, MyLibraries
  <2>5. CASE due' = due \ {file} /\ file \notin MyLibraries
    BY <2>2, <2>5 DEF SecondCopyAgrees, MyLibraries
  <2> QED  BY <1>4, <2>3, <2>4, <2>5
<1> QED  BY <1>5, <1>6, <1>7, <1>8, <1>9, <1>10

LEMMA CopyStep == ASSUME UpdateInv, Copy PROVE UpdateInv'
  BY ForceUpdatedStep DEF Copy

LEMMA RecopyStep == ASSUME UpdateInv, Recopy PROVE UpdateInv'
  BY ForceUpdatedStep DEF Recopy

(* Whatever has become of the copy of a driver for the system.                 *)
LEMMA DriverStep == ASSUME UpdateInv, CopyDriver \/ CopyDriverFails PROVE UpdateInv'
<1> USE DEF UpdateInv
<1>1. /\ pc = "driver" /\ pc \in Working /\ NextFile
      /\ UNCHANGED <<machine, ver, tmp, index, list, got, reboot, renamed, due, report>>
  BY DEF CopyDriver, CopyDriverFails, Working
<1>2. \E c \in Contents : Put(dst, c)
  <2>1. CASE CopyDriver
    <3>1. tmp[file] \in Contents
      BY <1>1, MyPlaces DEF TypeOK
    <3> QED  BY <2>1, <3>1 DEF CopyDriver
  <2>2. CASE CopyDriverFails
    BY <1>1, <2>2, HalfWrittenContents DEF CopyDriverFails
  <2> QED  BY <2>1, <2>2
<1>3. /\ file \in MyFiles /\ disk' \in [Places(machine) -> Contents]
      /\ \A f \in MyFiles : f # file \/ dst # AppPlace(file) => disk'[AppPlace(f)] = disk[AppPlace(f)]
      /\ \A f \in MyLibraries : f # file
           => disk'[SystemPlace(machine, f)] = disk[SystemPlace(machine, f)]
  BY <1>1, <1>2, WriteKeepsOthers
<1>4. disk'[AppPlace(file)] = tmp[file] /\ \A f \in MyFiles : disk'[AppPlace(f)] = disk[AppPlace(f)]
  BY <1>1, <1>3 DEF PlaceInv
<1>5. TypeOK'
  BY <1>1, <1>3 DEF TypeOK, NextFile, MyFiles, MyLibraries, Working
<1>6. FetchedInv' /\ IndexInv' /\ PlaceInv'
  BY <1>1 DEF FetchedInv, IndexInv, PlaceInv, NextFile, Downloading, Installing, Working
<1>7. InstalledInv'
  BY <1>1, <1>4 DEF TypeOK, InstalledInv, NextFile, Downloading, Installing, Working, MyFiles
<1>8. ReportInv' /\ RenamedInv' /\ RunsWhatIsInstalled' /\ SuccessIsCurrent'
  BY <1>1 DEF ReportInv, RenamedInv, RunsWhatIsInstalled, SuccessIsCurrent, NextFile, Downloading,
              Installing, Working
<1>9. SecondCopyAgrees'
  BY <1>1, <1>3, <1>4, MyPlaces DEF PlaceInv, SecondCopyAgrees, MyFiles, MyLibraries
<1> QED  BY <1>5, <1>6, <1>7, <1>8, <1>9

(* The end of the update or of the process, in the middle of a write or not.     *)
LEMMA EndStep == ASSUME UpdateInv, Fails \/ Crash PROVE UpdateInv'
<1> USE DEF UpdateInv
<1>1. /\ pc \notin {"off", "done"} /\ pc' \in {"off", "done"}
      /\ file' = None /\ dst' = Nowhere /\ got' = 0
      /\ UNCHANGED <<machine, ver, tmp, index, list, left, reboot, renamed, due>>
      /\ \/ report' = "failed"
         \/ report' = report /\ pc' = "off"
  BY DEF Fails, Crash, Return, Off, Working
<1>2. UNCHANGED disk \/ (pc \in Working /\ HalfWritten)
  BY DEF Fails, Crash, Working
<1>3. /\ disk' \in [Places(machine) -> Contents]
      /\ SecondCopyAgrees'
      /\ pc \notin Working => disk' = disk
  <2>1. CASE UNCHANGED disk
    BY <1>1, <2>1 DEF TypeOK, SecondCopyAgrees, MyLibraries
  <2>2. CASE pc \in Working /\ HalfWritten
    <3>1. /\ disk' \in [Places(machine) -> Contents]
          /\ \A f \in MyFiles : f # file => disk'[AppPlace(f)] = disk[AppPlace(f)]
          /\ \A f \in MyLibraries : f # file
               => disk'[SystemPlace(machine, f)] = disk[SystemPlace(machine, f)]
      BY <2>2, HalfWrittenContents, WriteKeepsOthers
    <3>2. SecondCopyAgrees'
      BY <1>1, <2>2, <3>1, MyPlaces DEF PlaceInv, SecondCopyAgrees, MyLibraries
    <3> QED  BY <2>2, <3>1, <3>2
  <2> QED  BY <1>2, <2>1, <2>2
<1>4. TypeOK'
  <2>1. got' \in 0..MaxVersion
    BY <1>1, MaxVersionAssumption
  <2>2. pc' \notin Working \cup {"block", "install"}
    BY <1>1 DEF Working
  <2> QED  BY <1>1, <1>3, <2>1, <2>2 DEF TypeOK, MyFiles, MyLibraries
<1>5. FetchedInv' /\ IndexInv' /\ PlaceInv' /\ InstalledInv'
  BY <1>1 DEF FetchedInv, IndexInv, PlaceInv, InstalledInv, Downloading, Installing, Working
<1>6. ReportInv' /\ RenamedInv' /\ RunsWhatIsInstalled'
  BY <1>1 DEF ReportInv, RenamedInv, RunsWhatIsInstalled, Downloading, Installing, Working
<1>7. SuccessIsCurrent'
  <2>1. CASE report' = "ok"
    <3>1. report = "ok" /\ pc = "reboot" /\ disk' = disk
      BY <1>1, <1>3, <2>1 DEF ReportInv, Working
    <3> QED  BY <1>1, <3>1 DEF SuccessIsCurrent, MyFiles
  <2>2. CASE report' # "ok"
    BY <2>2 DEF SuccessIsCurrent
  <2> QED  BY <2>1, <2>2
<1> QED  BY <1>3, <1>4, <1>5, <1>6, <1>7

-----------------------------------------------------------------------------
LEMMA NextUpdateInv == UpdateInv /\ [Next]_vars => UpdateInv'
<1> SUFFICES ASSUME UpdateInv, [Next]_vars PROVE UpdateInv'  OBVIOUS
<1>1. CASE Start \/ RebootClientSoft
  BY <1>1, BeginStep DEF Start, RebootClientSoft
<1>2. CASE NoUpdate \/ GetNeedUpdateList \/ FirstBlock \/ LastBlock \/ Downloaded
  BY <1>2, NoUpdateStep, GetNeedUpdateListStep, FirstBlockStep, LastBlockStep, DownloadedStep
<1>3. CASE \E f \in Names : DownloadFile(f) \/ InstallFile(f)
  BY <1>3, DownloadFileStep, InstallFileStep
<1>4. CASE Delete \/ Copy \/ CopyFails \/ Rename \/ Recopy
  BY <1>4, DeleteStep, CopyStep, CopyFailsStep, RenameStep, RecopyStep
<1>5. CASE CopyDriver \/ CopyDriverFails
  BY <1>5, DriverStep
<1>6. CASE UpdateDone \/ Shutdown \/ Release
  BY <1>6, UpdateDoneStep, ShutdownStep, ReleaseStep
<1>7. CASE Fails \/ Crash
  BY <1>7, EndStep
<1>8. CASE UNCHANGED vars
  BY <1>8 DEF vars, downVars, UpdateInv, TypeOK, FetchedInv, IndexInv, PlaceInv, InstalledInv, ReportInv,
              RenamedInv, SuccessIsCurrent, SecondCopyAgrees, RunsWhatIsInstalled, MyFiles, MyDrivers, MyLibraries
<1> QED  BY <1>1, <1>2, <1>3, <1>4, <1>5, <1>6, <1>7, <1>8 DEF Next, Update

LEMMA UpdateInvariant == Spec => []UpdateInv
  BY InitUpdateInv, NextUpdateInv, PTL DEF Spec

(* Every variable keeps its type, and a file is installed only when its download  *)
(* is there: the test of UpdateFile for it never fails.                       *)
THEOREM UpdateTypeCorrect == Spec => []TypeOK
<1>1. UpdateInv => TypeOK  BY DEF UpdateInv
<1> QED  BY <1>1, UpdateInvariant, PTL

(* A successful update has installed the release, for any release, any machine    *)
(* and any number of earlier updates that were broken off (AfxExecuteSoftUpdate). *)
THEOREM SuccessMeansCurrent == Spec => []SuccessIsCurrent
<1>1. UpdateInv => SuccessIsCurrent  BY DEF UpdateInv
<1> QED  BY <1>1, UpdateInvariant, PTL

(* The two copies of a library differ only where an update ended between them     *)
(* (UpdateFile).                                                            *)
THEOREM CopiesAgree == Spec => []SecondCopyAgrees
<1>1. UpdateInv => SecondCopyAgrees  BY DEF UpdateInv
<1> QED  BY <1>1, UpdateInvariant, PTL

(* After a successful update that moved a file in use away the process restarts   *)
(* (bNeedReboot).                                                           *)
THEOREM RestartsWhenReplaced == Spec => []RunsWhatIsInstalled
<1>1. UpdateInv => RunsWhatIsInstalled  BY DEF UpdateInv
<1> QED  BY <1>1, UpdateInvariant, PTL

-----------------------------------------------------------------------------
(* What the places hold.                                                    *)

(* The places that hold file f.                                             *)
PlacesOf(f) ==
  {AppPlace(f)} \cup {SystemPlace(machine, g) : g \in {f} \cap (MyDrivers \cup MyLibraries)}

Between(f, v, w) == {Version(f, n) : n \in v..w}

(* A place holds a version of its own file that has been released, unless it is   *)
(* empty or was broken off.                                                 *)
OwnContents ==
  \A f \in MyFiles : \A q \in PlacesOf(f) : disk[q] \in Between(f, 1, ver[f]) \cup {Gone, Torn}

(* What is downloaded is torn, or not older than the index it was listed by.     *)
FreshDownloads ==
  /\ pc \in Downloading =>
       \A f \in list \ left : tmp[f] \in Between(f, index[f], ver[f]) \cup {Torn}
  /\ pc \in Installing => \A f \in list : tmp[f] \in Between(f, index[f], ver[f]) \cup {Torn}

LEMMA BetweenGrows ==
  ASSUME NEW f, NEW v \in Nat, NEW w \in Nat, NEW v1 \in Nat, NEW w1 \in Nat, v1 <= v, w <= w1
  PROVE  Between(f, v, w) \subseteq Between(f, v1, w1)
<1>1. \A n \in v..w : n \in v1..w1
  OBVIOUS
<1> QED  BY <1>1 DEF Between

LEMMA VersionsStand ==
  ASSUME UpdateInv, [Next]_vars
  PROVE  /\ machine' = machine
         /\ \A f \in Names : /\ ver[f] \in Nat /\ ver'[f] \in Nat /\ ver[f] <= ver'[f]
                             /\ index[f] \in Nat /\ index[f] <= ver[f]
                             /\ index[f] >= 1
<1>1. machine' = machine
  BY DEF Next, Update, vars, downVars, Start, Begin, NoUpdate, GetNeedUpdateList, FirstBlock,
     LastBlock, Downloaded, DownloadFile, InstallFile, Delete, Copy, CopyFails, Rename, Recopy,
     CopyDriver, CopyDriverFails, UpdateDone, RebootClientSoft, Fails, Shutdown, Off, Release,
     Crash
<1>2. CASE Release
  BY <1>1, <1>2, MaxVersionAssumption DEF Release, UpdateInv, TypeOK, IndexInv
<1>3. CASE ~Release
  <2>1. ver' = ver
    BY <1>3 DEF Next, Update, vars, downVars, Start, Begin, NoUpdate, GetNeedUpdateList,
       FirstBlock, LastBlock, Downloaded, DownloadFile, InstallFile, Delete, Copy, CopyFails,
       Rename, Recopy, CopyDriver, CopyDriverFails, UpdateDone, RebootClientSoft, Fails,
       Shutdown, Off, Crash
  <2> QED  BY <1>1, <2>1, MaxVersionAssumption DEF UpdateInv, TypeOK, IndexInv
<1> QED  BY <1>2, <1>3

(* The program writes to one place at a time, that of the file the loop is at,   *)
(* and nothing but its download, or less.                                    *)
LEMMA Writes ==
  ASSUME UpdateInv, [Next]_vars
  PROVE  \/ disk' = disk
         \/ /\ pc \in Working
            /\ \E c \in {disk[dst], tmp[file], Gone, Torn} : Put(dst, c)
<1>1. CASE Delete \/ Copy \/ CopyFails \/ Rename \/ Recopy \/ CopyDriver \/ CopyDriverFails
  BY <1>1 DEF Delete, Copy, CopyFails, Rename, Recopy, CopyDriver, CopyDriverFails, HalfWritten,
     Working
<1>2. CASE Fails \/ Crash
  BY <1>2 DEF Fails, Crash, HalfWritten, Working
<1>3. CASE ~(Delete \/ Copy \/ CopyFails \/ Rename \/ Recopy \/ CopyDriver \/ CopyDriverFails
            \/ Fails \/ Crash)
  BY <1>3 DEF Next, Update, vars, downVars, Start, Begin, NoUpdate, GetNeedUpdateList, FirstBlock,
     LastBlock, Downloaded, DownloadFile, InstallFile, UpdateDone, RebootClientSoft, Shutdown, Off,
     Release
<1> QED  BY <1>1, <1>2, <1>3

(* A place that changes is that of the file the loop is at.                    *)
LEMMA WritesFresh ==
  ASSUME UpdateInv, FreshDownloads, [Next]_vars, NEW f \in MyFiles, NEW q \in PlacesOf(f),
         disk'[q] # disk[q]
  PROVE  disk'[q] \in Between(f, index[f], ver[f]) \cup {Gone, Torn}
<1> USE DEF UpdateInv
<1>1. pc \in Working /\ \E c \in {disk[dst], tmp[file], Gone, Torn} : Put(dst, c)
  BY Writes
<1>2. PICK c \in {disk[dst], tmp[file], Gone, Torn} : Put(dst, c)
  BY <1>1
<1>3. file \in list /\ dst \in Places(machine) /\ disk \in [Places(machine) -> Contents]
  BY <1>1 DEF TypeOK
<1>4. q \in Places(machine)
  BY MyPlaces DEF PlacesOf
<1>5. q = dst /\ disk'[q] = c /\ c # disk[dst]
  BY <1>2, <1>3, <1>4 DEF Put
<1>6. dst = AppPlace(file) \/ (file \in MyDrivers \cup MyLibraries /\ dst = SystemPlace(machine, file))
  BY <1>1 DEF PlaceInv
<1>7. f = file
  BY <1>5, <1>6, AppPlaces, MyPlaces DEF PlacesOf
<1>8. tmp[file] \in Between(file, index[file], ver[file]) \cup {Torn}
  BY <1>1, <1>3 DEF FreshDownloads, Installing
<1> QED  BY <1>2, <1>5, <1>7, <1>8

LEMMA OwnContentsStep ==
  ASSUME UpdateInv, FreshDownloads, OwnContents, [Next]_vars
  PROVE  OwnContents'
<1>1. machine' = machine
  BY VersionsStand
<1> SUFFICES ASSUME NEW f \in MyFiles, NEW q \in PlacesOf(f)
             PROVE  disk'[q] \in Between(f, 1, ver'[f]) \cup {Gone, Torn}
  BY <1>1 DEF OwnContents, MyFiles, PlacesOf, MyDrivers, MyLibraries
<1>2. f \in Names
  BY MyPlaces DEF UpdateInv
<1>3. disk'[q] \in Between(f, index[f], ver[f]) \cup {Gone, Torn} \cup {disk[q]}
  BY WritesFresh
<1>4. disk[q] \in Between(f, 1, ver[f]) \cup {Gone, Torn}
  BY DEF OwnContents
<1>5. /\ Between(f, index[f], ver[f]) \subseteq Between(f, 1, ver'[f])
      /\ Between(f, 1, ver[f]) \subseteq Between(f, 1, ver'[f])
  BY <1>2, VersionsStand, BetweenGrows
<1> QED  BY <1>3, <1>4, <1>5

LEMMA FreshDownloadsStep ==
  ASSUME UpdateInv, FreshDownloads, [Next]_vars
  PROVE  FreshDownloads'
<1> USE DEF UpdateInv, Downloading, Installing, Working
<1>1. CASE LastBlock
  <2>1. file \in Names /\ file \in left /\ tmp \in [Names -> Contents] /\ list \subseteq Names
    BY <1>1, MyPlaces DEF LastBlock, TypeOK
  <2>2. tmp'[file] \in Between(file, index[file], ver[file]) \cup {Torn}
    <3>1. PICK content \in {Version(file, got), Torn} :
            /\ content # Torn => got = ver[file]
            /\ tmp' = [tmp EXCEPT ![file] = content]
      BY <1>1 DEF LastBlock
    <3>2. tmp'[file] = content
      BY <2>1, <3>1
    <3>3. CASE content # Torn
      <4>1. ver[file] \in index[file]..ver[file]
        BY <2>1, VersionsStand
      <4>2. tmp'[file] = Version(file, ver[file])
        BY <3>1, <3>2, <3>3
      <4> QED  BY <4>1, <4>2 DEF Between
    <3> QED  BY <3>2, <3>3
  <2>3. \A f \in list : f # file => tmp'[f] = tmp[f]
    BY <1>1, <2>1 DEF LastBlock
  <2>4. /\ pc \in Downloading /\ pc' \notin Installing
        /\ UNCHANGED <<ver, index, list>> /\ left' = left \ {file}
    BY <1>1 DEF LastBlock
  <2>5. \A f \in list' \ left' : tmp'[f] \in Between(f, index[f], ver[f]) \cup {Torn}
    BY <2>2, <2>3, <2>4 DEF FreshDownloads
  <2> QED  BY <2>4, <2>5 DEF FreshDownloads
<1>2. CASE Release
  <2>1. UNCHANGED <<tmp, pc, index, list, left>>
    BY <1>2 DEF Release, downVars
  <2>2. \A f \in list : Between(f, index[f], ver[f]) \subseteq Between(f, index[f], ver'[f])
    <3>1. list \subseteq Names
      BY MyPlaces DEF TypeOK
    <3> QED  BY <3>1, VersionsStand, BetweenGrows
  <2> QED  BY <2>1, <2>2 DEF FreshDownloads
<1>3. CASE \E f \in Names : DownloadFile(f)
  <2>1. PICK f \in Names : DownloadFile(f)
    BY <1>3
  <2> QED  BY <2>1 DEF DownloadFile, FreshDownloads, TypeOK
<1>4. CASE UpdateDone
  BY <1>4 DEF UpdateDone, Return, FreshDownloads
<1>5. CASE GetNeedUpdateList
  BY <1>5 DEF GetNeedUpdateList, FreshDownloads
<1>6. CASE Downloaded
  BY <1>6 DEF Downloaded, FreshDownloads
<1>7. CASE Fails \/ Crash \/ Shutdown \/ NoUpdate \/ Start \/ RebootClientSoft
  <2>1. pc' \notin Downloading \cup Installing
    BY <1>7 DEF Fails, Crash, Off, Shutdown, NoUpdate, Return, Start, RebootClientSoft, Begin
  <2> QED  BY <2>1 DEF FreshDownloads
<1>8. CASE FirstBlock \/ UNCHANGED vars
  BY <1>8 DEF FirstBlock, vars, downVars, FreshDownloads
<1>9. CASE Delete \/ Copy \/ CopyFails \/ Rename \/ Recopy \/ CopyDriver \/ CopyDriverFails
           \/ \E f \in Names : InstallFile(f)
  <2>1. /\ UNCHANGED <<tmp, ver, index, list>>
        /\ pc \in Installing /\ pc' \in Installing
    BY <1>9 DEF Delete, Copy, CopyFails, Rename, Recopy, ForceUpdated, NextFile, CopyDriver,
       CopyDriverFails, InstallFile, downVars
  <2> QED  BY <2>1 DEF FreshDownloads
<1> QED  BY <1>1, <1>2, <1>3, <1>4, <1>5, <1>6, <1>7, <1>8, <1>9 DEF Next, Update

LEMMA InitContents == Init => OwnContents /\ FreshDownloads
<1> SUFFICES ASSUME Init PROVE OwnContents /\ FreshDownloads  OBVIOUS
<1>1. UpdateInv
  BY InitUpdateInv
<1>2. FreshDownloads
  BY DEF Init, FreshDownloads, Downloading, Installing, Working
<1> DEFINE At(q, f) == q = AppPlace(f) \/ (f \in Drivers \cup MyLibraries /\ q = SystemPlace(machine, f))
<1>3. ASSUME NEW f \in MyFiles, NEW q \in PlacesOf(f)
      PROVE  disk[q] \in Between(f, 1, ver[f]) \cup {Gone, Torn}
  <2>1. q \in Places(machine)
    BY <1>1, MyPlaces DEF UpdateInv, PlacesOf
  <2>2. disk[q] = Version(CHOOSE g \in MyFiles : At(q, g), 1)
    BY <2>1 DEF Init
  <2>3. At(q, f)
    BY DEF PlacesOf, MyDrivers
  <2>4. \A g \in MyFiles : At(q, g) => g = f
    <3>1. \A g \in MyFiles : g \in Drivers => g \in MyDrivers
      BY DEF MyDrivers
    <3> QED  BY <1>1, <2>3, <3>1, AppPlaces, MyPlaces DEF UpdateInv
  <2>5. (CHOOSE g \in MyFiles : At(q, g)) = f
    BY <2>3, <2>4
  <2>6. f \in Names /\ ver[f] = 1
    BY <1>1, MyPlaces DEF Init, UpdateInv
  <2>7. 1 \in 1..ver[f]
    BY <2>6
  <2> QED  BY <2>2, <2>5, <2>7 DEF Between
<1> QED  BY <1>2, <1>3 DEF OwnContents

LEMMA ContentsInvariant == Spec => [](UpdateInv /\ OwnContents /\ FreshDownloads)
<1>1. UpdateInv /\ OwnContents /\ FreshDownloads /\ [Next]_vars => (OwnContents /\ FreshDownloads)'
  BY OwnContentsStep, FreshDownloadsStep
<1> QED  BY <1>1, InitContents, UpdateInvariant, PTL DEF Spec

(* No place of the machine ever holds a file that belongs elsewhere, or a version  *)
(* that has not been released, whatever fails, crashes or changes.              *)
THEOREM PlacesHoldTheirFile == Spec => []OwnContents
  BY ContentsInvariant, PTL

(* No write goes back: what an update puts into a place is a version as new as the *)
(* index it compared with, or a place left empty or torn, also when the release    *)
(* changes in the middle of the download and when an older download is there.    *)
THEOREM NoWriteGoesBack ==
  Spec => [][\A f \in MyFiles : \A q \in PlacesOf(f) :
               disk'[q] # disk[q] => disk'[q] \in Between(f, index[f], ver[f]) \cup {Gone, Torn}]_vars
<1> DEFINE Step ==
      \A f \in MyFiles : \A q \in PlacesOf(f) :
        disk'[q] # disk[q] => disk'[q] \in Between(f, index[f], ver[f]) \cup {Gone, Torn}
<1>1. UpdateInv /\ FreshDownloads /\ [Next]_vars => [Step]_vars
  BY WritesFresh
<1> HIDE DEF Step
<1>2. Spec => [][Step]_vars
  BY <1>1, ContentsInvariant, PTL DEF Spec
<1> QED  BY <1>2 DEF Step
=============================================================================
