------------------------------ MODULE SoftUpdate ------------------------------
(***************************************************************************)
(* AfxExecuteSoftUpdate: at each start the client asks for the index of the    *)
(* release, downloads what differs from it, and replaces its files one by one. *)
(* The release may change, a step may fail and the machine may stop at any     *)
(* moment; nothing is rolled back, the next start compares again.  A write that   *)
(* the system cuts short without an error is left out (it goes unnoticed, since   *)
(* dwByteWrite is compared with itself, kupdate.cpp:312).                     *)
(***************************************************************************)
EXTENDS Naturals, UpdateFiles

CONSTANT MaxVersion  \* bound on the releases of one file

ASSUME MaxVersionAssumption == MaxVersion \in Nat \ {0}

VARIABLES
  machine,  \* the kind of machine; it does not change
  ver,      \* the server: the version of each file in the release
  disk,     \* what each place holds
  tmp,      \* what the download directory holds
  pc,       \* where the client is
  index,    \* the release the index was taken of
  list,     \* gFileInfoList
  left,     \* the part of the list that the loop has not reached
  file,     \* the file the loop is at
  dst,      \* the place ForceUpdateFile writes
  got,      \* the version of the first block of the download, 0 before it
  reboot,   \* bNeedReboot
  renamed,  \* history: files in use were moved away by this process
  due,      \* history: libraries replaced without their copy for the system
  report    \* what AfxExecuteSoftUpdate returned in this process

downVars == <<index, list, left, file, got>>
vars == <<machine, ver, disk, tmp, pc, downVars, dst, reboot, renamed, due, report>>

None == "none"
Nowhere == <<None, None>>

(* Contents: of a version of a file; nothing; neither a version nor nothing.     *)
(* Two contents have the same CRC when they are equal.                      *)
Version(f, v) == <<f, v>>
Gone == <<"gone", 0>>
Torn == <<"torn", 0>>
Contents == {Version(f, v) : f \in Names, v \in 1..MaxVersion} \cup {Gone, Torn}

MyFiles == Wanted(machine)
MyDrivers == MyFiles \cap Drivers
MyLibraries == Libraries(machine)

Put(place, content) == disk' = [disk EXCEPT ![place] = content]

(* A copy to dst that did not get to its end, or never began.                  *)
HalfWritten == \E rest \in {disk[dst], Gone, Torn} : Put(dst, rest)

-----------------------------------------------------------------------------
(* A machine on which the first release is installed.                        *)
Init ==
  /\ machine \in Machines
  /\ ver = [f \in Names |-> 1]
  /\ disk = [p \in Places(machine) |-> Version(CHOOSE f \in MyFiles :
                p = AppPlace(f) \/ (f \in Drivers \cup MyLibraries /\ p = SystemPlace(machine, f)), 1)]
  /\ tmp = [f \in Names |-> Gone]
  /\ pc = "off" /\ index = ver /\ list = {} /\ left = {} /\ file = None /\ got = 0
  /\ dst = Nowhere /\ reboot = FALSE /\ renamed = FALSE /\ due = {} /\ report = None

(* The server takes over a release.                                          *)
Release ==
  \E changed \in SUBSET Names :
    /\ changed # {} /\ \A f \in changed : ver[f] < MaxVersion
    /\ ver' = [f \in Names |-> IF f \in changed THEN ver[f] + 1 ELSE ver[f]]
    /\ UNCHANGED <<machine, disk, tmp, pc, downVars, dst, reboot, renamed, due, report>>

(* A new process; the list and the flags are its own.                        *)
Begin == /\ pc' = "started" /\ list' = {} /\ left' = {} /\ file' = None /\ got' = 0
         /\ dst' = Nowhere /\ reboot' = FALSE /\ renamed' = FALSE /\ report' = None
         /\ UNCHANGED <<machine, ver, disk, tmp, index, due>>

Start == pc = "off" /\ Begin

(* AfxExecuteSoftUpdate returns; the main loop does not call it again.          *)
Return(result) ==
  /\ pc' = "done" /\ report' = result /\ file' = None /\ dst' = Nowhere /\ got' = 0

NoUpdate ==
  /\ pc = "started" /\ machine.noupdate /\ Return("ok")
  /\ UNCHANGED <<machine, ver, disk, tmp, index, list, left, reboot, renamed, due>>

(* A comparison that forgets the copy of a driver for the system.             *)
NeedsUpdate_AppOnly(f) == disk[AppPlace(f)] # Version(f, ver[f])

(* The copy of the client differs from the index or, of a driver, that of the    *)
(* system.                                                                  *)
NeedsUpdate(f) ==
  \/ disk[AppPlace(f)] # Version(f, ver[f])
  \/ f \in Drivers /\ disk[SystemPlace(machine, f)] # Version(f, ver[f])

GetNeedUpdateList ==
  /\ pc = "started" /\ ~machine.noupdate
  /\ index' = ver /\ list' = {f \in MyFiles : NeedsUpdate(f)} /\ left' = list'
  /\ pc' = "download"
  /\ UNCHANGED <<machine, ver, disk, tmp, file, got, dst, reboot, renamed, due, report>>

(* The rest of an earlier download goes, and an empty file takes its place.     *)
DownloadFile(f) ==
  /\ pc = "download" /\ f \in left
  /\ pc' = "block" /\ file' = f /\ got' = 0 /\ tmp' = [tmp EXCEPT ![f] = Torn]
  /\ UNCHANGED <<machine, ver, disk, index, list, left, dst, reboot, renamed, due, report>>

(* A file has two blocks; the server reads each when it is asked for.           *)
FirstBlock ==
  /\ pc = "block" /\ got = 0 /\ got' = ver[file]
  /\ UNCHANGED <<machine, ver, disk, tmp, pc, index, list, left, file, dst, reboot, renamed, due, report>>

(* The index gives the length: blocks of two releases do not fit together, and a   *)
(* release newer than the index may be cut short.                            *)
LastBlock ==
  /\ pc = "block" /\ got # 0
  /\ \E content \in {Version(file, got), Torn} :
       /\ content # Torn => got = ver[file]
       /\ content = Torn => got # ver[file] \/ got # index[file]
       /\ tmp' = [tmp EXCEPT ![file] = content]
  /\ left' = left \ {file} /\ pc' = "download" /\ file' = None /\ got' = 0
  /\ UNCHANGED <<machine, ver, disk, index, list, dst, reboot, renamed, due, report>>

(* A download that stops at the first file that is there already.             *)
Downloaded_Early ==
  /\ pc = "download" /\ (left = {} \/ \E f \in left : tmp[f] # Gone)
  /\ pc' = "install" /\ left' = list /\ reboot' = FALSE
  /\ UNCHANGED <<machine, ver, disk, tmp, index, list, file, got, dst, renamed, due, report>>

Downloaded ==
  /\ pc = "download" /\ left = {}
  /\ pc' = "install" /\ left' = list /\ reboot' = FALSE
  /\ UNCHANGED <<machine, ver, disk, tmp, index, list, file, got, dst, renamed, due, report>>

-----------------------------------------------------------------------------
(* UpdateFile: the loop comes to a file, whose download is there.              *)
InstallFile(f) ==
  /\ pc = "install" /\ f \in left /\ tmp[f] # Gone
  /\ pc' = "delete" /\ file' = f /\ dst' = AppPlace(f)
  /\ due' = IF f \in MyLibraries THEN due \cup {f} ELSE due
  /\ UNCHANGED <<machine, ver, disk, tmp, index, list, left, got, reboot, renamed, report>>

(* ForceUpdateFile deletes the file, unless it is in use.                      *)
Delete ==
  /\ pc = "delete" /\ pc' = "copy"
  /\ \/ Put(dst, Gone)
     \/ UNCHANGED disk
  /\ UNCHANGED <<machine, ver, tmp, downVars, dst, reboot, renamed, due, report>>

NextFile ==
  /\ left' = left \ {file} /\ pc' = "install" /\ file' = None /\ dst' = Nowhere

(* A library that is not copied for the system.                              *)
ForceUpdated_NoLibrary ==
  \/ /\ dst = AppPlace(file) /\ file \in MyDrivers
     /\ pc' = "driver" /\ dst' = SystemPlace(machine, file) /\ UNCHANGED <<left, file, due>>
  \/ /\ dst # AppPlace(file) \/ file \notin MyDrivers
     /\ NextFile /\ due' = due \ {file}

(* The place has its file: a driver is copied for the system, a library goes     *)
(* through ForceUpdateFile again.                                           *)
ForceUpdated ==
  \/ /\ dst = AppPlace(file) /\ file \in MyDrivers
     /\ pc' = "driver" /\ dst' = SystemPlace(machine, file) /\ UNCHANGED <<left, file, due>>
  \/ /\ dst = AppPlace(file) /\ file \in MyLibraries
     /\ pc' = "delete" /\ dst' = SystemPlace(machine, file) /\ UNCHANGED <<left, file, due>>
  \/ /\ dst # AppPlace(file) \/ file \notin MyDrivers \cup MyLibraries
     /\ NextFile /\ due' = due \ {file}

(* A flag that is set for each file anew.                                     *)
Copy_ClearsReboot ==
  /\ pc = "copy"
  /\ Put(dst, tmp[file]) /\ ForceUpdated /\ reboot' = FALSE
  /\ UNCHANGED <<machine, ver, tmp, index, list, got, renamed, report>>

Copy ==
  /\ pc = "copy"
  /\ Put(dst, tmp[file]) /\ ForceUpdated
  /\ UNCHANGED <<machine, ver, tmp, index, list, got, reboot, renamed, report>>

(* The file is in use, or its place cannot be written.                        *)
CopyFails ==
  /\ pc = "copy" /\ pc' = "rename" /\ HalfWritten
  /\ UNCHANGED <<machine, ver, tmp, downVars, dst, reboot, renamed, due, report>>

(* The file in use gets another name, .~tmp, which the next start deletes.       *)
Rename ==
  /\ pc = "rename" /\ disk[dst] # Gone
  /\ Put(dst, Gone) /\ pc' = "recopy" /\ renamed' = TRUE
  /\ UNCHANGED <<machine, ver, tmp, downVars, dst, reboot, due, report>>

(* A second copy whose failure is not noticed.                                *)
Recopy_Unnoticed ==
  /\ pc = "recopy"
  /\ Put(dst, tmp[file]) \/ HalfWritten
  /\ reboot' = TRUE /\ ForceUpdated
  /\ UNCHANGED <<machine, ver, tmp, index, list, got, renamed, report>>

Recopy ==
  /\ pc = "recopy"
  /\ Put(dst, tmp[file]) /\ reboot' = TRUE /\ ForceUpdated
  /\ UNCHANGED <<machine, ver, tmp, index, list, got, renamed, report>>

(* The copy for the system; whether it succeeds is not asked.                  *)
CopyDriver ==
  /\ pc = "driver" /\ Put(dst, tmp[file]) /\ NextFile
  /\ UNCHANGED <<machine, ver, tmp, index, list, got, reboot, renamed, due, report>>

CopyDriverFails ==
  /\ pc = "driver" /\ HalfWritten /\ NextFile
  /\ UNCHANGED <<machine, ver, tmp, index, list, got, reboot, renamed, due, report>>

(* The download directory goes.  The process starts its successor if a file in   *)
(* use was replaced.                                                        *)
UpdateDone ==
  /\ pc = "install" /\ left = {}
  /\ tmp' = [f \in Names |-> Gone] /\ list' = {}
  /\ IF reboot THEN pc' = "reboot" /\ report' = "ok" /\ UNCHANGED <<file, dst, got>>
               ELSE Return("ok")
  /\ UNCHANGED <<machine, ver, disk, index, left, reboot, renamed, due>>

(* RebootClientSoft, and the main loop is left.                               *)
RebootClientSoft == pc = "reboot" /\ Begin

(* The server does not answer, the exit event is set, a file cannot be opened,    *)
(* written, renamed or copied: AfxExecuteSoftUpdate returns FALSE.             *)
Fails ==
  /\ \/ pc \in {"download", "block", "rename"} /\ UNCHANGED disk
     \/ pc = "started" /\ ~machine.noupdate /\ UNCHANGED disk
     \/ pc = "recopy" /\ HalfWritten
  /\ Return("failed")
  /\ UNCHANGED <<machine, ver, tmp, index, list, left, reboot, renamed, due>>

-----------------------------------------------------------------------------
Off == /\ pc' = "off" /\ file' = None /\ dst' = Nowhere /\ got' = 0
       /\ UNCHANGED <<machine, ver, tmp, index, list, left, reboot, renamed, due, report>>

(* The machine is turned off after the update.                                *)
Shutdown == pc = "done" /\ Off /\ UNCHANGED disk

(* The process or the machine stops in the middle of it, also of a copy.         *)
Crash ==
  /\ pc \notin {"off", "done"} /\ Off
  /\ IF pc \in {"copy", "recopy", "driver"} THEN HalfWritten ELSE UNCHANGED disk

-----------------------------------------------------------------------------
Update ==
  \/ NoUpdate \/ GetNeedUpdateList \/ FirstBlock \/ LastBlock \/ Downloaded
  \/ \E f \in Names : DownloadFile(f) \/ InstallFile(f)
  \/ Delete \/ Copy \/ CopyFails \/ Rename \/ Recopy \/ CopyDriver \/ CopyDriverFails
  \/ UpdateDone \/ RebootClientSoft \/ Fails

Next == Start \/ Update \/ Shutdown \/ Release \/ Crash

Spec == Init /\ [][Next]_vars

(* The program goes on, and the machine is turned off and on again.             *)
FairSpec == Spec /\ WF_vars(Start \/ Update \/ Shutdown)

-----------------------------------------------------------------------------
Working == {"delete", "copy", "rename", "recopy", "driver"}

TypeOK ==
  /\ machine \in Machines /\ ver \in [Names -> 1..MaxVersion] /\ index \in [Names -> 1..MaxVersion]
  /\ disk \in [Places(machine) -> Contents] /\ tmp \in [Names -> Contents]
  /\ pc \in {"off", "started", "download", "block", "install", "reboot", "done"} \cup Working
  /\ list \subseteq MyFiles /\ got \in 0..MaxVersion
  /\ reboot \in BOOLEAN /\ renamed \in BOOLEAN /\ due \subseteq MyLibraries
  /\ report \in {None, "ok", "failed"}
  /\ left \subseteq list
  /\ IF pc \in Working \cup {"block"} THEN file \in left ELSE file = None
  /\ IF pc \in Working THEN dst \in Places(machine) ELSE dst = Nowhere
  /\ pc \in {"install"} \cup Working => \A f \in left : tmp[f] # Gone

(* A client that reports a successful update has the release it asked for, unless *)
(* the release changed meanwhile (AfxExecuteSoftUpdate returns TRUE).          *)
SuccessIsCurrent ==
  report = "ok" /\ ~machine.noupdate /\ index = ver
    => \A f \in MyFiles : disk[AppPlace(f)] = Version(f, ver[f])

(* The two copies of a library are of one version, unless an update ended between *)
(* them; that is never made good, since only the first is compared with the     *)
(* index (GetNeedUpdateList).                                               *)
SecondCopyAgrees ==
  \A f \in MyLibraries \ due : disk[SystemPlace(machine, f)] = disk[AppPlace(f)]

(* A client that goes on after a successful update runs nothing that the update   *)
(* has replaced (bNeedReboot).                                              *)
RunsWhatIsInstalled == pc = "done" /\ report = "ok" => ~renamed

AllCurrent ==
  /\ \A f \in MyFiles : disk[AppPlace(f)] = Version(f, ver[f])
  /\ \A f \in MyDrivers \cup (MyLibraries \ due) : disk[SystemPlace(machine, f)] = Version(f, ver[f])

Disturbance == Release \/ Crash \/ Fails \/ CopyDriverFails

(* Whatever crashes, failures and releases in mid-download have left behind, once *)
(* they stop the client gets to the release and stays there (the comparison of   *)
(* CRCs at each start is all the recovery there is).                         *)
Recovers == <>[][~Disturbance]_vars => <>[](AllCurrent \/ machine.noupdate)
=============================================================================
