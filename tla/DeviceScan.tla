----------------------------- MODULE DeviceScan -----------------------------
(***************************************************************************)
(* The Linux device scan (sg_helper.c, built with ENABLE_CISS): an         *)
(* application asks get_Device_Count how many devices there are, allocates *)
(* a list, and has get_Device_List fill it.  Both calls walk the handles   *)
(* of /dev, note the ones that lead to a RAID controller, and walk those   *)
(* (ciss_helper.c) for the physical drives behind it.  Devices come and go *)
(* at any time, also between the calls.                                    *)
(*                                                                         *)
(* External: the system's units (disks, controllers, the volumes           *)
(* controllers present, NVMe namespaces), the handles they have, and how   *)
(* they answer.  scandir of "/dev" finds no name that begins with          *)
(* "cciss/c", so handles come by their driver's name alone.                *)
(***************************************************************************)
EXTENDS RaidHandleList, Sequences

Kinds == {"disk", "controller", "volume", "nvme"}
Refusals == {"denied", "busy", "other"}

(* A unit: what opening its handle gives, whether get_Device succeeds on   *)
(* it, and for a controller or its volume: whether the handle takes the    *)
(* controller's requests, whether the controller lists its drives, and     *)
(* the ones of them that cannot be identified.                             *)
Unit == [kind: Kinds, open: {"ok"} \cup Refusals, ready: BOOLEAN,
         speaks: BOOLEAN, lists: BOOLEAN, owner: Nat, bad: SUBSET Nat]
System == [sg: BOOLEAN, unit: Seq(Unit)]

CONSTANTS Systems,     (* the systems scanned                              *)
          MaxDevicesToScan, (* MAX_DEVICES_TO_SCAN: handles get_Device_List *)
                            (* tries; get_Device_Count knows no such limit *)
          MaxDrives,   (* bound: drives behind a controller                *)
          MaxSlots,    (* bound: entries of the application's list         *)
          MaxChanges   (* bound: devices that come or go                   *)

ASSUME ScanAssumption ==
  /\ {MaxDevicesToScan, MaxDrives, MaxSlots, MaxChanges} \subseteq Nat
  /\ Systems \subseteq System
  /\ \A s \in Systems : \A u \in DOMAIN s.unit :
       s.unit[u].kind = "volume" =>
         /\ s.unit[u].owner \in DOMAIN s.unit
         /\ s.unit[s.unit[u].owner].kind = "controller"

(* An allocation of a list entry does not fail.                            *)
ASSUME MemoryAssumption == \A s \in Systems : Len(s.unit) <= Cardinality(Nodes)

VARIABLES
  system,   (* the units there may be; whether the sg driver is loaded     *)
  present,  (* the units that are there now                                *)
  drives,   (* per controller: the number of its drives now                *)
  changes,  (* how often something came or went                            *)
  phase,    (* where the scan is                                           *)
  names,    (* the handles found in /dev, in order                         *)
  at,       (* the index of the handle looked at                           *)
  heap,     (* the memory of the RAID handle list                          *)
  begin,    (* its first entry                                             *)
  current,  (* its last entry                                              *)
  raid,     (* the entry looked at                                         *)
  previous, (* the entry before it                                         *)
  count,    (* numberOfDevices: what get_Device_Count counted              *)
  slots,    (* numberOfDevices: the entries the list has room for          *)
  list,     (* the devices filled in: of which unit, and how it went       *)
  failed,   (* per cause: handles and devices that failed                  *)
  cissAt,   (* where the drives behind controllers begin in the list       *)
  luns,     (* drives the controller looked at has, and how many are done  *)
  result    (* what get_Device_List returned                               *)

world == <<system, present, drives, changes>>
raidList == <<heap, begin, current, raid, previous>>
filled == <<list, failed, cissAt, luns>>
scanVars == <<world, phase, names, at, raidList, count, slots, filled, result>>

Units == 1 .. Len(system.unit)
U(u) == system.unit[u]
Controllers == {u \in Units : U(u).kind = "controller"}

-----------------------------------------------------------------------------
(* The system.                                                             *)

(* The sequence of S in order, the only one of its kind.                   *)
InOrder(S) ==
  {s \in [1 .. Cardinality(S) -> S] : \A i, j \in DOMAIN s : i < j => s[i] < s[j]}

HasHandle(u) == U(u).kind \in IF system.sg THEN {"disk", "controller", "volume"}
                                           ELSE {"disk", "volume"}
ScsiNames == {u \in present : HasHandle(u)}
NvmeNames == {u \in present : U(u).kind = "nvme"}
Handles == Cardinality(ScsiNames) + Cardinality(NvmeNames)

Opens(u) == u \in present /\ U(u).open = "ok"
(* The hpsa and smartpqi drivers also drive the volumes.                   *)
RaidDriver(u) == U(u).kind \in {"controller", "volume"}
Owner(u) == IF U(u).kind = "controller" THEN u ELSE U(u).owner
(* create_OS_CISS_Handle_Name knows no names of disks: a drive looked for  *)
(* behind such a handle is not found.                                      *)
DriveAnswers(u, d) ==
  system.sg /\ Opens(u) /\ d <= drives[Owner(u)] /\ d \notin U(Owner(u)).bad

-----------------------------------------------------------------------------
ScanTypeOK ==
  /\ system \in Systems /\ present \subseteq Units /\ changes \in 0 .. MaxChanges
  /\ drives \in [Controllers -> 0 .. MaxDrives]
  /\ phase \in {"countScan", "sysfs", "countCiss", "allocate", "listScan", "open", "ciss",
             "lun", "result", "done"}
  /\ \A i \in DOMAIN names : names[i] \in Units
  /\ at \in 1 .. Len(names) + 1
  /\ DOMAIN heap \subseteq Nodes
  /\ \A n \in DOMAIN heap : heap[n].handle \in Units
  /\ count \in 0 .. Len(system.unit) * (MaxDrives + 1) /\ slots \in 0 .. MaxSlots
  /\ \A i \in DOMAIN list : list[i].unit \in Units /\ list[i].ok \in BOOLEAN
  /\ failed \in [{"device", "drive"} \cup Refusals -> 0 .. MaxSlots + MaxDrives + Len(system.unit)]
  /\ luns.done \in 0 .. luns.all

NotBegun == [all |-> 0, done |-> 0]
ScanInit ==
  /\ system \in Systems /\ present \in SUBSET Units
  /\ drives \in [Controllers -> 0 .. MaxDrives] /\ changes = 0
  /\ phase = "countScan" /\ names = <<>> /\ at = 1
  /\ heap = EmptyHeap /\ begin = NULL /\ current = NULL /\ raid = NULL /\ previous = NULL
  /\ count = 0 /\ slots = 0 /\ list = <<>> /\ cissAt = 0 /\ luns = NotBegun
  /\ failed = [w \in {"device", "drive"} \cup Refusals |-> 0] /\ result = "none"

(* A device comes or goes, in the system or behind a controller.           *)
Change ==
  /\ changes < MaxChanges /\ phase # "done"
  /\ \/ /\ \E u \in Units : present' = IF u \in present THEN present \ {u} ELSE present \cup {u}
        /\ UNCHANGED drives
     \/ /\ \E c \in Controllers, n \in 0 .. MaxDrives :
             n # drives[c] /\ drives' = [drives EXCEPT ![c] = n]
        /\ UNCHANGED present
  /\ changes' = changes + 1
  /\ UNCHANGED <<system, phase, names, at, raidList, count, slots, filled, result>>

(* An entry for the RAID handle list, if the handle may lead to drives.    *)
Note(u, wanted) ==
  IF wanted
  THEN LET r == Added(heap, begin, current, u)
       IN  heap' = r.heap /\ begin' = r.begin /\ current' = r.current
  ELSE UNCHANGED <<heap, begin, current>>

(* Mutant: the beginning of the list is left where it was.                 *)
NewBeginKept == begin
NewBegin == IF raid = begin THEN heap[raid].next ELSE begin

(* The entry looked at is removed, or kept and passed by.                  *)
RemoveAndNext ==
  /\ heap' = Removed(heap, raid, previous)
  /\ raid' = heap[raid].next /\ begin' = NewBegin
  /\ UNCHANGED <<previous, current>>
KeepAndNext ==
  /\ previous' = raid /\ raid' = heap[raid].next
  /\ UNCHANGED <<heap, begin, current>>

(* supports_CISS_IOCTLs, on a handle that opens.                           *)
Speaks(u) == Opens(u) /\ U(Owner(u)).speaks

-----------------------------------------------------------------------------
(* get_Device_Count.                                                       *)
CountScan ==
  /\ phase = "countScan" /\ phase' = "sysfs"
  /\ names' \in InOrder(ScsiNames) /\ at' = 1
  /\ UNCHANGED <<world, raidList, count, slots, filled, result>>

(* One handle: sysfs knows whether it is a controller, and its driver.     *)
CountHandle ==
  /\ phase = "sysfs" /\ at <= Len(names)
  /\ LET u == names[at] IN Note(u, u \in present /\ U(u).kind = "controller")
  /\ at' = at + 1
  /\ UNCHANGED <<world, phase, names, raid, previous, count, slots, filled, result>>

CountNvme ==
  /\ phase = "sysfs" /\ at > Len(names) /\ phase' = "countCiss"
  /\ count' = Len(names) + Cardinality(NvmeNames)
  /\ raid' = begin /\ previous' = NULL
  /\ UNCHANGED <<world, names, at, heap, begin, current, slots, filled, result>>

(* Mutant: what is behind the controllers is not counted.                  *)
DrivesCountedNone(u) == 0
DrivesCounted(u) == IF U(Owner(u)).lists THEN drives[Owner(u)] ELSE 0

(* One entry of the RAID handle list.                                      *)
CountCiss ==
  /\ phase = "countCiss" /\ raid # NULL
  /\ LET u == heap[raid].handle
     IN  \/ Speaks(u) /\ count' = count + DrivesCounted(u) /\ RemoveAndNext
         \/ ~Speaks(u) /\ KeepAndNext /\ UNCHANGED count
  /\ UNCHANGED <<world, phase, names, at, slots, filled, result>>

CountDone ==
  /\ phase = "countCiss" /\ raid = NULL /\ phase' = "allocate"
  /\ heap' = Deleted(heap, begin) /\ begin' = NULL /\ current' = NULL /\ previous' = NULL
  /\ UNCHANGED <<world, names, at, raid, count, slots, filled, result>>

(* The application allocates what it likes: less is allowed.               *)
Allocate ==
  /\ phase = "allocate" /\ phase' = "listScan"
  /\ slots' \in 0 .. MaxSlots
  /\ UNCHANGED <<world, names, at, raidList, count, filled, result>>

-----------------------------------------------------------------------------
(* get_Device_List.                                                        *)
ListScan ==
  /\ phase = "listScan"
  /\ \E s \in InOrder(ScsiNames), n \in InOrder(NvmeNames) : names' = s \o n
  /\ at' = 1
  /\ \/ slots = 0 /\ phase' = "done" /\ result' = "BAD_PARAMETER"
     \/ slots > 0 /\ phase' = "open" /\ UNCHANGED result
  /\ UNCHANGED <<world, raidList, count, slots, filled>>

SgNames == system.sg /\ \E i \in DOMAIN names : U(names[i]).kind # "nvme"
(* Which handles are looked behind: controllers, or with no sg handles in  *)
(* the system whatever the driver drives.                                  *)
(* Mutant: volumes are looked behind as well.                              *)
LookBehindAll(u) == RaidDriver(u)
LookBehind(u) == RaidDriver(u) /\ (U(u).kind = "controller" \/ ~SgNames)

(* Mutant: the list's room is not asked for.                               *)
RoomUnasked == TRUE
Room == Len(list) < slots
MoreHandles == at <= Len(names) /\ at <= MaxDevicesToScan

Fill(u, d, ok, cause) ==
  /\ list' = Append(list, [unit |-> u, drive |-> d, ok |-> ok])
  /\ failed' = IF ok THEN failed ELSE [failed EXCEPT ![cause] = @ + 1]

(* One handle: it is opened, closed, and get_Device opens it again.        *)
OpenHandle ==
  /\ phase = "open" /\ MoreHandles /\ Room
  /\ LET u == names[at]
     IN  \/ /\ Opens(u)
            /\ Fill(u, 0, U(u).ready, "device")
            /\ Note(u, U(u).ready /\ LookBehind(u))
         \/ /\ ~Opens(u)
            /\ LET why == IF u \in present THEN U(u).open ELSE "other"
               IN  failed' = [failed EXCEPT ![why] = @ + 1]
            /\ UNCHANGED <<list, heap, begin, current>>
  /\ at' = at + 1
  /\ UNCHANGED <<world, phase, names, raid, previous, count, slots, cissAt, luns, result>>

(* The rest of the list is for the drives behind controllers.              *)
HandlesDone ==
  /\ phase = "open" /\ ~(MoreHandles /\ Room)
  /\ cissAt' = Len(list)
  /\ \/ Len(list) < slots /\ begin # NULL /\ raid' = begin /\ previous' = NULL /\ phase' = "ciss"
     \/ ~(Len(list) < slots /\ begin # NULL) /\ phase' = "result" /\ UNCHANGED <<raid, previous>>
  /\ UNCHANGED <<world, names, at, heap, begin, current, count, slots, list, failed, luns, result>>

(* One entry of the RAID handle list, in get_CISS_RAID_Device_List.        *)
Ciss ==
  /\ phase = "ciss" /\ raid # NULL /\ Room
  /\ LET u == heap[raid].handle
         n == IF U(Owner(u)).lists THEN drives[Owner(u)] ELSE 0
     IN  \/ /\ Speaks(u) /\ luns' = [all |-> n, done |-> 0] /\ phase' = "lun"
            /\ UNCHANGED raidList
         \/ ~Speaks(u) /\ KeepAndNext /\ UNCHANGED <<phase, luns>>
  /\ UNCHANGED <<world, names, at, count, slots, list, failed, cissAt, result>>

(* One of the controller's drives; then the entry has been dealt with.     *)
Lun ==
  /\ phase = "lun"
  /\ \/ /\ luns.done < luns.all
        /\ LET u == heap[raid].handle
               d == luns.done + 1
           IN  Fill(u, d, DriveAnswers(u, d), "drive")
        /\ luns' = [luns EXCEPT !.done = @ + 1]
        /\ UNCHANGED <<phase, raidList>>
     \/ luns.done = luns.all /\ RemoveAndNext /\ phase' = "ciss" /\ UNCHANGED <<list, failed, luns>>
  /\ UNCHANGED <<world, names, at, count, slots, cissAt, result>>

CissDone ==
  /\ phase = "ciss" /\ (raid = NULL \/ ~Room) /\ phase' = "result"
  /\ UNCHANGED <<world, names, at, raidList, count, slots, filled, result>>

(* What get_CISS_RAID_Device_List returned, if it was called and walked.   *)
(* Mutant: only a scan that found nothing at all is told of.               *)
CissResultAllOrNothing(walked, found) ==
  IF walked /\ found = 0 THEN "FAILURE" ELSE "SUCCESS"
CissResult(walked, found) ==
  IF ~walked THEN "SUCCESS"
  ELSE IF failed["drive"] = found THEN "FAILURE"
  ELSE IF failed["drive"] > 0 THEN "WARN_NOT_ALL_DEVICES_ENUMERATED" ELSE "SUCCESS"

(* Whether the RAID handle list was walked: it was not empty then.         *)
Walked == cissAt < slots /\ current # NULL
Failed == failed["device"] + failed["denied"] + failed["busy"] + failed["other"]

ScanResult ==
  /\ phase = "result" /\ phase' = "done"
  /\ heap' = Deleted(heap, begin)
  /\ result' = CASE failed["denied"] = Len(names) -> "PERMISSION_DENIED"
                 [] failed["denied"] # Len(names) /\ failed["busy"] = Len(names) -> "DEVICE_BUSY"
                 [] OTHER -> IF Failed = Len(names) THEN "FAILURE"
                             ELSE IF Failed > 0 THEN "WARN_NOT_ALL_DEVICES_ENUMERATED"
                             ELSE CissResult(Walked, Len(list) - cissAt)
  /\ UNCHANGED <<world, names, at, begin, current, raid, previous, count, slots, filled>>

-----------------------------------------------------------------------------
ScanNext == \/ Change
            \/ CountScan \/ CountHandle \/ CountNvme \/ CountCiss \/ CountDone
            \/ Allocate
            \/ ListScan \/ OpenHandle \/ HandlesDone \/ Ciss \/ Lun \/ CissDone \/ ScanResult

ScanSpec == ScanInit /\ [][ScanNext]_scanVars

-----------------------------------------------------------------------------
(* While a scan goes on, the RAID handle list is whole: the memory         *)
(* allocated is what its beginning reaches, so that no pointer dangles     *)
(* and nothing is lost; after a scan nothing of it is left                 *)
(* (remove_RAID_Handle, delete_RAID_List and their callers).               *)
RaidListWhole ==
  /\ phase # "done" => /\ Reach(heap, begin) = DOMAIN heap
                       /\ {raid, previous} \subseteq DOMAIN heap \cup {NULL}
  /\ phase \in {"allocate", "listScan", "done"} => DOMAIN heap = {}

(* get_Device_List fills in no more entries than the list has room for:    *)
(* given less memory than all devices need "the library will fill the      *)
(* provided memory with how ever many device structures it can hold"       *)
(* (common_public.h, sg_helper.c).  It does not hold: the loop over the    *)
(* drives of one controller does not ask for room.                         *)
NothingPastTheList == Len(list) <= slots

(* Where it does write past the end, it writes the drives of one           *)
(* controller, the one that the last entry of the list belongs to.         *)
PastTheListOneController ==
  \A i \in DOMAIN list : i > slots =>
     list[i].unit = list[slots].unit /\ list[slots].drive = list[i].drive - (i - slots)

(* No drive behind a controller, and no handle, is listed twice as a       *)
(* device that works, though each volume of a controller leads to the      *)
(* same drives.                                                            *)
ListedOnce ==
  \A i, j \in DOMAIN list :
     i < j /\ list[i].ok /\ list[j].ok =>
        \/ Owner(list[i].unit) # Owner(list[j].unit)
        \/ list[i].drive # list[j].drive
        \/ list[i].drive = 0 /\ list[i].unit # list[j].unit

(* An application that allocates what get_Device_Count counted is given    *)
(* every device that answers, and every drive behind a controller that     *)
(* answers, if nothing came or went in between, but in two systems.  One   *)
(* has more handles than MAX_DEVICES_TO_SCAN: those past it are counted    *)
(* and not tried, and nothing tells of it.  The other has no sg handles:   *)
(* the scan for the list looks behind handles that the count did not, and  *)
(* finds drives it cannot name.                                            *)
AllListed ==
  phase = "done" /\ slots >= count /\ changes = 0 /\ result # "BAD_PARAMETER"
  /\ Handles <= MaxDevicesToScan /\ system.sg =>
    LET ready == {u \in present : Opens(u) /\ U(u).ready}
        Listed(u, d) == \E i \in DOMAIN list : list[i] = [unit |-> u, drive |-> d, ok |-> TRUE]
    IN  \A u \in ready :
          /\ Listed(u, 0)
          /\ U(u).kind = "controller" /\ Speaks(u) /\ U(u).lists =>
               \A d \in 1 .. drives[u] : d \in U(u).bad \/ Listed(u, d)

(* What get_Device_List returns is true of its list.  Success: every       *)
(* handle tried is in it, and every entry works.  Failure: no entry        *)
(* works, but for a scan behind controllers that found no drive that       *)
(* works.  Denied or busy: every handle was, but for a system that has     *)
(* none.  Of the handles not tried, for want of room or because of         *)
(* MAX_DEVICES_TO_SCAN, no result tells.                                   *)
ResultIsTrue ==
  phase = "done" =>
    /\ result = "SUCCESS" =>
         /\ \A i \in DOMAIN list : list[i].ok
         /\ \A k \in 1 .. at - 1 : \E i \in DOMAIN list : list[i].unit = names[k]
    /\ result = "FAILURE" =>
         \/ \A i \in DOMAIN list : ~list[i].ok
         \/ Walked /\ \A i \in cissAt + 1 .. Len(list) : ~list[i].ok
    /\ result \in {"PERMISSION_DENIED", "DEVICE_BUSY"} =>
         names = <<>> \/ (at > Len(names) /\ list = <<>>)
=============================================================================
