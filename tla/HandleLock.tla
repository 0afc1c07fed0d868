----------------------------- MODULE HandleLock -----------------------------
(***************************************************************************)
(* Opening, locking and taking exclusive access to one drive on Linux      *)
(* (sg_helper.c, posix_common_lowlevel.c), by several processes that use   *)
(* the library at the same time.  A drive has an sg handle (os_info.fd)    *)
(* and, for disks, an sd handle (os_info.fd2) opened on demand.            *)
(*                                                                         *)
(* The kernel is the environment: who has which file open, who holds the   *)
(* record lock of it.  A process makes one system call in each step, so    *)
(* the calls of two processes interleave anywhere between.  An open may    *)
(* also fail for a reason of its own (no permission, drive gone).          *)
(***************************************************************************)
EXTENDS Naturals

CONSTANTS Process,      (* the processes, each with a tDevice of its own   *)
          LockCountMax  (* UINT16_MAX in the code                          *)

ASSUME LockCountMaxAssumption == LockCountMax \in Nat \ {0}

(* Whose lock it is when it is nobody's.                                   *)
None == "none"
ASSUME NoneAssumption == None \notin Process

Files == {"sg", "sd"}

(* dFlags: no flag, HANDLE_RECOMMEND_, HANDLE_REQUIRE_EXCLUSIVE_ACCESS.    *)
Access == {"default", "request", "require"}

(* A step of a library call: the call, the file and the manner of the next *)
(* system call, and whether the call has gone well so far.                 *)
Steps == [call: {"closed", "idle", "open", "lock", "unlock", "exclusive",
                 "rescan", "close"},
          file: Files,
          how: {"ofd", "posix", "excl", "shared", "close"},
          ok: BOOLEAN]

Modes == {"none", "shared", "excl"}

Locks == [owner: Process \cup {None}, via: {"ofd", "posix"}]
Free == [owner |-> None, via |-> "ofd"]

VARIABLES
  machine,    (* the kernel has F_OFD_SETLK; the drive has an sd handle    *)
  locks,      (* kernel: the lock on each file                             *)
  handle,     (* per process and file: none (-1), opened shared or O_EXCL  *)
  pc,         (* per process: the next system call                         *)
  access,     (* tDevice.dFlags                                            *)
  exclusive,  (* HANDLE_FLAGS_EXCLUSIVE is the handle's open flag          *)
  secondOpen, (* os_info.secondHandleOpened                                *)
  lockCount,  (* os_info.lockCount                                         *)
  refused     (* history: os_Get_Exclusive failed since the lock was taken *)

device == <<access, exclusive, secondOpen, lockCount, refused>>
vars == <<machine, locks, handle, pc, device>>

-----------------------------------------------------------------------------
(* The kernel.                                                             *)

(* sg lets an exclusive opener in only alone, and nobody beside it; a      *)
(* block device keeps only a second exclusive opener out.                  *)
CanOpen(c, f, how) ==
  \A d \in Process \ {c} :
    /\ handle[d][f] = "excl" => f = "sd" /\ how = "shared"
    /\ how = "excl" /\ f = "sg" => handle[d][f] = "none"

(* fcntl: locks of the two kinds conflict even within one process.         *)
Owned(c, f, how) == locks[f].owner = c /\ locks[f].via = how
Grants(c, f, how) ==
  handle[c][f] # "none" /\ (locks[f].owner = None \/ Owned(c, f, how))

(* F_UNLCK succeeds on any open file, and removes a lock of its kind only. *)
Unlocks(c, f) == handle[c][f] # "none"

(* Closing a file releases the process's locks on it, of both kinds.       *)
Closed(c, f) == IF locks[f].owner = c THEN Free ELSE locks[f]

-----------------------------------------------------------------------------
Idle(c) == pc[c].call = "idle"
At(c, call, file) == pc[c].call = call /\ pc[c].file = file

Goto(c, call, file, how, ok) ==
  pc' = [pc EXCEPT ![c] = [call |-> call, file |-> file, how |-> how, ok |-> ok]]

Return(c) == Goto(c, "idle", "sg", "close", TRUE)

(* lock_unlock_handle asks for an open file description lock where the     *)
(* kernel has it.                                                          *)
FirstKind == IF machine.ofd THEN "ofd" ELSE "posix"

(* posix_Get_Device_Handle: with O_EXCL unless no flag asks for it.        *)
FirstMode(a) == IF a = "default" THEN "shared" ELSE "excl"

(* A refused exclusive open is tried again without O_EXCL on a request.    *)
RetriesShared(c, how) == how = "excl" /\ access[c] = "request"

NewDevice(c) ==
  /\ exclusive' = [exclusive EXCEPT ![c] = FALSE]
  /\ secondOpen' = [secondOpen EXCEPT ![c] = FALSE]
  /\ lockCount' = [lockCount EXCEPT ![c] = 0]
  /\ refused' = [refused EXCEPT ![c] = FALSE]

Init ==
  /\ machine \in [ofd: BOOLEAN, second: BOOLEAN]
  /\ locks = [f \in Files |-> Free]
  /\ handle = [c \in Process |-> [f \in Files |-> "none"]]
  /\ pc = [c \in Process |->
             [call |-> "closed", file |-> "sg", how |-> "close", ok |-> TRUE]]
  /\ access = [c \in Process |-> "default"]
  /\ exclusive = [c \in Process |-> FALSE]
  /\ secondOpen = [c \in Process |-> FALSE]
  /\ lockCount = [c \in Process |-> 0]
  /\ refused = [c \in Process |-> FALSE]

-----------------------------------------------------------------------------
(* get_Lin_Device with a new tDevice.                                      *)
Open(c, a) ==
  /\ pc[c].call = "closed"
  /\ NewDevice(c)
  /\ access' = [access EXCEPT ![c] = a]
  /\ Goto(c, "open", "sg", FirstMode(a), TRUE)
  /\ UNCHANGED <<machine, locks, handle>>

(* Mutant: the flag asked for, not what the open fell back to.             *)
ExclusiveAsAsked(c, how) == access[c] # "default"
ExclusiveAsOpened(c, how) == how = "excl"

OpenSucceeds(c) ==
  /\ At(c, "open", "sg")
  /\ CanOpen(c, "sg", pc[c].how)
  /\ handle' = [handle EXCEPT ![c].sg = pc[c].how]
  /\ exclusive' = [exclusive EXCEPT ![c] = ExclusiveAsOpened(c, pc[c].how)]
  /\ Return(c)
  /\ UNCHANGED <<machine, locks, access, secondOpen, lockCount, refused>>

(* The open call failed.  On a request the second failure too only leaves  *)
(* the retry loop, and the SUCCESS of its initialisation is returned.      *)
OpenFails(c) ==
  /\ At(c, "open", "sg")
  /\ IF RetriesShared(c, pc[c].how) THEN Goto(c, "open", "sg", "shared", TRUE)
     ELSE IF access[c] = "request" THEN Return(c)
     ELSE Goto(c, "closed", "sg", "close", FALSE)
  /\ UNCHANGED <<machine, locks, handle, device>>

-----------------------------------------------------------------------------
(* The count saturates, it does not wrap.                                  *)
Counted(n) == IF n < LockCountMax THEN n + 1 ELSE n

(* os_Lock_Device: the files are locked for the first request only.        *)
Nest(c) ==
  /\ Idle(c) /\ lockCount[c] > 0
  /\ lockCount' = [lockCount EXCEPT ![c] = Counted(@)]
  /\ UNCHANGED <<machine, locks, handle, pc, access, exclusive, secondOpen, refused>>

Lock(c) ==
  /\ Idle(c) /\ lockCount[c] = 0
  /\ Goto(c, "lock", "sg", FirstKind, TRUE)
  /\ UNCHANGED <<machine, locks, handle, device>>

(* The second file follows the first, even one that failed; its own result *)
(* counts for nothing.                                                     *)
(* Mutant: the result of the second handle overwrites the first.           *)
ResultOfLast(c, granted) == granted
Result(c, granted) == IF pc[c].file = "sg" THEN granted ELSE pc[c].ok

IsLast(c) == ~(pc[c].file = "sg" /\ machine.second /\ secondOpen[c])

Continue(c, call, ok) ==
  IF IsLast(c) THEN Return(c) ELSE Goto(c, call, "sd", FirstKind, ok)

SetLock(c) ==
  /\ pc[c].call = "lock"
  /\ LET f == pc[c].file
         how == pc[c].how
         granted == Grants(c, f, how)
         ok == Result(c, granted)
     IN /\ locks' = IF granted
                    THEN [locks EXCEPT ![f] = [owner |-> c, via |-> how]]
                    ELSE locks
        /\ IF ~granted /\ how = "ofd"
           THEN Goto(c, "lock", f, "posix", pc[c].ok)
                /\ UNCHANGED <<lockCount, refused>>
           ELSE /\ Continue(c, "lock", ok)
                /\ IF IsLast(c) /\ ok
                   THEN /\ lockCount' = [lockCount EXCEPT ![c] = 1]
                        /\ refused' = [refused EXCEPT ![c] = FALSE]
                   ELSE UNCHANGED <<lockCount, refused>>
  /\ UNCHANGED <<machine, handle, access, exclusive, secondOpen>>

(* os_Unlock_Device: the files are unlocked for the last request only.     *)
Unnest(c) ==
  /\ Idle(c) /\ lockCount[c] > 1
  /\ lockCount' = [lockCount EXCEPT ![c] = @ - 1]
  /\ UNCHANGED <<machine, locks, handle, pc, access, exclusive, secondOpen, refused>>

(* Mutant: only a process lock is released.                                *)
UnlockByProcess(c) ==
  /\ Idle(c) /\ lockCount[c] = 1
  /\ Goto(c, "unlock", "sg", "posix", TRUE)
  /\ UNCHANGED <<machine, locks, handle, device>>

Unlock(c) ==
  /\ Idle(c) /\ lockCount[c] = 1
  /\ Goto(c, "unlock", "sg", FirstKind, TRUE)
  /\ UNCHANGED <<machine, locks, handle, device>>

ClearLock(c) ==
  /\ pc[c].call = "unlock"
  /\ LET f == pc[c].file
         how == pc[c].how
         done == Unlocks(c, f)
         ok == Result(c, done)
     IN /\ locks' = IF done /\ Owned(c, f, how)
                    THEN [locks EXCEPT ![f] = Free] ELSE locks
        /\ IF ~done /\ how = "ofd"
           THEN Goto(c, "unlock", f, "posix", pc[c].ok) /\ UNCHANGED lockCount
           ELSE /\ Continue(c, "unlock", ok)
                /\ lockCount' = IF IsLast(c) /\ ok
                                THEN [lockCount EXCEPT ![c] = 0] ELSE lockCount
  /\ UNCHANGED <<machine, handle, access, exclusive, secondOpen, refused>>

-----------------------------------------------------------------------------
(* os_Get_Exclusive: close and reopen both handles.                        *)
GetExclusive(c) ==
  /\ Idle(c) /\ ~exclusive[c]
  /\ Goto(c, "exclusive", "sg", "close", TRUE)
  /\ UNCHANGED <<machine, locks, handle, device>>

CloseForExclusive(c) ==
  /\ At(c, "exclusive", "sg") /\ pc[c].how = "close"
  /\ handle' = [handle EXCEPT ![c].sg = "none"]
  /\ locks' = [locks EXCEPT !["sg"] = Closed(c, "sg")]
  /\ Goto(c, "exclusive", "sg", "excl", TRUE)
  /\ UNCHANGED <<machine, device>>

(* The block handle is next, with HANDLE_RECOMMEND_EXCLUSIVE_ACCESS added  *)
(* to the flags: REQUIRE is tested first and stays in force.               *)
ThenSecond(c) ==
  IF machine.second
  THEN /\ Goto(c, "exclusive", "sd", IF secondOpen[c] THEN "close" ELSE "excl", TRUE)
       /\ access' = [access EXCEPT ![c] = IF @ = "require" THEN @ ELSE "request"]
  ELSE Return(c) /\ UNCHANGED access

ReopenSucceeds(c) ==
  /\ At(c, "exclusive", "sg") /\ pc[c].how # "close"
  /\ CanOpen(c, "sg", pc[c].how)
  /\ handle' = [handle EXCEPT ![c].sg = pc[c].how]
  /\ exclusive' = [exclusive EXCEPT ![c] = pc[c].how = "excl"]
  /\ refused' = [refused EXCEPT ![c] = pc[c].how = "shared"]
  /\ ThenSecond(c)
  /\ UNCHANGED <<machine, locks, secondOpen, lockCount>>

(* Two attempts: the second without O_EXCL; then there is no handle.       *)
ReopenFails(c) ==
  /\ At(c, "exclusive", "sg") /\ pc[c].how # "close"
  /\ IF pc[c].how = "excl"
     THEN Goto(c, "exclusive", "sg", "shared", TRUE) /\ UNCHANGED access
     ELSE ThenSecond(c)
  /\ refused' = [refused EXCEPT ![c] = TRUE]
  /\ UNCHANGED <<machine, locks, handle, exclusive, secondOpen, lockCount>>

CloseSecond(c) ==
  /\ At(c, "exclusive", "sd") /\ pc[c].how = "close"
  /\ handle' = [handle EXCEPT ![c].sd = "none"]
  /\ locks' = [locks EXCEPT !["sd"] = Closed(c, "sd")]
  /\ secondOpen' = [secondOpen EXCEPT ![c] = FALSE]
  /\ Goto(c, "exclusive", "sd", "excl", TRUE)
  /\ UNCHANGED <<machine, access, exclusive, lockCount, refused>>

(* os_Update_File_System_Cache opens the block handle if it is not yet.    *)
Rescan(c) ==
  /\ Idle(c) /\ machine.second /\ ~secondOpen[c]
  /\ Goto(c, "rescan", "sd", FirstMode(access[c]), TRUE)
  /\ UNCHANGED <<machine, locks, handle, device>>

(* open_fd2, for either of the two calls.                                  *)
OpensSecond(c) ==
  pc[c].call \in {"exclusive", "rescan"} /\ pc[c].file = "sd" /\ pc[c].how # "close"

SecondSucceeds(c) ==
  /\ OpensSecond(c)
  /\ CanOpen(c, "sd", pc[c].how)
  /\ handle' = [handle EXCEPT ![c].sd = pc[c].how]
  /\ secondOpen' = [secondOpen EXCEPT ![c] = TRUE]
  /\ Return(c)
  /\ UNCHANGED <<machine, locks, access, exclusive, lockCount, refused>>

SecondFails(c) ==
  /\ OpensSecond(c)
  /\ IF RetriesShared(c, pc[c].how)
     THEN Goto(c, pc[c].call, "sd", "shared", TRUE)
     ELSE Return(c)
  /\ UNCHANGED <<machine, locks, handle, device>>

-----------------------------------------------------------------------------
(* close_Device, file by file; then the process drops its tDevice.         *)
Close(c) ==
  /\ Idle(c)
  /\ Goto(c, "close", "sg", "close", TRUE)
  /\ UNCHANGED <<machine, locks, handle, device>>

(* Mutant: the second handle is forgotten.                                 *)
CloseFirst(c) ==
  /\ pc[c].call = "close"
  /\ handle' = [handle EXCEPT ![c].sg = "none"]
  /\ locks' = [locks EXCEPT !["sg"] = Closed(c, "sg")]
  /\ Goto(c, "closed", "sg", "close", TRUE)
  /\ UNCHANGED <<machine, device>>

CloseFile(c) ==
  /\ pc[c].call = "close"
  /\ LET f == pc[c].file
     IN /\ handle' = [handle EXCEPT ![c][f] = "none"]
        /\ locks' = [locks EXCEPT ![f] = Closed(c, f)]
        /\ IF IsLast(c) THEN Goto(c, "closed", "sg", "close", TRUE)
           ELSE Goto(c, "close", "sd", "close", TRUE)
  /\ UNCHANGED <<machine, device>>

(* The process ends anywhere in a call; the kernel closes its files.       *)
Die(c) ==
  /\ pc[c].call # "closed"
  /\ handle' = [handle EXCEPT ![c] = [f \in Files |-> "none"]]
  /\ locks' = [f \in Files |-> Closed(c, f)]
  /\ Goto(c, "closed", "sg", "close", TRUE)
  /\ UNCHANGED <<machine, device>>

-----------------------------------------------------------------------------
Step(c) ==
  \/ \E a \in Access : Open(c, a)
  \/ OpenSucceeds(c) \/ OpenFails(c)
  \/ Nest(c) \/ Lock(c) \/ SetLock(c)
  \/ Unnest(c) \/ Unlock(c) \/ ClearLock(c)
  \/ GetExclusive(c) \/ CloseForExclusive(c)
  \/ ReopenSucceeds(c) \/ ReopenFails(c)
  \/ CloseSecond(c) \/ Rescan(c)
  \/ SecondSucceeds(c) \/ SecondFails(c)
  \/ Close(c) \/ CloseFile(c) \/ Die(c)

Next == \E c \in Process : Step(c)

Spec == Init /\ [][Next]_vars

-----------------------------------------------------------------------------
TypeOK ==
  /\ machine \in [ofd: BOOLEAN, second: BOOLEAN]
  /\ locks \in [Files -> Locks]
  /\ handle \in [Process -> [Files -> Modes]]
  /\ pc \in [Process -> Steps]
  /\ access \in [Process -> Access]
  /\ exclusive \in [Process -> BOOLEAN]
  /\ secondOpen \in [Process -> BOOLEAN]
  /\ lockCount \in [Process -> 0 .. LockCountMax]
  /\ refused \in [Process -> BOOLEAN]

Owns(c) == Idle(c) /\ lockCount[c] > 0 /\ ~refused[c]

(* Of the processes that were told they have the lock and were not told    *)
(* since that exclusive access failed, there is one: the lock taken before *)
(* os_Get_Exclusive is given up for as long as the handle is closed, and   *)
(* what comes back must shut out whoever took it meanwhile.                *)
(* (os_Lock_Device 3881-3901, os_Get_Exclusive 3830-3879)                  *)
OneOwner ==
  \A c, d \in Process : Owns(c) /\ Owns(d) => c = d

(* A lock of the kind the kernel offers first is only held on the drive's  *)
(* own handle while somebody is counted: no order of requests, failures    *)
(* and reopened handles leaves such a lock behind.  (os_Unlock_Device      *)
(* 3903-3923.)  The converse is not claimed, for exclusive access drops    *)
(* the lock and keeps the count (3840), nor anything of locks of the       *)
(* second kind: the unlock asks for the first kind only, which succeeds,   *)
(* so that the other stays until the device is closed (3767).              *)
HandleLockGivenBack ==
  \A c \in Process :
    locks["sg"].owner = c /\ locks["sg"].via = FirstKind =>
      lockCount[c] > 0 \/ pc[c].call = "lock"

(* A closed device holds no file and no lock, whatever the calls before it *)
(* left behind: the second handle must not be forgotten.                   *)
(* (close_Device 3231-3269, with the secondHandleOpened flag it relies on) *)
CloseGivesBack ==
  \A c \in Process : pc[c].call = "closed" =>
    \A f \in Files : handle[c][f] = "none" /\ locks[f].owner # c

(* secondHandleOpened says whether there is a descriptor in fd2: no call   *)
(* locks or closes a descriptor that is not there, or leaks one by opening *)
(* over it.  (open_fd2 1813-1853, os_Get_Exclusive 3867-3876)              *)
SecondHandleTruthful ==
  \A c \in Process : pc[c].call \notin {"closed", "open", "close"} =>
    (secondOpen[c] <=> handle[c].sd # "none")

(* A device that says its handle is exclusive is alone on the drive:       *)
(* os_Get_Exclusive does nothing for it, relying on this.                  *)
(* (get_Lin_Device 2069-2082, os_Get_Exclusive 3833)                       *)
ExclusiveIsAlone ==
  \A c \in Process :
    exclusive[c] /\ pc[c].call \notin {"closed", "open", "close"} =>
      /\ handle[c].sg = "excl"
      /\ \A d \in Process \ {c} : handle[d].sg = "none"

=============================================================================
