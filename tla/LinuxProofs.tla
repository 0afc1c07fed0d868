---------------------------- MODULE LinuxProofs ----------------------------
(***************************************************************************)
(* Proofs about the two models of the Linux layer (sg_helper.c).  The      *)
(* first part is about HandleLock, the second about DeviceScan: the one    *)
(* says what a process holds of a drive, the other which drives it finds.  *)
(***************************************************************************)
EXTENDS HandleLock, DeviceScan, FiniteSetTheorems, SequenceTheorems, TLAPS

-----------------------------------------------------------------------------
(* HandleLock, for every set of processes and every bound on the lock      *)
(* count.                                                                  *)
(*                                                                         *)
(* The inductive invariant Inv says of each process alone what the kernel  *)
(* holds for it while it is at each step of each call (Local), and of two  *)
(* processes that an exclusive sg handle shuts the other out.              *)
(* A step changes one process: the others keep their part of the invariant *)
(* because a lock changes hands only by way of its owner (Frame).          *)

(* The kernel's own kind of lock on the drive's handle.                    *)
OwnsFirst(c) == Owned(c, "sg", FirstKind)

(* Which system calls each call makes.                                     *)
HowInv(c) ==
  /\ pc[c].call \in {"open", "rescan"} => pc[c].how \in {"excl", "shared"}
  /\ pc[c].call = "exclusive" => pc[c].how \in {"close", "excl", "shared"}
  /\ pc[c].call \in {"lock", "unlock"} => pc[c].how \in {FirstKind, "posix"}

(* Which descriptors and which locks go together.                          *)
FilesInv(c) ==
  /\ \A f \in Files : locks[f].owner = c => handle[c][f] # "none"
  /\ pc[c].call \in {"closed", "open"} => \A f \in Files : handle[c][f] = "none"
  /\ pc[c].call = "close" /\ pc[c].file = "sd" => handle[c].sg = "none"
  /\ pc[c].call = "exclusive" /\ pc[c].file = "sg" /\ pc[c].how # "close" =>
       handle[c].sg = "none"
  /\ handle[c].sd # "none" => machine.second
  /\ pc[c].call = "rescan" \/ (pc[c].call = "exclusive" /\ pc[c].file = "sd") =>
       machine.second
  /\ pc[c].call = "close" => pc[c].file = "sd" \/ (secondOpen[c] <=> handle[c].sd # "none")
  /\ pc[c].call \notin {"closed", "close"} => (secondOpen[c] <=> handle[c].sd # "none")

(* The exclusive flag and the handle it is about.                          *)
FlagInv(c) ==
  /\ pc[c].call = "open" => ~exclusive[c]
  /\ pc[c].call = "exclusive" /\ pc[c].file = "sg" => ~exclusive[c]
  /\ exclusive[c] /\ pc[c].call \notin {"closed", "open", "close"} =>
       handle[c].sg = "excl"

(* Where the count says the lock is held.                                  *)
Counts(c) ==
  \/ pc[c].call \in {"idle", "rescan"}
  \/ pc[c].call = "unlock" /\ (pc[c].file = "sg" \/ ~pc[c].ok)
  \/ pc[c].call = "exclusive" /\ pc[c].file = "sd"

(* A counted lock is held, or the handle is exclusive, or os_Get_Exclusive *)
(* has failed.                                                             *)
HeldInv(c) ==
  /\ pc[c].call \in {"open", "lock"} => lockCount[c] = 0
  /\ pc[c].call = "lock" /\ pc[c].file = "sd" /\ pc[c].ok => locks["sg"].owner = c
  /\ Counts(c) /\ lockCount[c] > 0 /\ ~refused[c] =>
       locks["sg"].owner = c \/ handle[c].sg = "excl"

(* A lock of the first kind is counted, or about to be.                    *)
GivenBackInv(c) ==
  /\ OwnsFirst(c) => lockCount[c] > 0 \/ pc[c].call = "lock"
  /\ pc[c].call = "lock" /\ (pc[c].file = "sg" \/ ~pc[c].ok) => ~OwnsFirst(c)
  /\ pc[c].call = "unlock" /\ pc[c].file = "sd" /\ pc[c].ok => ~OwnsFirst(c)
  /\ pc[c].call = "unlock" /\ pc[c].file = "sg" /\ pc[c].how # FirstKind =>
       handle[c].sg = "none"

Local(c) == HowInv(c) /\ FilesInv(c) /\ FlagInv(c) /\ HeldInv(c) /\ GivenBackInv(c)

(* sg shares an exclusive handle with nobody.                              *)
Alone ==
  \A c, d \in Process :
    c # d /\ handle[c].sg = "excl" => handle[d].sg = "none"

Inv == TypeOK /\ Alone /\ \A c \in Process : Local(c)

-----------------------------------------------------------------------------
(* Where a process stands after Goto, and where the others stand.          *)
LEMMA GotoStep ==
  ASSUME NEW c \in Process, pc \in [Process -> Steps],
         NEW call, NEW file, NEW how, NEW ok, Goto(c, call, file, how, ok)
  PROVE  /\ pc'[c] = [call |-> call, file |-> file, how |-> how, ok |-> ok]
         /\ pc'[c].call = call /\ pc'[c].file = file
         /\ pc'[c].how = how /\ pc'[c].ok = ok
         /\ \A d \in Process \ {c} : pc'[d] = pc[d]
  BY DEF Goto

(* Goto to a step keeps the type of pc.                                    *)
LEMMA GotoType ==
  ASSUME NEW c \in Process, pc \in [Process -> Steps],
         NEW call, NEW file, NEW how, NEW ok, Goto(c, call, file, how, ok),
         [call |-> call, file |-> file, how |-> how, ok |-> ok] \in Steps
  PROVE  pc' \in [Process -> Steps]
  BY DEF Goto

(* A step of one process keeps the types.                                  *)
LEMMA StepTypes ==
  ASSUME TypeOK, NEW c \in Process, HowInv(c), Step(c)
  PROVE  TypeOK'
<1> USE LockCountMaxAssumption DEF TypeOK, Files, Access, Modes, Locks, Free
<1>r. ASSUME Return(c) PROVE pc' \in [Process -> Steps]
  BY <1>r, GotoType DEF Return, Steps
<1>1. ASSUME NEW a \in Access, Open(c, a) PROVE TypeOK'
  <2>1. pc' \in [Process -> Steps]
    BY <1>1, GotoType DEF Open, FirstMode, Steps
  <2>2. lockCount' \in [Process -> 0 .. LockCountMax]
    BY <1>1 DEF Open, NewDevice
  <2>3. exclusive' \in [Process -> BOOLEAN] /\ secondOpen' \in [Process -> BOOLEAN]
    BY <1>1 DEF Open, NewDevice
  <2>4. refused' \in [Process -> BOOLEAN] /\ access' \in [Process -> Access]
    BY <1>1 DEF Open, NewDevice
  <2> QED BY <1>1, <2>1, <2>2, <2>3, <2>4 DEF Open
<1>2. CASE OpenSucceeds(c)
  <2>1. pc' \in [Process -> Steps]
    BY <1>2, <1>r DEF OpenSucceeds
  <2>2. pc[c].how \in Modes
    BY <1>2 DEF OpenSucceeds, HowInv, At
  <2> QED BY <1>2, <2>1, <2>2 DEF OpenSucceeds, ExclusiveAsOpened
<1>3. CASE OpenFails(c)
  <2>1. pc' \in [Process -> Steps]
    BY <1>3, <1>r, GotoType DEF OpenFails, Steps
  <2> QED BY <1>3, <2>1 DEF OpenFails, device
<1>4. CASE Nest(c) \/ Unnest(c)
  BY <1>4 DEF Nest, Unnest, Counted
<1>5. CASE Lock(c) \/ Unlock(c) \/ GetExclusive(c) \/ Rescan(c) \/ Close(c)
  <2>1. pc' \in [Process -> Steps]
    BY <1>5, GotoType DEF Lock, Unlock, GetExclusive, Rescan, Close, FirstKind,
       FirstMode, Steps
  <2> QED BY <1>5, <2>1 DEF Lock, Unlock, GetExclusive, Rescan, Close, device
<1>6. CASE SetLock(c)
  <2>0. pc[c].how \in {"ofd", "posix"} /\ pc[c].file \in Files /\ pc[c].ok \in BOOLEAN
    BY <1>6 DEF SetLock, HowInv, FirstKind, Steps
  <2>1. pc' \in [Process -> Steps]
    BY <1>6, <1>r, <2>0, GotoType DEF SetLock, Continue, Result, Grants, FirstKind, Steps
  <2>2. locks' \in [Files -> Locks]
    BY <1>6, <2>0 DEF SetLock
  <2>3. lockCount' \in [Process -> 0 .. LockCountMax]
    BY <1>6 DEF SetLock
  <2>4. refused' \in [Process -> BOOLEAN]
    BY <1>6 DEF SetLock
  <2> QED BY <1>6, <2>1, <2>2, <2>3, <2>4 DEF SetLock
<1>7. CASE ClearLock(c)
  <2>0. pc[c].how \in {"ofd", "posix"} /\ pc[c].file \in Files /\ pc[c].ok \in BOOLEAN
    BY <1>7 DEF ClearLock, HowInv, FirstKind, Steps
  <2>1. pc' \in [Process -> Steps]
    BY <1>7, <1>r, <2>0, GotoType DEF ClearLock, Continue, Result, Unlocks, FirstKind, Steps
  <2>2. locks' \in [Files -> Locks]
    BY <1>7, <2>0 DEF ClearLock
  <2>3. lockCount' \in [Process -> 0 .. LockCountMax]
    BY <1>7 DEF ClearLock
  <2>4. refused' \in [Process -> BOOLEAN]
    BY <1>7 DEF ClearLock
  <2> QED BY <1>7, <2>1, <2>2, <2>3, <2>4 DEF ClearLock
<1>8. CASE CloseForExclusive(c)
  <2>1. pc' \in [Process -> Steps]
    BY <1>8, GotoType DEF CloseForExclusive, Steps
  <2> QED BY <1>8, <2>1 DEF CloseForExclusive, Closed, device
<1>t. ASSUME ThenSecond(c)
      PROVE  pc' \in [Process -> Steps] /\ access' \in [Process -> Access]
  <2>1. pc' \in [Process -> Steps]
    <3>1. CASE machine.second
      BY <1>t, <3>1, GotoType DEF ThenSecond, Steps
    <3>2. CASE ~machine.second
      BY <1>t, <3>2, <1>r DEF ThenSecond
    <3> QED BY <3>1, <3>2
  <2>2. access' \in [Process -> Access]
    BY <1>t DEF ThenSecond
  <2> QED BY <2>1, <2>2
<1>9. CASE ReopenSucceeds(c)
  <2>1. pc[c].how \in Modes
    BY <1>9 DEF ReopenSucceeds, HowInv, At
  <2> QED BY <1>9, <2>1, <1>t DEF ReopenSucceeds
<1>10. CASE ReopenFails(c)
  <2>1. pc' \in [Process -> Steps] /\ access' \in [Process -> Access]
    BY <1>10, <1>t, GotoType DEF ReopenFails, Steps
  <2> QED BY <1>10, <2>1 DEF ReopenFails
<1>11. CASE CloseSecond(c)
  <2>1. pc' \in [Process -> Steps]
    BY <1>11, GotoType DEF CloseSecond, Steps
  <2> QED BY <1>11, <2>1 DEF CloseSecond, Closed
<1>12. CASE SecondSucceeds(c)
  <2>1. pc[c].how \in Modes
    BY <1>12 DEF SecondSucceeds, OpensSecond, HowInv
  <2> QED BY <1>12, <2>1, <1>r DEF SecondSucceeds
<1>13. CASE SecondFails(c)
  <2>1. pc' \in [Process -> Steps]
    BY <1>13, <1>r, GotoType DEF SecondFails, OpensSecond, Steps
  <2> QED BY <1>13, <2>1 DEF SecondFails, device
<1>14. CASE CloseFile(c)
  <2>1. pc[c].file \in Files
    BY DEF Steps
  <2>2. pc' \in [Process -> Steps]
    BY <1>14, GotoType DEF CloseFile, Steps
  <2> QED BY <1>14, <2>1, <2>2 DEF CloseFile, Closed, device
<1>15. CASE Die(c)
  <2>1. pc' \in [Process -> Steps]
    BY <1>15, GotoType DEF Die, Steps
  <2> QED BY <1>15, <2>1 DEF Die, Closed, device
<1> QED BY <1>1, <1>2, <1>3, <1>4, <1>5, <1>6, <1>7, <1>8, <1>9, <1>10, <1>11,
           <1>12, <1>13, <1>14, <1>15 DEF Step

-----------------------------------------------------------------------------
(* What a step of another process leaves to d.                             *)
Frame(d) ==
  /\ machine' = machine
  /\ pc'[d] = pc[d] /\ handle'[d] = handle[d]
  /\ exclusive'[d] = exclusive[d] /\ secondOpen'[d] = secondOpen[d]
  /\ lockCount'[d] = lockCount[d] /\ refused'[d] = refused[d]
  /\ \A f \in Files : locks[f].owner = d \/ locks'[f].owner = d => locks'[f] = locks[f]

LEMMA StepFrame ==
  ASSUME TypeOK, NEW c \in Process, NEW d \in Process \ {c}, Step(c)
  PROVE  Frame(d)
<1> USE NoneAssumption DEF TypeOK, Free
<1>1. machine' = machine
  BY DEF Step, Open, OpenSucceeds, OpenFails, Nest, Lock, SetLock, Unnest, Unlock,
     ClearLock, GetExclusive, CloseForExclusive, ReopenSucceeds, ReopenFails,
     CloseSecond, Rescan, SecondSucceeds, SecondFails, Close, CloseFile, Die
<1>2. pc'[d] = pc[d]
  <2>1. ASSUME NEW call, NEW file, NEW how, NEW ok, Goto(c, call, file, how, ok)
        PROVE  pc'[d] = pc[d]
    BY <2>1, GotoStep
  <2>2. ASSUME Return(c) PROVE pc'[d] = pc[d]
    BY <2>2, <2>1 DEF Return
  <2> QED BY <2>1, <2>2 DEF Step, Open, OpenSucceeds, OpenFails, Nest, Lock, SetLock,
     Continue, Unnest, Unlock, ClearLock, GetExclusive, CloseForExclusive, ThenSecond,
     ReopenSucceeds, ReopenFails, CloseSecond, Rescan, SecondSucceeds, SecondFails,
     Close, CloseFile, Die
<1>3. handle'[d] = handle[d]
  BY DEF Step, Open, OpenSucceeds, OpenFails, Nest, Lock, SetLock, Unnest, Unlock,
     ClearLock, GetExclusive, CloseForExclusive, ReopenSucceeds, ReopenFails,
     CloseSecond, Rescan, SecondSucceeds, SecondFails, Close, CloseFile, Die
<1>4. /\ exclusive'[d] = exclusive[d] /\ secondOpen'[d] = secondOpen[d]
      /\ lockCount'[d] = lockCount[d] /\ refused'[d] = refused[d]
  BY DEF Step, Open, NewDevice, OpenSucceeds, OpenFails, Nest, Lock, SetLock, Unnest,
     Unlock, ClearLock, GetExclusive, CloseForExclusive, ReopenSucceeds, ReopenFails,
     CloseSecond, Rescan, SecondSucceeds, SecondFails, Close, CloseFile, Die, device
<1>5. ASSUME NEW f \in Files, locks[f].owner = d \/ locks'[f].owner = d
      PROVE  locks'[f] = locks[f]
  <2>1. CASE SetLock(c)
    BY <1>5, <2>1 DEF SetLock, Grants, Owned, Files
  <2>2. CASE ClearLock(c)
    BY <1>5, <2>2 DEF ClearLock, Owned, Files
  <2>3. CASE CloseForExclusive(c)
    BY <1>5, <2>3 DEF CloseForExclusive, Closed, Files
  <2>7. CASE CloseSecond(c)
    BY <1>5, <2>7 DEF CloseSecond, Closed, Files
  <2>5. CASE CloseFile(c)
    <3>1. pc[c].file \in Files
      BY DEF Steps
    <3> QED BY <1>5, <2>5, <3>1 DEF CloseFile, Closed
  <2>6. CASE Die(c)
    BY <1>5, <2>6 DEF Die, Closed
  <2>4. CASE UNCHANGED locks
    BY <2>4
  <2> QED BY <2>1, <2>2, <2>3, <2>4, <2>5, <2>6, <2>7 DEF Step, Open, OpenSucceeds,
     OpenFails, Nest, Lock, Unnest, Unlock, GetExclusive, ReopenSucceeds, ReopenFails, Rescan,
     SecondSucceeds, SecondFails, Close
<1> QED BY <1>1, <1>2, <1>3, <1>4, <1>5 DEF Frame

LEMMA FrameLocal ==
  ASSUME NEW d \in Process, Frame(d), Local(d)
  PROVE  Local(d)'
<1> USE DEF Frame, Local
<1>1. HowInv(d)'
  BY DEF HowInv, FirstKind
<1>2. FilesInv(d)'
  BY DEF FilesInv
<1>3. FlagInv(d)'
  BY DEF FlagInv
<1>4. HeldInv(d)'
  BY DEF HeldInv, Counts, Files
<1>5. GivenBackInv(d)'
  BY DEF GivenBackInv, OwnsFirst, Owned, FirstKind, Files
<1> QED BY <1>1, <1>2, <1>3, <1>4, <1>5

-----------------------------------------------------------------------------
(* A step of c keeps the invariant of c.  First the steps that change only *)
(* where c stands, then the others action by action.                       *)
LEMMA BeginLocal ==
  ASSUME TypeOK, NEW c \in Process, Local(c),
         Lock(c) \/ Unlock(c) \/ GetExclusive(c) \/ Rescan(c) \/ Close(c)
  PROVE  Local(c)'
<1>1. /\ machine' = machine /\ locks' = locks /\ handle' = handle
      /\ exclusive' = exclusive /\ secondOpen' = secondOpen
      /\ lockCount' = lockCount /\ refused' = refused
  BY DEF Lock, Unlock, GetExclusive, Rescan, Close, device
<1>2. pc[c].call = "idle"
  BY DEF Lock, Unlock, GetExclusive, Rescan, Close, Idle
<1>3. \/ /\ pc'[c].call = "lock" /\ pc'[c].file = "sg" /\ pc'[c].how = FirstKind
         /\ lockCount[c] = 0
      \/ /\ pc'[c].call = "unlock" /\ pc'[c].file = "sg" /\ pc'[c].how = FirstKind
      \/ /\ pc'[c].call = "exclusive" /\ pc'[c].file = "sg" /\ pc'[c].how = "close"
         /\ ~exclusive[c]
      \/ /\ pc'[c].call = "rescan" /\ pc'[c].how \in {"excl", "shared"}
         /\ machine.second
      \/ pc'[c].call = "close" /\ pc'[c].file = "sg"
  <2>0. pc \in [Process -> Steps]
    BY DEF TypeOK
  <2>1. CASE Lock(c)
    BY <2>0, <2>1 DEF Goto, Lock
  <2>2. CASE Unlock(c)
    BY <2>0, <2>2 DEF Goto, Unlock
  <2>3. CASE GetExclusive(c)
    BY <2>0, <2>3 DEF Goto, GetExclusive
  <2>4. CASE Rescan(c)
    BY <2>0, <2>4 DEF Goto, Rescan, FirstMode
  <2>5. CASE Close(c)
    BY <2>0, <2>5 DEF Goto, Close
  <2> QED BY <2>1, <2>2, <2>3, <2>4, <2>5
<1>4. FirstKind' = FirstKind /\ lockCount[c] \in Nat
  BY <1>1 DEF FirstKind, TypeOK
<1>5. HowInv(c)'
  BY <1>3, <1>4 DEF HowInv
<1>6. FilesInv(c)'
  BY <1>1, <1>2, <1>3 DEF Local, FilesInv
<1>7. FlagInv(c)'
  BY <1>1, <1>2, <1>3 DEF Local, FlagInv
<1>8. HeldInv(c)'
  BY <1>1, <1>2, <1>3 DEF Local, HeldInv, Counts
<1>9. GivenBackInv(c)'
  BY <1>1, <1>2, <1>3, <1>4 DEF Local, GivenBackInv, OwnsFirst, Owned
<1> QED BY <1>5, <1>6, <1>7, <1>8, <1>9 DEF Local

LEMMA NestLocal ==
  ASSUME TypeOK, NEW c \in Process, Local(c), Nest(c) \/ Unnest(c)
  PROVE  Local(c)'
<1>1. /\ machine' = machine /\ locks' = locks /\ handle' = handle /\ pc' = pc
      /\ exclusive' = exclusive /\ secondOpen' = secondOpen /\ refused' = refused
      /\ pc[c].call = "idle" /\ lockCount[c] > 0 /\ lockCount'[c] > 0
  BY LockCountMaxAssumption DEF Nest, Unnest, Idle, Counted, TypeOK
<1> QED BY <1>1 DEF Local, HowInv, FilesInv, FlagInv, HeldInv, GivenBackInv, Counts,
        OwnsFirst, Owned, FirstKind

LEMMA OpenLocal ==
  ASSUME TypeOK, NEW c \in Process, Local(c),
         (\E a \in Access : Open(c, a)) \/ OpenSucceeds(c) \/ OpenFails(c)
  PROVE  Local(c)'
<1>0. pc \in [Process -> Steps]
  BY DEF TypeOK
<1>1. ASSUME NEW a \in Access, Open(c, a) PROVE Local(c)'
  <2>1. /\ machine' = machine /\ locks' = locks /\ handle' = handle
        /\ pc[c].call = "closed" /\ pc'[c].call = "open"
        /\ pc'[c].how \in {"excl", "shared"}
    BY <1>0, <1>1 DEF Goto, Open, FirstMode
  <2>2. ~exclusive'[c] /\ ~secondOpen'[c] /\ lockCount'[c] = 0 /\ ~refused'[c]
    BY <1>1 DEF Open, NewDevice, TypeOK
  <2> QED BY <2>1, <2>2 DEF Local, HowInv, FilesInv, FlagInv, HeldInv, GivenBackInv,
          Counts, OwnsFirst, Owned, FirstKind, Files
<1>2. CASE OpenSucceeds(c)
  <2>1. /\ machine' = machine /\ locks' = locks /\ lockCount' = lockCount
        /\ secondOpen' = secondOpen /\ refused' = refused
        /\ pc[c].call = "open" /\ pc'[c].call = "idle"
    BY <1>2 DEF Goto, OpenSucceeds, At, Return, TypeOK
  <2>2. /\ handle'[c].sg = pc[c].how /\ handle'[c].sd = handle[c].sd
        /\ exclusive'[c] = (pc[c].how = "excl") /\ pc[c].how \in {"excl", "shared"}
    BY <1>2, <2>1 DEF OpenSucceeds, ExclusiveAsOpened, TypeOK, Files, Local, HowInv
  <2>3. FilesInv(c)'
    BY <2>1, <2>2 DEF Local, FilesInv, Files
  <2>4. FlagInv(c)' /\ HowInv(c)'
    BY <2>1, <2>2 DEF FlagInv, HowInv
  <2>5. HeldInv(c)' /\ GivenBackInv(c)'
    BY <2>1, <2>2 DEF Local, FilesInv, HeldInv, GivenBackInv, Counts, OwnsFirst, Owned,
       FirstKind, Files
  <2> QED BY <2>3, <2>4, <2>5 DEF Local
<1>3. CASE OpenFails(c)
  <2>1. /\ machine' = machine /\ locks' = locks /\ lockCount' = lockCount
        /\ secondOpen' = secondOpen /\ refused' = refused /\ exclusive' = exclusive
        /\ handle' = handle /\ pc[c].call = "open"
    BY <1>3 DEF OpenFails, At, device
  <2>2. \/ pc'[c].call = "open" /\ pc'[c].how = "shared"
        \/ pc'[c].call = "idle"
        \/ pc'[c].call = "closed"
    <3>1. CASE RetriesShared(c, pc[c].how)
      BY <1>0, <1>3, <3>1 DEF Goto, OpenFails
    <3>2. CASE ~RetriesShared(c, pc[c].how) /\ access[c] = "request"
      BY <1>0, <1>3, <3>2 DEF Goto, OpenFails, Return
    <3>3. CASE ~RetriesShared(c, pc[c].how) /\ access[c] # "request"
      BY <1>0, <1>3, <3>3 DEF Goto, OpenFails
    <3> QED BY <3>1, <3>2, <3>3
  <2> QED BY <2>1, <2>2 DEF Local, HowInv, FilesInv, FlagInv, HeldInv, GivenBackInv,
          Counts, OwnsFirst, Owned, FirstKind, Files
<1> QED BY <1>1, <1>2, <1>3

LEMMA SetLockLocal ==
  ASSUME TypeOK, NEW c \in Process, Local(c), SetLock(c)
  PROVE  Local(c)'
<1> DEFINE f == pc[c].file
           how == pc[c].how
           granted == Grants(c, f, how)
           ok == Result(c, granted)
<1>0. pc \in [Process -> Steps]
  BY DEF TypeOK
<1>1. /\ machine' = machine /\ handle' = handle /\ exclusive' = exclusive
      /\ secondOpen' = secondOpen /\ FirstKind' = FirstKind
      /\ pc[c].call = "lock" /\ lockCount[c] = 0 /\ f \in Files
      /\ how \in {FirstKind, "posix"}
  BY <1>0 DEF SetLock, FirstKind, Local, HeldInv, HowInv, Steps
<1>2. /\ granted => locks'[f] = [owner |-> c, via |-> how] /\ handle[c][f] # "none"
      /\ ~granted => locks'[f] = locks[f]
      /\ \A g \in Files \ {f} : locks'[g] = locks[g]
  BY <1>1 DEF SetLock, TypeOK, Grants
<1>3. CASE ~granted /\ how = "ofd"
  <2>1. /\ pc'[c].call = "lock" /\ pc'[c].file = f /\ pc'[c].how = "posix"
        /\ pc'[c].ok = pc[c].ok /\ lockCount' = lockCount /\ refused' = refused
    BY <1>0, <1>3 DEF SetLock, Goto
  <2>2. \A g \in Files : locks'[g] = locks[g]
    BY <1>2, <1>3
  <2>3. HowInv(c)' /\ FlagInv(c)'
    BY <1>1, <2>1 DEF Local, HowInv, FlagInv
  <2>4. FilesInv(c)'
    BY <1>1, <2>1, <2>2 DEF Local, FilesInv
  <2>5. HeldInv(c)' /\ GivenBackInv(c)'
    BY <1>1, <2>1, <2>2 DEF Local, HeldInv, GivenBackInv, Counts, OwnsFirst, Owned, Files
  <2> QED BY <2>3, <2>4, <2>5 DEF Local
<1>4. CASE ~(~granted /\ how = "ofd") /\ IsLast(c)
  <2>1. pc'[c].call = "idle"
    BY <1>0, <1>4 DEF SetLock, Continue, Return, Goto
  <2>2. IF ok THEN lockCount'[c] = 1 /\ ~refused'[c]
        ELSE lockCount'[c] = 0 /\ refused'[c] = refused[c]
    BY <1>1, <1>4 DEF SetLock, TypeOK
  <2>3. HowInv(c)'
    BY <2>1 DEF HowInv
  <2>4. FilesInv(c)'
    BY <1>1, <1>2, <2>1 DEF Local, FilesInv, Files
  <2>5. FlagInv(c)'
    BY <1>1, <2>1 DEF Local, FlagInv
  <2>6. ok => locks'["sg"].owner = c
    BY <1>1, <1>2 DEF Result, Local, HeldInv, Files
  <2>7. HeldInv(c)'
    BY <2>1, <2>2, <2>6 DEF HeldInv
  <2>8. ~ok => ~OwnsFirst(c)'
    BY <1>1, <1>2 DEF Result, Local, GivenBackInv, OwnsFirst, Owned, Files
  <2>9. GivenBackInv(c)'
    BY <2>1, <2>2, <2>8 DEF GivenBackInv
  <2> QED BY <2>3, <2>4, <2>5, <2>7, <2>9 DEF Local
<1>5. CASE ~(~granted /\ how = "ofd") /\ ~IsLast(c)
  <2>1. /\ pc'[c].call = "lock" /\ pc'[c].file = "sd" /\ pc'[c].how = FirstKind
        /\ pc'[c].ok = granted /\ f = "sg"
        /\ lockCount' = lockCount /\ refused' = refused
    BY <1>0, <1>5 DEF SetLock, Continue, Goto, IsLast, Result
  <2>2. HowInv(c)' /\ FlagInv(c)'
    BY <1>1, <2>1 DEF Local, HowInv, FlagInv
  <2>3. FilesInv(c)'
    BY <1>1, <1>2, <2>1 DEF Local, FilesInv, Files
  <2>4. HeldInv(c)'
    BY <1>1, <1>2, <2>1 DEF HeldInv, Counts
  <2>5. GivenBackInv(c)'
    BY <1>1, <1>2, <2>1 DEF Local, GivenBackInv, OwnsFirst, Owned
  <2> QED BY <2>2, <2>3, <2>4, <2>5 DEF Local
<1> QED BY <1>3, <1>4, <1>5

LEMMA ClearLockLocal ==
  ASSUME TypeOK, NEW c \in Process, Local(c), ClearLock(c)
  PROVE  Local(c)'
<1> DEFINE f == pc[c].file
           how == pc[c].how
           done == Unlocks(c, f)
           ok == Result(c, done)
<1>0. pc \in [Process -> Steps]
  BY DEF TypeOK
<1>1. /\ machine' = machine /\ handle' = handle /\ exclusive' = exclusive
      /\ secondOpen' = secondOpen /\ refused' = refused /\ FirstKind' = FirstKind
      /\ pc[c].call = "unlock" /\ f \in Files /\ how \in {FirstKind, "posix"}
  BY <1>0 DEF ClearLock, FirstKind, Local, HowInv, Steps
<1>2. /\ \A g \in Files \ {f} : locks'[g] = locks[g]
      /\ done /\ Owned(c, f, how) => locks'[f] = Free
      /\ ~(done /\ Owned(c, f, how)) => locks'[f] = locks[f]
  BY <1>1 DEF ClearLock, TypeOK
<1>3. \A g \in Files : locks'[g].owner = c => locks'[g] = locks[g]
  BY <1>1, <1>2, NoneAssumption DEF Free
<1>4. ~done /\ f = "sg" => locks'["sg"] = locks["sg"] /\ handle[c].sg = "none"
  BY <1>1, <1>2 DEF Unlocks
<1>5. f = "sg" /\ done => ~OwnsFirst(c)'
  BY <1>1, <1>2, NoneAssumption DEF Unlocks, Local, GivenBackInv, OwnsFirst, Owned, Free
<1>6. CASE ~done /\ how = "ofd"
  <2>1. /\ pc'[c].call = "unlock" /\ pc'[c].file = f /\ pc'[c].how = "posix"
        /\ pc'[c].ok = pc[c].ok /\ lockCount' = lockCount
    BY <1>0, <1>6 DEF ClearLock, Goto
  <2>2. HowInv(c)' /\ FlagInv(c)'
    BY <1>1, <2>1 DEF Local, HowInv, FlagInv
  <2>3. FilesInv(c)'
    BY <1>1, <1>3, <2>1 DEF Local, FilesInv
  <2>4. \A g \in Files : locks'[g] = locks[g]
    BY <1>2, <1>6
  <2>5. HeldInv(c)'
    BY <1>1, <2>1, <2>4 DEF Local, HeldInv, Counts, Files
  <2>6. GivenBackInv(c)'
    BY <1>1, <1>4, <1>6, <2>1, <2>4 DEF Local, GivenBackInv, OwnsFirst, Owned, Files
  <2> QED BY <2>2, <2>3, <2>5, <2>6 DEF Local
<1>7. CASE ~(~done /\ how = "ofd") /\ IsLast(c)
  <2>1. pc'[c].call = "idle"
    BY <1>0, <1>7 DEF ClearLock, Continue, Return, Goto
  <2>2. IF ok THEN lockCount'[c] = 0 ELSE lockCount'[c] = lockCount[c]
    BY <1>1, <1>7 DEF ClearLock, TypeOK
  <2>3. HowInv(c)'
    BY <2>1 DEF HowInv
  <2>4. FilesInv(c)'
    BY <1>1, <1>3, <2>1 DEF Local, FilesInv
  <2>5. FlagInv(c)'
    BY <1>1, <2>1 DEF Local, FlagInv
  <2>6. ~ok => locks'["sg"] = locks["sg"]
    BY <1>1, <1>2, <1>4 DEF Result, Files
  <2>7. HeldInv(c)'
    BY <1>1, <2>1, <2>2, <2>6 DEF Result, Local, HeldInv, Counts, Files
  <2>8. ok => ~OwnsFirst(c)'
    BY <1>1, <1>2, <1>5 DEF Result, Local, GivenBackInv, OwnsFirst, Owned, Files
  <2>9. GivenBackInv(c)'
    BY <1>1, <2>1, <2>2, <2>6, <2>8 DEF Local, GivenBackInv, OwnsFirst, Owned
  <2> QED BY <2>3, <2>4, <2>5, <2>7, <2>9 DEF Local
<1>8. CASE ~(~done /\ how = "ofd") /\ ~IsLast(c)
  <2>1. /\ pc'[c].call = "unlock" /\ pc'[c].file = "sd" /\ pc'[c].how = FirstKind
        /\ pc'[c].ok = done /\ f = "sg" /\ lockCount' = lockCount
    BY <1>0, <1>8 DEF ClearLock, Continue, Goto, IsLast, Result
  <2>2. HowInv(c)' /\ FlagInv(c)'
    BY <1>1, <2>1 DEF Local, HowInv, FlagInv
  <2>3. FilesInv(c)'
    BY <1>1, <1>3, <2>1 DEF Local, FilesInv
  <2>4. HeldInv(c)'
    BY <1>1, <1>4, <2>1 DEF Local, HeldInv, Counts
  <2>5. GivenBackInv(c)'
    BY <1>1, <1>4, <1>5, <2>1 DEF Local, GivenBackInv, OwnsFirst, Owned
  <2> QED BY <2>2, <2>3, <2>4, <2>5 DEF Local
<1> QED BY <1>6, <1>7, <1>8

LEMMA ExclusiveLocal ==
  ASSUME TypeOK, NEW c \in Process, Local(c),
         CloseForExclusive(c) \/ ReopenSucceeds(c) \/ ReopenFails(c)
  PROVE  Local(c)'
<1>0. pc \in [Process -> Steps] /\ handle \in [Process -> [Files -> Modes]]
  BY DEF TypeOK
<1>1. CASE CloseForExclusive(c)
  <2>1. /\ machine' = machine /\ exclusive' = exclusive /\ secondOpen' = secondOpen
        /\ lockCount' = lockCount /\ refused' = refused /\ ~exclusive[c]
        /\ pc[c].call = "exclusive" /\ FirstKind' = FirstKind
    BY <1>1 DEF CloseForExclusive, At, device, Local, FlagInv, FirstKind
  <2>2. handle'[c].sg = "none" /\ handle'[c].sd = handle[c].sd
    BY <1>0, <1>1 DEF CloseForExclusive, Files
  <2>3. locks'["sg"].owner # c /\ locks'["sd"] = locks["sd"]
    BY <1>1, NoneAssumption DEF CloseForExclusive, Closed, Free, TypeOK, Files
  <2>4. pc'[c].call = "exclusive" /\ pc'[c].file = "sg" /\ pc'[c].how = "excl"
    BY <1>0, <1>1 DEF CloseForExclusive, Goto
  <2>5. HowInv(c)' /\ FlagInv(c)'
    BY <2>1, <2>4 DEF HowInv, FlagInv
  <2>6. FilesInv(c)'
    BY <2>1, <2>2, <2>3, <2>4 DEF Local, FilesInv, Files
  <2>7. HeldInv(c)' /\ GivenBackInv(c)'
    BY <2>1, <2>3, <2>4 DEF HeldInv, Counts, GivenBackInv, OwnsFirst, Owned
  <2> QED BY <2>5, <2>6, <2>7 DEF Local
<1>2. ASSUME ThenSecond(c)
      PROVE  \/ /\ pc'[c].call = "exclusive" /\ pc'[c].file = "sd"
                /\ pc'[c].how \in {"close", "excl"} /\ machine.second
             \/ pc'[c].call = "idle"
  <2>1. CASE machine.second
    BY <1>0, <1>2, <2>1 DEF ThenSecond, Goto
  <2>2. CASE ~machine.second
    BY <1>0, <1>2, <2>2 DEF ThenSecond, Return, Goto
  <2> QED BY <2>1, <2>2
<1>3. CASE ReopenSucceeds(c)
  <2>1. /\ machine' = machine /\ locks' = locks /\ secondOpen' = secondOpen
        /\ lockCount' = lockCount /\ FirstKind' = FirstKind
        /\ pc[c].call = "exclusive" /\ pc[c].file = "sg" /\ pc[c].how # "close"
        /\ pc[c].how \in {"excl", "shared"}
    BY <1>3 DEF ReopenSucceeds, At, FirstKind, Local, HowInv
  <2>2. handle'[c].sg = pc[c].how /\ handle'[c].sd = handle[c].sd
    BY <1>0, <1>3 DEF ReopenSucceeds, Files
  <2>3. /\ exclusive'[c] => pc[c].how = "excl"
        /\ ~refused'[c] => pc[c].how = "excl"
    BY <1>3, <2>1 DEF ReopenSucceeds, TypeOK
  <2>4. \/ /\ pc'[c].call = "exclusive" /\ pc'[c].file = "sd"
           /\ pc'[c].how \in {"close", "excl"} /\ machine.second
        \/ pc'[c].call = "idle"
    BY <1>2, <1>3 DEF ReopenSucceeds
  <2>5. HowInv(c)' /\ FlagInv(c)'
    BY <2>2, <2>3, <2>4 DEF HowInv, FlagInv
  <2>6. FilesInv(c)'
    BY <2>1, <2>2, <2>4 DEF Local, FilesInv, Files
  <2>7. HeldInv(c)'
    BY <2>2, <2>3, <2>4 DEF HeldInv
  <2>8. GivenBackInv(c)'
    BY <2>1, <2>4 DEF Local, GivenBackInv, OwnsFirst, Owned
  <2> QED BY <2>5, <2>6, <2>7, <2>8 DEF Local
<1>4. CASE ReopenFails(c)
  <2>1. /\ machine' = machine /\ locks' = locks /\ secondOpen' = secondOpen
        /\ lockCount' = lockCount /\ handle' = handle /\ exclusive' = exclusive
        /\ FirstKind' = FirstKind /\ pc[c].call = "exclusive" /\ pc[c].file = "sg"
        /\ pc[c].how # "close" /\ ~exclusive[c] /\ refused'[c]
    BY <1>4 DEF ReopenFails, At, FirstKind, Local, FlagInv, TypeOK
  <2>2. \/ /\ pc'[c].call = "exclusive" /\ pc'[c].file = "sg" /\ pc'[c].how = "shared"
        \/ /\ pc'[c].call = "exclusive" /\ pc'[c].file = "sd"
           /\ pc'[c].how \in {"close", "excl"} /\ machine.second
        \/ pc'[c].call = "idle"
    <3>1. CASE pc[c].how = "excl"
      BY <1>0, <1>4, <3>1 DEF ReopenFails, Goto
    <3>2. CASE pc[c].how # "excl"
      BY <1>2, <1>4, <3>2 DEF ReopenFails
    <3> QED BY <3>1, <3>2
  <2>3. HowInv(c)' /\ FlagInv(c)'
    BY <2>1, <2>2 DEF HowInv, FlagInv
  <2>4. FilesInv(c)'
    BY <2>1, <2>2 DEF Local, FilesInv, Files
  <2>5. HeldInv(c)'
    BY <2>1, <2>2 DEF HeldInv
  <2>6. GivenBackInv(c)'
    BY <2>1, <2>2 DEF Local, GivenBackInv, OwnsFirst, Owned
  <2> QED BY <2>3, <2>4, <2>5, <2>6 DEF Local
<1> QED BY <1>1, <1>3, <1>4

LEMMA SecondLocal ==
  ASSUME TypeOK, NEW c \in Process, Local(c),
         CloseSecond(c) \/ SecondSucceeds(c) \/ SecondFails(c)
  PROVE  Local(c)'
<1>0. pc \in [Process -> Steps] /\ handle \in [Process -> [Files -> Modes]]
  BY DEF TypeOK
<1>1. /\ machine' = machine /\ exclusive' = exclusive /\ lockCount' = lockCount
      /\ refused' = refused /\ FirstKind' = FirstKind
      /\ pc[c].call \in {"exclusive", "rescan"}
      /\ pc[c].call = "exclusive" => pc[c].file = "sd"
  BY DEF CloseSecond, SecondSucceeds, SecondFails, OpensSecond, At, device, FirstKind
<1>2. handle'[c].sg = handle[c].sg /\ locks'["sg"] = locks["sg"]
  <2>1. CASE CloseSecond(c)
    BY <1>0, <2>1 DEF CloseSecond, Files, TypeOK
  <2>2. CASE SecondSucceeds(c)
    BY <1>0, <2>2 DEF SecondSucceeds, Files
  <2>3. CASE SecondFails(c)
    BY <2>3 DEF SecondFails
  <2> QED BY <2>1, <2>2, <2>3
<1>3. \/ /\ pc'[c].call = "exclusive" /\ pc'[c].file = "sd"
         /\ pc'[c].how \in {"excl", "shared"}
      \/ pc'[c].call = "rescan" /\ pc'[c].how \in {"excl", "shared"}
      \/ pc'[c].call = "idle"
  <2>1. CASE CloseSecond(c)
    BY <1>0, <2>1 DEF CloseSecond, Goto
  <2>2. CASE SecondSucceeds(c)
    BY <1>0, <2>2 DEF SecondSucceeds, Return, Goto
  <2>3. CASE SecondFails(c) /\ RetriesShared(c, pc[c].how)
    BY <1>0, <1>1, <2>3 DEF SecondFails, Goto
  <2>4. CASE SecondFails(c) /\ ~RetriesShared(c, pc[c].how)
    BY <1>0, <2>4 DEF SecondFails, Return, Goto
  <2> QED BY <2>1, <2>2, <2>3, <2>4
<1>4. /\ locks'["sd"].owner = c => handle'[c].sd # "none"
      /\ secondOpen'[c] <=> handle'[c].sd # "none"
      /\ handle'[c].sd # "none" => machine.second
  <2>1. CASE CloseSecond(c)
    BY <1>0, <2>1, NoneAssumption DEF CloseSecond, Closed, Free, TypeOK, Files
  <2>2. CASE SecondSucceeds(c)
    <3>1. machine.second /\ pc[c].how # "none"
      BY <1>1, <2>2 DEF SecondSucceeds, OpensSecond, Local, HowInv, FilesInv
    <3>2. handle'[c].sd = pc[c].how
      BY <1>0, <2>2 DEF SecondSucceeds, Files
    <3>3. secondOpen'[c]
      BY <2>2 DEF SecondSucceeds, TypeOK
    <3> QED BY <3>1, <3>2, <3>3
  <2>3. CASE SecondFails(c)
    BY <1>1, <2>3 DEF SecondFails, device, Local, FilesInv, Files
  <2> QED BY <2>1, <2>2, <2>3
<1>5. HowInv(c)' /\ FlagInv(c)'
  BY <1>1, <1>2, <1>3 DEF Local, HowInv, FlagInv
<1>6. FilesInv(c)'
  BY <1>1, <1>2, <1>3, <1>4 DEF Local, FilesInv, Files
<1>7. HeldInv(c)'
  BY <1>1, <1>2, <1>3 DEF Local, HeldInv, Counts
<1>8. GivenBackInv(c)'
  BY <1>1, <1>2, <1>3 DEF Local, GivenBackInv, OwnsFirst, Owned
<1> QED BY <1>5, <1>6, <1>7, <1>8 DEF Local

LEMMA CloseLocal ==
  ASSUME TypeOK, NEW c \in Process, Local(c), CloseFile(c) \/ Die(c)
  PROVE  Local(c)'
<1>0. pc \in [Process -> Steps] /\ handle \in [Process -> [Files -> Modes]]
  BY DEF TypeOK
<1>1. /\ machine' = machine /\ secondOpen' = secondOpen /\ lockCount' = lockCount
      /\ exclusive' = exclusive
  BY DEF CloseFile, Die, device
<1>2. \/ /\ pc'[c].call = "closed"
         /\ \A f \in Files : handle'[c][f] = "none" /\ locks'[f].owner # c
      \/ /\ pc'[c].call = "close" /\ pc'[c].file = "sd" /\ handle'[c].sg = "none"
         /\ locks'["sg"].owner # c /\ locks'["sd"] = locks["sd"]
         /\ handle'[c].sd = handle[c].sd
  <2>1. CASE Die(c)
    BY <1>0, <2>1, NoneAssumption DEF Die, Goto, Closed, Free
  <2>2. CASE CloseFile(c) /\ pc[c].file = "sd"
    <3>1. handle[c].sg = "none" /\ locks["sg"].owner # c
      BY <2>2 DEF CloseFile, Local, FilesInv, Files
    <3>2. pc'[c].call = "closed"
      BY <1>0, <2>2 DEF CloseFile, IsLast, Goto
    <3> QED BY <1>0, <2>2, <3>1, <3>2, NoneAssumption
            DEF CloseFile, Closed, Free, Files, TypeOK
  <2>3. CASE CloseFile(c) /\ pc[c].file = "sg" /\ IsLast(c)
    <3>1. handle[c].sd = "none" /\ locks["sd"].owner # c
      BY <2>3 DEF CloseFile, IsLast, Local, FilesInv, Files
    <3>2. pc'[c].call = "closed"
      BY <1>0, <2>3 DEF CloseFile, Goto
    <3> QED BY <1>0, <2>3, <3>1, <3>2, NoneAssumption
            DEF CloseFile, Closed, Free, Files, TypeOK
  <2>4. CASE CloseFile(c) /\ pc[c].file = "sg" /\ ~IsLast(c)
    <3>1. pc'[c].call = "close" /\ pc'[c].file = "sd"
      BY <1>0, <2>4 DEF CloseFile, Goto
    <3> QED BY <1>0, <2>4, <3>1, NoneAssumption
            DEF CloseFile, Closed, Free, Files, TypeOK
  <2>5. pc[c].file \in {"sg", "sd"}
    BY <1>0 DEF Steps, Files
  <2> QED BY <2>1, <2>2, <2>3, <2>4, <2>5
<1>3. HowInv(c)' /\ FlagInv(c)' /\ HeldInv(c)'
  BY <1>2 DEF HowInv, FlagInv, HeldInv, Counts
<1>4. FilesInv(c)'
  BY <1>1, <1>2 DEF Local, FilesInv, Files
<1>5. GivenBackInv(c)'
  <2>1. locks'["sg"].owner # c
    BY <1>2 DEF Files
  <2> QED BY <1>2, <2>1 DEF GivenBackInv, OwnsFirst, Owned
<1> QED BY <1>3, <1>4, <1>5 DEF Local

-----------------------------------------------------------------------------
LEMMA StepLocal ==
  ASSUME TypeOK, NEW c \in Process, Local(c), Step(c)
  PROVE  Local(c)'
BY BeginLocal, NestLocal, OpenLocal, SetLockLocal, ClearLockLocal, ExclusiveLocal,
   SecondLocal, CloseLocal DEF Step

(* The sg handle of c is what it was, or gone, or newly granted.           *)
LEMMA StepHandle ==
  ASSUME TypeOK, NEW c \in Process, Local(c), Step(c)
  PROVE  \/ handle'[c].sg \in {handle[c].sg, "none"}
         \/ CanOpen(c, "sg", handle'[c].sg) /\ handle'[c].sg \in {"excl", "shared"}
<1>0. handle \in [Process -> [Files -> Modes]]
  BY DEF TypeOK
<1>1. CASE OpenSucceeds(c)
  BY <1>0, <1>1 DEF OpenSucceeds, At, Local, HowInv, Files
<1>2. CASE ReopenSucceeds(c)
  BY <1>0, <1>2 DEF ReopenSucceeds, At, Local, HowInv, Files
<1>3. CASE CloseForExclusive(c)
  BY <1>0, <1>3 DEF CloseForExclusive, Files
<1>4. CASE CloseSecond(c) \/ SecondSucceeds(c)
  BY <1>0, <1>4 DEF CloseSecond, SecondSucceeds, Files
<1>5. CASE CloseFile(c)
  <2>1. pc[c].file \in Files
    BY DEF TypeOK, Steps
  <2> QED BY <1>0, <1>5, <2>1 DEF CloseFile, Files
<1>6. CASE Die(c)
  BY <1>0, <1>6 DEF Die, Files
<1>7. CASE handle' = handle
  BY <1>7
<1> QED BY <1>1, <1>2, <1>3, <1>4, <1>5, <1>6, <1>7 DEF Step, Open, OpenFails, Nest,
    Lock, SetLock, Unnest, Unlock, ClearLock, GetExclusive, ReopenFails, Rescan,
    SecondFails, Close

LEMMA StepAlone ==
  ASSUME TypeOK, Alone, NEW c \in Process, Local(c), Step(c)
  PROVE  Alone'
<1> SUFFICES ASSUME NEW d \in Process, NEW e \in Process, d # e,
                    handle'[d].sg = "excl"
             PROVE  handle'[e].sg = "none"
  BY DEF Alone
<1>1. \A x \in Process \ {c} : handle'[x] = handle[x]
  BY StepFrame DEF Frame
<1>2. \/ handle'[c].sg \in {handle[c].sg, "none"}
      \/ CanOpen(c, "sg", handle'[c].sg) /\ handle'[c].sg \in {"excl", "shared"}
  BY StepHandle
<1> QED BY <1>1, <1>2 DEF Alone, CanOpen

LEMMA StepInv ==
  ASSUME Inv, Next
  PROVE  Inv'
<1>1. PICK c \in Process : Step(c)
  BY DEF Next
<1>2. TypeOK'
  BY <1>1, StepTypes DEF Inv, Local
<1>3. Alone'
  BY <1>1, StepAlone DEF Inv
<1>4. ASSUME NEW d \in Process PROVE Local(d)'
  <2>1. CASE d = c
    BY <1>1, <2>1, StepLocal DEF Inv
  <2>2. CASE d # c
    BY <1>1, <2>2, StepFrame, FrameLocal DEF Inv
  <2> QED BY <2>1, <2>2
<1> QED BY <1>2, <1>3, <1>4 DEF Inv

LEMMA InitInv ==
  ASSUME Init
  PROVE  Inv
<1>1. TypeOK
  BY LockCountMaxAssumption DEF Init, TypeOK, Files, Access, Steps, Modes, Locks, Free
<1>2. Alone
  BY DEF Init, Alone, Files
<1>3. ASSUME NEW c \in Process PROVE Local(c)
  <2>1. /\ pc[c].call = "closed" /\ locks["sg"].owner = None
        /\ \A f \in Files : handle[c][f] = "none" /\ locks[f].owner = None
    BY DEF Init, Files, Free
  <2>2. c # None
    BY NoneAssumption
  <2> QED BY <2>1, <2>2 DEF Local, HowInv, FilesInv, FlagInv, HeldInv, GivenBackInv,
             Counts, OwnsFirst, Owned, Files
<1> QED BY <1>1, <1>2, <1>3 DEF Inv

(* A stuttering step changes nothing of the invariant.                     *)
LEMMA StutterInv ==
  ASSUME Inv, UNCHANGED vars
  PROVE  Inv'
BY DEF Inv, vars, device, TypeOK, Alone, Local, HowInv, FilesInv, FlagInv, HeldInv,
   GivenBackInv, Counts, OwnsFirst, Owned, FirstKind

(* The invariant holds for any number of processes.                        *)
THEOREM Invariance == Spec => []Inv
<1>1. Init => Inv
  BY InitInv
<1>2. Inv /\ [Next]_vars => Inv'
  BY StepInv, StutterInv
<1> QED BY <1>1, <1>2, PTL DEF Spec

(* The variables keep their types: the lock count stays in its 16 bits.    *)
THEOREM TypeCorrect == Spec => []TypeOK
<1>1. Inv => TypeOK
  BY DEF Inv
<1> QED BY <1>1, Invariance, PTL

(* Two processes never both believe the lock is theirs: os_Lock_Device and *)
(* os_Get_Exclusive, in whatever order they interleave (sg_helper.c        *)
(* 3830-3901).  A process whose os_Get_Exclusive was refused does not      *)
(* believe it any more, though its lockCount still says so.                *)
THEOREM MutualExclusion == Spec => []OneOwner
<1>1. Inv => OneOwner
  <2> SUFFICES ASSUME Inv, NEW c \in Process, NEW d \in Process, Owns(c), Owns(d),
                      c # d
               PROVE  FALSE
    BY DEF OneOwner
  <2>1. /\ locks["sg"].owner = c \/ handle[c].sg = "excl"
        /\ locks["sg"].owner = d \/ handle[d].sg = "excl"
    BY DEF Inv, Local, HeldInv, Counts, Owns, Idle, TypeOK
  <2>2. /\ locks["sg"].owner = c => handle[c].sg # "none"
        /\ locks["sg"].owner = d => handle[d].sg # "none"
    BY DEF Inv, Local, FilesInv, Files
  <2> QED BY <2>1, <2>2 DEF Inv, Alone
<1> QED BY <1>1, Invariance, PTL

(* No lock of the kernel's first kind is left on the drive's handle        *)
(* uncounted (os_Unlock_Device 3903-3923).  Those of the second kind are.  *)
THEOREM LocksGivenBack == Spec => []HandleLockGivenBack
<1>1. Inv => HandleLockGivenBack
  BY DEF Inv, HandleLockGivenBack, Local, GivenBackInv, OwnsFirst, Owned
<1> QED BY <1>1, Invariance, PTL

(* A closed device has returned every file and every lock (close_Device    *)
(* 3231-3269).                                                             *)
THEOREM NothingKept == Spec => [](CloseGivesBack /\ SecondHandleTruthful)
<1>1. Inv => CloseGivesBack /\ SecondHandleTruthful
  BY DEF Inv, CloseGivesBack, SecondHandleTruthful, Local, FilesInv
<1> QED BY <1>1, Invariance, PTL

(* An exclusive handle is the only one (get_Lin_Device 2069-2082).         *)
THEOREM ExclusiveAlone == Spec => []ExclusiveIsAlone
<1>1. Inv => ExclusiveIsAlone
  BY DEF Inv, ExclusiveIsAlone, Local, FlagInv, Alone
<1> QED BY <1>1, Invariance, PTL

-----------------------------------------------------------------------------
(* DeviceScan, for every set of systems, any number of drives behind a     *)
(* controller, list entries and changes while the scan runs.               *)
(*                                                                         *)
(* One inductive invariant, ScanInv.  Of the RAID handle list it says what *)
(* a singly linked list is (Whole), where its last entry is while it grows *)
(* (LastOf) and where the entry before the one looked at is while it is    *)
(* walked (ListInv); of the device list which handles and which            *)
(* controllers' drives it holds (Listed), that at most one controller's    *)
(* drives exceed it (Exceeds), and how the counters of failures relate to  *)
(* its entries (HandlesCounted, DrivesCountedRight).                       *)

Phases == {"countScan", "sysfs", "countCiss", "allocate", "listScan", "open", "ciss",
           "lun", "result", "done"}
Causes == {"device", "drive"} \cup Refusals
Results == {"none", "SUCCESS", "FAILURE", "WARN_NOT_ALL_DEVICES_ENUMERATED",
            "PERMISSION_DENIED", "DEVICE_BUSY", "BAD_PARAMETER"}
Entry == [unit: Units, drive: Nat, ok: BOOLEAN]

(* Where the scan for the device list has not begun, or has.               *)
Before == phase \in {"countScan", "sysfs", "countCiss", "allocate", "listScan"}
Walk   == phase \in {"countCiss", "ciss", "lun"}
After  == phase \in {"result", "done"}

Types ==
  /\ system \in Systems /\ present \subseteq Units
  /\ drives \in [Controllers -> 0 .. MaxDrives]
  /\ phase \in Phases
  /\ names \in Seq(Units) /\ at \in 1 .. Len(names) + 1
  /\ slots \in Nat /\ list \in Seq(Entry)
  /\ failed \in [Causes -> Nat] /\ cissAt \in Nat
  /\ luns \in [all: Nat, done: Nat] /\ luns.done <= luns.all
  /\ result \in Results

-----------------------------------------------------------------------------
(* The RAID handle list.                                                   *)

NodeType == [handle: Nat, next: Nodes \cup {NULL}]

(* A heap that is a singly linked list: it is what its beginning reaches,  *)
(* and no two pointers lead to the same entry.                             *)
Whole(h, b) ==
  /\ DOMAIN h \subseteq Nodes /\ h \in [DOMAIN h -> NodeType]
  /\ b \in DOMAIN h \cup {NULL}
  /\ \A n \in DOMAIN h : h[n].next \in DOMAIN h \cup {NULL}
  /\ Reach(h, b) = DOMAIN h
  /\ b # NULL => \A n \in DOMAIN h : h[n].next # b
  /\ \A n, m \in DOMAIN h : h[n].next = h[m].next => n = m \/ h[n].next = NULL

(* Its last entry is the current one.                                      *)
LastOf(h, b, c) ==
  /\ b = NULL <=> c = NULL
  /\ c # NULL => c \in DOMAIN h /\ h[c].next = NULL

(* No handle is in it twice.                                               *)
NoneTwice(h) == \A n, m \in DOMAIN h : h[n].handle = h[m].handle => n = m

ListInv ==
  /\ phase # "done" => Whole(heap, begin) /\ NoneTwice(heap)
  /\ phase \in {"countScan", "sysfs", "allocate", "listScan", "open"} =>
       LastOf(heap, begin, current) /\ raid = NULL /\ previous = NULL
  /\ phase \in {"countScan", "allocate", "listScan"} => begin = NULL
  /\ phase = "done" => DOMAIN heap = {}
  /\ phase \notin {"done"} => {raid, previous} \subseteq DOMAIN heap \cup {NULL}
  /\ Walk /\ raid # NULL =>
       IF previous = NULL THEN raid = begin ELSE heap[previous].next = raid
  /\ phase = "lun" => raid # NULL
  /\ \A n \in DOMAIN heap : heap[n].handle \in Units /\ RaidDriver(heap[n].handle)

-----------------------------------------------------------------------------
(* The device list.                                                        *)

NamesOnce == \A k, l \in DOMAIN names : names[k] = names[l] => k = l

HandleFound(i) == \E k \in 1 .. at - 1 : names[k] = list[i].unit

(* The entries of handles come first, each of a handle of its own; those   *)
(* of drives are of controllers already dealt with, or of the one looked   *)
(* at.                                                                     *)
Listed ==
  /\ Before => list = <<>> /\ cissAt = 0
  /\ phase = "open" => /\ cissAt = 0
                       /\ \A i \in DOMAIN list : list[i].drive = 0
                       /\ \A n \in DOMAIN heap : \E k \in 1 .. at - 1 : names[k] = heap[n].handle
  /\ ~Before => \A i \in DOMAIN list : list[i].drive = 0 => HandleFound(i)
  /\ \A i \in DOMAIN list : list[i].drive > 0 /\ list[i].ok =>
       system.sg /\ U(list[i].unit).kind = "controller"
  /\ phase \in {"open", "ciss", "lun"} /\ system.sg =>
       \A n \in DOMAIN heap : U(heap[n].handle).kind = "controller"
  /\ phase \in {"ciss", "lun"} =>
       \A i \in DOMAIN list, n \in DOMAIN heap :
          list[i].drive > 0 /\ list[i].unit = heap[n].handle =>
             phase = "lun" /\ n = raid /\ list[i].drive <= luns.done

(* The drives of the controller looked at are the end of the list, and     *)
(* they began where there was room.                                        *)
Exceeds ==
  /\ phase = "open" => Len(list) <= slots
  /\ phase = "lun" =>
       /\ luns.done <= Len(list) /\ Len(list) - luns.done < slots
       /\ \A j \in 1 .. luns.done :
            LET e == list[Len(list) - luns.done + j]
            IN  e.unit = heap[raid].handle /\ e.drive = j

-----------------------------------------------------------------------------
(* The counters of failures.                                               *)

HandleEntries == IF phase = "open" THEN Len(list) ELSE cissAt
Refused == failed["denied"] + failed["busy"] + failed["other"]

HandlesCounted ==
  /\ Before => \A w \in Causes : failed[w] = 0
  /\ ~Before /\ slots > 0 =>
       /\ HandleEntries <= Len(list)
       /\ HandleEntries + Refused = at - 1
       /\ failed["device"] <= HandleEntries
       /\ failed["device"] = HandleEntries => \A i \in 1 .. HandleEntries : ~list[i].ok
       /\ failed["device"] = 0 => \A i \in 1 .. HandleEntries : list[i].ok
       /\ Refused = 0 =>
            \A k \in 1 .. at - 1 : \E i \in 1 .. HandleEntries : list[i].unit = names[k]

DrivesCountedRight ==
  /\ phase = "open" => failed["drive"] = 0 /\ (begin # NULL => failed["device"] < Len(list))
  /\ phase \in {"ciss", "lun"} => Walked /\ failed["device"] < cissAt
  /\ After /\ Len(list) > cissAt => Walked /\ failed["device"] < cissAt
  /\ phase \in {"ciss", "lun", "result", "done"} /\ slots > 0 =>
       /\ failed["drive"] <= Len(list) - cissAt
       /\ failed["drive"] = Len(list) - cissAt =>
            \A i \in cissAt + 1 .. Len(list) : ~list[i].ok
       /\ failed["drive"] = 0 => \A i \in cissAt + 1 .. Len(list) : list[i].ok
  /\ After => cissAt <= Len(list)

Ends ==
  /\ phase # "done" => result = "none"
  /\ ~Before /\ phase # "done" => slots > 0
  /\ phase = "done" /\ slots = 0 => result = "BAD_PARAMETER" /\ list = <<>>

ScanInv == /\ Types /\ ListInv /\ NamesOnce /\ Listed /\ Exceeds
           /\ HandlesCounted /\ DrivesCountedRight /\ Ends
           /\ PastTheListOneController /\ ListedOnce /\ ResultIsTrue

-----------------------------------------------------------------------------
(* What the operations of the RAID handle list do to a linked list.        *)

(* The empty heap is a list.                                               *)
LEMMA EmptyWhole ==
  ASSUME NEW h, DOMAIN h = {}, h = [n \in {} |-> h[n]]
  PROVE  Whole(h, NULL) /\ NoneTwice(h) /\ LastOf(h, NULL, NULL)
<1>1. NextClosed({}, h, NULL)
  BY DEF NextClosed
<1>2. Reach(h, NULL) = {}
  BY <1>1 DEF Reach
<1>q. QED BY <1>2 DEF Whole, NoneTwice, LastOf

(* What is reached is everything, if no smaller set holds it.              *)
LEMMA ReachesAll ==
  ASSUME NEW h, NEW b, DOMAIN h \subseteq Nodes, NextClosed(DOMAIN h, h, b),
         \A S \in SUBSET Nodes : NextClosed(S, h, b) => DOMAIN h \subseteq S
  PROVE  Reach(h, b) = DOMAIN h
BY DEF Reach

(* A set that holds what the pointers lead to holds the whole list.        *)
LEMMA ClosedHoldsAll ==
  ASSUME NEW h, NEW b, Whole(h, b), NEW S \in SUBSET Nodes, NextClosed(S, h, b)
  PROVE  DOMAIN h \subseteq S
BY DEF Reach, Whole

(* Nothing is its own successor.                                           *)
LEMMA NoSelfLoop ==
  ASSUME NEW h, NEW b, Whole(h, b), NEW n \in DOMAIN h
  PROVE  h[n].next # n
<1> SUFFICES ASSUME h[n].next = n PROVE FALSE
  OBVIOUS
<1> DEFINE S == DOMAIN h \ {n}
<1>1. n # NULL /\ b # n
  BY NodesAssumption DEF Whole
<1>2. NextClosed(S, h, b)
  BY <1>1 DEF Whole, NextClosed
<1>3. S \in SUBSET Nodes
  BY DEF Whole
<1>q. QED BY <1>2, <1>3, ClosedHoldsAll

(* Adding a handle appends it, unless the list has it or memory is out.    *)
LEMMA AddedWhole ==
  ASSUME NEW h, NEW b, NEW c, NEW u \in Nat, NEW r,
         Whole(h, b), NoneTwice(h), LastOf(h, b, c), r = Added(h, b, c, u)
  PROVE  /\ Whole(r.heap, r.begin) /\ NoneTwice(r.heap)
         /\ LastOf(r.heap, r.begin, r.current)
         /\ \A n \in DOMAIN r.heap :
               \/ r.heap[n].handle = u
               \/ n \in DOMAIN h /\ r.heap[n].handle = h[n].handle
<1>1. CASE InList(h, b, u) \/ Nodes \subseteq DOMAIN h
  BY <1>1 DEF Added
<1>2. CASE ~InList(h, b, u) /\ ~(Nodes \subseteq DOMAIN h)
  <2> DEFINE new == CHOOSE n \in Nodes : n \notin DOMAIN h
             k == [n \in DOMAIN h \cup {new} |->
                     IF n = new THEN [handle |-> u, next |-> NULL]
                     ELSE IF n = c THEN [h[n] EXCEPT !.next = new] ELSE h[n]]
             d == IF b = NULL THEN new ELSE b
  <2>1. new \in Nodes /\ new \notin DOMAIN h /\ new # NULL
    BY <1>2, NodesAssumption
  <2>2. r.heap = k /\ r.begin = d /\ r.current = new
    BY <1>2 DEF Added
  <2> HIDE DEF new
  <2>3. DOMAIN k = DOMAIN h \cup {new} /\ DOMAIN k \subseteq Nodes
    BY <2>1 DEF Whole
  <2>4. k[new].next = NULL /\ k[new].handle = u /\ k[new] \in NodeType
    BY <2>1 DEF NodeType
  <2>5. ASSUME NEW n \in DOMAIN h
        PROVE  /\ k[n] \in NodeType /\ k[n].handle = h[n].handle
               /\ k[n].next = IF n = c THEN new ELSE h[n].next
               /\ h[n].next \in DOMAIN h \cup {NULL}
    <3>1. h[n] \in NodeType /\ n # new
      BY <2>1 DEF Whole
    <3>2. k[n] = IF n = c THEN [h[n] EXCEPT !.next = new] ELSE h[n]
      BY <3>1
    <3>q. QED BY <2>1, <3>1, <3>2 DEF NodeType, Whole
  <2>6. c # NULL => c \in DOMAIN h /\ h[c].next = NULL
    BY DEF LastOf
  <2>7. b # NULL <=> c # NULL
    BY DEF LastOf
  <2> HIDE DEF k
  <2>8. b = NULL => DOMAIN h = {}
    <3>1. b = NULL => NextClosed({}, h, b)
      BY DEF NextClosed
    <3>q. QED BY <3>1, ClosedHoldsAll
  <2>9. NextClosed(DOMAIN k, k, d)
    BY <2>3, <2>4, <2>5 DEF NextClosed, Whole
  <2>10. ASSUME NEW S \in SUBSET Nodes, NextClosed(S, k, d)
         PROVE  DOMAIN k \subseteq S
    <3>1. CASE b = NULL
      BY <2>1, <2>3, <2>8, <2>10, <3>1 DEF NextClosed
    <3>2. CASE b # NULL
      <4> DEFINE T == S \ {new}
      <4>1. ASSUME NEW n \in T \cap DOMAIN h PROVE h[n].next \in T \cup {NULL}
        <5>1. k[n].next \in S \cup {NULL}
          BY <2>3, <2>10 DEF NextClosed
        <5>2. CASE n = c
          BY <2>6, <2>7, <3>2, <5>2
        <5>3. CASE n # c
          <6>1. k[n].next = h[n].next /\ h[n].next \in DOMAIN h \cup {NULL}
            BY <2>5, <5>3
          <6>q. QED BY <2>1, <5>1, <6>1
        <5>q. QED BY <5>2, <5>3
      <4>2. b \in T
        BY <2>1, <2>10, <3>2 DEF NextClosed, Whole
      <4>3. DOMAIN h \subseteq T
        BY <4>1, <4>2, ClosedHoldsAll DEF NextClosed
      <4>4. k[c].next \in S \cup {NULL} /\ k[c].next = new
        BY <2>3, <2>5, <2>6, <2>7, <2>10, <3>2, <4>3 DEF NextClosed
      <4>q. QED BY <2>1, <2>3, <4>3, <4>4
    <3>q. QED BY <3>1, <3>2
  <2>11. Reach(k, d) = DOMAIN k
    BY <2>3, <2>9, <2>10, ReachesAll
  <2>12. k \in [DOMAIN k -> NodeType]
    BY <2>3, <2>4, <2>5 DEF k
  <2>13. \A n \in DOMAIN k : k[n].next # d
    BY <2>1, <2>3, <2>4, <2>5, <2>6, <2>7, <2>8 DEF Whole
  <2>14. \A n, m \in DOMAIN k : k[n].next = k[m].next => n = m \/ k[n].next = NULL
    BY <2>1, <2>3, <2>4, <2>5 DEF Whole
  <2>15. Whole(k, d)
    BY <2>3, <2>4, <2>5, <2>9, <2>11, <2>12, <2>13, <2>14 DEF Whole, NextClosed
  <2>16. \A n \in DOMAIN h : h[n].handle # u
    BY <1>2 DEF InList, Whole
  <2>17. NoneTwice(k)
    BY <2>3, <2>4, <2>5, <2>16 DEF NoneTwice
  <2>18. LastOf(k, d, new)
    BY <2>1, <2>3, <2>4 DEF LastOf, Whole
  <2>q. QED BY <2>2, <2>3, <2>4, <2>5, <2>15, <2>17, <2>18
<1>q. QED BY <1>1, <1>2

(* The beginning of the list when an entry is gone.                        *)
BeginWithout(h, b, r) == IF r = b THEN h[r].next ELSE b

(* Removing an entry leaves a list; its neighbours are in it.              *)
LEMMA RemovedWhole ==
  ASSUME NEW h, NEW b, NEW r, NEW p, r \in DOMAIN h, p \in DOMAIN h \cup {NULL},
         Whole(h, b), NoneTwice(h), IF p = NULL THEN r = b ELSE h[p].next = r
  PROVE  LET k == Removed(h, r, p)
             d == BeginWithout(h, b, r)
         IN  /\ Whole(k, d) /\ NoneTwice(k)
             /\ {h[r].next, p} \subseteq DOMAIN k \cup {NULL}
<1> DEFINE k == Removed(h, r, p)
           d == BeginWithout(h, b, r)
<1>0. k = Removed(h, r, p) /\ d = IF r = b THEN h[r].next ELSE b
  BY DEF BeginWithout
<1> HIDE DEF k, d
<1>1. r # NULL /\ r \in Nodes /\ h[r].next # r /\ h[r].next \in DOMAIN h \cup {NULL}
  BY NodesAssumption, NoSelfLoop DEF Whole
<1>2. p # r
  BY <1>1, NoSelfLoop
<1>3. DOMAIN k = DOMAIN h \ {r} /\ DOMAIN k \subseteq Nodes
  BY <1>0 DEF Removed, Whole
<1>4. ASSUME NEW n \in DOMAIN k
      PROVE  /\ k[n] \in NodeType /\ k[n].handle = h[n].handle
             /\ k[n].next = IF n = p THEN h[r].next ELSE h[n].next
             /\ h[n].next \in DOMAIN h \cup {NULL}
  <2>1. h[n] \in NodeType /\ n \in DOMAIN h
    BY <1>3 DEF Whole
  <2>2. k[n] = IF n = p THEN [h[n] EXCEPT !.next = h[r].next] ELSE h[n]
    BY <1>0, <1>3 DEF Removed
  <2>q. QED BY <1>1, <2>1, <2>2 DEF NodeType, Whole
<1>5. \A n \in DOMAIN k : n # p => h[n].next # r
  BY <1>1, <1>3 DEF Whole
<1>6. p = NULL <=> r = b
  BY <1>1 DEF Whole
<1>7. NextClosed(DOMAIN k, k, d)
  BY <1>0, <1>1, <1>3, <1>4, <1>5 DEF NextClosed, Whole
<1>8. ASSUME NEW S \in SUBSET Nodes, NextClosed(S, k, d)
      PROVE  DOMAIN k \subseteq S
  <2>1. CASE p = NULL \/ p \in S
    <3> DEFINE T == S \cup {r}
    <3>1. ASSUME NEW n \in T \cap DOMAIN h PROVE h[n].next \in T \cup {NULL}
      <4>1. CASE n = r /\ p = NULL
        BY <1>0, <1>6, <1>8, <4>1 DEF NextClosed
      <4>2. CASE n = r /\ p # NULL
        <5>1. p \in DOMAIN k /\ p \in S
          BY <1>2, <1>3, <2>1, <4>2
        <5>2. k[p].next = h[r].next
          BY <1>4, <5>1
        <5>q. QED BY <1>8, <4>2, <5>1, <5>2 DEF NextClosed
      <4>3. CASE n # r /\ n # p
        <5>1. n \in S \cap DOMAIN k
          BY <1>3, <4>3
        <5>2. k[n].next = h[n].next
          BY <1>4, <4>3, <5>1
        <5>q. QED BY <1>8, <5>1, <5>2 DEF NextClosed
      <4>4. CASE n = p
        BY <1>1, <4>4, NodesAssumption DEF Whole
      <4>q. QED BY <4>1, <4>2, <4>3, <4>4
    <3>2. b \in T \cup {NULL}
      BY <1>0, <1>8 DEF NextClosed
    <3>3. T \in SUBSET Nodes /\ NextClosed(T, h, b)
      BY <1>1, <3>1, <3>2 DEF NextClosed
    <3>q. QED BY <1>3, <3>3, ClosedHoldsAll
  <2>2. CASE p # NULL /\ p \notin S
    <3> DEFINE T == S \ {r}
    <3>1. ASSUME NEW n \in T \cap DOMAIN h PROVE h[n].next \in T \cup {NULL}
      <4>1. n \in S \cap DOMAIN k /\ n # p
        BY <1>3, <2>2
      <4>2. k[n].next = h[n].next /\ h[n].next # r
        BY <1>4, <1>5, <4>1
      <4>q. QED BY <1>8, <4>1, <4>2 DEF NextClosed
    <3>2. b \in T \cup {NULL}
      BY <1>0, <1>6, <1>8, <2>2 DEF NextClosed
    <3>3. T \in SUBSET Nodes /\ NextClosed(T, h, b)
      BY <3>1, <3>2 DEF NextClosed
    <3>q. QED BY <3>3, ClosedHoldsAll
  <2>q. QED BY <2>1, <2>2
<1>9. Reach(k, d) = DOMAIN k
  BY <1>3, <1>7, <1>8, ReachesAll
<1>10. k \in [DOMAIN k -> NodeType]
  BY <1>0, <1>4 DEF Removed
<1>11. d # NULL => \A n \in DOMAIN k : k[n].next # d
  <2>1. ASSUME NEW n \in DOMAIN k, d # NULL, k[n].next = d PROVE FALSE
    <3>1. n \in DOMAIN h /\ n # r /\ n # NULL
      BY <1>3, NodesAssumption
    <3>2. CASE r = b
      <4>1. n # p /\ h[n].next = h[r].next /\ h[r].next # NULL
        BY <1>0, <1>4, <1>6, <2>1, <3>1, <3>2
      <4>q. QED BY <3>1, <4>1 DEF Whole
    <3>3. CASE r # b
      <4>1. d = b /\ h[n].next # b /\ h[r].next # b
        BY <1>0, <2>1, <3>1, <3>3 DEF Whole
      <4>q. QED BY <1>4, <2>1, <4>1
    <3>q. QED BY <3>2, <3>3
  <2>q. QED BY <2>1
<1>12. \A n, m \in DOMAIN k : k[n].next = k[m].next => n = m \/ k[n].next = NULL
  BY <1>1, <1>3, <1>4, <1>5 DEF Whole
<1>13. Whole(k, d)
  BY <1>3, <1>7, <1>9, <1>10, <1>11, <1>12 DEF Whole, NextClosed
<1>14. NoneTwice(k)
  BY <1>3, <1>4 DEF NoneTwice
<1>q. QED BY <1>1, <1>2, <1>3, <1>13, <1>14 DEF k, d

(* Deleting a list frees all of it.                                        *)
LEMMA DeletedEmpty ==
  ASSUME NEW h, NEW b, Whole(h, b)
  PROVE  DOMAIN Deleted(h, b) = {} /\ Deleted(h, b) = [n \in {} |-> Deleted(h, b)[n]]
BY DEF Deleted, Whole

-----------------------------------------------------------------------------
(* What is fixed.                                                          *)

(* The units are well formed, and what a RAID driver drives leads to a     *)
(* controller.                                                             *)
LEMMA SystemFacts ==
  ASSUME Types
  PROVE  /\ Units \subseteq Nat /\ IsFiniteSet(Units) /\ IsFiniteSet(present)
         /\ \A u \in Units : RaidDriver(u) =>
               /\ Owner(u) \in Controllers
               /\ drives[Owner(u)] \in Nat
         /\ \A u \in Controllers : Owner(u) = u
<1>1. system \in System
  BY ScanAssumption DEF Types
<1>2. Len(system.unit) \in Nat /\ DOMAIN system.unit = Units
  BY <1>1 DEF System, Units
<1>3. Units \subseteq Nat /\ IsFiniteSet(Units)
  BY <1>2, FS_Interval DEF Units
<1>4. IsFiniteSet(present)
  BY <1>3, FS_Subset DEF Types
<1>5. ASSUME NEW u \in Units, RaidDriver(u)
      PROVE  Owner(u) \in Controllers
  BY <1>2, <1>5, ScanAssumption DEF Types, RaidDriver, Owner, Controllers, U
<1>6. \A u \in Controllers : drives[u] \in Nat
  BY ScanAssumption DEF Types
<1>q. QED BY <1>3, <1>4, <1>5, <1>6 DEF Owner, Controllers

(* The sequence of a finite set has every element once.                    *)
LEMMA InOrderFacts ==
  ASSUME NEW S, S \subseteq Units, IsFiniteSet(S), Types, NEW s \in InOrder(S)
  PROVE  /\ s \in Seq(S)
         /\ \A i, j \in DOMAIN s : s[i] = s[j] => i = j
<1>1. Cardinality(S) \in Nat
  BY FS_CardinalityType
<1>2. s \in Seq(S)
  BY <1>1 DEF InOrder
<1>3. ASSUME NEW i \in DOMAIN s, NEW j \in DOMAIN s, s[i] = s[j] PROVE i = j
  <2>1. i \in Nat /\ j \in Nat /\ s[i] \in Nat /\ s[j] \in Nat
    BY <1>2, SystemFacts DEF InOrder
  <2>2. ~(i < j) /\ ~(j < i)
    BY <1>3, <2>1 DEF InOrder
  <2>q. QED BY <2>1, <2>2
<1>q. QED BY <1>2, <1>3

(* While devices are only counted nothing is known of a list.              *)
LEMMA CountingFrame ==
  ASSUME ScanInv, Before, Before', UNCHANGED <<filled, result>>
  PROVE  /\ Listed' /\ Exceeds' /\ HandlesCounted' /\ DrivesCountedRight' /\ Ends'
         /\ PastTheListOneController' /\ ListedOnce' /\ ResultIsTrue'
<1>1. list' = <<>> /\ cissAt' = 0 /\ failed' = failed /\ result' = "none" /\ DOMAIN list' = {}
  BY DEF filled, ScanInv, Listed, Ends, Before
<1>2. Listed' /\ Exceeds' /\ PastTheListOneController' /\ ListedOnce'
  BY <1>1 DEF Listed, Exceeds, Before, After, PastTheListOneController, ListedOnce
<1>3. HandlesCounted' /\ DrivesCountedRight' /\ Ends' /\ ResultIsTrue'
  BY <1>1 DEF ScanInv, HandlesCounted, DrivesCountedRight, Ends, ResultIsTrue, Before, After
<1>q. QED BY <1>2, <1>3

(* Nothing is noted, counted or listed at first.                           *)
LEMMA ScanInitInv == ScanInit => ScanInv
<1> SUFFICES ASSUME ScanInit PROVE ScanInv
  OBVIOUS
<1>1. list = <<>> /\ DOMAIN list = {} /\ phase = "countScan" /\ result = "none"
  BY DEF ScanInit
<1>2. Types
  BY DEF ScanInit, Types, NotBegun, Phases, Causes, Refusals, Results, Entry
<1>3. ListInv
  <2>1. Whole(heap, NULL) /\ NoneTwice(heap) /\ LastOf(heap, NULL, NULL) /\ DOMAIN heap = {}
    BY EmptyWhole DEF ScanInit, EmptyHeap
  <2>q. QED BY <2>1 DEF ScanInit, ListInv, Walk
<1>4. NamesOnce
  BY DEF ScanInit, NamesOnce
<1>5. Listed /\ Exceeds /\ PastTheListOneController /\ ListedOnce
  BY <1>1 DEF ScanInit, Listed, Exceeds, Before, After, PastTheListOneController, ListedOnce
<1>6. HandlesCounted /\ DrivesCountedRight /\ Ends /\ ResultIsTrue
  BY <1>1 DEF ScanInit, HandlesCounted, DrivesCountedRight, Ends, ResultIsTrue, Before, After,
         Causes
<1>q. QED BY <1>2, <1>3, <1>4, <1>5, <1>6 DEF ScanInv

-----------------------------------------------------------------------------
(* Steps that extend or shorten the RAID handle list.                      *)

(* Noting a handle.                                                        *)
LEMMA NoteFacts ==
  ASSUME ScanInv, phase \in {"sysfs", "open"}, NEW u \in Units, NEW wanted \in BOOLEAN,
         wanted => RaidDriver(u), Note(u, wanted)
  PROVE  /\ Whole(heap', begin') /\ NoneTwice(heap') /\ LastOf(heap', begin', current')
         /\ \A n \in DOMAIN heap' :
               \/ wanted /\ heap'[n].handle = u
               \/ n \in DOMAIN heap /\ heap'[n].handle = heap[n].handle
         /\ \A n \in DOMAIN heap' : heap'[n].handle \in Units /\ RaidDriver(heap'[n].handle)
         /\ ~wanted => UNCHANGED <<heap, begin, current>>
<1>1. Whole(heap, begin) /\ NoneTwice(heap) /\ LastOf(heap, begin, current) /\ u \in Nat
  BY SystemFacts DEF ScanInv, ListInv
<1>2. \A n \in DOMAIN heap : heap[n].handle \in Units /\ RaidDriver(heap[n].handle)
  BY DEF ScanInv, ListInv
<1>3. CASE wanted
  <2> DEFINE r == Added(heap, begin, current, u)
  <2>1. heap' = r.heap /\ begin' = r.begin /\ current' = r.current
    BY <1>3 DEF Note
  <2> HIDE DEF r
  <2>2. /\ Whole(r.heap, r.begin) /\ NoneTwice(r.heap)
        /\ LastOf(r.heap, r.begin, r.current)
        /\ \A n \in DOMAIN r.heap :
              \/ r.heap[n].handle = u
              \/ n \in DOMAIN heap /\ r.heap[n].handle = heap[n].handle
    BY <1>1, AddedWhole DEF r
  <2>q. QED BY <1>2, <1>3, <2>1, <2>2
<1>4. CASE ~wanted
  <2>1. UNCHANGED <<heap, begin, current>>
    BY <1>4 DEF Note
  <2>q. QED BY <1>1, <1>2, <1>4, <2>1
<1>q. QED BY <1>3, <1>4

(* Removing the entry looked at, or passing by it, goes on to the next.    *)
LEMMA WalkOn ==
  ASSUME ScanInv, Walk, raid # NULL, RemoveAndNext \/ KeepAndNext
  PROVE  /\ Whole(heap', begin') /\ NoneTwice(heap')
         /\ {raid', previous'} \subseteq DOMAIN heap' \cup {NULL}
         /\ raid' # NULL =>
              IF previous' = NULL THEN raid' = begin' ELSE heap'[previous'].next = raid'
         /\ DOMAIN heap' \subseteq DOMAIN heap /\ current' = current
         /\ \A n \in DOMAIN heap' : heap'[n].handle = heap[n].handle
         /\ RemoveAndNext => raid \notin DOMAIN heap'
<1>1. /\ Whole(heap, begin) /\ NoneTwice(heap) /\ raid \in DOMAIN heap
      /\ previous \in DOMAIN heap \cup {NULL}
      /\ IF previous = NULL THEN raid = begin ELSE heap[previous].next = raid
  BY DEF ScanInv, ListInv, Walk
<1>2. CASE RemoveAndNext
  <2>1. /\ heap' = Removed(heap, raid, previous) /\ raid' = heap[raid].next
        /\ begin' = IF raid = begin THEN heap[raid].next ELSE begin
        /\ previous' = previous /\ current' = current
    BY <1>2 DEF RemoveAndNext, NewBegin
  <2> DEFINE k == Removed(heap, raid, previous)
             d == BeginWithout(heap, begin, raid)
  <2>2. heap' = k /\ begin' = d
    BY <2>1 DEF BeginWithout
  <2>3. Whole(k, d)
    BY <1>1, RemovedWhole
  <2>4. NoneTwice(k)
    BY <1>1, RemovedWhole
  <2>5. {heap[raid].next, previous} \subseteq DOMAIN k \cup {NULL}
    BY <1>1, RemovedWhole
  <2>6. previous = NULL => heap[raid].next = d
    BY <1>1 DEF BeginWithout
  <2>7. previous # NULL => k[previous].next = heap[raid].next
    <3>1. previous # NULL => previous \in DOMAIN k /\ heap[previous] \in NodeType
      BY <1>1, <2>5 DEF Whole
    <3>q. QED BY <3>1 DEF Removed, NodeType
  <2>8. DOMAIN k = DOMAIN heap \ {raid}
    BY DEF Removed
  <2>9. ASSUME NEW n \in DOMAIN k PROVE k[n].handle = heap[n].handle
    <3>1. k[n] = IF n = previous THEN [heap[n] EXCEPT !.next = heap[raid].next] ELSE heap[n]
      BY <2>8 DEF Removed
    <3>2. heap[n] \in NodeType
      BY <1>1, <2>8 DEF Whole
    <3>q. QED BY <3>1, <3>2 DEF NodeType
  <2> HIDE DEF k, d
  <2>q. QED BY <2>1, <2>2, <2>3, <2>4, <2>5, <2>6, <2>7, <2>8, <2>9
<1>3. CASE KeepAndNext
  <2>1. /\ previous' = raid /\ raid' = heap[raid].next
        /\ UNCHANGED <<heap, begin, current>>
    BY <1>3 DEF KeepAndNext
  <2>2. heap[raid].next \in DOMAIN heap \cup {NULL} /\ heap[raid].next # raid
    BY <1>1, NoSelfLoop DEF Whole
  <2>3. ~RemoveAndNext
    <3>1. ASSUME RemoveAndNext PROVE FALSE
      <4>1. DOMAIN heap' = DOMAIN heap \ {raid}
        BY <3>1 DEF RemoveAndNext, Removed
      <4>q. QED BY <1>1, <2>1, <4>1
    <3>q. QED BY <3>1
  <2>q. QED BY <1>1, <2>1, <2>2, <2>3, NodesAssumption DEF Whole
<1>q. QED BY <1>2, <1>3

-----------------------------------------------------------------------------
(* get_Device_Count.                                                       *)

(* The handles of /dev are read.                                           *)
LEMMA CountScanInv == ASSUME ScanInv, CountScan PROVE ScanInv'
<1>1. /\ phase = "countScan" /\ phase' = "sysfs" /\ at' = 1 /\ names' \in InOrder(ScsiNames)
      /\ UNCHANGED <<world, raidList, slots, filled, result>>
  BY DEF CountScan
<1>2. ScsiNames \subseteq Units /\ IsFiniteSet(ScsiNames)
  BY SystemFacts, FS_Subset DEF ScanInv, Types, ScsiNames
<1>3. names' \in Seq(ScsiNames) /\ \A i, j \in DOMAIN names' : names'[i] = names'[j] => i = j
  BY <1>1, <1>2, InOrderFacts DEF ScanInv
<1>4. names' \in Seq(Units) /\ Len(names') \in Nat
  BY <1>2, <1>3
<1>5. Types' /\ NamesOnce'
  BY <1>1, <1>3, <1>4 DEF ScanInv, Types, NamesOnce, world, filled, Units, Controllers, U, Entry,
         Phases
<1>6. ListInv'
  BY <1>1 DEF ScanInv, ListInv, Walk, raidList, world, Units, RaidDriver, U
<1>7. Before /\ Before'
  BY <1>1 DEF Before
<1>q. QED BY <1>1, <1>5, <1>6, <1>7, CountingFrame DEF ScanInv

(* A handle of /dev is looked at, and noted if it is a controller.         *)
LEMMA CountHandleInv == ASSUME ScanInv, CountHandle PROVE ScanInv'
<1> DEFINE u == names[at]
           wanted == u \in present /\ U(u).kind = "controller"
<1>1. /\ phase = "sysfs" /\ phase' = phase /\ at <= Len(names) /\ at' = at + 1 /\ Note(u, wanted)
      /\ UNCHANGED <<world, names, raid, previous, slots, filled, result>>
  BY DEF CountHandle
<1>2. u \in Units /\ (wanted => RaidDriver(u)) /\ wanted \in BOOLEAN
  BY <1>1 DEF ScanInv, Types, RaidDriver
<1> HIDE DEF u, wanted
<1>3. /\ Whole(heap', begin') /\ NoneTwice(heap') /\ LastOf(heap', begin', current')
      /\ \A n \in DOMAIN heap' : heap'[n].handle \in Units /\ RaidDriver(heap'[n].handle)
  BY <1>1, <1>2, NoteFacts
<1>4. Types' /\ NamesOnce'
  BY <1>1 DEF ScanInv, Types, NamesOnce, world, filled, Units, Controllers, U, Entry
<1>5. ListInv'
  BY <1>1, <1>3 DEF ScanInv, ListInv, Walk, world, Units, RaidDriver, U
<1>6. Before /\ Before'
  BY <1>1 DEF Before
<1>q. QED BY <1>1, <1>4, <1>5, <1>6, CountingFrame DEF ScanInv

(* The namespaces are counted; the walk of the noted handles begins.       *)
LEMMA CountNvmeInv == ASSUME ScanInv, CountNvme PROVE ScanInv'
<1>1. /\ phase = "sysfs" /\ phase' = "countCiss" /\ raid' = begin /\ previous' = NULL
      /\ UNCHANGED <<world, names, at, heap, begin, current, slots, filled, result>>
  BY DEF CountNvme
<1>2. Types' /\ NamesOnce'
  BY <1>1 DEF ScanInv, Types, NamesOnce, world, filled, Units, Controllers, U, Entry, Phases
<1>3. ListInv'
  BY <1>1 DEF ScanInv, ListInv, Walk, world, Units, RaidDriver, U, Whole
<1>4. Before /\ Before'
  BY <1>1 DEF Before
<1>q. QED BY <1>1, <1>2, <1>3, <1>4, CountingFrame DEF ScanInv

(* The drives behind a noted handle are counted.                           *)
LEMMA CountCissInv == ASSUME ScanInv, CountCiss PROVE ScanInv'
<1>1. /\ phase = "countCiss" /\ phase' = phase /\ raid # NULL /\ (RemoveAndNext \/ KeepAndNext)
      /\ UNCHANGED <<world, names, at, slots, filled, result>>
  BY DEF CountCiss
<1>2. Types' /\ NamesOnce'
  BY <1>1 DEF ScanInv, Types, NamesOnce, world, filled, Units, Controllers, U, Entry
<1>3. ListInv'
  BY <1>1, WalkOn DEF ScanInv, ListInv, Walk, world, Units, RaidDriver, U
<1>4. Before /\ Before'
  BY <1>1 DEF Before
<1>q. QED BY <1>1, <1>2, <1>3, <1>4, CountingFrame DEF ScanInv

(* Handles that took no requests are freed.                                *)
LEMMA CountDoneInv == ASSUME ScanInv, CountDone PROVE ScanInv'
<1>1. /\ phase = "countCiss" /\ raid = NULL /\ phase' = "allocate" /\ heap' = Deleted(heap, begin)
      /\ begin' = NULL /\ current' = NULL /\ previous' = NULL
      /\ UNCHANGED <<world, names, at, raid, slots, filled, result>>
  BY DEF CountDone
<1>2. Types' /\ NamesOnce'
  BY <1>1 DEF ScanInv, Types, NamesOnce, world, filled, Units, Controllers, U, Entry, Phases
<1>3. DOMAIN heap' = {} /\ heap' = [n \in {} |-> heap'[n]]
  BY <1>1, DeletedEmpty DEF ScanInv, ListInv
<1>4. Whole(heap', NULL) /\ NoneTwice(heap') /\ LastOf(heap', NULL, NULL)
  BY <1>3, EmptyWhole
<1>5. ListInv'
  BY <1>1, <1>3, <1>4 DEF ListInv, Walk
<1>6. Before /\ Before'
  BY <1>1 DEF Before
<1>q. QED BY <1>1, <1>2, <1>5, <1>6, CountingFrame DEF ScanInv

(* The application allocates a list.                                       *)
LEMMA AllocateInv == ASSUME ScanInv, Allocate PROVE ScanInv'
<1>1. /\ phase = "allocate" /\ phase' = "listScan" /\ slots' \in 0 .. MaxSlots
      /\ UNCHANGED <<world, names, at, raidList, filled, result>>
  BY DEF Allocate
<1>2. Types' /\ NamesOnce'
  BY <1>1, ScanAssumption DEF ScanInv, Types, NamesOnce, world, filled, Units, Controllers, U,
         Entry, Phases
<1>3. ListInv'
  BY <1>1 DEF ScanInv, ListInv, Walk, raidList, world, Units, RaidDriver, U
<1>4. Before /\ Before'
  BY <1>1 DEF Before
<1>q. QED BY <1>1, <1>2, <1>3, <1>4, CountingFrame DEF ScanInv

-----------------------------------------------------------------------------
(* get_Device_List: the handles.                                           *)

(* What appending an entry does.                                           *)
LEMMA Appended ==
  ASSUME NEW S, NEW s \in Seq(S), NEW e \in S, NEW t, t = Append(s, e)
  PROVE  /\ t \in Seq(S) /\ Len(s) \in Nat /\ Len(t) = Len(s) + 1
         /\ DOMAIN s = 1 .. Len(s) /\ DOMAIN t = 1 .. Len(s) + 1
         /\ \A i \in 1 .. Len(s) : t[i] = s[i]
         /\ t[Len(s) + 1] = e
OBVIOUS

(* The handles of /dev are read again, the namespaces among them.          *)
LEMMA ListScanInv == ASSUME ScanInv, ListScan PROVE ScanInv'
<1>1. PICK s \in InOrder(ScsiNames), n \in InOrder(NvmeNames) :
         /\ names' = s \o n /\ phase = "listScan" /\ at' = 1
         /\ \/ slots = 0 /\ phase' = "done" /\ result' = "BAD_PARAMETER"
            \/ slots > 0 /\ phase' = "open" /\ UNCHANGED result
         /\ UNCHANGED <<world, raidList, slots, filled>>
  BY DEF ListScan
<1>2. /\ ScsiNames \subseteq Units /\ IsFiniteSet(ScsiNames)
      /\ NvmeNames \subseteq Units /\ IsFiniteSet(NvmeNames)
  BY SystemFacts, FS_Subset DEF ScanInv, Types, ScsiNames, NvmeNames
<1>3. /\ s \in Seq(ScsiNames) /\ \A i, j \in DOMAIN s : s[i] = s[j] => i = j
      /\ n \in Seq(NvmeNames) /\ \A i, j \in DOMAIN n : n[i] = n[j] => i = j
  BY <1>2, InOrderFacts DEF ScanInv
<1>4. ScsiNames \cap NvmeNames = {}
  BY DEF ScsiNames, NvmeNames, HasHandle
<1>5. names' \in Seq(Units) /\ Len(names') \in Nat
  <2>1. s \in Seq(Units) /\ n \in Seq(Units)
    BY <1>2, <1>3
  <2>q. QED BY <1>1, <2>1, ConcatProperties
<1>6. \A k, l \in DOMAIN names' : names'[k] = names'[l] => k = l
  <2>1. /\ Len(s) \in Nat /\ Len(n) \in Nat /\ DOMAIN s = 1 .. Len(s) /\ DOMAIN n = 1 .. Len(n)
        /\ DOMAIN names' = 1 .. Len(s) + Len(n)
    BY <1>1, <1>3
  <2>2. ASSUME NEW k \in DOMAIN names'
        PROVE  \/ k \in DOMAIN s /\ names'[k] = s[k] /\ s[k] \in ScsiNames
               \/ /\ k - Len(s) \in DOMAIN n /\ names'[k] = n[k - Len(s)]
                  /\ n[k - Len(s)] \in NvmeNames
    BY <1>1, <1>3, <2>1
  <2>3. ASSUME NEW k \in DOMAIN names', NEW l \in DOMAIN names', names'[k] = names'[l]
        PROVE  k = l
    <3>1. k \in Nat /\ l \in Nat
      BY <2>1
    <3>2. CASE k \in DOMAIN s /\ l \in DOMAIN s /\ names'[k] = s[k] /\ names'[l] = s[l]
      BY <1>3, <2>3, <3>2
    <3>3. CASE /\ k - Len(s) \in DOMAIN n /\ l - Len(s) \in DOMAIN n
               /\ names'[k] = n[k - Len(s)] /\ names'[l] = n[l - Len(s)]
      <4>1. k - Len(s) = l - Len(s)
        BY <1>3, <2>3, <3>3
      <4>q. QED BY <2>1, <3>1, <4>1
    <3>q. QED BY <1>4, <2>2, <2>3, <3>2, <3>3
  <2>q. QED BY <2>3
<1>7. list = <<>> /\ cissAt = 0 /\ begin = NULL /\ result = "none" /\ DOMAIN list = {}
      /\ Len(list) = 0 /\ slots \in Nat
  BY <1>1 DEF ScanInv, Listed, ListInv, Ends, Before, Types
<1>8. Whole(heap, NULL) /\ DOMAIN heap = {}
  <2>1. Whole(heap, NULL)
    BY <1>1, <1>7 DEF ScanInv, ListInv
  <2>2. NextClosed({}, heap, NULL)
    BY DEF NextClosed
  <2>q. QED BY <2>1, <2>2, ClosedHoldsAll
<1>9. Types' /\ NamesOnce'
  <2>1. /\ at' = 1 /\ phase' \in {"done", "open"} /\ result' \in {"BAD_PARAMETER", result}
        /\ UNCHANGED <<world, slots, filled>>
    BY <1>1
  <2>2. Units' = Units /\ Controllers' = Controllers /\ Entry' = Entry
    BY <2>1 DEF world, Units, Controllers, U, Entry
  <2>3. names' \in Seq(Units') /\ at' \in 1 .. Len(names') + 1 /\ phase' \in Phases
        /\ result' \in Results
    BY <1>5, <2>1, <2>2 DEF ScanInv, Types, Phases, Results
  <2>q. QED BY <1>6, <2>1, <2>2, <2>3 DEF ScanInv, Types, NamesOnce, world, filled
<1>10. ListInv'
  BY <1>1, <1>8 DEF ScanInv, ListInv, Walk, raidList, world, Units, RaidDriver, U
<1>11. Listed' /\ Exceeds' /\ PastTheListOneController' /\ ListedOnce'
  BY <1>1, <1>7, <1>8 DEF Listed, Exceeds, Before, After, PastTheListOneController,
         ListedOnce, filled, raidList
<1>12. HandlesCounted'
  <2>1. \A w \in Causes : failed'[w] = 0
    BY <1>1 DEF ScanInv, HandlesCounted, Before, filled
  <2>2. failed'["device"] = 0 /\ failed'["denied"] = 0 /\ failed'["busy"] = 0
        /\ failed'["other"] = 0
    BY <2>1 DEF Causes, Refusals
  <2>q. QED BY <1>1, <1>7, <2>1, <2>2 DEF HandlesCounted, HandleEntries, Refused, filled, Before
<1>13. DrivesCountedRight' /\ Ends' /\ ResultIsTrue'
  <2>1. failed'["drive"] = 0
    BY <1>1 DEF ScanInv, HandlesCounted, Before, filled, Causes
  <2>q. QED BY <1>1, <1>7, <2>1 DEF DrivesCountedRight, Ends, ResultIsTrue, filled, raidList,
            Before, After
<1>q. QED BY <1>9, <1>10, <1>11, <1>12, <1>13 DEF ScanInv

(* A handle is opened: an entry of the list, or a refusal that is counted. *)
LEMMA OpenHandleInv == ASSUME ScanInv, OpenHandle PROVE ScanInv'
<1> DEFINE u == names[at]
           ok == U(u).ready
           e == [unit |-> u, drive |-> 0, ok |-> ok]
           wanted == ok /\ LookBehind(u)
<1>1. /\ phase = "open" /\ phase' = phase /\ at <= Len(names) /\ Len(list) < slots /\ at' = at + 1
      /\ UNCHANGED <<world, names, raid, previous, slots, cissAt, luns, result>>
  BY DEF OpenHandle, MoreHandles, Room
<1>2. u \in Units /\ u \in Nat /\ U(u) \in Unit /\ ok \in BOOLEAN
  <2>1. u \in Units
    BY <1>1 DEF ScanInv, Types
  <2>2. U(u) \in Unit
    BY <2>1, ScanAssumption DEF ScanInv, Types, System, Units, U
  <2>q. QED BY <2>1, <2>2, SystemFacts DEF ScanInv, Unit
<1>3. at \in Nat /\ at >= 1 /\ slots \in Nat /\ Len(list) \in Nat /\ DOMAIN list = 1 .. Len(list)
      /\ list \in Seq(Entry) /\ failed \in [Causes -> Nat] /\ cissAt = 0 /\ slots > 0
      /\ Len(names) \in Nat /\ DOMAIN names = 1 .. Len(names)
  BY <1>1 DEF ScanInv, Types, Listed
<1>4. /\ Len(list) + Refused = at - 1 /\ failed["device"] <= Len(list)
      /\ failed["device"] = Len(list) => \A i \in 1 .. Len(list) : ~list[i].ok
      /\ failed["device"] = 0 => \A i \in 1 .. Len(list) : list[i].ok
      /\ Refused = 0 =>
           \A k \in 1 .. at - 1 : \E i \in 1 .. Len(list) : list[i].unit = names[k]
  BY <1>1, <1>3 DEF ScanInv, HandlesCounted, HandleEntries, Before
<1>5. failed["drive"] = 0 /\ (begin # NULL => failed["device"] < Len(list))
  BY <1>1 DEF ScanInv, DrivesCountedRight
<1>6. CASE /\ Opens(u) /\ list' = Append(list, e)
           /\ failed' = IF ok THEN failed ELSE [failed EXCEPT !["device"] = @ + 1]
           /\ Note(u, wanted)
  <2>1. wanted \in BOOLEAN /\ (wanted => RaidDriver(u)) /\ e \in Entry
    BY <1>2 DEF LookBehind, Entry
  <2>2. wanted /\ system.sg => U(u).kind = "controller"
    BY <1>1, <1>3 DEF LookBehind, SgNames, RaidDriver
  <2>3. /\ Whole(heap', begin') /\ NoneTwice(heap') /\ LastOf(heap', begin', current')
        /\ \A n \in DOMAIN heap' :
              \/ wanted /\ heap'[n].handle = u
              \/ n \in DOMAIN heap /\ heap'[n].handle = heap[n].handle
        /\ \A n \in DOMAIN heap' : heap'[n].handle \in Units /\ RaidDriver(heap'[n].handle)
        /\ ~wanted => UNCHANGED <<heap, begin, current>>
    <3> HIDE DEF wanted, u
    <3>q. QED BY <1>1, <1>2, <1>6, <2>1, NoteFacts
  <2>4. /\ list' \in Seq(Entry) /\ Len(list') = Len(list) + 1
        /\ DOMAIN list' = 1 .. Len(list) + 1
        /\ \A i \in 1 .. Len(list) : list'[i] = list[i]
        /\ list'[Len(list) + 1] = e
    BY <1>3, <1>6, <2>1, Appended
  <2>5. e.unit = u /\ e.drive = 0 /\ e.ok = ok
    OBVIOUS
  <2>6. /\ failed' \in [Causes -> Nat]
        /\ failed'["device"] = IF ok THEN failed["device"] ELSE failed["device"] + 1
        /\ failed'["denied"] = failed["denied"] /\ failed'["busy"] = failed["busy"]
        /\ failed'["other"] = failed["other"] /\ failed'["drive"] = failed["drive"]
        /\ failed["device"] \in Nat /\ failed["denied"] \in Nat /\ failed["busy"] \in Nat
        /\ failed["other"] \in Nat
    BY <1>3, <1>6 DEF Causes, Refusals
  <2> HIDE DEF e, ok, wanted
  <2>7. Types' /\ NamesOnce' /\ Ends'
    <3>1. Units' = Units /\ Controllers' = Controllers /\ Entry' = Entry
      BY <1>1 DEF world, Units, Controllers, U, Entry
    <3>2. at' \in 1 .. Len(names') + 1 /\ slots' \in Nat /\ slots' > 0
      BY <1>1, <1>3
    <3>3. Types' /\ NamesOnce'
      BY <1>1, <2>4, <2>6, <3>1, <3>2 DEF ScanInv, Types, NamesOnce, world
    <3>q. QED BY <1>1, <3>2, <3>3 DEF ScanInv, Ends, Before
  <2>8. ListInv'
    BY <1>1, <2>3 DEF ScanInv, ListInv, Walk, world, Units, RaidDriver, U
  <2>9. Listed'
    <3>1. \A i \in DOMAIN list' : list'[i].drive = 0
      BY <1>1, <1>3, <2>4, <2>5 DEF ScanInv, Listed
    <3>2. \A n \in DOMAIN heap' : \E k \in 1 .. at' - 1 : names'[k] = heap'[n].handle
      <4>1. names[at] = u /\ at \in 1 .. at' - 1 /\ 1 .. at - 1 \subseteq 1 .. at' - 1
        BY <1>1, <1>3
      <4>q. QED BY <1>1, <2>3, <4>1 DEF ScanInv, Listed
    <3>3. \A i \in DOMAIN list' : HandleFound(i)'
      <4>1. \A i \in 1 .. Len(list) : HandleFound(i)
        BY <1>1, <1>3 DEF ScanInv, Listed, Before
      <4>2. names[at] = u /\ at \in 1 .. at' - 1 /\ 1 .. at - 1 \subseteq 1 .. at' - 1
        BY <1>1, <1>3
      <4>q. QED BY <1>1, <1>3, <2>4, <2>5, <4>1, <4>2 DEF HandleFound
    <3>4. (system.sg => \A n \in DOMAIN heap : U(heap[n].handle).kind = "controller")'
      BY <1>1, <2>2, <2>3 DEF ScanInv, Listed, world, U
    <3>q. QED BY <1>1, <1>3, <3>1, <3>2, <3>3, <3>4, <2>4 DEF Listed, Before, ScanInv, Types, Entry
  <2>10. Exceeds' /\ PastTheListOneController'
    BY <1>1, <1>3, <2>4 DEF Exceeds, PastTheListOneController, After
  <2>11. HandlesCounted'
    <3>1. HandleEntries' = Len(list) + 1 /\ Refused' = Refused /\ Refused \in Nat
      BY <1>1, <2>4, <2>6 DEF HandleEntries, Refused
    <3>2. Len(list) + 1 + Refused = at' - 1
      BY <1>1, <1>3, <1>4, <3>1
    <3>3. failed'["device"] = Len(list) + 1 => \A i \in 1 .. Len(list) + 1 : ~list'[i].ok
      <4> SUFFICES ASSUME failed'["device"] = Len(list) + 1, NEW i \in 1 .. Len(list) + 1
                   PROVE  ~list'[i].ok
        OBVIOUS
      <4>1. ~ok /\ failed["device"] = Len(list)
        BY <1>2, <1>3, <1>4, <2>6
      <4>q. QED BY <1>3, <1>4, <2>4, <2>5, <4>1
    <3>4. failed'["device"] = 0 => \A i \in 1 .. Len(list) + 1 : list'[i].ok
      <4> SUFFICES ASSUME failed'["device"] = 0, NEW i \in 1 .. Len(list) + 1
                   PROVE  list'[i].ok
        OBVIOUS
      <4>1. ok
        <5>1. ~ok => failed'["device"] = failed["device"] + 1
          BY <2>6
        <5>2. failed["device"] + 1 # 0
          BY <2>6
        <5>q. QED BY <5>1, <5>2
      <4>2. failed["device"] = 0
        BY <2>6, <4>1
      <4>3. CASE i \in 1 .. Len(list)
        BY <1>4, <2>4, <4>2, <4>3
      <4>4. CASE i = Len(list) + 1
        BY <2>4, <2>5, <4>1, <4>4
      <4>q. QED BY <1>3, <4>3, <4>4
    <3>5. ASSUME Refused = 0, NEW k \in 1 .. at' - 1
          PROVE  \E i \in 1 .. Len(list) + 1 : list'[i].unit = names'[k]
      <4>1. CASE k = at
        BY <1>1, <1>3, <2>4, <2>5, <4>1
      <4>2. CASE k # at
        <5>1. PICK i \in 1 .. Len(list) : list[i].unit = names[k]
          BY <1>1, <1>3, <1>4, <3>5, <4>2
        <5>q. QED BY <1>1, <1>3, <2>4, <5>1
      <4>q. QED BY <4>1, <4>2
    <3>q. QED BY <1>1, <1>3, <1>4, <2>4, <2>6, <3>1, <3>2, <3>3, <3>4, <3>5
              DEF HandlesCounted, Before
  <2>12. DrivesCountedRight'
    <3>1. begin' # NULL => failed'["device"] < Len(list')
      <4>1. CASE wanted
        BY <1>3, <1>4, <2>4, <2>6, <4>1 DEF wanted
      <4>2. CASE ~wanted
        BY <1>3, <1>5, <2>3, <2>4, <2>6, <4>2
      <4>q. QED BY <4>1, <4>2
    <3>q. QED BY <1>1, <1>5, <2>6, <3>1 DEF DrivesCountedRight, After
  <2>13. ListedOnce'
    <3>1. ListedOnce /\ NamesOnce /\ \A i \in 1 .. Len(list) : HandleFound(i)
      BY <1>1, <1>3 DEF ScanInv, Listed, Before
    <3>2. ASSUME NEW i \in 1 .. Len(list) PROVE list[i].unit # u
      <4>1. PICK k \in 1 .. at - 1 : names[k] = list[i].unit
        BY <3>1 DEF HandleFound
      <4>2. k \in DOMAIN names /\ at \in DOMAIN names /\ k # at
        BY <1>1, <1>3, <4>1
      <4>q. QED BY <3>1, <4>1, <4>2 DEF NamesOnce
    <3>3. ASSUME NEW i \in DOMAIN list', NEW j \in DOMAIN list', i < j, list'[i].ok, list'[j].ok
          PROVE  \/ Owner(list'[i].unit) # Owner(list'[j].unit)
                 \/ list'[i].drive # list'[j].drive
                 \/ list'[i].drive = 0 /\ list'[i].unit # list'[j].unit
      <4>1. i \in 1 .. Len(list) /\ list'[i] = list[i] /\ i \in DOMAIN list
        BY <1>3, <2>4, <3>3
      <4>2. CASE j \in 1 .. Len(list)
        BY <1>3, <2>4, <3>1, <3>3, <4>1, <4>2 DEF ListedOnce
      <4>3. CASE j = Len(list) + 1
        <5>1. list[i].drive = 0 /\ list[i].unit # u
          BY <1>1, <3>2, <4>1 DEF ScanInv, Listed
        <5>q. QED BY <2>4, <2>5, <4>1, <4>3, <5>1
      <4>q. QED BY <1>3, <2>4, <4>2, <4>3
    <3>4. \A v : Owner(v)' = Owner(v)
      BY <1>1 DEF Owner, U, world
    <3>q. QED BY <3>3, <3>4 DEF ListedOnce, Owner, U
  <2>14. ResultIsTrue'
    BY <1>1 DEF ResultIsTrue
  <2>q. QED BY <2>7, <2>8, <2>9, <2>10, <2>11, <2>12, <2>13, <2>14 DEF ScanInv
<1>7. CASE /\ ~Opens(u)
           /\ LET why == IF u \in present THEN U(u).open ELSE "other"
              IN  failed' = [failed EXCEPT ![why] = @ + 1]
           /\ UNCHANGED <<list, heap, begin, current>>
  <2>1. PICK why \in Refusals : failed' = [failed EXCEPT ![why] = @ + 1]
    BY <1>2, <1>7 DEF Opens, Unit, Refusals
  <2>2. /\ failed' \in [Causes -> Nat] /\ failed'["device"] = failed["device"]
        /\ failed'["drive"] = failed["drive"] /\ Refused \in Nat /\ Refused' = Refused + 1
    <3>1. \A w \in Causes : /\ failed[w] \in Nat
                            /\ failed'[w] = IF w = why THEN failed[w] + 1 ELSE failed[w]
      BY <1>3, <2>1
    <3>2. failed' \in [Causes -> Nat]
      BY <1>3, <2>1 DEF Causes
    <3>3. /\ {"device", "drive", "denied", "busy", "other"} \subseteq Causes
          /\ why \in {"denied", "busy", "other"}
      BY DEF Causes, Refusals
    <3>q. QED BY <3>1, <3>2, <3>3 DEF Refused
  <2>3. Types' /\ NamesOnce' /\ Ends'
    <3>1. Units' = Units /\ Controllers' = Controllers /\ Entry' = Entry
      BY <1>1 DEF world, Units, Controllers, U, Entry
    <3>2. at' \in 1 .. Len(names') + 1 /\ slots' \in Nat /\ slots' > 0 /\ list' = list
      BY <1>1, <1>3, <1>7
    <3>3. Types' /\ NamesOnce'
      BY <1>1, <2>2, <3>1, <3>2 DEF ScanInv, Types, NamesOnce, world
    <3>q. QED BY <1>1, <3>2, <3>3 DEF ScanInv, Ends, Before
  <2>4. ListInv'
    BY <1>1, <1>7 DEF ScanInv, ListInv, Walk, world, Units, RaidDriver, U
  <2>5. Listed'
    <3>1. 1 .. at - 1 \subseteq 1 .. at' - 1
      BY <1>1, <1>3
    <3>q. QED BY <1>1, <1>7, <3>1 DEF ScanInv, Listed, Before, HandleFound, world, U
  <2>6. Exceeds' /\ PastTheListOneController' /\ DrivesCountedRight' /\ ResultIsTrue'
    BY <1>1, <1>7, <2>2 DEF ScanInv, Exceeds, PastTheListOneController, DrivesCountedRight,
           ResultIsTrue, After
  <2>7. HandlesCounted'
    <3>1. HandleEntries' = Len(list) /\ Len(list) + Refused' = at' - 1 /\ Refused' # 0
      BY <1>1, <1>3, <1>4, <1>7, <2>2 DEF HandleEntries
    <3>2. failed'["device"] = failed["device"] /\ list' = list /\ phase' = "open"
      BY <1>1, <1>7, <2>2
    <3>q. QED BY <1>4, <3>1, <3>2 DEF HandlesCounted, Before
  <2>8. ListedOnce'
    BY <1>1, <1>7 DEF ScanInv, ListedOnce, Owner, U, world
  <2>q. QED BY <2>3, <2>4, <2>5, <2>6, <2>7, <2>8 DEF ScanInv
<1>q. QED BY <1>6, <1>7 DEF OpenHandle, Fill

(* The handles are done: what is in the list by then is theirs.            *)
LEMMA HandlesDoneInv == ASSUME ScanInv, HandlesDone PROVE ScanInv'
<1>1. /\ phase = "open" /\ cissAt' = Len(list)
      /\ UNCHANGED <<world, names, at, heap, begin, current, count, slots, list, failed, luns,
                     result>>
      /\ \/ /\ Len(list) < slots /\ begin # NULL /\ raid' = begin /\ previous' = NULL
            /\ phase' = "ciss"
         \/ phase' = "result" /\ UNCHANGED <<raid, previous>>
  BY DEF HandlesDone
<1>2. /\ cissAt = 0 /\ slots > 0 /\ slots \in Nat /\ list \in Seq(Entry) /\ Len(list) \in Nat
      /\ DOMAIN list = 1 .. Len(list) /\ \A i \in DOMAIN list : list[i].drive = 0
  BY <1>1 DEF ScanInv, Types, Listed, Ends, Before
<1>3. Types' /\ NamesOnce' /\ Ends'
  <2>1. Units' = Units /\ Controllers' = Controllers /\ Entry' = Entry
    BY <1>1 DEF world, Units, Controllers, U, Entry
  <2>q. QED BY <1>1, <1>2, <2>1 DEF ScanInv, Types, NamesOnce, Ends, Before, world, Phases
<1>4. ListInv'
  BY <1>1 DEF ScanInv, ListInv, Walk, world, Units, RaidDriver, U, Whole
<1>5. Listed'
  BY <1>1, <1>2 DEF ScanInv, Listed, Before, HandleFound, world, U
<1>6. Exceeds' /\ PastTheListOneController' /\ ResultIsTrue'
  BY <1>1 DEF ScanInv, Exceeds, PastTheListOneController, ResultIsTrue
<1>7. HandlesCounted'
  BY <1>1, <1>2 DEF ScanInv, HandlesCounted, HandleEntries, Refused, Before
<1>8. DrivesCountedRight'
  <2>1. failed["drive"] = 0 /\ (begin # NULL => failed["device"] < Len(list) /\ current # NULL)
    BY <1>1 DEF ScanInv, DrivesCountedRight, ListInv, LastOf
  <2>q. QED BY <1>1, <1>2, <2>1 DEF DrivesCountedRight, Walked, After
<1>9. ListedOnce'
  BY <1>1 DEF ScanInv, ListedOnce, Owner, U, world
<1>q. QED BY <1>3, <1>4, <1>5, <1>6, <1>7, <1>8, <1>9 DEF ScanInv

-----------------------------------------------------------------------------
(* get_Device_List: the drives behind controllers.                         *)

(* A step behind controllers that changes neither the list nor its         *)
(* counters leaves these as true as they were.                             *)
LEMMA BehindFrame ==
  ASSUME ScanInv, phase \in {"ciss", "lun"}, phase' \in {"ciss", "lun"}, Types',
         UNCHANGED <<system, names, at, current, slots, list, failed, cissAt, result>>
  PROVE  /\ NamesOnce' /\ HandlesCounted' /\ DrivesCountedRight' /\ Ends'
         /\ PastTheListOneController' /\ ListedOnce' /\ ResultIsTrue'
<1>1. NamesOnce' /\ Ends' /\ ResultIsTrue' /\ PastTheListOneController'
  BY DEF ScanInv, NamesOnce, Ends, ResultIsTrue, PastTheListOneController, Before
<1>2. HandlesCounted'
  BY DEF ScanInv, HandlesCounted, HandleEntries, Refused, Before
<1>3. DrivesCountedRight'
  BY DEF ScanInv, DrivesCountedRight, Walked, After
<1>4. ListedOnce'
  BY DEF ScanInv, ListedOnce, Owner, U
<1>q. QED BY <1>1, <1>2, <1>3, <1>4

(* A controller's drives are asked for, or its handle is passed by.        *)
LEMMA CissInv == ASSUME ScanInv, Ciss PROVE ScanInv'
<1> DEFINE u == heap[raid].handle
           n == IF U(Owner(u)).lists THEN drives[Owner(u)] ELSE 0
<1>1. /\ phase = "ciss" /\ raid # NULL /\ Len(list) < slots
      /\ \/ luns' = [all |-> n, done |-> 0] /\ phase' = "lun" /\ UNCHANGED raidList
         \/ KeepAndNext /\ UNCHANGED <<phase, luns>>
      /\ UNCHANGED <<world, names, at, count, slots, list, failed, cissAt, result>>
  BY DEF Ciss, Room
<1>2. raid \in DOMAIN heap /\ u \in Units /\ RaidDriver(u)
  BY <1>1 DEF ScanInv, ListInv
<1>3. n \in Nat
  BY <1>2, SystemFacts DEF ScanInv
<1>4. /\ luns' \in [all: Nat, done: Nat] /\ luns'.done <= luns'.all
      /\ phase' = "lun" => luns'.done = 0
  <2>1. CASE luns' = [all |-> n, done |-> 0]
    BY <1>3, <2>1
  <2>2. CASE UNCHANGED <<phase, luns>>
    BY <1>1, <2>2 DEF ScanInv, Types
  <2>q. QED BY <1>1, <2>1, <2>2
<1> HIDE DEF n, u
<1>5. UNCHANGED <<heap, begin, current>> /\ phase' \in {"ciss", "lun"}
  BY <1>1 DEF KeepAndNext, raidList
<1>6. Types'
  <2>1. Units' = Units /\ Controllers' = Controllers /\ Entry' = Entry
    BY <1>1 DEF world, Units, Controllers, U, Entry
  <2>q. QED BY <1>1, <1>4, <1>5, <2>1 DEF ScanInv, Types, world, Phases
<1>7. ListInv'
  <2>1. CASE phase' = "lun" /\ UNCHANGED raidList
    BY <1>1, <2>1 DEF ScanInv, ListInv, Walk, raidList, world, Units, RaidDriver, U
  <2>2. CASE KeepAndNext /\ phase' = "ciss"
    BY <1>1, <2>2, WalkOn DEF ScanInv, ListInv, Walk, world, Units, RaidDriver, U
  <2>q. QED BY <1>1, <2>1, <2>2
<1>8. Listed'
  <2>1. \A i \in DOMAIN list, m \in DOMAIN heap :
           ~(list[i].drive > 0 /\ list[i].unit = heap[m].handle)
    BY <1>1 DEF ScanInv, Listed
  <2>q. QED BY <1>1, <1>5, <2>1 DEF ScanInv, Listed, Before, HandleFound, world, U
<1>9. Exceeds'
  <2>1. list \in Seq(Entry) /\ Len(list) \in Nat /\ slots \in Nat
    BY DEF ScanInv, Types
  <2>q. QED BY <1>1, <1>4, <1>5, <2>1 DEF Exceeds
<1>q. QED BY <1>1, <1>5, <1>6, <1>7, <1>8, <1>9, BehindFrame DEF ScanInv, world

(* One more drive of the controller looked at.                             *)
LEMMA DriveInv ==
  ASSUME ScanInv, phase = "lun", phase' = phase, luns.done < luns.all,
         Fill(heap[raid].handle, luns.done + 1,
              DriveAnswers(heap[raid].handle, luns.done + 1), "drive"),
         luns' = [luns EXCEPT !.done = @ + 1],
         UNCHANGED <<world, raidList, names, at, count, slots, cissAt, result>>
  PROVE  ScanInv'
<1> DEFINE u == heap[raid].handle
           d == luns.done + 1
           ok == DriveAnswers(u, d)
           e == [unit |-> u, drive |-> d, ok |-> ok]
           L == Len(list)
<1>1. /\ raid \in DOMAIN heap /\ u \in Units /\ luns.done \in Nat /\ luns.all \in Nat
      /\ d \in Nat /\ d > 0
  BY DEF ScanInv, ListInv, Types
<1>2. ok \in BOOLEAN /\ (ok => system.sg)
  BY DEF DriveAnswers
<1>3. system.sg => U(u).kind = "controller" /\ Owner(u) = u
  BY <1>1, SystemFacts DEF ScanInv, Listed, Controllers
<1>4. /\ luns' \in [all: Nat, done: Nat] /\ luns'.done = d /\ luns'.done <= luns'.all
  BY <1>1 DEF ScanInv, Types
<1>5. /\ list \in Seq(Entry) /\ slots \in Nat /\ cissAt \in Nat /\ failed \in [Causes -> Nat]
      /\ slots > 0 /\ DOMAIN list = 1 .. L
  BY DEF ScanInv, Types, Ends, Before
<1>6. e \in Entry /\ list' = Append(list, e)
  BY <1>1, <1>2 DEF Entry, Fill
<1>7. /\ list' \in Seq(Entry) /\ Len(list') = L + 1 /\ L \in Nat
      /\ DOMAIN list' = 1 .. L + 1
      /\ \A i \in 1 .. L : list'[i] = list[i]
      /\ list'[L + 1] = e
  BY <1>5, <1>6, Appended
<1>8. e.unit = u /\ e.drive = d /\ e.ok = ok
  OBVIOUS
<1>9. /\ failed' \in [Causes -> Nat] /\ failed["drive"] \in Nat
      /\ failed'["drive"] = IF ok THEN failed["drive"] ELSE failed["drive"] + 1
      /\ failed'["device"] = failed["device"] /\ Refused' = Refused
  BY <1>5 DEF Fill, Causes, Refusals, Refused
<1>10. Whole(heap, begin) /\ NoneTwice(heap) /\ heap' = heap /\ raid' = raid
  BY DEF ScanInv, ListInv, raidList
<1> HIDE DEF u, d, ok, e, L
<1>11. Types' /\ NamesOnce' /\ Ends' /\ ResultIsTrue'
  <2>1. Units' = Units /\ Controllers' = Controllers /\ Entry' = Entry
    BY DEF world, Units, Controllers, U, Entry
  <2>q. QED
    BY <1>4, <1>7, <1>9, <2>1 DEF ScanInv, Types, NamesOnce, Ends, ResultIsTrue, Before, world
<1>12. ListInv'
  BY DEF ScanInv, ListInv, Walk, raidList, world, Units, RaidDriver, U
<1>13. Listed'
  <2>1. \A i \in DOMAIN list' : list'[i].drive = 0 => HandleFound(i)'
    <3>1. \A i \in DOMAIN list : list[i].drive = 0 => HandleFound(i)
      BY DEF ScanInv, Listed, Before
    <3>q. QED BY <1>1, <1>5, <1>7, <1>8, <3>1 DEF HandleFound
  <2>2. \A i \in DOMAIN list' : list'[i].drive > 0 /\ list'[i].ok =>
           system.sg /\ U(list'[i].unit).kind = "controller"
    <3>1. \A i \in DOMAIN list : list[i].drive > 0 /\ list[i].ok =>
             system.sg /\ U(list[i].unit).kind = "controller"
      BY DEF ScanInv, Listed
    <3>2. ASSUME NEW i \in DOMAIN list', list'[i].drive > 0, list'[i].ok
          PROVE  system.sg /\ U(list'[i].unit).kind = "controller"
      <4>1. CASE i \in 1 .. L
        BY <1>5, <1>7, <3>1, <3>2, <4>1
      <4>2. CASE i = L + 1
        <5>1. list'[i] = e
          BY <1>7, <4>2
        <5>2. ok
          BY <1>8, <3>2, <5>1
        <5>q. QED BY <1>2, <1>3, <1>8, <5>1, <5>2
      <4>q. QED BY <1>7, <4>1, <4>2
    <3>q. QED BY <3>2
  <2>3. ASSUME NEW i \in DOMAIN list', NEW m \in DOMAIN heap,
               list'[i].drive > 0, list'[i].unit = heap[m].handle
        PROVE  m = raid /\ list'[i].drive <= luns'.done
    <3>1. CASE i \in 1 .. L
      <4>1. m = raid /\ list[i].drive <= luns.done /\ list[i] \in Entry
        BY <1>5, <1>7, <2>3, <3>1 DEF ScanInv, Listed
      <4>q. QED BY <1>1, <1>4, <1>7, <3>1, <4>1 DEF d, Entry
    <3>2. CASE i = L + 1
      <4>1. m = raid
        BY <1>1, <1>7, <1>8, <1>10, <2>3, <3>2 DEF NoneTwice, u
      <4>q. QED BY <1>1, <1>4, <1>7, <1>8, <3>2, <4>1
    <3>q. QED BY <1>7, <3>1, <3>2
  <2>4. system.sg => \A m \in DOMAIN heap : U(heap[m].handle).kind = "controller"
    BY DEF ScanInv, Listed
  <2>5. \A v : U(v)' = U(v)
    BY DEF U, world
  <2>6. phase' = "lun" /\ system' = system
    BY DEF world
  <2>q. QED BY <1>10, <2>1, <2>2, <2>3, <2>4, <2>5, <2>6 DEF Listed, Before, U
<1>14. Exceeds'
  <2>1. /\ luns.done <= L /\ L - luns.done < slots
        /\ \A j \in 1 .. luns.done :
             list[L - luns.done + j].unit = u /\ list[L - luns.done + j].drive = j
    BY DEF ScanInv, Exceeds, L, u
  <2>2. Len(list') - luns'.done = L - luns.done /\ luns'.done <= Len(list')
    BY <1>1, <1>4, <1>7, <2>1 DEF d
  <2>3. ASSUME NEW j \in 1 .. luns'.done
        PROVE  list'[L - luns.done + j].unit = u /\ list'[L - luns.done + j].drive = j
    <3>1. CASE j \in 1 .. luns.done
      <4>1. L - luns.done + j \in 1 .. L
        BY <1>1, <1>7, <2>1, <3>1
      <4>q. QED BY <1>7, <2>1, <3>1, <4>1
    <3>2. CASE j = d
      <4>1. L - luns.done + j = L + 1
        BY <1>1, <1>7, <3>2 DEF d
      <4>q. QED BY <1>7, <1>8, <3>2, <4>1
    <3>q. QED BY <1>1, <1>4, <3>1, <3>2 DEF d
  <2>4. heap'[raid'].handle = u
    BY <1>10 DEF u
  <2>q. QED BY <2>1, <2>2, <2>3, <2>4 DEF Exceeds
<1>15. HandlesCounted'
  <2>1. HandleEntries' = HandleEntries /\ HandleEntries = cissAt /\ cissAt <= L
    BY <1>5 DEF ScanInv, HandlesCounted, HandleEntries, Before, L
  <2>2. \A i \in 1 .. cissAt : list'[i] = list[i]
    BY <1>5, <1>7, <2>1
  <2>3. /\ cissAt + Refused = at - 1 /\ failed["device"] <= cissAt
        /\ failed["device"] = cissAt => \A i \in 1 .. cissAt : ~list[i].ok
        /\ failed["device"] = 0 => \A i \in 1 .. cissAt : list[i].ok
        /\ Refused = 0 =>
             \A k \in 1 .. at - 1 : \E i \in 1 .. cissAt : list[i].unit = names[k]
    BY <1>5, <2>1 DEF ScanInv, HandlesCounted, Before
  <2>4. cissAt <= Len(list') /\ ~Before'
    BY <1>5, <1>7, <2>1 DEF Before
  <2>q. QED BY <1>9, <2>1, <2>2, <2>3, <2>4 DEF HandlesCounted
<1>16. DrivesCountedRight'
  <2>1. /\ Walked /\ failed["device"] < cissAt /\ failed["drive"] <= L - cissAt
        /\ failed["drive"] = L - cissAt => \A i \in cissAt + 1 .. L : ~list[i].ok
        /\ failed["drive"] = 0 => \A i \in cissAt + 1 .. L : list[i].ok
    BY <1>5 DEF ScanInv, DrivesCountedRight, L
  <2>2. failed'["drive"] <= L + 1 - cissAt
    BY <1>5, <1>7, <1>9, <2>1
  <2>3. ASSUME failed'["drive"] = L + 1 - cissAt, NEW i \in cissAt + 1 .. L + 1
        PROVE  ~list'[i].ok
    <3>0. ok => failed["drive"] = L + 1 - cissAt
      BY <1>9, <2>3
    <3>1. ~ok /\ failed["drive"] = L - cissAt
      <4>1. failed["drive"] # L + 1 - cissAt
        BY <1>5, <1>7, <1>9, <2>1
      <4>2. ~ok
        BY <3>0, <4>1
      <4>3. failed["drive"] + 1 = L + 1 - cissAt
        BY <1>9, <2>3, <4>2
      <4>q. QED BY <1>5, <1>7, <1>9, <4>2, <4>3
    <3>2. CASE i \in cissAt + 1 .. L
      BY <1>5, <1>7, <2>1, <3>1, <3>2
    <3>3. CASE i = L + 1
      BY <1>7, <1>8, <3>1, <3>3
    <3>q. QED BY <1>5, <1>7, <3>2, <3>3
  <2>4. ASSUME failed'["drive"] = 0, NEW i \in cissAt + 1 .. L + 1
        PROVE  list'[i].ok
    <3>1. ok
      <4>1. ~ok => failed'["drive"] = failed["drive"] + 1
        BY <1>9
      <4>2. failed["drive"] + 1 # 0
        BY <1>9
      <4>q. QED BY <2>4, <4>1, <4>2
    <3>2. failed["drive"] = 0
      BY <1>9, <2>4, <3>1
    <3>3. CASE i \in cissAt + 1 .. L
      BY <1>5, <1>7, <2>1, <3>2, <3>3
    <3>4. CASE i = L + 1
      BY <1>7, <1>8, <3>1, <3>4
    <3>q. QED BY <1>5, <1>7, <3>3, <3>4
  <2>5. Walked' = Walked /\ cissAt' = cissAt
    BY DEF Walked, raidList
  <2>6. Walked' /\ failed'["device"] < cissAt'
    BY <1>9, <2>1, <2>5
  <2>7. phase' = "lun" /\ Len(list') = L + 1
    BY <1>7
  <2>8. cissAt' = cissAt
    OBVIOUS
  <2>9. /\ failed'["drive"] <= Len(list') - cissAt'
        /\ failed'["drive"] = Len(list') - cissAt' =>
             \A i \in cissAt' + 1 .. Len(list') : ~list'[i].ok
        /\ failed'["drive"] = 0 => \A i \in cissAt' + 1 .. Len(list') : list'[i].ok
    <3>1. Len(list') - cissAt' = L + 1 - cissAt
      BY <1>5, <1>7, <2>7, <2>8
    <3>2. cissAt' + 1 .. Len(list') = cissAt + 1 .. L + 1
      BY <2>7, <2>8
    <3>3. failed'["drive"] = L + 1 - cissAt => \A i \in cissAt + 1 .. L + 1 : ~list'[i].ok
      BY <2>3
    <3>4. failed'["drive"] = 0 => \A i \in cissAt + 1 .. L + 1 : list'[i].ok
      BY <2>4
    <3>q. QED BY <2>2, <3>1, <3>2, <3>3, <3>4
  <2>q. QED BY <2>6, <2>7, <2>9 DEF DrivesCountedRight, After
<1>17. PastTheListOneController'
  <2>1. /\ luns'.done <= Len(list') /\ Len(list') - luns'.done < slots
        /\ \A j \in 1 .. luns'.done :
             LET x == list'[Len(list') - luns'.done + j]
             IN  x.unit = u /\ x.drive = j
    BY <1>10, <1>14 DEF Exceeds, u
  <2>2. ASSUME NEW i \in DOMAIN list', i > slots
        PROVE  list'[i].unit = list'[slots].unit
               /\ list'[slots].drive = list'[i].drive - (i - slots)
    <3> DEFINE f == Len(list') - luns'.done
    <3>1. f \in Nat /\ f < slots /\ i \in Nat /\ i <= Len(list')
      BY <1>1, <1>4, <1>7, <2>1
    <3>2. i - f \in 1 .. luns'.done /\ slots - f \in 1 .. luns'.done
      <4>1. Len(list') \in Nat /\ luns'.done \in Nat /\ slots \in Nat
        BY <1>1, <1>4, <1>5, <1>7
      <4>q. QED BY <2>2, <3>1, <4>1
    <3>3. f + (i - f) = i /\ f + (slots - f) = slots
      BY <1>5, <3>1
    <3>4. list'[i].unit = u /\ list'[i].drive = i - f
      BY <2>1, <3>2, <3>3
    <3>5. list'[slots].unit = u /\ list'[slots].drive = slots - f
      BY <2>1, <3>2, <3>3
    <3>q. QED BY <1>5, <3>1, <3>4, <3>5
  <2>q. QED BY <2>2 DEF PastTheListOneController
<1>18. ListedOnce'
  <2>1. ListedOnce
    BY DEF ScanInv
  <2>2. ASSUME NEW i \in DOMAIN list', NEW j \in DOMAIN list', i < j, list'[i].ok, list'[j].ok
        PROVE  \/ Owner(list'[i].unit) # Owner(list'[j].unit)
               \/ list'[i].drive # list'[j].drive
               \/ list'[i].drive = 0 /\ list'[i].unit # list'[j].unit
    <3>1. i \in 1 .. L /\ list'[i] = list[i] /\ i \in DOMAIN list /\ list[i] \in Entry
      BY <1>5, <1>7, <2>2
    <3>2. CASE j \in 1 .. L
      BY <1>5, <1>7, <2>1, <2>2, <3>1, <3>2 DEF ListedOnce
    <3>3. CASE j = L + 1
      <4>1. list'[j] = e
        BY <1>7, <3>3
      <4>2. ok
        BY <1>8, <2>2, <4>1
      <4>3. system.sg /\ Owner(u) = u
        BY <1>2, <1>3, <4>2
      <4>4. CASE list[i].drive = 0
        BY <1>1, <1>8, <3>1, <4>1, <4>4
      <4>5. CASE list[i].drive > 0
        <5>1. U(list[i].unit).kind = "controller" /\ list[i].unit \in Units
          BY <2>2, <3>1, <4>5 DEF ScanInv, Listed, Entry
        <5>2. Owner(list[i].unit) = list[i].unit
          BY <5>1, SystemFacts DEF ScanInv, Controllers
        <5>3. list[i].unit = u => list[i].drive <= luns.done
          BY <1>1, <3>1, <4>5 DEF ScanInv, Listed, u
        <5>4. d > luns.done /\ list[i].drive \in Nat
          BY <1>1, <3>1 DEF d, Entry
        <5>q. QED BY <1>1, <1>8, <3>1, <4>1, <4>3, <5>2, <5>3, <5>4
      <4>q. QED BY <3>1, <4>4, <4>5 DEF Entry
    <3>q. QED BY <1>7, <3>2, <3>3
  <2>3. \A v : Owner(v)' = Owner(v)
    BY DEF Owner, U, world
  <2>q. QED BY <2>2, <2>3 DEF ListedOnce, Owner, U
<1>q. QED BY <1>11, <1>12, <1>13, <1>14, <1>15, <1>16, <1>17, <1>18 DEF ScanInv

(* A drive of the controller looked at, or the end of them.                *)
LEMMA LunInv == ASSUME ScanInv, Lun PROVE ScanInv'
<1>1. /\ phase = "lun"
      /\ UNCHANGED <<world, names, at, count, slots, cissAt, result>>
  BY DEF Lun
<1>2. CASE /\ luns.done < luns.all
           /\ Fill(heap[raid].handle, luns.done + 1,
                   DriveAnswers(heap[raid].handle, luns.done + 1), "drive")
           /\ luns' = [luns EXCEPT !.done = @ + 1]
           /\ UNCHANGED <<phase, raidList>>
  BY <1>1, <1>2, DriveInv
<1>3. CASE RemoveAndNext /\ phase' = "ciss" /\ UNCHANGED <<list, failed, luns>>
  <2>1. /\ Whole(heap', begin') /\ NoneTwice(heap')
        /\ {raid', previous'} \subseteq DOMAIN heap' \cup {NULL}
        /\ raid' # NULL =>
             IF previous' = NULL THEN raid' = begin' ELSE heap'[previous'].next = raid'
        /\ DOMAIN heap' \subseteq DOMAIN heap /\ current' = current
        /\ \A n \in DOMAIN heap' : heap'[n].handle = heap[n].handle
        /\ raid \notin DOMAIN heap'
    BY <1>1, <1>3, WalkOn DEF ScanInv, ListInv, Walk
  <2>2. Types'
    <3>1. Units' = Units /\ Controllers' = Controllers /\ Entry' = Entry
      BY <1>1 DEF world, Units, Controllers, U, Entry
    <3>q. QED BY <1>1, <1>3, <3>1 DEF ScanInv, Types, world, Phases
  <2>3. ListInv'
    BY <1>1, <1>3, <2>1 DEF ScanInv, ListInv, Walk, world, Units, RaidDriver, U
  <2>4. Listed'
    <3>1. \A i \in DOMAIN list, n \in DOMAIN heap' :
             ~(list[i].drive > 0 /\ list[i].unit = heap'[n].handle)
      BY <1>1, <2>1 DEF ScanInv, Listed
    <3>2. (system.sg => \A n \in DOMAIN heap : U(heap[n].handle).kind = "controller")'
      BY <1>1, <2>1 DEF ScanInv, Listed, world, U
    <3>q. QED BY <1>1, <1>3, <3>1, <3>2 DEF ScanInv, Listed, Before, HandleFound, world, U
  <2>5. Exceeds'
    BY <1>3 DEF Exceeds
  <2>q. QED BY <1>1, <1>3, <2>1, <2>2, <2>3, <2>4, <2>5, BehindFrame DEF ScanInv, world
<1>q. QED BY <1>2, <1>3 DEF Lun

(* The walk ends, for want of handles or of room.                          *)
LEMMA CissDoneInv == ASSUME ScanInv, CissDone PROVE ScanInv'
<1>1. /\ phase = "ciss" /\ phase' = "result"
      /\ UNCHANGED <<world, names, at, raidList, slots, filled, result>>
  BY DEF CissDone
<1>2. Types' /\ NamesOnce' /\ Ends'
  <2>1. Units' = Units /\ Controllers' = Controllers /\ Entry' = Entry
    BY <1>1 DEF world, Units, Controllers, U, Entry
  <2>q. QED BY <1>1, <2>1 DEF ScanInv, Types, NamesOnce, Ends, Before, world, filled, Phases
<1>3. ListInv'
  BY <1>1 DEF ScanInv, ListInv, Walk, raidList, world, Units, RaidDriver, U
<1>4. Listed' /\ Exceeds'
  BY <1>1 DEF ScanInv, Listed, Exceeds, Before, HandleFound, world, filled, raidList, U
<1>5. HandlesCounted' /\ PastTheListOneController' /\ ResultIsTrue'
  BY <1>1 DEF ScanInv, HandlesCounted, HandleEntries, Refused, Before, filled, Ends,
         PastTheListOneController, ResultIsTrue
<1>6. DrivesCountedRight'
  <2>1. cissAt <= Len(list) /\ slots > 0
    BY <1>1 DEF ScanInv, HandlesCounted, HandleEntries, Before, Ends
  <2>q. QED BY <1>1, <2>1 DEF ScanInv, DrivesCountedRight, Walked, After, filled, raidList
<1>7. ListedOnce'
  BY <1>1 DEF ScanInv, ListedOnce, Owner, U, world, filled
<1>q. QED BY <1>2, <1>3, <1>4, <1>5, <1>6, <1>7 DEF ScanInv

(* What is returned, of what was counted.                                  *)
LEMMA ResultInv == ASSUME ScanInv, ScanResult PROVE ScanInv'
<1>1. /\ phase = "result" /\ phase' = "done" /\ heap' = Deleted(heap, begin)
      /\ UNCHANGED <<world, names, at, begin, current, raid, previous, slots, filled>>
      /\ result' = CASE failed["denied"] = Len(names) -> "PERMISSION_DENIED"
                     [] failed["denied"] # Len(names) /\ failed["busy"] = Len(names)
                          -> "DEVICE_BUSY"
                     [] OTHER -> IF Failed = Len(names) THEN "FAILURE"
                                 ELSE IF Failed > 0 THEN "WARN_NOT_ALL_DEVICES_ENUMERATED"
                                 ELSE CissResult(Walked, Len(list) - cissAt)
  BY DEF ScanResult
<1>2. /\ slots > 0 /\ slots \in Nat /\ list \in Seq(Entry) /\ Len(list) \in Nat
      /\ DOMAIN list = 1 .. Len(list) /\ cissAt \in Nat /\ failed \in [Causes -> Nat]
      /\ names \in Seq(Units) /\ Len(names) \in Nat /\ at \in 1 .. Len(names) + 1
  BY <1>1 DEF ScanInv, Types, Ends, Before
<1>3. /\ failed["device"] \in Nat /\ failed["denied"] \in Nat /\ failed["busy"] \in Nat
      /\ failed["other"] \in Nat /\ failed["drive"] \in Nat
  BY <1>2 DEF Causes, Refusals
<1>4. /\ cissAt <= Len(list) /\ cissAt + Refused = at - 1 /\ failed["device"] <= cissAt
      /\ failed["device"] = cissAt => \A i \in 1 .. cissAt : ~list[i].ok
      /\ failed["device"] = 0 => \A i \in 1 .. cissAt : list[i].ok
      /\ Refused = 0 => \A k \in 1 .. at - 1 : \E i \in 1 .. cissAt : list[i].unit = names[k]
  BY <1>1, <1>2 DEF ScanInv, HandlesCounted, HandleEntries, Before
<1>5. /\ Len(list) > cissAt => Walked /\ failed["device"] < cissAt
      /\ failed["drive"] <= Len(list) - cissAt
      /\ failed["drive"] = Len(list) - cissAt => \A i \in cissAt + 1 .. Len(list) : ~list[i].ok
      /\ failed["drive"] = 0 => \A i \in cissAt + 1 .. Len(list) : list[i].ok
  BY <1>1, <1>2 DEF ScanInv, DrivesCountedRight, After
<1>17. Len(list) \in Nat /\ cissAt \in Nat /\ Len(names) \in Nat /\ at \in 1 .. Len(names) + 1
  BY <1>2
<1>18. /\ cissAt <= Len(list) /\ cissAt + Refused = at - 1 /\ failed["device"] <= cissAt
       /\ Len(list) > cissAt => failed["device"] < cissAt
  BY <1>4, <1>5
<1>6. Walked' = Walked /\ list' = list /\ at' = at /\ names' = names /\ cissAt' = cissAt
  BY <1>1 DEF Walked, filled
<1>7. ASSUME result' = "SUCCESS"
      PROVE  /\ \A i \in DOMAIN list : list[i].ok
             /\ \A k \in 1 .. at - 1 : \E i \in DOMAIN list : list[i].unit = names[k]
  <2>1. /\ ~(Failed > 0) /\ CissResult(Walked, Len(list) - cissAt) = "SUCCESS"
    BY <1>1, <1>7
  <2>2. failed["device"] = 0 /\ Refused = 0
    BY <1>3, <2>1 DEF Failed, Refused
  <2>3. ~Walked \/ failed["drive"] = 0
    BY <1>3, <2>1 DEF CissResult
  <2>4. \A i \in cissAt + 1 .. Len(list) : list[i].ok
    BY <1>2, <1>5, <2>3
  <2>5. \A i \in 1 .. cissAt : list[i].ok
    BY <1>4, <2>2
  <2>6. \A i \in DOMAIN list : i \in 1 .. cissAt \/ i \in cissAt + 1 .. Len(list)
    BY <1>2
  <2>7. \A i \in DOMAIN list : list[i].ok
    BY <2>4, <2>5, <2>6
  <2>8. 1 .. cissAt \subseteq DOMAIN list
    BY <1>2, <1>4
  <2>q. QED BY <1>4, <2>2, <2>7, <2>8
<1>8. ASSUME result' = "FAILURE"
      PROVE  \/ \A i \in DOMAIN list : ~list[i].ok
             \/ Walked /\ \A i \in cissAt + 1 .. Len(list) : ~list[i].ok
  <2>1. CASE Failed = Len(names)
    <3>1. failed["device"] = cissAt
      <4>1. Refused \in Nat /\ Failed = failed["device"] + Refused
        BY <1>3 DEF Failed, Refused
      <4>2. failed["device"] + Refused = Len(names) /\ cissAt + Refused = at - 1
        BY <1>18, <2>1, <4>1
      <4>3. failed["device"] <= cissAt /\ at - 1 <= Len(names)
        BY <1>17, <1>18
      <4>q. QED BY <1>3, <1>17, <4>1, <4>2, <4>3
    <3>2. Len(list) = cissAt
      <4>1. ~(failed["device"] < cissAt)
        BY <1>17, <3>1
      <4>2. ~(Len(list) > cissAt)
        BY <1>18, <4>1
      <4>q. QED BY <1>17, <1>18, <4>2
    <3>q. QED BY <1>2, <1>4, <3>1, <3>2
  <2>2. CASE Failed # Len(names)
    <3>1. CissResult(Walked, Len(list) - cissAt) = "FAILURE"
      BY <1>1, <1>8, <2>2
    <3>2. Walked /\ failed["drive"] = Len(list) - cissAt
      BY <3>1 DEF CissResult
    <3>q. QED BY <1>5, <3>2
  <2>q. QED BY <2>1, <2>2
<1>9. ASSUME result' \in {"PERMISSION_DENIED", "DEVICE_BUSY"}
      PROVE  names = <<>> \/ (at > Len(names) /\ list = <<>>)
  <2>1. failed["denied"] = Len(names) \/ failed["busy"] = Len(names)
    BY <1>1, <1>9 DEF CissResult
  <2>2. cissAt = 0 /\ at > Len(names)
    <3>1. Refused \in Nat /\ Refused >= Len(names)
      <4>1. Refused \in Nat /\ Refused >= failed["denied"] /\ Refused >= failed["busy"]
        BY <1>3 DEF Refused
      <4>q. QED BY <2>1, <4>1
    <3>2. cissAt + Refused = at - 1
      BY <1>18
    <3>q. QED BY <1>17, <3>1, <3>2
  <2>3. Len(list) = 0
    <3>1. ~(failed["device"] < cissAt)
      BY <1>3, <2>2
    <3>2. ~(Len(list) > cissAt)
      BY <1>18, <3>1
    <3>q. QED BY <1>17, <2>2, <3>2
  <2>q. QED BY <1>2, <2>2, <2>3
<1>10. ResultIsTrue'
  BY <1>1, <1>6, <1>7, <1>8, <1>9 DEF ResultIsTrue
<1>11. result' \in Results
  BY <1>1 DEF Results, CissResult
<1>12. Types' /\ NamesOnce' /\ Ends'
  <2>1. Units' = Units /\ Controllers' = Controllers /\ Entry' = Entry
    BY <1>1 DEF world, Units, Controllers, U, Entry
  <2>q. QED BY <1>1, <1>2, <1>11, <2>1 DEF ScanInv, Types, NamesOnce, Ends, Before, world, filled,
            Phases
<1>13. ListInv'
  <2>1. DOMAIN heap' = {}
    BY <1>1, DeletedEmpty DEF ScanInv, ListInv
  <2>q. QED BY <1>1, <2>1 DEF ListInv, Walk
<1>14. Listed' /\ Exceeds'
  BY <1>1 DEF ScanInv, Listed, Exceeds, Before, HandleFound, world, filled, U
<1>15. HandlesCounted' /\ PastTheListOneController' /\ DrivesCountedRight'
  BY <1>1 DEF ScanInv, HandlesCounted, HandleEntries, Refused, Before, filled,
         PastTheListOneController, DrivesCountedRight, Walked, After
<1>16. ListedOnce'
  BY <1>1 DEF ScanInv, ListedOnce, Owner, U, world, filled
<1>q. QED BY <1>10, <1>12, <1>13, <1>14, <1>15, <1>16 DEF ScanInv

-----------------------------------------------------------------------------
(* The scan.                                                               *)

(* What is noted and listed does not depend on what is present now.        *)
LEMMA ChangeInv ==
  ASSUME ScanInv, present' \subseteq Units, drives' \in [Controllers -> 0 .. MaxDrives],
         UNCHANGED <<system, phase, names, at, raidList, slots, filled, result>>
  PROVE  ScanInv'
<1>1. Types' /\ NamesOnce' /\ Ends'
  <2>1. Units' = Units /\ Controllers' = Controllers /\ Entry' = Entry
    BY DEF Units, Controllers, U, Entry
  <2>q. QED BY <2>1 DEF ScanInv, Types, NamesOnce, Ends, Before, filled
<1>2. ListInv'
  BY DEF ScanInv, ListInv, Walk, raidList, Units, RaidDriver, U
<1>3. Listed' /\ Exceeds'
  BY DEF ScanInv, Listed, Exceeds, Before, HandleFound, filled, raidList, U
<1>4. HandlesCounted' /\ PastTheListOneController' /\ DrivesCountedRight'
  BY DEF ScanInv, HandlesCounted, HandleEntries, Refused, Before, filled, raidList,
         PastTheListOneController, DrivesCountedRight, Walked, After
<1>5. ListedOnce' /\ ResultIsTrue'
  BY DEF ScanInv, ListedOnce, ResultIsTrue, Walked, Owner, U, filled, raidList
<1>q. QED BY <1>1, <1>2, <1>3, <1>4, <1>5 DEF ScanInv

(* Every step keeps the invariant.                                         *)
LEMMA NextInv == ASSUME ScanInv, [ScanNext]_scanVars PROVE ScanInv'
<1>1. CASE UNCHANGED scanVars
  BY <1>1, ChangeInv DEF scanVars, world, ScanInv, Types
<1>2. CASE Change
  <2>1. present' \subseteq Units
    BY <1>2 DEF Change, ScanInv, Types
  <2>2. drives' \in [Controllers -> 0 .. MaxDrives]
    BY <1>2 DEF Change, ScanInv, Types
  <2>q. QED BY <1>2, <2>1, <2>2, ChangeInv DEF Change
<1>q. QED BY <1>1, <1>2, CountScanInv, CountHandleInv, CountNvmeInv, CountCissInv, CountDoneInv,
          AllocateInv, ListScanInv, OpenHandleInv, HandlesDoneInv, CissInv, LunInv, CissDoneInv,
          ResultInv DEF ScanNext

-----------------------------------------------------------------------------
(* The invariant holds of every behaviour.                                 *)
THEOREM ScanInvariance == ScanSpec => []ScanInv
BY ScanInitInv, NextInv, PTL DEF ScanSpec

(* For every system and every change during the scan: the RAID handle list *)
(* loses no memory, frees none twice and has no dangling pointer.          *)
THEOREM ListWhole == ScanSpec => []RaidListWhole
<1>1. ScanInv => RaidListWhole
  <2> SUFFICES ASSUME ScanInv PROVE RaidListWhole
    OBVIOUS
  <2>1. phase # "done" => Reach(heap, begin) = DOMAIN heap
    BY DEF ScanInv, ListInv, Whole
  <2>2. phase # "done" => {raid, previous} \subseteq DOMAIN heap \cup {NULL}
    BY DEF ScanInv, ListInv
  <2>3. phase \in {"allocate", "listScan"} => DOMAIN heap = {}
    <3>1. NextClosed({}, heap, NULL)
      BY DEF NextClosed
    <3>q. QED BY <3>1, ClosedHoldsAll DEF ScanInv, ListInv
  <2>4. phase = "done" => DOMAIN heap = {}
    BY DEF ScanInv, ListInv
  <2>q. QED BY <2>1, <2>2, <2>3, <2>4 DEF RaidListWhole
<1>q. QED BY <1>1, ScanInvariance, PTL

(* Where the list is overrun, it is by the drives of one controller,       *)
(* whatever number of entries the application asked for.                   *)
THEOREM OverrunByOne == ScanSpec => []PastTheListOneController
BY ScanInvariance, PTL DEF ScanInv

(* No handle and no drive is listed twice as a device that works.          *)
THEOREM NothingTwice == ScanSpec => []ListedOnce
BY ScanInvariance, PTL DEF ScanInv

(* What get_Device_List returns is true of its list, but for FAILURE after *)
(* a scan behind controllers that found no drive that works, and for       *)
(* PERMISSION_DENIED in a system without a handle.                         *)
THEOREM ResultTrue == ScanSpec => []ResultIsTrue
BY ScanInvariance, PTL DEF ScanInv

-----------------------------------------------------------------------------
(* Nothing is left out: the invariant for AllListed.                       *)

(* Nothing came or went so far, in a system with sg handles and no more    *)
(* handles than are tried.                                                 *)
Quiet == changes = 0 /\ system.sg /\ Handles <= MaxDevicesToScan

Ready(u) == Opens(u) /\ U(u).ready
Noted == {heap[n].handle : n \in DOMAIN heap}

(* The controllers that are found to have drives, and those drives.        *)
Leads == {u \in Controllers : Speaks(u) /\ U(u).lists}
Behind(S) == {p \in S \X (1 .. MaxDrives) : p[2] <= drives[p[1]]}

Shown(u, d) == \E i \in DOMAIN list : list[i] = [unit |-> u, drive |-> d, ok |-> TRUE]
AllShown(u, n) == \A d \in 1 .. n : d \in U(u).bad \/ Shown(u, d)

Found(S) == S = {names[k] : k \in DOMAIN names}

(* The walk of the RAID handle list still comes to every entry that takes  *)
(* a controller's requests.                                                *)
Ahead ==
  \A S \in SUBSET Nodes : NextClosed(S, heap, raid) =>
     \A n \in DOMAIN heap : Speaks(heap[n].handle) => n \in S

(* While and after the devices are counted: nothing is forgotten.          *)
CountInv ==
  /\ phase = "sysfs" => /\ Found(ScsiNames) /\ Len(names) = Cardinality(ScsiNames)
                        /\ \A k \in 1 .. at - 1 : names[k] \in Controllers => names[k] \in Noted
  /\ phase \in {"sysfs", "countCiss"} => Noted \subseteq Controllers
  /\ phase = "countCiss" => /\ count >= Handles + Cardinality(Behind(Leads \ Noted))
                            /\ Ahead
  /\ phase \notin {"countScan", "sysfs", "countCiss"} =>
       count >= Handles + Cardinality(Behind(Leads))

(* While the list is filled in, where it has room for all that was         *)
(* counted: what has been dealt with is in it, and the room left is enough *)
(* for what has not.                                                       *)
Started == phase \in {"open", "ciss", "lun", "result", "done"} /\ slots > 0
FillInv ==
  /\ Started =>
       /\ Found(ScsiNames \cup NvmeNames) /\ Len(names) = Handles
       /\ \A k \in 1 .. at - 1 : Ready(names[k]) => Shown(names[k], 0)
  /\ phase = "open" => \A k \in 1 .. at - 1 :
                         names[k] \in Controllers /\ Ready(names[k]) => names[k] \in Noted
  /\ Started /\ phase # "open" => at > Len(names)
  /\ phase \in {"ciss", "lun"} =>
       /\ Ahead
       /\ Len(list) <= cissAt + Cardinality(Behind(Leads \ Noted))
                        + (IF phase = "lun" THEN luns.done ELSE 0)
       /\ \A u \in Leads : Ready(u) => u \in Noted \/ AllShown(u, drives[u])
  /\ phase = "lun" => LET u == heap[raid].handle
                      IN Speaks(u) /\ luns.all = DrivesCounted(u) /\ AllShown(u, luns.done)
  /\ Started /\ phase \in {"result", "done"} =>
       \A u \in Leads : Ready(u) => AllShown(u, drives[u])

AllInv ==
  /\ changes \in Nat /\ count \in Nat
  /\ Quiet => CountInv /\ (slots >= count => FillInv)

-----------------------------------------------------------------------------
(* Sizes.                                                                  *)

(* The handles of both kinds are finitely many.                            *)
LEMMA HandlesFinite ==
  ASSUME Types
  PROVE  /\ ScsiNames \subseteq Units /\ IsFiniteSet(ScsiNames) /\ Cardinality(ScsiNames) \in Nat
         /\ NvmeNames \subseteq Units /\ IsFiniteSet(NvmeNames) /\ Cardinality(NvmeNames) \in Nat
         /\ Handles \in Nat
<1>1. /\ ScsiNames \subseteq Units /\ IsFiniteSet(ScsiNames)
      /\ NvmeNames \subseteq Units /\ IsFiniteSet(NvmeNames)
  BY SystemFacts, FS_Subset DEF Types, ScsiNames, NvmeNames
<1>2. Cardinality(ScsiNames) \in Nat /\ Cardinality(NvmeNames) \in Nat
  BY <1>1, FS_CardinalityType
<1>q. QED BY <1>1, <1>2 DEF Handles

(* The drives behind some of the controllers are finitely many.            *)
LEMMA BehindFinite ==
  ASSUME Types, NEW S \in SUBSET Leads
  PROVE  /\ IsFiniteSet(Behind(S)) /\ Cardinality(Behind(S)) \in Nat
         /\ Cardinality(Behind(S)) <= Cardinality(Behind(Leads))
         /\ Cardinality(Behind(S)) = Cardinality(Behind(Leads)) => Behind(S) = Behind(Leads)
<1>1. IsFiniteSet(Leads)
  BY SystemFacts, FS_Subset DEF Leads, Controllers
<1>2. IsFiniteSet(1 .. MaxDrives)
  BY ScanAssumption, FS_Interval
<1>3. IsFiniteSet(Leads \X (1 .. MaxDrives))
  BY <1>1, <1>2, FS_Product
<1>4. IsFiniteSet(Behind(Leads))
  BY <1>3, FS_Subset DEF Behind
<1>5. Behind(S) \in SUBSET Behind(Leads)
  BY DEF Behind
<1>6. IsFiniteSet(Behind(S))
  BY <1>4, <1>5, FS_Subset
<1>q. QED BY <1>4, <1>5, <1>6, FS_Subset, FS_CardinalityType

(* One controller more has as many drives more as it has.                  *)
LEMMA BehindOne ==
  ASSUME Types, NEW S \in SUBSET Leads, NEW u \in Leads, u \notin S
  PROVE  Cardinality(Behind(S \cup {u})) = Cardinality(Behind(S)) + drives[u]
<1>1. drives[u] \in 0 .. MaxDrives
  BY DEF Types, Leads
<1> DEFINE n == drives[u]
           R == {u} \X (1 .. n)
<1>2. n \in Nat /\ MaxDrives \in Nat /\ n <= MaxDrives
  BY <1>1, ScanAssumption
<1>3. Behind(S \cup {u}) = Behind(S) \cup R
  <2>1. ASSUME NEW p \in Behind(S \cup {u}) PROVE p \in Behind(S) \cup R
    BY <1>2 DEF Behind
  <2>2. ASSUME NEW p \in R PROVE p \in Behind(S \cup {u})
    BY <1>2 DEF Behind
  <2>3. Behind(S) \subseteq Behind(S \cup {u})
    BY DEF Behind
  <2>q. QED BY <2>1, <2>2, <2>3
<1>4. Behind(S) \cap R = {}
  BY DEF Behind
<1>5. IsFiniteSet(R) /\ Cardinality(R) = n
  <2>1. IsFiniteSet({u}) /\ Cardinality({u}) = 1
    BY FS_Singleton
  <2> HIDE DEF n
  <2>2. IsFiniteSet(1 .. n) /\ Cardinality(1 .. n) = IF 1 > n THEN 0 ELSE n - 1 + 1
    BY <1>2, FS_Interval
  <2>3. IsFiniteSet(R) /\ Cardinality(R) = Cardinality({u}) * Cardinality(1 .. n)
    BY <2>1, <2>2, FS_Product
  <2> HIDE DEF R
  <2>4. Cardinality(R) = 1 * n
    BY <1>2, <2>1, <2>2, <2>3
  <2>q. QED BY <1>2, <2>3, <2>4
<1> HIDE DEF n, R
<1>6. IsFiniteSet(Behind(S)) /\ Cardinality(Behind(S)) \in Nat
  BY BehindFinite
<1>7. Cardinality(Behind(S \cup {u})) =
        Cardinality(Behind(S)) + Cardinality(R) - Cardinality(Behind(S) \cap R)
  BY <1>3, <1>5, <1>6, FS_Union
<1>8. Cardinality(Behind(S) \cap R) = 0
  BY <1>4, FS_EmptySet
<1> DEFINE a == Cardinality(Behind(S \cup {u}))
           b == Cardinality(Behind(S))
           c == Cardinality(R)
           e == Cardinality(Behind(S) \cap R)
<1>9. a = b + c - e /\ b \in Nat /\ c = n /\ e = 0
  BY <1>5, <1>6, <1>7, <1>8
<1> HIDE DEF a, b, c, e
<1>10. a = b + n
  BY <1>2, <1>9
<1>q. QED BY <1>10 DEF n, a, b

(* The names of a finite set are all of it.                                *)
LEMMA InOrderFinds ==
  ASSUME Types, NEW S, S \subseteq Units, IsFiniteSet(S), NEW s \in InOrder(S)
  PROVE  Len(s) = Cardinality(S) /\ S = {s[k] : k \in DOMAIN s}
<1>1. Cardinality(S) \in Nat /\ s \in [1 .. Cardinality(S) -> S]
  BY FS_CardinalityType DEF InOrder
<1>2. \A i, j \in DOMAIN s : s[i] = s[j] => i = j
  BY InOrderFacts
<1>3. s \in Injection(1 .. Cardinality(S), S)
  BY <1>1, <1>2 DEF Injection, IsInjective
<1>4. Cardinality(1 .. Cardinality(S)) = Cardinality(S)
  BY <1>1, FS_Interval
<1>5. s \in Surjection(1 .. Cardinality(S), S)
  BY <1>3, <1>4, FS_Injection
<1>q. QED BY <1>1, <1>5 DEF Surjection

-----------------------------------------------------------------------------
(* What happens to the handles noted.                                      *)

(* A handle that is noted is in the list then: there is memory for one     *)
(* entry for every unit.                                                   *)
LEMMA NotedAdds ==
  ASSUME ScanInv, phase \in {"sysfs", "open"}, NEW u \in Units,
         NEW wanted \in BOOLEAN, wanted => RaidDriver(u), Note(u, wanted)
  PROVE  Noted' = IF wanted THEN Noted \cup {u} ELSE Noted
<1>1. Whole(heap, begin) /\ NoneTwice(heap) /\ Types
  BY DEF ScanInv, ListInv
<1>2. \A n \in DOMAIN heap : heap[n].handle \in Units /\ heap[n] \in NodeType /\ n \in Nodes
  BY <1>1 DEF ScanInv, ListInv, Whole
<1>3. CASE ~wanted
  BY <1>3, NoteFacts DEF Noted
<1>4. CASE wanted /\ InList(heap, begin, u)
  <2>1. heap' = heap
    BY <1>4 DEF Note, Added
  <2>2. u \in Noted
    BY <1>4 DEF InList, Noted
  <2>q. QED BY <1>4, <2>1, <2>2 DEF Noted
<1>5. CASE wanted /\ ~InList(heap, begin, u)
  <2>1. u \notin Noted
    BY <1>1, <1>5 DEF InList, Noted, Whole
  <2>2. ~(Nodes \subseteq DOMAIN heap)
    <3> SUFFICES ASSUME Nodes \subseteq DOMAIN heap PROVE FALSE
      OBVIOUS
    <3>1. Nodes = DOMAIN heap
      BY <1>2
    <3> DEFINE f == [n \in Nodes |-> heap[n].handle]
    <3>2. f \in [Nodes -> Units \ {u}]
      BY <1>2, <2>1, <3>1 DEF Noted
    <3>3. \A n, m \in Nodes : f[n] = f[m] => n = m
      BY <1>1, <3>1 DEF NoneTwice
    <3> HIDE DEF f
    <3>4. f \in Injection(Nodes, Units \ {u})
      BY <3>2, <3>3 DEF Injection, IsInjective
    <3>5. system \in Systems /\ Units = 1 .. Len(system.unit) /\ Len(system.unit) \in Nat
      BY <1>1, ScanAssumption DEF Types, Units, System
    <3>6. IsFiniteSet(Units) /\ Cardinality(Units) = Len(system.unit)
      BY <3>5, FS_Interval
    <3>7. IsFiniteSet(Units \ {u}) /\ Cardinality(Units \ {u}) = Len(system.unit) - 1
      BY <3>6, FS_RemoveElement
    <3>8. Cardinality(Nodes) <= Len(system.unit) - 1
      BY <3>4, <3>7, FS_Injection
    <3>9. Cardinality(Nodes) \in Nat /\ Len(system.unit) <= Cardinality(Nodes)
      BY <3>5, MemoryAssumption, NodesAssumption, FS_CardinalityType
    <3>q. QED BY <3>5, <3>8, <3>9
  <2> DEFINE new == CHOOSE n \in Nodes : n \notin DOMAIN heap
  <2>3. new \in Nodes /\ new \notin DOMAIN heap
    BY <2>2
  <2> HIDE DEF new
  <2>4. heap' = [n \in DOMAIN heap \cup {new} |->
                   IF n = new THEN [handle |-> u, next |-> NULL]
                   ELSE IF n = current THEN [heap[n] EXCEPT !.next = new]
                   ELSE heap[n]]
    BY <1>5, <2>2 DEF Note, Added, new
  <2>5. heap'[new].handle = u /\ DOMAIN heap' = DOMAIN heap \cup {new}
    BY <2>4
  <2>6. ASSUME NEW n \in DOMAIN heap PROVE heap'[n].handle = heap[n].handle
    BY <1>2, <2>3, <2>4, <2>6 DEF NodeType
  <2>q. QED BY <1>5, <2>5, <2>6 DEF Noted
<1>q. QED BY <1>3, <1>4, <1>5

(* Removing the entry looked at takes its handle out, and only it.         *)
LEMMA NotedRemoves ==
  ASSUME ScanInv, Walk, raid # NULL
  PROVE  /\ heap[raid].handle \in Noted
         /\ RemoveAndNext => Noted' = Noted \ {heap[raid].handle}
         /\ KeepAndNext => Noted' = Noted
<1>1. raid \in DOMAIN heap /\ NoneTwice(heap)
  BY DEF ScanInv, ListInv, Walk
<1>2. ASSUME RemoveAndNext PROVE Noted' = Noted \ {heap[raid].handle}
  <2>1. DOMAIN heap' = DOMAIN heap \ {raid}
    BY <1>2 DEF RemoveAndNext, Removed
  <2>2. \A n \in DOMAIN heap' : heap'[n].handle = heap[n].handle
    BY <1>2, WalkOn
  <2>q. QED BY <1>1, <2>1, <2>2 DEF Noted, NoneTwice
<1>3. KeepAndNext => Noted' = Noted
  BY DEF KeepAndNext, Noted
<1>q. QED BY <1>1, <1>2, <1>3 DEF Noted

(* A walk begins with everything ahead of it,                              *)
LEMMA AheadBegins ==
  ASSUME Whole(heap, begin), raid' = begin, heap' = heap
  PROVE  Ahead'
<1>1. \A S \in SUBSET Nodes : NextClosed(S, heap, begin) => DOMAIN heap \subseteq S
  BY ClosedHoldsAll
<1>q. QED BY <1>1 DEF Ahead, NextClosed

(* goes on by removing an entry, or passing by one that takes no requests, *)
LEMMA AheadGoesOn ==
  ASSUME ScanInv, Walk, raid # NULL, Ahead, UNCHANGED world,
         RemoveAndNext \/ (KeepAndNext /\ ~Speaks(heap[raid].handle))
  PROVE  Ahead'
<1>1. /\ raid \in DOMAIN heap /\ raid \in Nodes /\ Whole(heap, begin)
      /\ IF previous = NULL THEN raid = begin ELSE heap[previous].next = raid
  BY DEF ScanInv, ListInv, Walk, Whole
<1>2. \A n : Speaks(n)' = Speaks(n)
  BY DEF world, Speaks, Opens, U, Owner
<1> SUFFICES ASSUME NEW S \in SUBSET Nodes, NextClosed(S, heap', raid'),
                    NEW n \in DOMAIN heap', Speaks(heap'[n].handle)
             PROVE  n \in S
  BY <1>2 DEF Ahead, NextClosed
<1>3. raid' = heap[raid].next
  BY DEF RemoveAndNext, KeepAndNext
<1>4. n \in DOMAIN heap /\ Speaks(heap[n].handle) /\ n # raid
  <2>1. CASE RemoveAndNext
    BY <2>1, WalkOn
  <2>2. CASE KeepAndNext /\ ~Speaks(heap[raid].handle)
    BY <2>2 DEF KeepAndNext
  <2>q. QED BY <2>1, <2>2
<1>5. ASSUME NEW m \in (S \cup {raid}) \cap DOMAIN heap
      PROVE  heap[m].next \in S \cup {raid, NULL}
  <2>1. CASE m = raid
    BY <1>3, <2>1 DEF NextClosed
  <2>2. CASE m # raid /\ KeepAndNext
    BY <1>5, <2>2 DEF NextClosed, KeepAndNext
  <2>3. CASE m # raid /\ m = previous
    BY <1>1, <2>3, NodesAssumption DEF ScanInv, ListInv, Walk
  <2>4. CASE m # raid /\ m # previous /\ RemoveAndNext
    <3>1. m \in DOMAIN heap' /\ heap'[m] = heap[m]
      BY <2>4 DEF RemoveAndNext, Removed
    <3>q. QED BY <1>5, <2>4, <3>1 DEF NextClosed
  <2>q. QED BY <2>1, <2>2, <2>3, <2>4
<1>6. NextClosed(S \cup {raid}, heap, raid)
  BY <1>5 DEF NextClosed
<1>7. n \in S \cup {raid}
  BY <1>1, <1>4, <1>6 DEF Ahead
<1>q. QED BY <1>4, <1>7

(* and ends when all that take requests were come to.                      *)
LEMMA NothingAhead ==
  ASSUME Ahead, raid = NULL, NEW n \in DOMAIN heap
  PROVE  ~Speaks(heap[n].handle)
<1>1. NextClosed({}, heap, raid)
  BY DEF NextClosed
<1>q. QED BY <1>1 DEF Ahead

-----------------------------------------------------------------------------
(* Counting.                                                               *)

(* What depends on the world alone stays while nothing comes or goes.      *)
LEMMA SameWorld ==
  ASSUME UNCHANGED world
  PROVE  /\ Quiet' = Quiet /\ drives' = drives /\ present' = present
         /\ Units' = Units /\ Controllers' = Controllers /\ Leads' = Leads
         /\ ScsiNames' = ScsiNames /\ NvmeNames' = NvmeNames /\ Handles' = Handles
         /\ Behind(Leads)' = Behind(Leads)
         /\ Behind(Leads \ Noted)' = Behind(Leads \ Noted')
         /\ \A u : /\ U(u)' = U(u) /\ Owner(u)' = Owner(u) /\ DrivesCounted(u)' = DrivesCounted(u)
                  /\ Speaks(u)' = Speaks(u) /\ Ready(u)' = Ready(u)
<1>1. \A u : /\ U(u)' = U(u) /\ Owner(u)' = Owner(u) /\ DrivesCounted(u)' = DrivesCounted(u)
             /\ Speaks(u)' = Speaks(u) /\ Ready(u)' = Ready(u)
  BY DEF world, U, Owner, DrivesCounted, Speaks, Ready, Opens
<1>2. Units' = Units /\ Controllers' = Controllers
  BY DEF world, Units, Controllers, U
<1>3. /\ ScsiNames' = ScsiNames /\ NvmeNames' = NvmeNames /\ Handles' = Handles
      /\ Quiet' = Quiet
  BY DEF world, ScsiNames, NvmeNames, HasHandle, U, Handles, Quiet
<1>4. Leads' = Leads
  BY <1>1, <1>2 DEF Leads
<1>5. Behind(Leads)' = Behind(Leads) /\ Behind(Leads \ Noted)' = Behind(Leads \ Noted')
  BY <1>4 DEF Behind, world
<1>q. QED BY <1>1, <1>2, <1>3, <1>4, <1>5 DEF world

(* In a quiet system a controller that leads to drives has a handle.       *)
LEMMA LeadsFacts ==
  ASSUME Types
  PROVE  /\ Leads \subseteq Controllers /\ Controllers \subseteq Units
         /\ system.sg => Leads \subseteq ScsiNames
         /\ \A u \in Controllers : Owner(u) = u /\ drives[u] \in Nat /\ RaidDriver(u)
<1>1. \A u \in Controllers : Owner(u) = u /\ RaidDriver(u) /\ u \in Units
  BY DEF Controllers, Owner, RaidDriver
<1>2. \A u \in Controllers : drives[u] \in Nat
  BY <1>1, SystemFacts
<1>q. QED BY <1>1, <1>2 DEF Leads, Controllers, Speaks, Opens, ScsiNames, HasHandle

(* A list with no beginning has no entry.                                  *)
LEMMA NullEmpty ==
  ASSUME Whole(heap, NULL)
  PROVE  DOMAIN heap = {}
<1>1. NextClosed({}, heap, NULL)
  BY DEF NextClosed
<1>q. QED BY <1>1, ClosedHoldsAll

(* Nothing is behind no controllers.                                       *)
LEMMA BehindNone == Cardinality(Behind({})) = 0
<1>1. Behind({}) = {}
  BY DEF Behind
<1>q. QED BY <1>1, FS_EmptySet

(* FillInv is about the list being filled in, and after.                   *)
LEMMA NotFilling ==
  ASSUME phase' \in {"countScan", "sysfs", "countCiss", "allocate", "listScan"}
  PROVE  FillInv'
BY DEF FillInv, Started

(* The actions of get_Device_Count and the invariant: the names found are  *)
(* all there are,                                                          *)
LEMMA CountScanAll == ASSUME ScanInv, AllInv, CountScan PROVE AllInv'
<1>1. /\ phase = "countScan" /\ phase' = "sysfs" /\ at' = 1 /\ names' \in InOrder(ScsiNames)
      /\ UNCHANGED <<world, raidList, count, slots>>
  BY DEF CountScan
<1>2. Len(names') = Cardinality(ScsiNames) /\ ScsiNames = {names'[k] : k \in DOMAIN names'}
  BY <1>1, HandlesFinite, InOrderFinds DEF ScanInv
<1>3. DOMAIN heap = {} /\ heap' = heap
  BY <1>1, NullEmpty DEF ScanInv, ListInv, raidList
<1>4. Noted' = {}
  BY <1>3 DEF Noted
<1>5. CountInv'
  <2>1. Found(ScsiNames)' /\ Len(names') = Cardinality(ScsiNames)'
    BY <1>1, <1>2, SameWorld DEF Found
  <2>2. 1 .. at' - 1 = {}
    BY <1>1
  <2>q. QED BY <1>1, <1>4, <2>1, <2>2 DEF CountInv
<1>q. QED BY <1>1, <1>5, NotFilling DEF AllInv, world

(* each controller among them is noted,                                    *)
LEMMA CountHandleAll == ASSUME ScanInv, AllInv, CountHandle PROVE AllInv'
<1> DEFINE u == names[at]
           wanted == u \in present /\ U(u).kind = "controller"
<1>1. /\ phase = "sysfs" /\ phase' = phase /\ at <= Len(names) /\ at' = at + 1 /\ Note(u, wanted)
      /\ UNCHANGED <<world, names, count, slots>>
  BY DEF CountHandle
<1>2. u \in Units /\ (wanted => RaidDriver(u)) /\ at \in 1 .. Len(names) /\ Len(names) \in Nat
  BY <1>1 DEF ScanInv, Types, RaidDriver
<1>3. Noted' = IF wanted THEN Noted \cup {u} ELSE Noted
  <2> DEFINE w == wanted
  <2>1. w \in BOOLEAN /\ (w => RaidDriver(u)) /\ Note(u, w)
    BY <1>1, <1>2
  <2> HIDE DEF w, u
  <2>2. Noted' = IF w THEN Noted \cup {u} ELSE Noted
    BY <1>1, <1>2, <2>1, NotedAdds
  <2>q. QED BY <2>2 DEF w
<1>4. ASSUME Quiet, CountInv PROVE CountInv'
  <2>1. Found(ScsiNames) /\ Found(ScsiNames)'
    BY <1>1, <1>4, SameWorld DEF CountInv, Found
  <2>2. u \in present
    BY <1>2, <2>1 DEF Found, ScsiNames
  <2>3. u \in Controllers <=> wanted
    BY <1>2, <2>2 DEF Controllers
  <2>4. Noted' \subseteq Controllers
    BY <1>1, <1>3, <1>4, <2>3 DEF CountInv
  <2> HIDE DEF wanted
  <2>5. ASSUME NEW k \in 1 .. at' - 1, names[k] \in Controllers PROVE names[k] \in Noted'
    <3>1. CASE k = at
      BY <1>3, <2>3, <2>5, <3>1
    <3>2. CASE k # at
      BY <1>1, <1>2, <1>3, <1>4, <2>5, <3>2 DEF CountInv
    <3>q. QED BY <3>1, <3>2
  <2>q. QED BY <1>1, <1>4, <2>1, <2>4, <2>5, SameWorld DEF CountInv
<1>q. QED BY <1>1, <1>4, SameWorld, NotFilling DEF AllInv, world

(* all handles are counted,                                                *)
LEMMA CountNvmeAll == ASSUME ScanInv, AllInv, CountNvme PROVE AllInv'
<1>1. /\ phase = "sysfs" /\ phase' = "countCiss" /\ at > Len(names) /\ raid' = begin
      /\ count' = Len(names) + Cardinality(NvmeNames)
      /\ UNCHANGED <<world, heap, begin, slots>>
  BY DEF CountNvme
<1>2. Noted' = Noted
  BY <1>1 DEF Noted
<1>3. ASSUME Quiet, CountInv PROVE CountInv'
  <2>1. ASSUME NEW u \in Leads PROVE u \in Noted
    <3>1. u \in Controllers /\ u \in ScsiNames
      BY <1>3, LeadsFacts DEF ScanInv, Quiet
    <3>2. PICK k \in DOMAIN names : names[k] = u
      BY <1>1, <1>3, <3>1 DEF CountInv, Found
    <3>3. k \in 1 .. at - 1
      BY <1>1 DEF ScanInv, Types
    <3>q. QED BY <1>1, <1>3, <3>1, <3>2, <3>3 DEF CountInv
  <2>2. (Leads \ Noted)' = {}
    BY <1>1, <1>2, <2>1, SameWorld
  <2>3. Behind(Leads \ Noted)' = Behind({})
    BY <2>2 DEF Behind
  <2>4. count' >= Handles + Cardinality(Behind(Leads \ Noted)')
    BY <1>1, <1>3, <2>3, BehindNone, HandlesFinite DEF CountInv, Handles, ScanInv
  <2>5. Ahead'
    BY <1>1, AheadBegins DEF ScanInv, ListInv
  <2>q. QED BY <1>1, <1>2, <1>3, <2>4, <2>5, SameWorld DEF CountInv
<1>4. count' \in Nat
  BY <1>1, HandlesFinite DEF ScanInv, Types
<1>q. QED BY <1>1, <1>3, <1>4, SameWorld, NotFilling DEF AllInv, world

(* What the removal of a controller's entry adds to what is done.          *)
LEMMA OneDone ==
  ASSUME ScanInv, Walk, raid # NULL, Noted \subseteq Controllers, UNCHANGED world, RemoveAndNext,
         Speaks(heap[raid].handle)
  PROVE  /\ Cardinality(Behind(Leads \ Noted)') =
              Cardinality(Behind(Leads \ Noted)) + DrivesCounted(heap[raid].handle)
         /\ Cardinality(Behind(Leads \ Noted)) \in Nat
         /\ DrivesCounted(heap[raid].handle) \in Nat
<1> DEFINE u == heap[raid].handle
<1>1. u \in Noted /\ Noted' = Noted \ {u} /\ u \in Controllers
  BY NotedRemoves
<1>2. Owner(u) = u /\ drives[u] \in Nat
  BY <1>1, LeadsFacts DEF ScanInv
<1>3. Behind(Leads \ Noted)' = Behind(Leads \ (Noted \ {u}))
  BY <1>1, SameWorld
<1>4. Cardinality(Behind(Leads \ Noted)) \in Nat
  BY BehindFinite DEF ScanInv
<1> HIDE DEF u
<1>5. CASE U(u).lists
  <2>1. u \in Leads /\ DrivesCounted(u) = drives[u]
    BY <1>1, <1>2, <1>5 DEF Leads, DrivesCounted, u
  <2>2. Leads \ (Noted \ {u}) = (Leads \ Noted) \cup {u}
    BY <1>1, <2>1
  <2>3. Cardinality(Behind((Leads \ Noted) \cup {u})) = Cardinality(Behind(Leads \ Noted)) + drives[u]
    BY <1>1, <2>1, BehindOne DEF ScanInv
  <2>q. QED BY <1>2, <1>3, <1>4, <2>1, <2>2, <2>3 DEF u
<1>6. CASE ~U(u).lists
  <2>1. u \notin Leads /\ DrivesCounted(u) = 0
    BY <1>2, <1>6 DEF Leads, DrivesCounted
  <2>2. Leads \ (Noted \ {u}) = Leads \ Noted
    BY <2>1
  <2>q. QED BY <1>3, <1>4, <2>1, <2>2 DEF u
<1>q. QED BY <1>5, <1>6

(* Nor does passing by one that takes no requests change it.               *)
LEMMA NoneDone ==
  ASSUME ScanInv, Walk, raid # NULL, UNCHANGED world, KeepAndNext
  PROVE  Noted' = Noted /\ Behind(Leads \ Noted)' = Behind(Leads \ Noted)
BY NotedRemoves, SameWorld

(* the drives of a controller are counted as it leaves the list of         *)
(* handles,                                                                *)
LEMMA CountCissAll == ASSUME ScanInv, AllInv, CountCiss PROVE AllInv'
<1> DEFINE u == heap[raid].handle
<1>1. /\ phase = "countCiss" /\ phase' = phase /\ raid # NULL /\ Walk
      /\ UNCHANGED <<world, slots>>
      /\ \/ Speaks(u) /\ count' = count + DrivesCounted(u) /\ RemoveAndNext
         \/ ~Speaks(u) /\ KeepAndNext /\ count' = count
  BY DEF CountCiss, Walk
<1> HIDE DEF u
<1>2. count \in Nat /\ Handles \in Nat /\ Cardinality(Behind(Leads \ Noted)) \in Nat
  BY HandlesFinite, BehindFinite DEF AllInv, ScanInv
<1>3. ASSUME Quiet, CountInv PROVE CountInv'
  <2>1. /\ Noted \subseteq Controllers /\ Ahead
        /\ count >= Handles + Cardinality(Behind(Leads \ Noted))
    BY <1>1, <1>3 DEF CountInv
  <2>2. Noted' \subseteq Controllers
    BY <1>1, <2>1, NotedRemoves
  <2>3. Ahead'
    BY <1>1, <2>1, AheadGoesOn DEF u
  <2>4. count' >= Handles + Cardinality(Behind(Leads \ Noted)')
    <3>1. CASE Speaks(u) /\ count' = count + DrivesCounted(u) /\ RemoveAndNext
      <4>1. /\ Cardinality(Behind(Leads \ Noted)') =
                 Cardinality(Behind(Leads \ Noted)) + DrivesCounted(u)
            /\ DrivesCounted(u) \in Nat
        BY <1>1, <2>1, <3>1, OneDone DEF u
      <4>q. QED BY <1>2, <2>1, <3>1, <4>1
    <3>2. CASE ~Speaks(u) /\ KeepAndNext /\ count' = count
      BY <1>1, <2>1, <3>2, NoneDone
    <3>q. QED BY <1>1, <3>1, <3>2
  <2>q. QED BY <1>1, <2>2, <2>3, <2>4, SameWorld DEF CountInv
<1>4. count' \in Nat
  <2>1. raid \in DOMAIN heap /\ u \in Units /\ RaidDriver(u)
    BY <1>1 DEF ScanInv, ListInv, u
  <2>2. DrivesCounted(u) \in Nat
    BY <2>1, SystemFacts DEF DrivesCounted, ScanInv
  <2>q. QED BY <1>1, <1>2, <2>2
<1>q. QED BY <1>1, <1>3, <1>4, SameWorld, NotFilling DEF AllInv, world

(* and when none is left in it that speaks, all drives are.                *)
LEMMA CountDoneAll == ASSUME ScanInv, AllInv, CountDone PROVE AllInv'
<1>1. /\ phase = "countCiss" /\ phase' = "allocate" /\ raid = NULL /\ UNCHANGED <<world, count, slots>>
  BY DEF CountDone
<1>2. ASSUME Quiet, CountInv PROVE CountInv'
  <2>1. Ahead /\ count >= Handles + Cardinality(Behind(Leads \ Noted))
    BY <1>1, <1>2 DEF CountInv
  <2>2. Leads \ Noted = Leads
    BY <1>1, <2>1, NothingAhead DEF Leads, Noted
  <2>q. QED BY <1>1, <2>1, <2>2, SameWorld DEF CountInv
<1>q. QED BY <1>1, <1>2, SameWorld, NotFilling DEF AllInv, world

(* After the count nothing is counted.                                     *)
LEMMA CountStays ==
  ASSUME AllInv, UNCHANGED <<world, count>>,
         {phase, phase'} \cap {"countScan", "sysfs", "countCiss"} = {}
  PROVE  /\ changes' \in Nat /\ count' \in Nat
         /\ Quiet' => Quiet /\ CountInv' /\ count >= Handles + Cardinality(Behind(Leads))
<1>1. changes' \in Nat /\ count' \in Nat
  BY DEF AllInv, world
<1>2. ASSUME Quiet PROVE CountInv' /\ count >= Handles + Cardinality(Behind(Leads))
  <2>1. count >= Handles + Cardinality(Behind(Leads))
    BY <1>2 DEF AllInv, CountInv
  <2>2. count' >= Handles' + Cardinality(Behind(Leads)')
    BY <2>1, SameWorld
  <2>q. QED BY <2>1, <2>2 DEF CountInv
<1>q. QED BY <1>1, <1>2, SameWorld

(* The application's list may be of any size.                              *)
LEMMA AllocateAll == ASSUME ScanInv, AllInv, Allocate PROVE AllInv'
<1>1. phase = "allocate" /\ phase' = "listScan" /\ UNCHANGED <<world, count>>
  BY DEF Allocate
<1>q. QED BY <1>1, CountStays, NotFilling DEF AllInv

(* The actions of get_Device_List: the names found are the ones counted,   *)
LEMMA ListScanAll == ASSUME ScanInv, AllInv, ListScan PROVE AllInv'
<1>1. PICK s \in InOrder(ScsiNames), n \in InOrder(NvmeNames) :
         /\ names' = s \o n /\ phase = "listScan" /\ at' = 1
         /\ slots = 0 \/ phase' = "open"
         /\ phase' \in {"open", "done"}
         /\ UNCHANGED <<world, raidList, count, slots, filled>>
  BY DEF ListScan
<1>2. /\ Len(s) = Cardinality(ScsiNames) /\ ScsiNames = {s[k] : k \in DOMAIN s}
      /\ Len(n) = Cardinality(NvmeNames) /\ NvmeNames = {n[k] : k \in DOMAIN n}
  BY HandlesFinite, InOrderFinds DEF ScanInv
<1>3. s \in Seq(ScsiNames) /\ n \in Seq(NvmeNames)
  BY HandlesFinite, InOrderFacts DEF ScanInv
<1>4. /\ Len(names') = Len(s) + Len(n) /\ DOMAIN names' = 1 .. Len(s) + Len(n)
      /\ \A k \in 1 .. Len(s) : names'[k] = s[k]
      /\ \A k \in 1 .. Len(n) : names'[Len(s) + k] = n[k]
      /\ \A k \in DOMAIN names' :
           k \in 1 .. Len(s) \/ (k - Len(s) \in 1 .. Len(n) /\ names'[k] = n[k - Len(s)])
      /\ DOMAIN s = 1 .. Len(s) /\ DOMAIN n = 1 .. Len(n) /\ Len(s) \in Nat /\ Len(n) \in Nat
  BY <1>1, <1>3
<1>5. ScsiNames \cup NvmeNames = {names'[k] : k \in DOMAIN names'}
  <2>1. ASSUME NEW k \in DOMAIN names' PROVE names'[k] \in ScsiNames \cup NvmeNames
    BY <1>2, <1>4
  <2>2. ASSUME NEW u \in ScsiNames PROVE \E k \in DOMAIN names' : names'[k] = u
    <3>1. PICK k \in 1 .. Len(s) : s[k] = u
      BY <1>2, <1>4
    <3>q. QED BY <1>4, <3>1
  <2>3. ASSUME NEW u \in NvmeNames PROVE \E k \in DOMAIN names' : names'[k] = u
    <3>1. PICK k \in 1 .. Len(n) : n[k] = u
      BY <1>2, <1>4
    <3>2. Len(s) + k \in DOMAIN names' /\ names'[Len(s) + k] = u
      BY <1>4, <3>1
    <3>q. QED BY <3>2
  <2>q. QED BY <2>1, <2>2, <2>3
<1>6. Found(ScsiNames \cup NvmeNames)' /\ Len(names') = Handles'
  BY <1>1, <1>2, <1>4, <1>5, SameWorld DEF Found, Handles
<1>7. 1 .. at' - 1 = {}
  BY <1>1
<1>8. FillInv'
  BY <1>1, <1>6, <1>7 DEF FillInv, Started
<1>q. QED BY <1>1, <1>8, CountStays DEF AllInv

(* Once something came or went nothing is claimed.                         *)
LEMMA ChangeAll ==
  ASSUME ScanInv, AllInv, Change \/ UNCHANGED scanVars
  PROVE  AllInv'
<1>1. CASE Change
  BY <1>1 DEF Change, AllInv, Quiet
<1>2. CASE UNCHANGED scanVars
  <2>1. /\ UNCHANGED <<world, phase, names, at, heap, raid, count, slots, list, cissAt, luns>>
    BY <1>2 DEF scanVars, raidList, filled
  <2>2. Noted' = Noted /\ Ahead' = Ahead
    BY <2>1, SameWorld DEF Noted, Ahead, NextClosed
  <2>3. \A u, d : Shown(u, d)' = Shown(u, d) /\ AllShown(u, d)' = AllShown(u, d)
    BY <2>1, SameWorld DEF Shown, AllShown
  <2>4. Started' = Started
    BY <2>1 DEF Started
  <2>5. CountInv' = CountInv
    BY <2>1, <2>2, SameWorld DEF CountInv, Found
  <2>6. FillInv' = FillInv
    BY <2>1, <2>2, <2>3, <2>4, SameWorld DEF FillInv, Found
  <2>q. QED BY <2>1, <2>5, <2>6, SameWorld DEF AllInv, world
<1>q. QED BY <1>1, <1>2

-----------------------------------------------------------------------------
(* Filling the list in.                                                    *)

(* What is shown stays so.                                                 *)
LEMMA ShownStays ==
  ASSUME Types, UNCHANGED world, list' = list \/ \E e \in Entry : list' = Append(list, e)
  PROVE  /\ \A u, d : Shown(u, d) => Shown(u, d)'
         /\ \A u, n : AllShown(u, n) => AllShown(u, n)'
<1>1. \A u, d : Shown(u, d) => Shown(u, d)'
  <2> SUFFICES ASSUME NEW u, NEW d, NEW i \in DOMAIN list,
                      list[i] = [unit |-> u, drive |-> d, ok |-> TRUE]
               PROVE  Shown(u, d)'
    BY DEF Shown
  <2>1. i \in DOMAIN list' /\ list'[i] = list[i]
    <3>1. CASE list' = list
      BY <3>1
    <3>2. CASE \E e \in Entry : list' = Append(list, e)
      <4>1. PICK e \in Entry : list' = Append(list, e)
        BY <3>2
      <4>2. list \in Seq(Entry)
        BY DEF Types
      <4>3. /\ Len(list) \in Nat /\ DOMAIN list = 1 .. Len(list)
            /\ DOMAIN list' = 1 .. Len(list) + 1
            /\ \A j \in 1 .. Len(list) : list'[j] = list[j]
        BY <4>1, <4>2, Appended
      <4>4. i \in 1 .. Len(list)
        BY <4>3
      <4>5. list'[i] = list[i]
        BY <4>3, <4>4
      <4>q. QED BY <4>3, <4>4, <4>5
    <3>q. QED BY <3>1, <3>2
  <2>q. QED BY <2>1 DEF Shown
<1>q. QED BY <1>1, SameWorld DEF AllShown

(* a handle that is ready is in the list, and noted where it leads to      *)
(* drives,                                                                 *)
LEMMA OpenHandleAll == ASSUME ScanInv, AllInv, OpenHandle PROVE AllInv'
<1> DEFINE u == names[at]
           wanted == Opens(u) /\ U(u).ready /\ LookBehind(u)
           e == [unit |-> u, drive |-> 0, ok |-> U(u).ready]
<1>1. /\ phase = "open" /\ phase' = phase /\ at <= Len(names) /\ at' = at + 1
      /\ UNCHANGED <<world, names, count, slots>>
      /\ Note(u, wanted)
      /\ Opens(u) => list' = Append(list, e)
      /\ ~Opens(u) => list' = list
  BY DEF OpenHandle, MoreHandles, Fill, Note
<1>2. /\ u \in Units /\ at \in 1 .. Len(names) /\ Len(names) \in Nat /\ list \in Seq(Entry)
      /\ U(u).ready \in BOOLEAN
  <2>1. /\ u \in Units /\ at \in 1 .. Len(names) /\ Len(names) \in Nat /\ list \in Seq(Entry)
        /\ system \in System
    BY <1>1, ScanAssumption DEF ScanInv, Types
  <2>2. U(u) \in Unit
    BY <2>1 DEF System, Units, U
  <2>q. QED BY <2>1, <2>2 DEF Unit
<1>3. wanted \in BOOLEAN /\ (wanted => RaidDriver(u)) /\ e \in Entry
  BY <1>2 DEF LookBehind, Entry
<1>4. Noted' = IF wanted THEN Noted \cup {u} ELSE Noted
  <2> DEFINE w == wanted
  <2>1. w \in BOOLEAN /\ (w => RaidDriver(u)) /\ Note(u, w)
    BY <1>1, <1>3
  <2> HIDE DEF w, u
  <2>2. Noted' = IF w THEN Noted \cup {u} ELSE Noted
    BY <1>1, <1>2, <2>1, NotedAdds
  <2>q. QED BY <2>2 DEF w
<1>5. u \in Controllers /\ Ready(u) => wanted
  BY DEF Ready, LookBehind, Controllers, RaidDriver
<1>6. \A x : x = u /\ Ready(x) => Shown(x, 0)'
  <2> SUFFICES ASSUME NEW x, x = u, Ready(x) PROVE Shown(x, 0)'
    OBVIOUS
  <2>1. list' = Append(list, e) /\ e = [unit |-> x, drive |-> 0, ok |-> TRUE]
    BY <1>1 DEF Ready
  <2> HIDE DEF e
  <2>2. Len(list) \in Nat /\ DOMAIN list' = 1 .. Len(list) + 1 /\ list'[Len(list) + 1] = e
    BY <1>2, <1>3, <2>1, Appended
  <2>3. Len(list) + 1 \in DOMAIN list'
    BY <2>2
  <2>q. QED BY <2>1, <2>2, <2>3 DEF Shown
<1>7. \A x, d : Shown(x, d) => Shown(x, d)'
  <2> HIDE DEF e, u
  <2>1. list' = list \/ \E x \in Entry : list' = Append(list, x)
    BY <1>1, <1>3
  <2>2. Types /\ world' = world
    BY <1>1 DEF ScanInv
  <2>q. QED BY <2>1, <2>2, ShownStays
<1> HIDE DEF u, wanted, e
<1>8. ASSUME Quiet, slots >= count, FillInv PROVE FillInv'
  <2>1. Started /\ Started'
    BY <1>1 DEF ScanInv, Ends, Before, Started
  <2>2. Found(ScsiNames \cup NvmeNames)' /\ Len(names') = Handles'
    BY <1>1, <1>8, <2>1, SameWorld DEF FillInv, Found
  <2>3. ASSUME NEW k \in 1 .. at' - 1
        PROVE  /\ Ready(names[k]) => Shown(names[k], 0)'
               /\ names[k] \in Controllers /\ Ready(names[k]) => names[k] \in Noted'
    <3>1. CASE k = at
      <4>1. names[k] = u
        BY <3>1 DEF u
      <4>2. names'[k] = u
        BY <1>1, <4>1
      <4>q. QED BY <1>4, <1>5, <1>6, <4>1, <4>2
    <3>2. CASE k # at
      <4>1. k \in 1 .. at - 1
        BY <1>1, <1>2, <3>2
      <4>q. QED BY <1>1, <1>4, <1>7, <1>8, <2>1, <4>1 DEF FillInv
    <3>q. QED BY <3>1, <3>2
  <2>q. QED BY <1>1, <2>2, <2>3, SameWorld DEF FillInv
<1>q. QED BY <1>1, <1>8, CountStays DEF AllInv

(* With room for all that was counted no handle is left out,               *)
LEMMA RoomForHandles ==
  ASSUME ScanInv, phase = "open", ~(MoreHandles /\ Room), slots >= Len(names),
         Len(names) <= MaxDevicesToScan
  PROVE  at > Len(names) /\ Len(list) <= Len(names)
<1>1. /\ Len(names) \in Nat /\ at \in 1 .. Len(names) + 1 /\ slots \in Nat /\ Len(list) \in Nat
      /\ slots > 0
  BY DEF ScanInv, Types, Ends, Before
<1>2. Refused \in Nat
  BY DEF ScanInv, Types, Refused, Causes, Refusals
<1>3. Len(list) + Refused = at - 1
  BY <1>1 DEF ScanInv, HandlesCounted, HandleEntries, Before
<1>4. MaxDevicesToScan \in Nat
  BY ScanAssumption
<1>q. QED BY <1>1, <1>2, <1>3, <1>4 DEF Room, MoreHandles

(* and no drive: where the list is full, there are none left to be listed. *)
LEMMA RoomForDrives ==
  ASSUME ScanInv, NEW S \in SUBSET Leads, Len(list) >= slots, slots >= count, count \in Nat,
         count >= Handles + Cardinality(Behind(Leads)),
         Len(list) <= Handles + Cardinality(Behind(S)),
         NEW u \in Leads, u \notin S
  PROVE  drives[u] = 0
<1>1. /\ Handles \in Nat /\ Len(list) \in Nat /\ slots \in Nat
      /\ Cardinality(Behind(S)) \in Nat /\ Cardinality(Behind(Leads)) \in Nat
      /\ Cardinality(Behind(S)) <= Cardinality(Behind(Leads))
  BY HandlesFinite, BehindFinite DEF ScanInv, Types
<1>2. Cardinality(Behind(S)) = Cardinality(Behind(Leads))
  BY <1>1
<1>3. Behind(S) = Behind(Leads)
  BY <1>2, BehindFinite DEF ScanInv
<1>4. <<u, 1>> \notin Behind(Leads)
  BY <1>3 DEF Behind
<1>5. drives[u] \in 0 .. MaxDrives /\ MaxDrives \in Nat
  BY ScanAssumption DEF ScanInv, Types, Leads
<1>6. CASE drives[u] >= 1
  <2>1. 1 \in 1 .. MaxDrives
    BY <1>5, <1>6
  <2>2. <<u, 1>> \in Behind(Leads)
    BY <1>5, <1>6, <2>1 DEF Behind
  <2>q. QED BY <1>4, <2>2
<1>q. QED BY <1>5, <1>6

(* no handle was left for want of room,                                    *)
LEMMA HandlesDoneAll == ASSUME ScanInv, AllInv, HandlesDone PROVE AllInv'
<1>1. /\ phase = "open" /\ cissAt' = Len(list) /\ ~(MoreHandles /\ Room)
      /\ UNCHANGED <<world, names, at, heap, begin, count, slots, list, luns>>
      /\ \/ Len(list) < slots /\ begin # NULL /\ raid' = begin /\ phase' = "ciss"
         \/ ~(Len(list) < slots /\ begin # NULL) /\ phase' = "result"
  BY DEF HandlesDone
<1>2. /\ Noted' = Noted /\ \A u, d : Shown(u, d)' = Shown(u, d)
      /\ \A u, n : AllShown(u, n)' = AllShown(u, n)
  BY <1>1, SameWorld DEF Noted, Shown, AllShown
<1>3. ASSUME Quiet, slots >= count, FillInv, count >= Handles + Cardinality(Behind(Leads))
      PROVE  FillInv'
  <2>1. Started /\ Started'
    BY <1>1 DEF ScanInv, Ends, Before, Started
  <2>2. /\ Handles \in Nat /\ Cardinality(Behind(Leads)) \in Nat /\ count \in Nat
        /\ slots \in Nat /\ Len(list) \in Nat /\ Len(names) = Handles
    BY <1>3, <2>1, HandlesFinite, BehindFinite DEF ScanInv, Types, AllInv, FillInv
  <2>3. at > Len(names) /\ Len(list) <= Len(names)
    BY <1>1, <1>3, <2>2, RoomForHandles DEF Quiet
  <2>4. ASSUME NEW u \in Leads, Ready(u) PROVE u \in Noted
    <3>1. u \in ScsiNames /\ u \in Controllers
      BY <1>3, LeadsFacts DEF ScanInv, Quiet
    <3>2. PICK k \in DOMAIN names : names[k] = u
      BY <1>3, <2>1, <3>1 DEF FillInv, Found
    <3>3. k \in 1 .. at - 1
      BY <2>3 DEF ScanInv, Types
    <3>q. QED BY <1>1, <1>3, <2>4, <3>1, <3>2, <3>3 DEF FillInv
  <2>5. Found(ScsiNames \cup NvmeNames)' /\ Len(names') = Handles'
    BY <1>1, <1>3, <2>1, SameWorld DEF FillInv, Found
  <2>6. \A k \in 1 .. at' - 1 : Ready(names[k])' => Shown(names[k], 0)'
    BY <1>1, <1>2, <1>3, <2>1, SameWorld DEF FillInv
  <2>7. CASE begin # NULL /\ raid' = begin /\ phase' = "ciss"
    <3>1. Ahead'
      BY <1>1, <2>7, AheadBegins DEF ScanInv, ListInv
    <3>2. Cardinality(Behind(Leads \ Noted)') \in Nat
      BY <1>1, BehindFinite, SameWorld DEF ScanInv
    <3>3. Len(list') <= cissAt' + Cardinality(Behind(Leads \ Noted)') + 0
      BY <1>1, <2>2, <3>2
    <3>4. \A u \in Leads' : Ready(u)' => u \in Noted'
      BY <1>1, <1>2, <2>4, SameWorld
    <3>q. QED BY <1>1, <2>3, <2>5, <2>6, <2>7, <3>1, <3>3, <3>4 DEF FillInv
  <2>8. CASE ~(Len(list) < slots /\ begin # NULL) /\ phase' = "result"
    <3>1. ASSUME NEW u \in Leads, Ready(u) PROVE AllShown(u, drives[u])
      <4>1. begin # NULL
        <5>1. begin = NULL => Noted = {}
          BY <1>1, NullEmpty DEF Noted, ScanInv, ListInv
        <5>q. QED BY <2>4, <3>1, <5>1
      <4>2. Len(list) >= slots
        BY <2>2, <2>8, <4>1
      <4>3. Len(list) <= Handles + Cardinality(Behind({}))
        BY <2>2, <2>3, BehindNone
      <4>4. drives[u] = 0
        BY <1>3, <2>2, <4>2, <4>3, RoomForDrives
      <4>q. QED BY <4>4 DEF AllShown
    <3>2. \A u \in Leads' : Ready(u)' => AllShown(u, drives[u])'
      BY <1>1, <1>2, <3>1, SameWorld
    <3>q. QED BY <1>1, <2>3, <2>5, <2>6, <2>8, <3>2 DEF FillInv
  <2>q. QED BY <1>1, <2>7, <2>8
<1>q. QED BY <1>1, <1>3, CountStays DEF AllInv

(* a handle that takes no requests leads to no drives,                     *)
LEMMA CissAll == ASSUME ScanInv, AllInv, Ciss PROVE AllInv'
<1> DEFINE u == heap[raid].handle
<1>1. /\ phase = "ciss" /\ raid # NULL /\ Walk
      /\ UNCHANGED <<world, names, at, count, slots, list, cissAt>>
      /\ \/ /\ Speaks(u) /\ luns' = [all |-> DrivesCounted(u), done |-> 0] /\ phase' = "lun"
            /\ UNCHANGED raidList
         \/ ~Speaks(u) /\ KeepAndNext /\ phase' = phase
  BY DEF Ciss, Walk, DrivesCounted
<1>2. /\ \A v, d : Shown(v, d)' = Shown(v, d)
      /\ \A v, n : AllShown(v, n)' = AllShown(v, n)
  BY <1>1, SameWorld DEF Shown, AllShown
<1>3. Noted' = Noted /\ Behind(Leads \ Noted)' = Behind(Leads \ Noted)
  <2>1. CASE KeepAndNext
    BY <1>1, <2>1, NoneDone
  <2>2. CASE UNCHANGED raidList
    <3>1. Noted' = Noted
      BY <2>2 DEF Noted, raidList
    <3>q. QED BY <1>1, <3>1, SameWorld
  <2>q. QED BY <1>1, <2>1, <2>2
<1>4. ASSUME Quiet, FillInv PROVE FillInv'
  <2>1. Started /\ Started' /\ phase' # "open"
    BY <1>1 DEF ScanInv, Ends, Before, Started
  <2>2. Found(ScsiNames \cup NvmeNames)' /\ Len(names') = Handles' /\ at' > Len(names')
    BY <1>1, <1>4, <2>1, SameWorld DEF FillInv, Found
  <2>3. \A k \in 1 .. at' - 1 : Ready(names[k])' => Shown(names[k], 0)'
    BY <1>1, <1>2, <1>4, <2>1, SameWorld DEF FillInv
  <2>4. Ahead'
    <3>1. CASE ~Speaks(u) /\ KeepAndNext
      BY <1>1, <1>4, <3>1, AheadGoesOn DEF FillInv
    <3>2. CASE UNCHANGED raidList
      BY <1>1, <1>4, <3>2, SameWorld DEF FillInv, Ahead, NextClosed, raidList
    <3>q. QED BY <1>1, <3>1, <3>2
  <2>5. Len(list') <= cissAt' + Cardinality(Behind(Leads \ Noted)') + 0
    BY <1>1, <1>3, <1>4 DEF FillInv
  <2>6. \A v \in Leads' : Ready(v)' => v \in Noted' \/ AllShown(v, drives[v])'
    BY <1>1, <1>2, <1>3, <1>4, SameWorld DEF FillInv
  <2>7. phase' = "lun" => luns'.done = 0
    BY <1>1
  <2>8. phase' = "lun" => LET v == heap[raid].handle
                          IN (Speaks(v) /\ luns.all = DrivesCounted(v) /\ AllShown(v, luns.done))'
    <3>1. ASSUME phase' = "lun"
          PROVE  /\ heap' = heap /\ raid' = raid /\ Speaks(u)
                 /\ luns'.all = DrivesCounted(u) /\ luns'.done = 0
      BY <1>1, <3>1 DEF raidList
    <3>2. \A v : AllShown(v, 0)'
      BY DEF AllShown
    <3>q. QED BY <1>1, <3>1, <3>2, SameWorld
  <2>q. QED BY <1>1, <2>1, <2>2, <2>3, <2>4, <2>5, <2>6, <2>7, <2>8 DEF FillInv
<1>q. QED BY <1>1, <1>4, CountStays DEF AllInv

(* One drive of the controller looked at.                                  *)
LEMMA DriveAll ==
  ASSUME ScanInv, AllInv, Lun, luns.done < luns.all
  PROVE  AllInv'
<1> DEFINE u == heap[raid].handle
           d == luns.done + 1
           e == [unit |-> u, drive |-> d, ok |-> DriveAnswers(u, d)]
<1>1. /\ phase = "lun" /\ phase' = phase /\ raid # NULL
      /\ UNCHANGED <<world, names, at, count, slots, cissAt, raidList>>
      /\ luns' = [luns EXCEPT !.done = @ + 1] /\ list' = Append(list, e)
  <2>1. luns.done \in Nat /\ luns.all \in Nat /\ luns.done # luns.all
    BY DEF ScanInv, Types
  <2>2. phase = "lun" /\ raid # NULL
    BY DEF Lun, ScanInv, ListInv
  <2>3. /\ Fill(u, d, DriveAnswers(u, d), "drive") /\ luns' = [luns EXCEPT !.done = @ + 1]
        /\ UNCHANGED <<phase, raidList, world, names, at, count, slots, cissAt>>
    BY <2>1 DEF Lun
  <2>q. QED BY <2>2, <2>3 DEF Fill
<1>2. /\ luns.done \in Nat /\ luns.all \in Nat /\ luns'.done = d /\ luns'.all = luns.all
      /\ list \in Seq(Entry) /\ Types
  BY <1>1 DEF ScanInv, Types
<1>3. raid \in DOMAIN heap /\ u \in Units /\ u \in Nat
  BY <1>1, SystemFacts DEF ScanInv, ListInv
<1>4. e \in Entry /\ d \in Nat /\ d >= 1
  BY <1>2, <1>3 DEF Entry, DriveAnswers, Opens
<1>5. list' = list \/ \E x \in Entry : list' = Append(list, x)
  BY <1>1, <1>4
<1>6. Len(list) \in Nat /\ Len(list') = Len(list) + 1 /\ DOMAIN list' = 1 .. Len(list) + 1
      /\ list'[Len(list) + 1] = e
  <2> HIDE DEF e
  <2>q. QED BY <1>1, <1>2, <1>4, Appended
<1>7. /\ \A v, n : Shown(v, n) => Shown(v, n)'
      /\ \A v, n : AllShown(v, n) => AllShown(v, n)'
  <2>1. world' = world
    BY <1>1
  <2>q. QED BY <1>2, <1>5, <2>1, ShownStays
<1>8. Noted' = Noted /\ heap' = heap /\ raid' = raid
  BY <1>1 DEF Noted, raidList
<1>9. Behind(Leads \ Noted)' = Behind(Leads \ Noted)
  BY <1>1, <1>8, SameWorld
<1>10. ASSUME Quiet, FillInv PROVE FillInv'
  <2>1. Started /\ Started' /\ phase' # "open"
    BY <1>1 DEF ScanInv, Ends, Before, Started
  <2>2. Found(ScsiNames \cup NvmeNames)' /\ Len(names') = Handles' /\ at' > Len(names')
    BY <1>1, <1>10, <2>1, SameWorld DEF FillInv, Found
  <2>3. \A k \in 1 .. at' - 1 : Ready(names[k])' => Shown(names[k], 0)'
    BY <1>1, <1>7, <1>10, <2>1, SameWorld DEF FillInv
  <2>4. Ahead'
    BY <1>1, <1>8, <1>10, SameWorld DEF FillInv, Ahead, NextClosed
  <2>5. Len(list') <= cissAt' + Cardinality(Behind(Leads \ Noted)') + luns'.done
    <3>1. Cardinality(Behind(Leads \ Noted)) \in Nat /\ cissAt \in Nat
      BY <1>2, BehindFinite DEF Types
    <3>2. Len(list) <= cissAt + Cardinality(Behind(Leads \ Noted)) + luns.done
      BY <1>1, <1>10 DEF FillInv
    <3>q. QED BY <1>1, <1>2, <1>6, <1>9, <3>1, <3>2
  <2>6. \A v \in Leads' : Ready(v)' => v \in Noted' \/ AllShown(v, drives[v])'
    BY <1>1, <1>7, <1>8, <1>10, SameWorld DEF FillInv
  <2>7. Speaks(u) /\ luns.all = DrivesCounted(u) /\ AllShown(u, luns.done)
    BY <1>1, <1>10 DEF FillInv
  <2>8. \A x, m : x = u /\ m = d => AllShown(x, m)'
    <3> SUFFICES ASSUME NEW x, NEW m, x = u, m = d,
                        NEW n \in 1 .. d, n \notin U(x).bad
                 PROVE  Shown(x, n)'
      BY <1>1, SameWorld DEF AllShown
    <3>1. CASE n = d
      <4>1. u \in Controllers
        BY <1>1, <1>3, <1>10 DEF ScanInv, Listed, Quiet, Controllers
      <4>2. Owner(u) = u /\ drives[u] \in Nat
        BY <1>2, <4>1, LeadsFacts
      <4>3. d <= drives[u]
        BY <1>2, <2>7, <4>2 DEF DrivesCounted
      <4>4. DriveAnswers(u, d)
        BY <1>10, <2>7, <3>1, <4>2, <4>3 DEF DriveAnswers, Speaks, Quiet
      <4>5. list'[Len(list) + 1] = [unit |-> x, drive |-> n, ok |-> TRUE]
        BY <1>6, <3>1, <4>4
      <4>6. Len(list) + 1 \in DOMAIN list'
        BY <1>6
      <4>q. QED BY <4>5, <4>6 DEF Shown
    <3>2. CASE n # d
      <4>1. n \in 1 .. luns.done
        BY <1>2, <3>2
      <4>q. QED BY <1>7, <2>7, <4>1 DEF AllShown
    <3>q. QED BY <3>1, <3>2
  <2> HIDE DEF d, e
  <2>9. LET v == heap[raid].handle
        IN (Speaks(v) /\ luns.all = DrivesCounted(v) /\ AllShown(v, luns.done))'
    <3>1. ASSUME NEW x, NEW n, x = u, n = d
          PROVE  /\ Speaks(x)' /\ luns'.all = DrivesCounted(x)' /\ AllShown(x, n)'
      <4>1. Speaks(x)' /\ DrivesCounted(x)' = DrivesCounted(x)
        BY <1>1, <2>7, <3>1, SameWorld
      <4>2. luns'.all = DrivesCounted(x)
        BY <1>2, <2>7, <3>1
      <4>q. QED BY <2>8, <3>1, <4>1, <4>2
    <3>2. heap'[raid'].handle = u /\ luns'.done = d
      BY <1>2, <1>8
    <3>q. QED BY <3>1, <3>2
  <2>q. QED BY <1>1, <2>1, <2>2, <2>3, <2>4, <2>5, <2>6, <2>9 DEF FillInv
<1>q. QED BY <1>1, <1>10, CountStays DEF AllInv

(* A controller that has been dealt with.                                  *)
LEMMA ControllerAll ==
  ASSUME ScanInv, AllInv, Lun, luns.done = luns.all, RemoveAndNext, phase' = "ciss",
         UNCHANGED <<list, failed, luns>>
  PROVE  AllInv'
<1> DEFINE u == heap[raid].handle
<1>1. /\ phase = "lun" /\ raid # NULL /\ Walk
      /\ UNCHANGED <<world, names, at, count, slots, cissAt>>
  BY DEF Lun, ScanInv, ListInv, Walk
<1>2. /\ \A v, d : Shown(v, d)' = Shown(v, d)
      /\ \A v, n : AllShown(v, n)' = AllShown(v, n)
  BY <1>1, SameWorld DEF Shown, AllShown
<1>3. Noted' = Noted \ {u}
  BY <1>1, NotedRemoves
<1>4. luns.done \in Nat /\ Len(list) \in Nat /\ cissAt \in Nat
  BY DEF ScanInv, Types
<1>5. ASSUME Quiet, FillInv PROVE FillInv'
  <2>1. Started /\ Started'
    BY <1>1 DEF ScanInv, Ends, Before, Started
  <2>2. Found(ScsiNames \cup NvmeNames)' /\ Len(names') = Handles' /\ at' > Len(names')
    BY <1>1, <1>5, <2>1, SameWorld DEF FillInv, Found
  <2>3. \A k \in 1 .. at' - 1 : Ready(names[k])' => Shown(names[k], 0)'
    BY <1>1, <1>2, <1>5, <2>1, SameWorld DEF FillInv
  <2>4. /\ Speaks(u) /\ luns.all = DrivesCounted(u) /\ AllShown(u, luns.done)
        /\ Ahead /\ Len(list) <= cissAt + Cardinality(Behind(Leads \ Noted)) + luns.done
    BY <1>1, <1>5 DEF FillInv
  <2>5. Ahead'
    BY <1>1, <2>4, AheadGoesOn
  <2>6. Noted \subseteq Controllers
    BY <1>1, <1>5 DEF ScanInv, ListInv, Listed, Noted, Quiet, Controllers
  <2>7. Len(list') <= cissAt' + Cardinality(Behind(Leads \ Noted)') + 0
    <3>1. /\ Cardinality(Behind(Leads \ Noted)') =
               Cardinality(Behind(Leads \ Noted)) + luns.done
          /\ Cardinality(Behind(Leads \ Noted)) \in Nat
      BY <1>1, <2>4, <2>6, OneDone
    <3>q. QED BY <1>1, <1>4, <2>4, <3>1
  <2>8. \A v \in Leads' : Ready(v)' => v \in Noted' \/ AllShown(v, drives[v])'
    <3>1. ASSUME NEW v \in Leads, Ready(v) PROVE v \in Noted' \/ AllShown(v, drives[v])
      <4>1. CASE v = u
        <5>1. Owner(u) = u /\ DrivesCounted(u) = drives[u]
          BY <4>1, LeadsFacts DEF ScanInv, Leads, DrivesCounted
        <5>q. QED BY <2>4, <4>1, <5>1
      <4>2. CASE v # u
        BY <1>1, <1>3, <1>5, <3>1, <4>2 DEF FillInv
      <4>q. QED BY <4>1, <4>2
    <3>q. QED BY <1>1, <1>2, <3>1, SameWorld
  <2>q. QED BY <1>1, <2>1, <2>2, <2>3, <2>5, <2>7, <2>8 DEF FillInv
<1>q. QED BY <1>1, <1>5, CountStays DEF AllInv

(* an entry is done when all drives of its controller are listed,          *)
LEMMA LunAll == ASSUME ScanInv, AllInv, Lun PROVE AllInv'
<1>1. \/ luns.done < luns.all
      \/ luns.done = luns.all /\ RemoveAndNext /\ phase' = "ciss" /\ UNCHANGED <<list, failed, luns>>
  BY DEF Lun
<1>q. QED BY <1>1, DriveAll, ControllerAll

(* and where the room ends, no drive is left.                              *)
LEMMA CissDoneAll == ASSUME ScanInv, AllInv, CissDone PROVE AllInv'
<1>1. /\ phase = "ciss" /\ phase' = "result" /\ (raid = NULL \/ ~Room)
      /\ UNCHANGED <<world, names, at, count, slots, list>>
  BY DEF CissDone, filled
<1>2. /\ \A v, d : Shown(v, d)' = Shown(v, d)
      /\ \A v, n : AllShown(v, n)' = AllShown(v, n)
  BY <1>1, SameWorld DEF Shown, AllShown
<1>3. ASSUME Quiet, slots >= count, FillInv, count >= Handles + Cardinality(Behind(Leads))
      PROVE  FillInv'
  <2>1. Started /\ Started'
    BY <1>1 DEF ScanInv, Ends, Before, Started
  <2>2. Found(ScsiNames \cup NvmeNames)' /\ Len(names') = Handles' /\ at' > Len(names')
    BY <1>1, <1>3, <2>1, SameWorld DEF FillInv, Found
  <2>3. \A k \in 1 .. at' - 1 : Ready(names[k])' => Shown(names[k], 0)'
    BY <1>1, <1>2, <1>3, <2>1, SameWorld DEF FillInv
  <2>4. ASSUME NEW u \in Leads, Ready(u) PROVE AllShown(u, drives[u])
    <3>1. CASE u \notin Noted
      BY <1>1, <1>3, <2>4, <3>1 DEF FillInv
    <3>2. CASE u \in Noted /\ raid = NULL
      <4>1. ~Speaks(u)
        BY <1>1, <1>3, <3>2, NothingAhead DEF FillInv, Noted
      <4>q. QED BY <4>1 DEF Leads
    <3>3. CASE u \in Noted /\ ~Room
      <4>1. /\ Len(list) \in Nat /\ slots \in Nat /\ cissAt \in Nat /\ count \in Nat
            /\ Len(names) = Handles /\ Handles \in Nat /\ Refused \in Nat
            /\ Cardinality(Behind(Leads \ Noted)) \in Nat /\ at \in 1 .. Handles + 1
            /\ Len(list) <= cissAt + Cardinality(Behind(Leads \ Noted))
        <5>1. Types
          BY DEF ScanInv
        <5>2. /\ Len(list) \in Nat /\ slots \in Nat /\ cissAt \in Nat /\ count \in Nat
              /\ at \in 1 .. Len(names) + 1
          BY <5>1 DEF Types, AllInv
        <5>3. Refused \in Nat
          BY <5>1 DEF Types, Refused, Causes, Refusals
        <5>4. Handles \in Nat /\ Cardinality(Behind(Leads \ Noted)) \in Nat
          BY <5>1, HandlesFinite, BehindFinite
        <5>5. /\ Len(names) = Handles
              /\ Len(list) <= cissAt + Cardinality(Behind(Leads \ Noted)) + 0
          BY <1>1, <1>3, <2>1 DEF FillInv
        <5>q. QED BY <5>2, <5>3, <5>4, <5>5
      <4>2. cissAt + Refused = at - 1
        BY <1>1, <2>1 DEF ScanInv, HandlesCounted, HandleEntries, Before, Started
      <4>3. Len(list) >= slots
        BY <3>3, <4>1 DEF Room
      <4>4. Len(list) <= Handles + Cardinality(Behind(Leads \ Noted))
        BY <4>1, <4>2
      <4>5. drives[u] = 0
        BY <1>3, <3>3, <4>1, <4>3, <4>4, RoomForDrives
      <4>q. QED BY <4>5 DEF AllShown
    <3>q. QED BY <1>1, <3>1, <3>2, <3>3
  <2>5. \A u \in Leads' : Ready(u)' => AllShown(u, drives[u])'
    BY <1>1, <1>2, <2>4, SameWorld
  <2>q. QED BY <1>1, <2>2, <2>3, <2>5 DEF FillInv
<1>q. QED BY <1>1, <1>3, CountStays DEF AllInv

(* The result is told.                                                     *)
LEMMA ResultAll == ASSUME ScanInv, AllInv, ScanResult PROVE AllInv'
<1>1. /\ phase = "result" /\ phase' = "done"
      /\ UNCHANGED <<world, names, at, count, slots, list>>
  BY DEF ScanResult, filled
<1>2. /\ \A v, d : Shown(v, d)' = Shown(v, d)
      /\ \A v, n : AllShown(v, n)' = AllShown(v, n)
  BY <1>1, SameWorld DEF Shown, AllShown
<1>3. ASSUME FillInv PROVE FillInv'
  <2>1. Started /\ Started'
    BY <1>1 DEF ScanInv, Ends, Before, Started
  <2>2. Found(ScsiNames \cup NvmeNames)' /\ Len(names') = Handles' /\ at' > Len(names')
    BY <1>1, <1>3, <2>1, SameWorld DEF FillInv, Found
  <2>3. \A k \in 1 .. at' - 1 : Ready(names[k])' => Shown(names[k], 0)'
    BY <1>1, <1>2, <1>3, <2>1, SameWorld DEF FillInv
  <2>4. \A u \in Leads' : Ready(u)' => AllShown(u, drives[u])'
    BY <1>1, <1>2, <1>3, <2>1, SameWorld DEF FillInv
  <2>q. QED BY <1>1, <2>2, <2>3, <2>4 DEF FillInv
<1>q. QED BY <1>1, <1>3, CountStays DEF AllInv

(* Every step keeps the invariant.                                         *)
LEMMA NextAll == ASSUME ScanInv, AllInv, [ScanNext]_scanVars PROVE AllInv'
BY CountScanAll, CountHandleAll, CountNvmeAll, CountCissAll, CountDoneAll, AllocateAll,
   ListScanAll, OpenHandleAll, HandlesDoneAll, CissAll, LunAll, CissDoneAll, ResultAll, ChangeAll
   DEF ScanNext

(* An application whose list has room for all that was counted is given    *)
(* every device and every drive that answers, if nothing came or went, the *)
(* system has sg handles and no more handles than MAX_DEVICES_TO_SCAN.     *)
THEOREM NothingLeftOut == ScanSpec => []AllListed
<1>1. ScanInit => AllInv
  BY DEF ScanInit, AllInv, CountInv, FillInv, Started
<1>2. ScanInv /\ AllInv /\ [ScanNext]_scanVars => AllInv'
  BY NextAll
<1>3. ScanInv /\ AllInv => AllListed
  <2> SUFFICES ASSUME ScanInv, AllInv, phase = "done", slots >= count, changes = 0,
                      Handles <= MaxDevicesToScan, system.sg,
                      result # "BAD_PARAMETER", NEW u \in present, Opens(u), U(u).ready
               PROVE  /\ Shown(u, 0)
                      /\ U(u).kind = "controller" /\ Speaks(u) /\ U(u).lists =>
                           \A d \in 1 .. drives[u] : d \in U(u).bad \/ Shown(u, d)
    BY DEF AllListed, Shown
  <2>1. FillInv /\ Started /\ Quiet /\ Ready(u)
    BY DEF AllInv, Quiet, Started, ScanInv, Ends, Types, Ready
  <2>2. u \in ScsiNames \cup NvmeNames
    <3>1. u \in Units /\ system \in System
      BY ScanAssumption DEF ScanInv, Types
    <3>2. U(u) \in Unit
      BY <3>1 DEF System, Units, U
    <3>3. U(u).kind \in Kinds
      BY <3>2 DEF Unit
    <3>q. QED BY <3>3 DEF Kinds, ScsiNames, NvmeNames, HasHandle
  <2>3. PICK k \in DOMAIN names : names[k] = u
    BY <2>1, <2>2 DEF FillInv, Found
  <2>4. k \in 1 .. at - 1
    BY <2>1 DEF FillInv, ScanInv, Types
  <2>5. Shown(u, 0)
    BY <2>1, <2>3, <2>4 DEF FillInv
  <2>6. ASSUME U(u).kind = "controller", Speaks(u), U(u).lists PROVE AllShown(u, drives[u])
    <3>1. u \in Leads
      BY <2>6 DEF Leads, Controllers, ScanInv, Types
    <3>q. QED BY <2>1, <3>1 DEF FillInv
  <2>q. QED BY <2>5, <2>6 DEF AllShown
<1>q. QED BY <1>1, <1>2, <1>3, ScanInvariance, PTL DEF ScanSpec
=============================================================================
