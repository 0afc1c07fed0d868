-------------------------- MODULE BlockCommandsProofs --------------------------
(***************************************************************************)
(* Proofs about BlockCommands for a drive of any size and contents, any    *)
(* set of features, any limits on the length of a command, any commands    *)
(* and any number of faults.                                               *)
(*                                                                         *)
(* The inductive invariant, Inv, adds to the four promises what a          *)
(* translation under way owes them: which commands a step serves (Placed), *)
(* that a length accepted is sent whole (Accepted, from the checks of      *)
(* Illegal), where the next chunk is and that the blocks before it were    *)
(* written or missed (Position), and that what was written is still there  *)
(* when it is verified (Behind).                                           *)
(***************************************************************************)
EXTENDS BlockCommands, TLAPS

Format  == {"certify", "rewrite", "reverify"}
Unmap   == {"descriptor", "entry", "trim", "lastTrim", "crashed"}
Steps   == {"idle", "start", "preverify", "read", "write", "verify", "compare", "same",
            "chunk", "flush", "uncorrectable", "nvme"} \cup Format \cup Unmap
Results == {"none", "success", "failure", "illegal", "miscompare"}
Slots   == 0 .. (PerBuffer - 1)
TrimState == [index: Nat, left: Nat, asked: Nat, offset: Nat,
              entries: [Slots -> Nat \X Nat]]

TypeOK ==
  /\ MediumOK
  /\ drive \in Drives /\ known \in BOOLEAN /\ infoAvailable \in BOOLEAN
  /\ calls \in 0..MaxCalls /\ call \in Calls
  /\ step \in Steps /\ at \in Nat /\ trim \in TrimState
  /\ exit \subseteq {"exitTheLoop", "deviceFault"}
  /\ ret \in Results /\ missed \subseteq Blocks

(* Which commands a step of a translation serves.                          *)
Placed ==
  /\ step \in {"preverify", "read"} => call.op = "read"
  /\ step = "write" => call.op \in {"write", "writeVerify"}
  /\ step = "verify" => \/ call.op = "write"
                        \/ call.op \in {"verify", "writeVerify"} /\ "bytchk" \notin call.flags
  /\ step = "compare" => call.op \in {"verify", "writeVerify"} /\ "bytchk" \in call.flags
  /\ step \in {"same", "chunk"} => call.op \in {"writeSame", "format"}
  /\ step \in Format => call.op = "format"
  /\ step = "flush" => call.op = "sync"
  /\ step = "uncorrectable" => call.op = "writeLong"
  /\ step \in Unmap => call.op = "unmap"

(* Lengths that were accepted are sent whole, those of writes in part.     *)
Accepted ==
  step \in {"write", "verify", "compare"} =>
    IF call.op = "write" THEN Sectors(call.n) <= call.n ELSE Sectors(call.n) = call.n

(* WRITE LONG without PBLOCK goes to a drive with physical blocks of one.  *)
Single ==
  step = "uncorrectable" =>
    {"corDis", "pblock"} \cap call.flags # {} \/ "phys" \notin drive

(* A block that was written, or whose write failed.                        *)
Dealt(b) == b \in missed \/ <<b, Pattern>> \in wrote

(* Where the next chunk is, in a range and on the drive.                   *)
Position ==
  /\ step = "start" => at = IF call.op = "format" THEN 0 ELSE call.lba
  /\ step = "same" /\ call.op = "format" => at = 0
  /\ (step \in {"same", "chunk"} /\ call.op = "format") \/ step \in Format => MaxLba > 0
  /\ step \in Format => at < MaxLba
  /\ step = "chunk" => at < call.lba + Count
  /\ step = "chunk" /\ call.op = "writeSame" =>
       call.lba <= at /\ \A b \in Blocks : call.lba <= b /\ b < at => Dealt(b)

(* What a verification after a write is to find.                           *)
Behind ==
  step \in {"verify", "compare"} /\ call.op \in Writers =>
    \A b \in Span(call.lba, Sectors(call.n)) \ missed :
      <<b, call.v>> \in wrote /\ data[b] = call.v

(* What a caller may rely on when a command has succeeded.                 *)
Promises == SuccessMeansWritten /\ VerifiedMeansReadable /\ DurableWhenTold

Inv == /\ TypeOK /\ Placed /\ Accepted /\ Single /\ Position /\ Behind
       /\ OnlyAskedBlocks /\ Promises

-----------------------------------------------------------------------------
(* What a command does to the drive.                                       *)

(* A write changes some of the blocks it was sent for, all when it is      *)
(* answered with success, and past the cache if it says so.                *)
LEMMA WriteEffect ==
  ASSUME MediumOK, NEW l \in Nat, NEW n \in Nat, NEW v \in Values, NEW f, NEW a \in Answers,
         Execute("write", l, n, v, f, a)
  PROVE  /\ MediumOK'
         /\ Span(l, a.done) \subseteq Span(l, n)
         /\ a.status = "ok" => a.done = n
         /\ wrote' = wrote \cup (Span(l, a.done) \X {v})
         /\ \A b \in Span(l, a.done) : data'[b] = v /\ (f => saved'[b] = v)
<1>1. a.done \in Nat /\ a.done <= n /\ (a.status = "ok" => a.done = n)
  <2>1. a.done \in 0..(Last + 1) /\ Answer("write", l, n, a)
    BY DEF Answers, Execute
  <2>2. a.done \in Nat
    BY <2>1, MediumAssumption
  <2>q. QED BY <2>1, <2>2 DEF Answer, Fits
<1>2. Span(l, a.done) \subseteq Span(l, n) /\ Span(l, a.done) \subseteq Blocks
  <2>1. ASSUME NEW b \in Span(l, a.done) PROVE b \in Span(l, n)
    BY <1>1, MediumAssumption DEF Span, Blocks
  <2>q. QED BY <2>1 DEF Span
<1>3. /\ wrote' = wrote \cup (Span(l, a.done) \X {v})
      /\ data' = [b \in Blocks |-> IF b \in Span(l, a.done) THEN v ELSE data[b]]
      /\ saved' = [b \in Blocks |->
                     IF b \in Span(l, a.done) /\ (f \/ ~cached) THEN data'[b] ELSE saved[b]]
      /\ bad' = bad \ Span(l, a.done)
      /\ cached' = cached /\ regs' \in BOOLEAN
  BY DEF Execute, Noted
<1>4. faults' \in 0..MaxFaults
  BY MediumAssumption DEF Execute, Answer, Noted, MediumOK
<1>5. \A b \in Span(l, a.done) : data'[b] = v /\ (f => saved'[b] = v)
  BY <1>2, <1>3
<1>6. data' \in [Blocks -> Values] /\ saved' \in [Blocks -> Values]
  BY <1>3 DEF MediumOK
<1>7. bad' \in SUBSET Blocks /\ wrote' \in SUBSET (Blocks \X (Values \cup {Uncorrectable}))
  BY <1>2, <1>3 DEF MediumOK
<1>q. QED BY <1>1, <1>2, <1>3, <1>4, <1>5, <1>6, <1>7 DEF MediumOK

(* A read or a verification changes no contents; answered with success it  *)
(* read every block, and a verification saved them.                        *)
LEMMA ReadEffect ==
  ASSUME MediumOK, NEW do \in Reads, NEW l, NEW n, NEW v, NEW f, NEW a \in Answers,
         Execute(do, l, n, v, f, a)
  PROVE  /\ MediumOK'
         /\ wrote' = wrote /\ data' = data /\ bad' = bad
         /\ a.status = "ok" => \A b \in Span(l, n) : b \notin bad
         /\ a.status = "ok" /\ do = "verify" => \A b \in Span(l, n) : saved'[b] = data[b]
<1>1. /\ wrote' = wrote /\ data' = data /\ bad' = bad /\ cached' = cached /\ regs' \in BOOLEAN
      /\ saved' = [b \in Blocks |->
                     IF b \in Span(l, a.done) /\ (do = "verify" \/ f)
                     THEN data'[b] ELSE saved[b]]
  BY DEF Execute, Noted, Reads
<1>2. faults' \in 0..MaxFaults
  BY MediumAssumption DEF Execute, Answer, Noted, MediumOK
<1>3. saved' \in [Blocks -> Values]
  BY <1>1 DEF MediumOK
<1>4. a.status = "ok" => (\A b \in Span(l, n) : b \notin bad) /\ a.done = n
  BY DEF Execute, Answer, Reads
<1>5. ASSUME a.status = "ok", do = "verify", NEW b \in Span(l, n) PROVE saved'[b] = data[b]
  BY <1>1, <1>4, <1>5 DEF Span
<1>q. QED BY <1>1, <1>2, <1>3, <1>4, <1>5 DEF MediumOK

(* WRITE UNCORRECTABLE touches the contents of no block.                   *)
LEMMA SpoilEffect ==
  ASSUME MediumOK, NEW S, NEW a \in Answers, Spoil(S, a)
  PROVE  /\ MediumOK'
         /\ wrote' \subseteq wrote \cup (S \X {Uncorrectable})
         /\ wrote' # wrote => S \subseteq Blocks
         /\ a.status = "ok" => S # {} /\ S \subseteq Blocks
                               /\ wrote' = wrote \cup (S \X {Uncorrectable})
<1>1. /\ data' = data /\ saved' = saved /\ cached' = cached /\ regs' \in BOOLEAN
      /\ bad' = IF a.done = 1 THEN bad \cup S ELSE bad
      /\ wrote' = IF a.done = 1 THEN wrote \cup (S \X {Uncorrectable}) ELSE wrote
      /\ a.done = 1 => S # {} /\ S \subseteq Blocks
      /\ a.status = "ok" => a.done = 1
  BY DEF Spoil, Noted
<1>2. faults' \in 0..MaxFaults
  BY MediumAssumption DEF Spoil, Noted, MediumOK
<1>3. bad' \in SUBSET Blocks /\ wrote' \in SUBSET (Blocks \X (Values \cup {Uncorrectable}))
  BY <1>1 DEF MediumOK
<1>q. QED BY <1>1, <1>2, <1>3 DEF MediumOK

(* FLUSH CACHE, and TRIM.                                                  *)
LEMMA FlushEffect ==
  ASSUME MediumOK, NEW a \in Answers, FlushAll(a)
  PROVE  /\ MediumOK'
         /\ wrote' = wrote /\ data' = data /\ bad' = bad
         /\ a.status = "ok" => saved' = data
<1>1. faults' \in 0..MaxFaults
  BY MediumAssumption DEF FlushAll, Noted, MediumOK
<1>q. QED BY <1>1 DEF FlushAll, Noted, MediumOK

(* TRIM, whatever entries it is sent.                                      *)
LEMMA TrimEffect ==
  ASSUME MediumOK, NEW E, NEW a \in Answers, Trim(E, a)
  PROVE  MediumOK'
<1> DEFINE S == UNION {Span(e[1], e[2]) : e \in E}
<1>1. S \subseteq Blocks
  BY DEF Span
<1>2. /\ data' = [b \in Blocks |-> IF a.done = 1 /\ b \in S THEN 0 ELSE data[b]]
      /\ saved' = [b \in Blocks |-> IF a.done = 1 /\ b \in S THEN 0 ELSE saved[b]]
      /\ bad' = IF a.done = 1 THEN bad \ S ELSE bad
      /\ wrote' = IF a.done = 1 THEN wrote \cup (S \X {0}) ELSE wrote
      /\ cached' = cached /\ regs' \in BOOLEAN
  BY DEF Trim, Noted
<1>3. faults' \in 0..MaxFaults
  BY MediumAssumption DEF Trim, Noted, MediumOK
<1> HIDE DEF S
<1>4. data' \in [Blocks -> Values] /\ saved' \in [Blocks -> Values]
  BY <1>2, MediumAssumption DEF MediumOK
<1>5. bad' \in SUBSET Blocks /\ wrote' \in SUBSET (Blocks \X (Values \cup {Uncorrectable}))
  BY <1>1, <1>2, MediumAssumption DEF MediumOK
<1>q. QED BY <1>2, <1>3, <1>4, <1>5 DEF MediumOK

-----------------------------------------------------------------------------
(* What a command and a drive are.                                         *)

(* The flags a command has, and that its numbers are numbers.              *)
LEMMA CallFacts ==
  ASSUME TypeOK
  PROVE  /\ call \in Call /\ call.lba \in Nat /\ call.n \in Nat /\ call.v \in Values
         /\ "ndob" \in call.flags => call.op = "writeSame"
         /\ "fua" \in call.flags => call.op \in {"read", "write"}
         /\ "pattern" \in call.flags => call.op = "format"
<1>1. call \in Call /\ call.flags \subseteq FlagsOf(call.op)
  BY CallsAssumption DEF TypeOK
<1>q. QED BY <1>1 DEF Call, FlagsOf

(* What is known of a drive is true of it, and its limits are numbers.     *)
LEMMA DriveFacts ==
  ASSUME TypeOK
  PROVE  /\ drive \subseteq Features /\ Seen \subseteq drive
         /\ MaxLba \in Nat /\ MaxLba <= Last /\ Last \in Nat
         /\ MaxSectors \in Nat /\ Count \in Nat
         /\ \A n \in Nat : Sectors(n) \in Nat
         /\ ChunkSize \in Nat
<1>1. drive \subseteq Features /\ known \in BOOLEAN
  BY DrivesAssumption DEF TypeOK
<1>2. MaxLba \in Nat /\ MaxLba <= Last /\ Last \in Nat
  BY MediumAssumption DEF MaxLba
<1>3. MaxSectors \in Nat
  BY LimitsAssumption DEF MaxSectors
<1>4. Count \in Nat
  BY <1>2, CallFacts DEF Count
<1>5. \A n \in Nat : Sectors(n) \in Nat
  BY <1>3 DEF Sectors
<1>q. QED BY <1>1, <1>2, <1>3, <1>4, <1>5, LimitsAssumption DEF Seen, ChunkSize

(* What does not change while a command is under way.                      *)
LEMMA Static ==
  ASSUME drive' = drive, known' = known, call' = call
  PROVE  /\ Asked' = Asked /\ Unsent' = Unsent /\ Nvme' = Nvme /\ Seen' = Seen
         /\ Pattern' = Pattern /\ Written' = Written /\ MaxLba' = MaxLba /\ Count' = Count
         /\ Sectors(call.n)' = Sectors(call.n)
<1>1. MaxLba' = MaxLba /\ Seen' = Seen /\ Nvme' = Nvme /\ Pattern' = Pattern
  BY DEF MaxLba, Seen, Nvme, Pattern
<1>2. MaxSectors' = MaxSectors
  BY <1>1 DEF MaxSectors
<1>3. Count' = Count /\ Sectors(call.n)' = Sectors(call.n) /\ Written' = Written
  BY <1>1, <1>2 DEF Count, Sectors, Written
<1>4. Asked' = Asked
  BY DEF Asked, Physical
<1>5. Unsent' = Unsent
  BY <1>1, <1>3 DEF Unsent
<1>q. QED BY <1>1, <1>3, <1>4, <1>5

(* The promises are about commands that ended with success.                *)
LEMMA Silent ==
  ASSUME step' # "idle" \/ ret' # "success"
  PROVE  Promises'
BY DEF Promises, SuccessMeansWritten, VerifiedMeansReadable, DurableWhenTold, Succeeded

(* Writes of the right data to the right blocks.                           *)
LEMMA RightWrites ==
  ASSUME OnlyAskedBlocks, drive' = drive, known' = known, call' = call,
         NEW S, NEW v, wrote' \subseteq wrote \cup (S \X {v}),
         call.op # "unmap" => S \subseteq Asked /\ v = Written
  PROVE  OnlyAskedBlocks'
BY Static DEF OnlyAskedBlocks

(* Commands that write nothing.                                            *)
LEMMA NoWrites ==
  ASSUME OnlyAskedBlocks, drive' = drive, known' = known, call' = call, wrote' = wrote
  PROVE  OnlyAskedBlocks'
BY Static DEF OnlyAskedBlocks

-----------------------------------------------------------------------------
(* Arrival, identification and the first step.                             *)

(* A SCSI command arrives.                                                 *)
LEMMA BeginInv == ASSUME Inv, NEW c \in Calls, Begin(c) PROVE Inv'
<1>1. /\ step' = "start" /\ call' = c /\ calls' = calls + 1 /\ calls < MaxCalls
      /\ at' = (IF c.op = "format" THEN 0 ELSE c.lba) /\ trim' = NoTrim
      /\ exit' = {} /\ ret' = "success" /\ wrote' = {} /\ missed' = {}
      /\ UNCHANGED <<drive, known, infoAvailable, cached, data, saved, bad, regs, faults>>
  BY DEF Begin, Goto
<1>2. c \in Call /\ c.lba \in Nat
  BY CallsAssumption DEF Call
<1>3. MediumOK'
  BY <1>1 DEF Inv, TypeOK, MediumOK
<1>4. NoTrim \in TrimState
  BY DEF NoTrim, TrimState, Slots
<1>5. calls' \in 0..MaxCalls
  BY <1>1, LimitsAssumption DEF Inv, TypeOK
<1>6. TypeOK'
  BY <1>1, <1>2, <1>3, <1>4, <1>5 DEF Inv, TypeOK, Steps, Results
<1>7. Placed' /\ Accepted' /\ Single' /\ Behind'
  BY <1>1 DEF Placed, Accepted, Single, Behind, Format, Unmap
<1>8. Position'
  BY <1>1 DEF Position, Format
<1>9. OnlyAskedBlocks' /\ Promises'
  BY <1>1, Silent DEF OnlyAskedBlocks
<1>q. QED BY <1>6, <1>7, <1>8, <1>9 DEF Inv

(* The identify data is read, or cannot be.                                *)
LEMMA IdentifyInv == ASSUME Inv, Identify PROVE Inv'
<1>1. /\ step = "start" /\ known' \in BOOLEAN /\ infoAvailable' \in BOOLEAN
      /\ faults' \in 0..MaxFaults
      /\ step' \in {"start", "idle"} /\ (step' = "idle" => ret' = "failure")
      /\ (step' = "start" => ret' = ret) /\ ret' \in Results
      /\ UNCHANGED <<drive, cached, data, saved, bad, regs, wrote, calls, call, at, trim,
                     exit, missed>>
  <2>1. /\ step = "start" /\ ret \in Results /\ faults \in 0..MaxFaults /\ known \in BOOLEAN
        /\ infoAvailable \in BOOLEAN
    BY DEF Identify, Inv, TypeOK, MediumOK
  <2>2. UNCHANGED <<drive, cached, data, saved, bad, regs, wrote, calls, call, at, trim,
                    exit, missed>>
    BY DEF Identify, loops
  <2>3. CASE known' = TRUE /\ infoAvailable' = TRUE /\ UNCHANGED <<step, ret, faults>>
    BY <2>1, <2>2, <2>3
  <2>4. CASE /\ faults < MaxFaults /\ faults' = faults + 1 /\ step' = "idle" /\ ret' = "failure"
             /\ UNCHANGED <<known, infoAvailable>>
    <3>1. faults' \in 0..MaxFaults
      BY <2>1, <2>4, MediumAssumption
    <3>q. QED BY <2>1, <2>2, <2>4, <3>1 DEF Results
  <2>q. QED BY <2>3, <2>4 DEF Identify, Finish
<1>2. TypeOK'
  BY <1>1 DEF Inv, TypeOK, MediumOK, Steps
<1>3. Placed' /\ Accepted' /\ Single' /\ Behind'
  BY <1>1 DEF Placed, Accepted, Single, Behind, Format, Unmap
<1>4. Position'
  BY <1>1 DEF Inv, Position, Format
<1>5. OnlyAskedBlocks'
  <2>1. Asked' = Asked /\ Written' = Written
    BY <1>1 DEF Asked, Physical, Written, Pattern
  <2>q. QED BY <1>1, <2>1 DEF Inv, OnlyAskedBlocks
<1>6. Promises'
  BY <1>1, Silent
<1>q. QED BY <1>2, <1>3, <1>4, <1>5, <1>6 DEF Inv

(* Nothing is asked of a drive by what succeeds without a command.         *)
LEMMA NothingAsked ==
  ASSUME TypeOK, call.op \in Transfers \/ call.op = "writeSame", call.n = 0,
         Count = 0 \/ call.op # "writeSame"
  PROVE  Asked \ Unsent = {} /\ (call.op \in Transfers => Asked = {})
<1>1. ASSUME call.op \in Transfers PROVE Asked = {}
  BY <1>1, CallFacts DEF Asked, Transfers, Span, Blocks
<1>2. ASSUME call.op = "writeSame" PROVE Asked \subseteq Unsent
  <2>1. MaxLba = 0
    BY <1>2 DEF Count
  <2>q. QED BY <1>2, <2>1, DriveFacts DEF Asked, Unsent, Blocks
<1>q. QED BY <1>1, <1>2

(* What ends with success before any command is sent keeps its promises.   *)
LEMMA NothingPromised ==
  ASSUME Inv, step = "start", missed' = missed, UNCHANGED <<drive, known, call>>,
         ret' = "success",
         \/ call.op \in Transfers /\ call.n = 0
         \/ call.op = "writeSame" /\ Count = 0
         \/ call.op = "sync" /\ ~Nvme /\ "flush" \notin Seen
         \/ call.op \in {"unmap", "format"}
  PROVE  Promises'
<1>1. call.op \in Transfers => Asked' = {}
  BY NothingAsked, Static DEF Inv, Transfers
<1>2. ASSUME call.op = "writeSame" PROVE Asked' \ Unsent' = {}
  <2>1. Count = 0 /\ call.n = 0
    BY <1>2 DEF Count, Transfers
  <2>2. Asked \ Unsent = {}
    BY <1>2, <2>1, NothingAsked DEF Inv
  <2>q. QED BY <2>2, Static
<1>3. SuccessMeansWritten'
  BY <1>1, <1>2 DEF SuccessMeansWritten, Succeeded, Writers, Transfers
<1>4. VerifiedMeansReadable'
  <2>1. Compared' = {} \/ call.op \notin {"verify", "writeVerify"}
    BY CallFacts DEF Inv, Compared, Span, Blocks, Lesser, Transfers
  <2>q. QED BY <1>1, <2>1 DEF VerifiedMeansReadable, Verified, Succeeded, Transfers
<1>5. DurableWhenTold'
  <2>1. Seen' = Seen /\ Nvme' = Nvme
    BY Static
  <2>q. QED BY <1>1, <1>2, <2>1 DEF DurableWhenTold, Succeeded, Writers, Transfers
<1>q. QED BY <1>3, <1>4, <1>5 DEF Promises

(* Which step is the first.                                                *)
LEMMA FirstSteps ==
  ASSUME TypeOK
  PROVE  /\ FirstStep \in Steps \ {"idle", "start", "nvme"}
         /\ FirstStep \in {"preverify", "read"} => call.op = "read"
         /\ FirstStep = "write" => call.op \in {"write", "writeVerify"}
         /\ FirstStep = "verify" => call.op = "verify" /\ "bytchk" \notin call.flags
         /\ FirstStep = "compare" => call.op = "verify" /\ "bytchk" \in call.flags
         /\ FirstStep \in {"same", "chunk"} => call.op \in {"writeSame", "format"}
         /\ FirstStep = "chunk" => ~OneCommand
         /\ FirstStep \in Format => call.op = "format" /\ FirstStep = "certify"
         /\ FirstStep = "flush" => call.op = "sync"
         /\ FirstStep = "uncorrectable" => call.op = "writeLong"
         /\ FirstStep \in Unmap => call.op = "unmap"
<1>1. call.op \in Ops /\ ("pattern" \in call.flags => call.op = "format")
  BY CallFacts DEF Call
<1>q. QED BY <1>1 DEF FirstStep, Steps, Format, Unmap, Ops

(* The checks before the first ATA command.                                *)
LEMMA StartInv == ASSUME Inv, Start, ~Nvme PROVE Inv'
<1>1. /\ step = "start"
      /\ UNCHANGED <<medium, drive, known, infoAvailable, calls, call, at, trim, exit, missed>>
      /\ \/ Illegal(call) /\ step' = "idle" /\ ret' = "illegal"
         \/ ~Illegal(call) /\ Nothing /\ step' = "idle" /\ ret' \in {"success", "failure"}
         \/ ~Illegal(call) /\ ~Nothing /\ step' = FirstStep /\ ret' = ret
  BY DEF Start, Goto, Finish, translator, loops
<1>2. UNCHANGED <<cached, data, saved, bad, regs, faults, wrote>>
  BY <1>1 DEF medium
<1>3. MediumOK'
  BY <1>2 DEF Inv, TypeOK, MediumOK
<1>4. TypeOK'
  BY <1>1, <1>3, FirstSteps DEF Inv, TypeOK, Results, Steps
<1>5. OnlyAskedBlocks'
  BY <1>1, <1>2, NoWrites DEF Inv
<1>6. CASE step' = "idle"
  <2>1. Promises'
    <3>1. CASE ret' = "success"
      <4>1. Nothing
        BY <1>1, <1>6, <3>1, FirstSteps DEF Inv, Steps
      <4>q. QED BY <1>1, <3>1, <4>1, NothingPromised DEF Nothing
    <3>q. QED BY <3>1, Silent
  <2>2. Placed' /\ Accepted' /\ Single' /\ Behind' /\ Position'
    BY <1>6 DEF Placed, Accepted, Single, Behind, Position, Format, Unmap
  <2>q. QED BY <1>4, <1>5, <2>1, <2>2 DEF Inv
<1>7. CASE step' # "idle"
  <2>1. /\ ~Illegal(call) /\ ~Nothing /\ step' = FirstStep
    BY <1>1, <1>7
  <2>2. Placed'
    BY <1>1, <2>1, FirstSteps DEF Inv, Placed, Format, Unmap, Steps
  <2>3. Accepted'
    <3>1. ASSUME call.op \in Transfers
          PROVE  /\ call.n \in Nat /\ call.n > 0 /\ call.n <= LongLimit
                 /\ "ext" \notin Seen /\ call.op # "write" => call.n <= ShortLimit
      <4>1. call.n \in Nat /\ call.n # 0
        BY <2>1, <3>1, CallFacts DEF Nothing, Inv
      <4>2. call.n > 0
        BY <4>1
      <4>3. ~TooLong(call)
        BY <2>1, <3>1, <4>2 DEF Illegal
      <4>4. ~(call.n > LongLimit)
            /\ ("ext" \notin Seen /\ call.op # "write" => ~(call.n > ShortLimit))
        BY <4>3 DEF TooLong
      <4>q. QED BY <4>1, <4>2, <4>4, LimitsAssumption
    <3>2. ASSUME call.op \in Transfers
          PROVE  /\ Sectors(call.n) <= call.n
                 /\ call.op # "write" => Sectors(call.n) = call.n
      BY <3>1, <3>2, LimitsAssumption DEF Sectors, MaxSectors
    <3>3. Sectors(call.n)' = Sectors(call.n)
      BY <1>1, Static
    <3>q. QED BY <1>1, <2>1, <3>2, <3>3, FirstSteps DEF Accepted, Transfers, Inv
  <2>4. Single'
    BY <1>1, <2>1, FirstSteps DEF Inv, Single, Illegal, BadLong, Seen
  <2>5. Position'
    <3>1. MaxLba' = MaxLba /\ Count' = Count
      BY <1>1, Static
    <3>2. call.op = "format" => MaxLba > 0
      BY <2>1, DriveFacts DEF Nothing, Inv
    <3>3. FirstStep \notin {"start"}
      BY FirstSteps DEF Inv
    <3>4. FirstStep = "chunk" => Count > 0 /\ at = (IF call.op = "format" THEN 0 ELSE call.lba)
      <4>1. FirstStep = "chunk" => Count # 0
        BY <2>1, <3>2, FirstSteps DEF Nothing, Count, Inv
      <4>q. QED BY <1>1, <4>1, DriveFacts DEF Inv, Position
    <3>5. FirstStep = "chunk" => at < call.lba + Count
      BY <3>4, CallFacts, DriveFacts DEF Inv
    <3>6. FirstStep = "chunk" /\ call.op = "writeSame" =>
            call.lba <= at /\ \A b \in Blocks : ~(call.lba <= b /\ b < at)
      BY <3>4, CallFacts, MediumAssumption DEF Inv, Blocks
    <3>7. step' = "same" /\ call.op = "format" => at = 0
      BY <1>1 DEF Inv, Position
    <3>8. step' \in Format => call.op = "format" /\ at = 0
      BY <1>1, <2>1, FirstSteps DEF Inv, Position
    <3>q. QED BY <1>1, <2>1, <3>1, <3>2, <3>3, <3>5, <3>6, <3>7, <3>8 DEF Position
  <2>6. Behind'
    BY <1>1, <2>1, FirstSteps DEF Behind, Writers, Inv
  <2>7. Promises'
    BY <1>7, Silent
  <2>q. QED BY <1>4, <1>5, <2>2, <2>3, <2>4, <2>5, <2>6, <2>7 DEF Inv
<1>q. QED BY <1>6, <1>7

-----------------------------------------------------------------------------
(* The steps of the translations.                                          *)

(* A step after which the translation is over, or that leaves what it      *)
(* keeps between commands alone.                                           *)
LEMMA EndInv ==
  ASSUME Inv, UNCHANGED <<drive, known, infoAvailable, calls, call>>, MediumOK',
         step' = "idle", at' \in Nat, trim' \in TrimState,
         exit' \subseteq {"exitTheLoop", "deviceFault"}, ret' \in Results,
         missed' \subseteq Blocks, OnlyAskedBlocks', Promises'
  PROVE  Inv'
<1>1. TypeOK'
  BY DEF Inv, TypeOK, Steps
<1>2. Placed' /\ Accepted' /\ Single' /\ Behind' /\ Position'
  BY DEF Placed, Accepted, Single, Behind, Position, Format, Unmap
<1>q. QED BY <1>1, <1>2 DEF Inv

(* The verification before a READ with FUA.                                *)
LEMMA PreverifyInv == ASSUME Inv, NEW a \in Answers, Preverify(a) PROVE Inv'
<1>1. /\ step = "preverify" /\ step' = "read"
      /\ UNCHANGED <<drive, known, infoAvailable, calls, call, at, trim, exit, ret, missed>>
      /\ Execute("verify", call.lba, Sectors(call.n), 0, FALSE, a)
  BY DEF Preverify, Goto, translator, loops
<1>2. MediumOK' /\ wrote' = wrote
  BY <1>1, ReadEffect DEF Inv, TypeOK, Reads
<1>3. TypeOK'
  BY <1>1, <1>2 DEF Inv, TypeOK, Steps
<1>4. Placed' /\ Accepted' /\ Single' /\ Behind' /\ Position'
  BY <1>1 DEF Inv, Placed, Accepted, Single, Behind, Position, Format, Unmap
<1>q. QED BY <1>1, <1>2, <1>3, <1>4, NoWrites, Silent DEF Inv

(* READ, of either translator: it promises nothing.                        *)
LEMMA ReadInv ==
  ASSUME Inv, NEW a \in Answers, NEW l, NEW n, NEW f, call.op = "read",
         Execute("read", l, n, 0, f, a), step' = "idle", ret' \in Results,
         missed' \subseteq Blocks,
         UNCHANGED <<drive, known, infoAvailable, calls, call, at, trim, exit>>
  PROVE  Inv'
<1>1. MediumOK' /\ wrote' = wrote
  BY ReadEffect DEF Inv, TypeOK, Reads
<1>2. Promises'
  BY DEF Promises, SuccessMeansWritten, VerifiedMeansReadable, DurableWhenTold, Succeeded,
         Writers
<1>q. QED BY <1>1, <1>2, NoWrites, EndInv DEF Inv, TypeOK

(* The blocks a write of a translation is for.                             *)
LEMMA WriteSpan ==
  ASSUME Inv, call.op \in {"write", "writeVerify"}, step \in {"write", "verify"}
  PROVE  /\ Span(call.lba, Sectors(call.n)) \subseteq Asked
         /\ Written = call.v /\ Pattern = call.v
         /\ ~Nvme \/ call.op # "write" => Asked \ Unsent \subseteq Span(call.lba, Sectors(call.n))
<1>1. /\ Sectors(call.n) \in Nat /\ call.n \in Nat /\ call.lba \in Nat
      /\ Sectors(call.n) <= call.n
      /\ call.op # "write" => Sectors(call.n) = call.n
  BY CallFacts, DriveFacts DEF Inv, Accepted
<1>2. Asked = Span(call.lba, call.n)
  BY DEF Asked
<1>3. Span(call.lba, Sectors(call.n)) \subseteq Asked
  BY <1>1, <1>2, MediumAssumption DEF Span, Blocks
<1>4. Written = call.v /\ Pattern = call.v
  BY CallFacts DEF Written, Pattern, Inv
<1>5. ASSUME ~Nvme \/ call.op # "write", NEW b \in Asked \ Unsent
      PROVE  b \in Span(call.lba, Sectors(call.n))
  <2>1. CASE call.op = "write"
    <3>1. b \in Blocks /\ b \in Nat /\ call.lba <= b /\ ~(b >= call.lba + Sectors(call.n))
      BY <1>2, <1>5, <2>1, MediumAssumption DEF Unsent, Span, Blocks
    <3>q. QED BY <1>1, <3>1 DEF Span
  <2>2. CASE call.op # "write"
    BY <1>1, <1>2, <1>5, <2>2
  <2>q. QED BY <2>1, <2>2
<1>q. QED BY <1>3, <1>4, <1>5

(* The write of WRITE and of WRITE AND VERIFY.                             *)
LEMMA WriteInv == ASSUME Inv, NEW a \in Answers, Write(a), ~Nvme PROVE Inv'
<1> DEFINE W == Span(call.lba, Sectors(call.n))
<1>1. /\ step = "write" /\ call.op \in {"write", "writeVerify"}
      /\ Execute("write", call.lba, Sectors(call.n), call.v, WriteIsFua, a)
      /\ UNCHANGED <<drive, known, infoAvailable, calls, call, at, trim, exit>>
      /\ IF AfterWrite = "reserved" THEN step' = "idle" /\ ret' = "illegal"
         ELSE step' = AfterWrite /\ ret' = Result(a)
      /\ missed' = IF step' # "idle" /\ a.status # "ok"
                   THEN missed \cup (W \ Span(call.lba, a.done)) ELSE missed
  BY DEF Inv, Placed, Write, Goto, Finish, Goes, Left, translator, loops
<1>2. /\ AfterWrite \in {"idle", "verify", "reserved", "compare"}
      /\ AfterWrite = "compare" => call.op = "writeVerify" /\ "bytchk" \in call.flags
      /\ AfterWrite = "verify" =>
           \/ call.op = "write"
           \/ call.op = "writeVerify" /\ "bytchk" \notin call.flags
      /\ AfterWrite = "idle" =>
           call.op = "write" /\ ("fua" \in call.flags => WriteIsFua)
  <2>1. CASE call.op = "write"
    <3>1. AfterWrite = IF "fua" \in call.flags /\ ~WriteIsFua THEN "verify" ELSE "idle"
      BY <2>1 DEF AfterWrite
    <3>2. CASE "fua" \in call.flags /\ ~WriteIsFua
      BY <2>1, <3>1, <3>2
    <3>3. CASE ~("fua" \in call.flags /\ ~WriteIsFua)
      BY <2>1, <3>1, <3>3
    <3>q. QED BY <3>2, <3>3
  <2>2. CASE call.op = "writeVerify"
    BY <2>2 DEF AfterWrite
  <2>q. QED BY <1>1, <2>1, <2>2
<1>3. /\ MediumOK' /\ Span(call.lba, a.done) \subseteq W
      /\ a.status = "ok" => a.done = Sectors(call.n)
      /\ wrote' = wrote \cup (Span(call.lba, a.done) \X {call.v})
      /\ \A b \in Span(call.lba, a.done) :
           data'[b] = call.v /\ (WriteIsFua => saved'[b] = call.v)
  <2>1. Sectors(call.n) \in Nat /\ call.lba \in Nat /\ call.v \in Values
    BY CallFacts, DriveFacts DEF Inv
  <2>q. QED BY <1>1, <2>1, WriteEffect DEF Inv, TypeOK
<1>4. /\ W \subseteq Asked /\ Written = call.v /\ Pattern = call.v /\ Asked \ Unsent \subseteq W
  BY <1>1, WriteSpan
<1>5. OnlyAskedBlocks'
  BY <1>1, <1>3, <1>4, RightWrites DEF Inv
<1>6. missed' \subseteq Blocks
  BY <1>1 DEF Inv, TypeOK, Span
<1>7. TypeOK'
  BY <1>1, <1>2, <1>3, <1>6 DEF Inv, TypeOK, Steps, Results, Result
<1> HIDE DEF W
<1>8. CASE step' = "idle"
  <2>1. ASSUME ret' = "success"
        PROVE  /\ call.op = "write" /\ Span(call.lba, a.done) = W
               /\ "fua" \in call.flags => WriteIsFua
    <3>1. AfterWrite # "reserved" /\ a.status = "ok"
      BY <1>1, <2>1 DEF Result
    <3>q. QED BY <1>1, <1>2, <1>3, <1>8, <3>1 DEF W
  <2>2. /\ Asked' = Asked /\ Unsent' = Unsent /\ Pattern' = Pattern
    BY <1>1, Static
  <2>3. SuccessMeansWritten'
    BY <1>1, <1>3, <1>4, <2>1, <2>2 DEF SuccessMeansWritten, Succeeded
  <2>4. VerifiedMeansReadable'
    BY <1>1, <2>1 DEF VerifiedMeansReadable, Succeeded
  <2>5. DurableWhenTold'
    BY <1>1, <1>3, <1>4, <2>1, <2>2 DEF DurableWhenTold, Succeeded
  <2>q. QED BY <1>1, <1>3, <1>5, <1>6, <1>7, <1>8, <2>3, <2>4, <2>5, EndInv
            DEF Inv, TypeOK, Promises
<1>9. CASE step' # "idle"
  <2>1. step' = AfterWrite /\ step' \in {"verify", "compare"}
    BY <1>1, <1>2, <1>9
  <2>2. Placed' /\ Accepted' /\ Single' /\ Position'
    <3>1. Sectors(call.n)' = Sectors(call.n)
      BY <1>1, Static
    <3>q. QED BY <1>1, <1>2, <2>1, <3>1 DEF Inv, Placed, Accepted, Single, Position, Format, Unmap
  <2>3. Behind'
    <3>1. Span(call.lba, Sectors(call.n))' = W
      BY <1>1, Static DEF W, Span, Blocks
    <3>2. ASSUME NEW b \in W \ missed' PROVE <<b, call.v>> \in wrote' /\ data'[b] = call.v
      <4>1. b \in Span(call.lba, a.done)
        BY <1>1, <1>3, <1>9 DEF W
      <4>q. QED BY <1>3, <4>1
    <3>q. QED BY <1>1, <3>1, <3>2 DEF Behind
  <2>4. Promises'
    BY <1>9, Silent
  <2>q. QED BY <1>5, <1>7, <2>2, <2>3, <2>4 DEF Inv
<1>q. QED BY <1>8, <1>9

(* A verification, after a write or without one.                           *)
LEMMA VerifyInv == ASSUME Inv, NEW a \in Answers, Verify(a), ~Nvme PROVE Inv'
<1> DEFINE W == Span(call.lba, Sectors(call.n))
<1>1. /\ step = "verify" /\ step' = "idle" /\ ret' = Result(a)
      /\ Execute("verify", call.lba, Sectors(call.n), 0, FALSE, a)
      /\ UNCHANGED <<drive, known, infoAvailable, calls, call, at, trim, exit, missed>>
      /\ \/ call.op = "write"
         \/ call.op \in {"verify", "writeVerify"} /\ "bytchk" \notin call.flags
  BY DEF Inv, Placed, Verify, Finish, translator, loops
<1>2. /\ MediumOK' /\ wrote' = wrote /\ data' = data /\ bad' = bad
      /\ a.status = "ok" => (\A b \in W : b \notin bad) /\ \A b \in W : saved'[b] = data[b]
  <2>1. MediumOK /\ "verify" \in Reads
    BY DEF Inv, TypeOK, Reads
  <2>2. Execute("verify", call.lba, Sectors(call.n), 0, FALSE, a)
    BY <1>1
  <2>3. /\ MediumOK' /\ wrote' = wrote /\ data' = data /\ bad' = bad
        /\ a.status = "ok" => \A b \in Span(call.lba, Sectors(call.n)) : b \notin bad
        /\ a.status = "ok" =>
             \A b \in Span(call.lba, Sectors(call.n)) : saved'[b] = data[b]
    <3>1. ASSUME NEW l, NEW n, Execute("verify", l, n, 0, FALSE, a)
          PROVE  /\ MediumOK' /\ wrote' = wrote /\ data' = data /\ bad' = bad
                 /\ a.status = "ok" => \A b \in Span(l, n) : b \notin bad
                 /\ a.status = "ok" => \A b \in Span(l, n) : saved'[b] = data[b]
      BY <2>1, <3>1, ReadEffect
    <3>q. QED BY <2>2, <3>1
  <2>q. QED BY <2>3
<1>3. OnlyAskedBlocks'
  BY <1>1, <1>2, NoWrites DEF Inv
<1>4. ASSUME call.op \in Writers
      PROVE  Asked \ Unsent \subseteq W /\ \A b \in W \ missed :
                                             <<b, call.v>> \in wrote /\ data[b] = call.v
  <2>1. Asked \ Unsent \subseteq W
    <3>1. call.op \in {"write", "writeVerify"}
      BY <1>1, <1>4 DEF Writers
    <3>q. QED BY <1>1, <3>1, WriteSpan
  <2>q. QED BY <1>1, <1>4, <2>1 DEF Inv, Behind
<1>5. call.op \in {"verify", "writeVerify"} => Asked = W
  BY <1>1 DEF Inv, Accepted, Asked
<1> HIDE DEF W
<1>6. /\ Asked' = Asked /\ Unsent' = Unsent /\ Pattern' = Pattern /\ Pattern = call.v
  <2>1. Pattern = call.v
    BY <1>1, CallFacts DEF Pattern, Inv
  <2>q. QED BY <1>1, <2>1, Static
<1>7. ret' = "success" => a.status = "ok"
  BY <1>1 DEF Result
<1>8. SuccessMeansWritten'
  BY <1>1, <1>2, <1>4, <1>6 DEF SuccessMeansWritten, Succeeded
<1>9. VerifiedMeansReadable'
  BY <1>1, <1>2, <1>5, <1>6, <1>7 DEF VerifiedMeansReadable, Succeeded
<1>10. DurableWhenTold'
  BY <1>1, <1>2, <1>4, <1>6, <1>7 DEF DurableWhenTold, Succeeded
<1>q. QED BY <1>1, <1>2, <1>3, <1>8, <1>9, <1>10, EndInv
          DEF Inv, TypeOK, Promises, Result, Results

(* What is compared is asked for; all of it, unless VERIFY has one block.  *)
LEMMA ComparedBlocks ==
  ASSUME TypeOK
  PROVE  /\ Compared \subseteq Span(call.lba, call.n)
         /\ "each" \notin call.flags \/ call.op # "verify" => Compared = Span(call.lba, call.n)
<1>1. Lesser(1, call.n) \in Nat /\ Lesser(1, call.n) <= call.n /\ call.n \in Nat /\ call.lba \in Nat
  BY CallFacts DEF Lesser
<1>2. Span(call.lba, Lesser(1, call.n)) \subseteq Span(call.lba, call.n)
  BY <1>1, MediumAssumption DEF Span, Blocks
<1>3. CASE call.op = "verify" /\ "each" \in call.flags
  BY <1>2, <1>3 DEF Compared
<1>4. CASE ~(call.op = "verify" /\ "each" \in call.flags)
  BY <1>4 DEF Compared
<1>q. QED BY <1>3, <1>4

(* A comparison, whatever became of the read.                              *)
LEMMA CompareInv == ASSUME Inv, NEW a \in Answers, Compare(a) PROVE Inv'
<1> DEFINE W == Span(call.lba, call.n)
           C == Compared
<1>1. /\ step = "compare" /\ step' = "idle" /\ ret' \in {"success", "miscompare"}
      /\ ret' = "success" => \A b \in C : (IF a.status = "ok" THEN data[b] ELSE 0) = call.v
      /\ Execute("read", call.lba, Sectors(call.n), 0, FALSE, a)
      /\ UNCHANGED <<drive, known, infoAvailable, calls, call, at, trim, exit, missed>>
      /\ call.op \in {"verify", "writeVerify"} /\ "bytchk" \in call.flags
      /\ Sectors(call.n) = call.n
  BY DEF Inv, Placed, Accepted, Compare, Finish, Buffer, translator, loops
<1>2. /\ MediumOK' /\ wrote' = wrote /\ data' = data /\ bad' = bad
      /\ a.status = "ok" => \A b \in W : b \notin bad
  <2>1. MediumOK /\ "read" \in Reads
    BY DEF Inv, TypeOK, Reads
  <2>2. Execute("read", call.lba, Sectors(call.n), 0, FALSE, a)
    BY <1>1
  <2>3. MediumOK' /\ wrote' = wrote /\ data' = data /\ bad' = bad
    BY <2>1, <2>2, ReadEffect
  <2>4. a.status = "ok" => \A b \in Span(call.lba, Sectors(call.n)) : b \notin bad
    BY <2>2 DEF Execute, Answer, Reads
  <2>q. QED BY <1>1, <2>3, <2>4
<1>3. OnlyAskedBlocks'
  BY <1>1, <1>2, NoWrites DEF Inv
<1>4. Asked = W /\ Unsent = {} /\ Pattern = call.v
  BY <1>1, CallFacts DEF Asked, Unsent, Pattern, Inv
<1>5. call.op \in Writers => \A b \in W \ missed : <<b, call.v>> \in wrote
  BY <1>1 DEF Inv, Behind
<1>6. C \subseteq W /\ ("each" \notin call.flags => C = W) /\ Compared' = C
  <2>1. Compared' = Compared
    BY <1>1 DEF Compared, Span, Blocks
  <2>q. QED BY <2>1, ComparedBlocks DEF Inv
<1> HIDE DEF W, C
<1>7. Asked' = Asked /\ Unsent' = Unsent /\ Pattern' = Pattern
  BY <1>1, Static
<1>8. SuccessMeansWritten'
  BY <1>1, <1>2, <1>4, <1>5, <1>7 DEF SuccessMeansWritten, Succeeded
<1>9. VerifiedMeansReadable'
  <2>1. ASSUME ret' = "success", call.v # 0, NEW b \in C
        PROVE  b \notin bad' /\ data'[b] = call.v
    BY <1>1, <1>2, <1>6, <2>1
  <2>2. (IF "each" \in call.flags' THEN Compared' ELSE Asked') = C
    BY <1>1, <1>4, <1>6, <1>7
  <2>3. ret' = "success" /\ call.v # 0 =>
          Verified(IF "each" \in call.flags THEN Compared ELSE Asked)'
    BY <1>1, <2>1, <2>2 DEF Verified
  <2>q. QED BY <1>1, <2>3 DEF VerifiedMeansReadable, Succeeded
<1>10. DurableWhenTold'
  <2>1. "fua" \notin call.flags
    BY <1>1, CallFacts DEF Inv
  <2>q. QED BY <1>1, <2>1 DEF DurableWhenTold, Succeeded
<1>q. QED BY <1>1, <1>2, <1>3, <1>8, <1>9, <1>10, EndInv DEF Inv, TypeOK, Promises, Results

-----------------------------------------------------------------------------
(* WRITE SAME and FORMAT UNIT.                                             *)

(* What they write, and where, as one command or in chunks.                *)
LEMMA SameSpan ==
  ASSUME TypeOK, call.op \in {"writeSame", "format"}
  PROVE  /\ Span(call.lba, Count) \subseteq Asked
         /\ Pattern \in Values /\ Written = Pattern
         /\ call.op = "writeSame" => Asked \ Unsent \subseteq Span(call.lba, Count)
         /\ call.op = "writeSame" => "fua" \notin call.flags
<1>1. /\ call.n \in Nat /\ call.lba \in Nat /\ MaxLba \in Nat /\ Blocks \subseteq Nat
  BY CallFacts, DriveFacts DEF Blocks
<1>2. Pattern \in Values /\ Written = Pattern /\ (call.op = "writeSame" => "fua" \notin call.flags)
  BY CallFacts, MediumAssumption DEF Pattern, Written
<1>3. CASE call.op = "format"
  BY <1>2, <1>3 DEF Asked, Span
<1>4. CASE call.op = "writeSame" /\ call.n = 0
  <2>1. Asked = {b \in Blocks : b >= call.lba} /\ Unsent = {b \in Blocks : b >= MaxLba}
        /\ Count = MaxLba
    BY <1>4 DEF Asked, Unsent, Count
  <2>2. Span(call.lba, Count) \subseteq Asked
    BY <1>1, <2>1 DEF Span
  <2>3. ASSUME NEW b \in Asked \ Unsent PROVE b \in Span(call.lba, Count)
    <3>1. b \in Blocks /\ b \in Nat /\ b >= call.lba /\ ~(b >= MaxLba)
      BY <1>1, <2>1, <2>3
    <3>2. call.lba <= b /\ b < call.lba + MaxLba
      BY <1>1, <3>1
    <3>q. QED BY <2>1, <3>1, <3>2 DEF Span
  <2>q. QED BY <1>2, <2>2, <2>3
<1>5. CASE call.op = "writeSame" /\ call.n # 0
  <2>1. Asked = Span(call.lba, call.n) /\ Count = call.n
    BY <1>5 DEF Asked, Count
  <2>q. QED BY <1>2, <2>1
<1>q. QED BY <1>3, <1>4, <1>5

(* The end of a write pass: the promises are about WRITE SAME only.        *)
LEMMA PassEnds ==
  ASSUME TypeOK, call.op \in {"writeSame", "format"}, UNCHANGED <<drive, known, call>>,
         call.op = "writeSame" /\ ret' = "success" =>
           \A b \in Span(call.lba, Count) \ missed' : <<b, Pattern>> \in wrote'
  PROVE  Promises'
<1>1. Asked' = Asked /\ Unsent' = Unsent /\ Pattern' = Pattern
  BY Static
<1>2. SuccessMeansWritten'
  <2>1. ASSUME step' = "idle", ret' = "success", call.op = "writeSame",
               NEW b \in Asked \ (missed' \cup Unsent)
        PROVE  <<b, Pattern>> \in wrote'
    BY <2>1, SameSpan
  <2>2. call.op \in Writers => call.op = "writeSame"
    BY DEF Writers
  <2>q. QED BY <1>1, <2>1, <2>2 DEF SuccessMeansWritten, Succeeded
<1>3. VerifiedMeansReadable' /\ DurableWhenTold'
  BY SameSpan DEF VerifiedMeansReadable, DurableWhenTold, Succeeded, Writers
<1>q. QED BY <1>2, <1>3 DEF Promises

(* WRITE SAME in one command.                                              *)
LEMMA SameInv == ASSUME Inv, NEW a \in Answers, Same(a) PROVE Inv'
<1> DEFINE W == Span(call.lba, Count)
<1>1. /\ step = "same" /\ call.op \in {"writeSame", "format"}
      /\ Execute("write", call.lba, Count, Pattern, FALSE, a)
      /\ UNCHANGED <<drive, known, infoAvailable, calls, call, at, trim, exit>>
      /\ step' = AfterSame /\ ret' = Result(a)
      /\ missed' = IF step' # "idle" /\ a.status # "ok"
                   THEN missed \cup (W \ Span(call.lba, a.done)) ELSE missed
  BY DEF Inv, Placed, Same, Goto, Goes, Left, translator, loops
<1>2. step' \in {"idle", "certify"} /\ (step' = "certify" => call.op = "format")
  BY <1>1 DEF AfterSame
<1>3. W \subseteq Asked /\ Pattern \in Values /\ Written = Pattern
  BY <1>1, SameSpan DEF Inv
<1>4. /\ MediumOK' /\ Span(call.lba, a.done) \subseteq W
      /\ a.status = "ok" => a.done = Count
      /\ wrote' = wrote \cup (Span(call.lba, a.done) \X {Pattern})
  <2>1. MediumOK /\ Count \in Nat /\ call.lba \in Nat
    BY CallFacts, DriveFacts DEF Inv, TypeOK
  <2>2. Execute("write", call.lba, Count, Pattern, FALSE, a)
    BY <1>1
  <2>3. MediumOK' /\ Span(call.lba, a.done) \subseteq W
    BY <1>3, <2>1, <2>2, WriteEffect
  <2>4. /\ a.status = "ok" => a.done = Count
        /\ wrote' = wrote \cup (Span(call.lba, a.done) \X {Pattern})
    BY <2>2 DEF Execute, Answer
  <2>q. QED BY <2>3, <2>4
<1>5. OnlyAskedBlocks'
  BY <1>1, <1>3, <1>4, RightWrites DEF Inv
<1>6. missed' \subseteq Blocks
  BY <1>1 DEF Inv, TypeOK, Span
<1>7. ret' \in Results /\ (ret' = "success" => a.status = "ok")
  BY <1>1 DEF Result, Results
<1>8. TypeOK'
  BY <1>1, <1>2, <1>4, <1>6, <1>7 DEF Inv, TypeOK, Steps, Format
<1> HIDE DEF W
<1>9. CASE step' = "idle"
  <2>1. Promises'
    <3>1. ret' = "success" => \A b \in W \ missed' : <<b, Pattern>> \in wrote'
      BY <1>4, <1>7 DEF W
    <3>q. QED BY <1>1, <3>1, PassEnds DEF Inv, W
  <2>q. QED BY <1>1, <1>4, <1>5, <1>6, <1>7, <1>9, <2>1, EndInv DEF Inv, TypeOK
<1>10. CASE step' = "certify"
  <2>1. Placed' /\ Accepted' /\ Single' /\ Behind'
    BY <1>1, <1>2, <1>10 DEF Placed, Accepted, Single, Behind, Format, Unmap
  <2>2. MaxLba' = MaxLba /\ at = 0 /\ MaxLba > 0 /\ call.op = "format"
    BY <1>1, <1>2, <1>10, Static DEF Inv, Position
  <2>3. Position'
    BY <1>1, <1>10, <2>2 DEF Position, Format
  <2>q. QED BY <1>5, <1>8, <1>10, <2>1, <2>3, Silent DEF Inv
<1>q. QED BY <1>2, <1>9, <1>10

(* A chunk of WRITE SAME or FORMAT UNIT.                                   *)
LEMMA SequentialWriteInv == ASSUME Inv, NEW a \in Answers, SequentialWrite(a) PROVE Inv'
<1> DEFINE W == Span(at, ChunkLength)
<1> DEFINE D == Span(at, a.done)
<1>1. /\ step = "chunk" /\ call.op \in {"writeSame", "format"}
      /\ Execute("write", at, ChunkLength, Pattern, FALSE, a)
      /\ UNCHANGED <<drive, known, infoAvailable, calls, call, trim, exit>>
      /\ ret' = Result(a)
      /\ IF at + ChunkLength < call.lba + Count
         THEN step' = "chunk" /\ at' = at + ChunkLength
         ELSE step' = AfterSame /\ at' = 0
      /\ missed' = IF step' # "idle" /\ a.status # "ok" THEN missed \cup (W \ D) ELSE missed
  BY DEF Inv, Placed, SequentialWrite, NextChunk, Goto, Goes, Left, translator
<1>2. AfterSame \in {"idle", "certify"} /\ (AfterSame = "certify" => call.op = "format")
  BY <1>1 DEF AfterSame
<1>3. /\ call.lba \in Nat /\ Count \in Nat /\ at \in Nat /\ at < call.lba + Count
      /\ ChunkSize \in Nat /\ Blocks \subseteq Nat /\ MaxLba \in Nat
  BY <1>1, CallFacts, DriveFacts, MediumAssumption DEF Inv, TypeOK, Position, Blocks
<1>4. ChunkLength \in Nat /\ at + ChunkLength <= call.lba + Count
  BY <1>3 DEF ChunkLength, Lesser
<1>5. Pattern \in Values /\ Written = Pattern
  BY <1>1, SameSpan DEF Inv
<1>6. /\ MediumOK' /\ D \subseteq W
      /\ a.status = "ok" => a.done = ChunkLength
      /\ wrote' = wrote \cup (D \X {Pattern})
  <2>1. MediumOK
    BY DEF Inv, TypeOK
  <2>2. Execute("write", at, ChunkLength, Pattern, FALSE, a)
    BY <1>1
  <2>3. MediumOK' /\ D \subseteq W
    BY <1>3, <1>4, <1>5, <2>1, <2>2, WriteEffect
  <2>4. /\ a.status = "ok" => a.done = ChunkLength
        /\ wrote' = wrote \cup (D \X {Pattern})
    BY <2>2 DEF Execute, Answer
  <2>q. QED BY <2>3, <2>4
<1>7. W \subseteq Asked
  <2>1. CASE call.op = "format"
    BY <2>1 DEF Asked, Span
  <2>2. CASE call.op = "writeSame"
    <3>1. call.lba <= at
      BY <1>1, <2>2 DEF Inv, Position
    <3>2. ASSUME NEW b \in W PROVE b \in Span(call.lba, Count)
      <4>1. b \in Blocks /\ b \in Nat /\ at <= b /\ b < at + ChunkLength
        BY <1>3 DEF Span
      <4>2. call.lba <= b /\ b < call.lba + Count
        BY <1>3, <1>4, <3>1, <4>1
      <4>q. QED BY <4>1, <4>2 DEF Span
    <3>q. QED BY <1>1, <3>2, SameSpan DEF Inv
  <2>q. QED BY <1>1, <2>1, <2>2
<1>8. OnlyAskedBlocks'
  BY <1>1, <1>5, <1>6, <1>7, RightWrites DEF Inv
<1>9. missed' \subseteq Blocks
  BY <1>1 DEF Inv, TypeOK, Span
<1>10. ret' \in Results /\ (ret' = "success" => a.status = "ok")
  BY <1>1 DEF Result, Results
<1>11. at' \in Nat /\ step' \in {"chunk", "idle", "certify"}
  BY <1>1, <1>2, <1>3, <1>4
<1>12. TypeOK'
  BY <1>1, <1>6, <1>9, <1>10, <1>11 DEF Inv, TypeOK, Steps, Format
(* The blocks up to the next chunk were written, or their write failed.    *)
<1>13. ASSUME call.op = "writeSame", step' # "idle" \/ a.status = "ok",
              NEW b \in Blocks, call.lba <= b, b < at + ChunkLength
       PROVE  b \in missed' \/ <<b, Pattern>> \in wrote'
  <2>1. CASE b < at
    <3>1. b \in missed \/ <<b, Pattern>> \in wrote
      BY <1>1, <1>13, <2>1 DEF Inv, Position, Dealt
    <3>q. QED BY <1>1, <1>6, <3>1
  <2>2. CASE ~(b < at)
    <3>1. b \in W
      BY <1>3, <1>13, <2>2 DEF Span
    <3>2. CASE a.status = "ok"
      BY <1>6, <3>1, <3>2
    <3>3. CASE a.status # "ok"
      BY <1>1, <1>6, <1>13, <3>1, <3>3
    <3>q. QED BY <3>2, <3>3
  <2>q. QED BY <2>1, <2>2
<1> HIDE DEF W, D
<1>14. /\ Count' = Count /\ Pattern' = Pattern /\ MaxLba' = MaxLba
  BY <1>1, Static
<1>15. CASE step' = "idle"
  <2>1. at + ChunkLength >= call.lba + Count
    BY <1>1, <1>3, <1>4, <1>15
  <2>2. ASSUME call.op = "writeSame", ret' = "success", NEW b \in Span(call.lba, Count) \ missed'
        PROVE  <<b, Pattern>> \in wrote'
    <3>1. b \in Blocks /\ b \in Nat /\ call.lba <= b /\ b < call.lba + Count
      BY <1>3, <2>2 DEF Span
    <3>2. b < at + ChunkLength
      BY <1>3, <1>4, <2>1, <3>1
    <3>q. QED BY <1>10, <1>13, <2>2, <3>1, <3>2
  <2>3. Promises'
    BY <1>1, <2>2, PassEnds DEF Inv
  <2>q. QED BY <1>1, <1>6, <1>8, <1>9, <1>10, <1>11, <1>15, <2>3, EndInv DEF Inv, TypeOK
<1>16. CASE step' = "certify"
  <2>1. Placed' /\ Accepted' /\ Single' /\ Behind'
    BY <1>1, <1>2, <1>16 DEF Placed, Accepted, Single, Behind, Format, Unmap
  <2>2. call.op = "format" /\ at' = 0 /\ MaxLba > 0
    BY <1>1, <1>2, <1>16 DEF Inv, Position
  <2>3. Position'
    BY <1>1, <1>14, <1>16, <2>2 DEF Position, Format
  <2>q. QED BY <1>8, <1>12, <1>16, <2>1, <2>3, Silent DEF Inv
<1>17. CASE step' = "chunk"
  <2>1. at' = at + ChunkLength /\ at' < call.lba + Count
    BY <1>1, <1>2, <1>17
  <2>2. Placed' /\ Accepted' /\ Single' /\ Behind'
    BY <1>1, <1>17 DEF Placed, Accepted, Single, Behind, Format, Unmap
  <2>3. call.op = "format" => MaxLba > 0
    BY <1>1 DEF Inv, Position
  <2>4. ASSUME call.op = "writeSame"
        PROVE  /\ call.lba <= at'
               /\ \A b \in Blocks : call.lba <= b /\ b < at' =>
                    b \in missed' \/ <<b, Pattern>> \in wrote'
    <3>1. call.lba <= at
      BY <1>1, <2>4 DEF Inv, Position
    <3>q. QED BY <1>3, <1>4, <1>13, <1>17, <2>1, <2>4, <3>1
  <2>5. Position'
    BY <1>1, <1>14, <1>17, <2>1, <2>3, <2>4 DEF Position, Dealt, Format, Blocks
  <2>q. QED BY <1>8, <1>12, <1>17, <2>2, <2>5, Silent DEF Inv
<1>q. QED BY <1>11, <1>15, <1>16, <1>17

-----------------------------------------------------------------------------
(* WRITE LONG and SYNCHRONIZE CACHE, of either translator.                 *)

(* A block is made uncorrectable.                                          *)
LEMMA SpoilInv ==
  ASSUME Inv, NEW a \in Answers, NEW S, call.op = "writeLong", Spoil(S, a),
         S \subseteq Blocks => S \subseteq Asked,
         S # {} /\ S \subseteq Blocks => call.lba \in S,
         step' = "idle", ret' \in Results, missed' \subseteq Blocks,
         ret' = "success" => a.status = "ok" \/ Unheard(call.lba)',
         UNCHANGED <<drive, known, infoAvailable, calls, call, at, trim, exit>>
  PROVE  Inv'
<1>1. /\ MediumOK' /\ wrote' \subseteq wrote \cup (S \X {Uncorrectable})
      /\ wrote' # wrote => S \subseteq Blocks
      /\ a.status = "ok" => S # {} /\ S \subseteq Blocks
                            /\ wrote' = wrote \cup (S \X {Uncorrectable})
  BY SpoilEffect DEF Inv, TypeOK
<1>2. OnlyAskedBlocks'
  <2>1. CASE wrote' = wrote
    BY <2>1, NoWrites DEF Inv
  <2>2. CASE wrote' # wrote
    <3>1. S \subseteq Asked /\ Uncorrectable = Written
      BY <1>1, <2>2 DEF Written
    <3>q. QED BY <1>1, <3>1, RightWrites DEF Inv
  <2>q. QED BY <2>1, <2>2
<1>3. Promises'
  BY <1>1 DEF Promises, SuccessMeansWritten, VerifiedMeansReadable, DurableWhenTold,
              Succeeded, Writers
<1>q. QED BY <1>1, <1>2, <1>3, EndInv DEF Inv, TypeOK

(* WRITE UNCORRECTABLE of a block or of a physical block.                  *)
LEMMA WriteLongInv == ASSUME Inv, NEW a \in Answers, WriteLong(a) PROVE Inv'
<1> DEFINE S == IF "corDis" \in call.flags THEN {call.lba} ELSE Physical(call.lba)
<1>1. /\ step = "uncorrectable" /\ call.op = "writeLong" /\ step' = "idle" /\ ret' = Result(a)
      /\ Spoil(S, a)
      /\ UNCHANGED <<drive, known, infoAvailable, calls, call, at, trim, exit, missed>>
  BY DEF Inv, Placed, WriteLong, Finish, translator, loops
<1>2. Asked = IF "pblock" \in call.flags THEN Physical(call.lba) ELSE {call.lba}
  BY <1>1 DEF Asked
<1>3. call.lba \in Blocks => call.lba \in Physical(call.lba)
  BY DEF Physical
<1>4. Physical(call.lba) # {} => call.lba \in Blocks
  BY DEF Physical
<1>5. "phys" \notin drive => Physical(call.lba) \subseteq {call.lba}
  BY DEF Physical
<1>6. {"corDis", "pblock"} \cap call.flags # {} \/ "phys" \notin drive
  BY <1>1 DEF Inv, Single
<1>7. S \subseteq Blocks => S \subseteq Asked
  BY <1>2, <1>3, <1>5, <1>6
<1>8. S # {} /\ S \subseteq Blocks => call.lba \in S
  BY <1>3, <1>4
<1> HIDE DEF S
<1>9. ret' \in Results /\ (ret' = "success" => a.status = "ok") /\ missed' \subseteq Blocks
  BY <1>1 DEF Result, Results, Inv, TypeOK
<1>q. QED BY <1>1, <1>7, <1>8, <1>9, SpoilInv

(* SYNCHRONIZE CACHE.                                                      *)
LEMMA FlushInv ==
  ASSUME Inv, NEW a \in Answers, call.op = "sync", FlushAll(a), step' = "idle", ret' \in Results,
         missed' \subseteq Blocks,
         ret' = "success" => a.status = "ok" \/ \A b \in Blocks : Unheard(b)',
         UNCHANGED <<drive, known, infoAvailable, calls, call, at, trim, exit>>
  PROVE  Inv'
<1>1. /\ MediumOK' /\ wrote' = wrote /\ data' = data /\ (a.status = "ok" => saved' = data)
  BY FlushEffect DEF Inv, TypeOK
<1>2. Promises'
  BY <1>1 DEF Promises, SuccessMeansWritten, VerifiedMeansReadable, DurableWhenTold,
              Succeeded, Writers
<1>q. QED BY <1>1, <1>2, NoWrites, EndInv DEF Inv, TypeOK

-----------------------------------------------------------------------------
(* The certification of FORMAT UNIT: it promises nothing, writes only what *)
(* the format was given, and stays before the end of the drive.            *)

(* Any step of it.                                                         *)
LEMMA CertifyInv ==
  ASSUME Inv, step \in Format, step' \in Format \cup {"idle"}, MediumOK',
         UNCHANGED <<drive, known, infoAvailable, calls, call, trim, missed>>,
         exit' \subseteq {"exitTheLoop", "deviceFault"}, ret' \in Results,
         at' \in Nat, step' # "idle" => at' < MaxLba,
         NEW S, wrote' \subseteq wrote \cup (S \X {call.v}), S \subseteq Blocks
  PROVE  Inv'
<1>1. call.op = "format" /\ MaxLba > 0
  BY DEF Inv, Placed, Position
<1>2. Asked = Blocks /\ Written = call.v
  BY <1>1, CallFacts DEF Asked, Written, Pattern, Inv
<1>3. OnlyAskedBlocks'
  BY <1>2, RightWrites DEF Inv
<1>4. Promises'
  BY <1>1 DEF Promises, SuccessMeansWritten, VerifiedMeansReadable, DurableWhenTold,
              Succeeded, Writers
<1>5. CASE step' = "idle"
  BY <1>3, <1>4, <1>5, EndInv DEF Inv, TypeOK
<1>6. CASE step' \in Format
  <2>1. TypeOK'
    BY <1>6 DEF Inv, TypeOK, Steps, Format
  <2>2. Placed' /\ Accepted' /\ Single' /\ Behind'
    BY <1>1, <1>6 DEF Placed, Accepted, Single, Behind, Format, Unmap
  <2>3. MaxLba' = MaxLba /\ step' # "idle"
    BY <1>6, Static DEF Format
  <2>4. Position'
    BY <1>1, <1>6, <2>3 DEF Position, Format
  <2>q. QED BY <1>3, <1>4, <2>1, <2>2, <2>4 DEF Inv
<1>q. QED BY <1>5, <1>6

(* The next chunk of the certification, or its end.                        *)
LEMMA CertifyOnFacts ==
  ASSUME Inv, step \in Format, NEW r \in {"success", "failure"}, CertifyOn(r)
  PROVE  /\ step' \in {"certify", "idle"} /\ at' \in Nat /\ ret' \in Results
         /\ step' # "idle" => at' < MaxLba
<1>1. at \in Nat /\ MaxLba \in Nat /\ at < MaxLba /\ Chunk \in Nat
  BY DriveFacts, LimitsAssumption DEF Inv, TypeOK, Position
<1>2. at + Lesser(Chunk, MaxLba - at) \in Nat
  BY <1>1 DEF Lesser
<1>q. QED BY <1>1, <1>2 DEF CertifyOn, Goto, Finish, Results

(* A verification of the certification.                                    *)
LEMMA CertifyStep == ASSUME Inv, NEW a \in Answers, Certify(a) PROVE Inv'
<1>1. /\ step \in Format /\ Execute("verify", at, Sectors(0), 0, FALSE, a)
      /\ UNCHANGED <<drive, known, infoAvailable, calls, call, trim, exit, missed>>
      /\ \/ step' = "rewrite" /\ UNCHANGED <<at, ret>>
         \/ CertifyOn(Result(a))
  BY DEF Certify, Goto, translator, Format
<1>2. MediumOK' /\ wrote' = wrote
  BY <1>1, ReadEffect DEF Inv, TypeOK, Reads
<1>3. /\ step' \in Format \cup {"idle"} /\ at' \in Nat /\ ret' \in Results
      /\ step' # "idle" => at' < MaxLba
  <2>1. CASE step' = "rewrite" /\ UNCHANGED <<at, ret>>
    BY <1>1, <2>1 DEF Inv, TypeOK, Position, Format
  <2>2. CASE CertifyOn(Result(a))
    <3>1. Result(a) \in {"success", "failure"}
      BY DEF Result
    <3>q. QED BY <1>1, <2>2, <3>1, CertifyOnFacts DEF Format
  <2>q. QED BY <1>1, <2>1, <2>2
<1>4. wrote' \subseteq wrote \cup ({} \X {call.v})
  BY <1>2
<1>q. QED BY <1>1, <1>2, <1>3, <1>4, CertifyInv DEF Inv, TypeOK

(* The rewriting of what could not be read.                                *)
LEMMA RewriteStep == ASSUME Inv, NEW a \in Answers, Rewrite(a) PROVE Inv'
<1>1. /\ step \in Format /\ Execute("write", at, Sectors(Chunk + 1), call.v, FALSE, a)
      /\ UNCHANGED <<drive, known, infoAvailable, calls, call, at, trim, missed>>
      /\ exit' \subseteq exit \cup {"deviceFault"}
      /\ step' \in Format \cup {"idle"} /\ (ret' = ret \/ ret' = "failure")
  BY DEF Rewrite, Goto, Finish, translator, Format
<1>2. /\ at \in Nat /\ Sectors(Chunk + 1) \in Nat /\ call.v \in Values /\ at < MaxLba
  BY <1>1, CallFacts, DriveFacts, LimitsAssumption DEF Inv, TypeOK, Position
<1>3. MediumOK' /\ Span(at, a.done) \subseteq Blocks
  BY <1>1, <1>2, WriteEffect DEF Inv, TypeOK, Span
<1>4. wrote' \subseteq wrote \cup (Span(at, a.done) \X {call.v})
  BY <1>1 DEF Execute
<1>5. ret' \in Results /\ exit' \subseteq {"exitTheLoop", "deviceFault"}
  BY <1>1 DEF Inv, TypeOK, Results
<1>q. QED BY <1>1, <1>2, <1>3, <1>4, <1>5, CertifyInv

(* The verification of what was rewritten.                                 *)
LEMMA ReverifyStep == ASSUME Inv, NEW a \in Answers, Reverify(a) PROVE Inv'
<1>1. /\ step \in Format /\ Execute("verify", at, Sectors(0), 0, FALSE, a)
      /\ UNCHANGED <<drive, known, infoAvailable, calls, call, trim, missed>>
      /\ exit' \subseteq exit \cup {"exitTheLoop", "deviceFault"}
      /\ \/ step' = "rewrite" /\ UNCHANGED <<at, ret>>
         \/ step' = "idle" /\ ret' = "failure" /\ UNCHANGED at
         \/ CertifyOn("success")
  BY DEF Reverify, Goto, Finish, translator, Format
<1>2. MediumOK' /\ wrote' = wrote
  BY <1>1, ReadEffect DEF Inv, TypeOK, Reads
<1>3. /\ step' \in Format \cup {"idle"} /\ at' \in Nat /\ ret' \in Results
      /\ step' # "idle" => at' < MaxLba
  <2>1. CASE step' = "rewrite" /\ UNCHANGED <<at, ret>>
    BY <1>1, <2>1 DEF Inv, TypeOK, Position, Format
  <2>2. CASE CertifyOn("success")
    BY <1>1, <2>2, CertifyOnFacts DEF Format
  <2>3. CASE step' = "idle" /\ ret' = "failure" /\ UNCHANGED at
    BY <2>3 DEF Inv, TypeOK, Results
  <2>q. QED BY <1>1, <2>1, <2>2, <2>3
<1>4. wrote' \subseteq wrote \cup ({} \X {call.v})
  BY <1>2
<1>5. exit' \subseteq {"exitTheLoop", "deviceFault"}
  BY <1>1 DEF Inv, TypeOK
<1>q. QED BY <1>1, <1>2, <1>3, <1>4, <1>5, CertifyInv

-----------------------------------------------------------------------------
(* UNMAP, of either translator: none of the promises is about it.          *)

(* Any step of it.                                                         *)
LEMMA UnmapInv ==
  ASSUME Inv, call.op = "unmap", step' \in Unmap \cup {"idle"}, MediumOK',
         UNCHANGED <<drive, known, infoAvailable, calls, call, exit, missed>>,
         at' \in Nat, trim' \in TrimState, ret' \in Results
  PROVE  Inv'
<1>1. TypeOK'
  BY DEF Inv, TypeOK, Steps
<1>2. OnlyAskedBlocks' /\ Promises'
  BY DEF OnlyAskedBlocks, Promises, SuccessMeansWritten, VerifiedMeansReadable,
         DurableWhenTold, Succeeded, Writers
<1>3. Placed' /\ Accepted' /\ Single' /\ Behind' /\ Position'
  BY DEF Placed, Accepted, Single, Behind, Position, Format, Unmap
<1>q. QED BY <1>1, <1>2, <1>3 DEF Inv

(* A descriptor of the parameter list.                                     *)
LEMMA DescriptorInv == ASSUME Inv, NEW limited, NextDescriptor(limited) PROVE Inv'
<1>1. /\ step = "descriptor"
      /\ UNCHANGED <<medium, drive, known, infoAvailable, calls, call, exit, missed>>
      /\ step' \in {"descriptor", "entry", "lastTrim", "idle"}
      /\ ret' = ret \/ ret' = "failure"
  BY DEF NextDescriptor, Goto, Finish, translator
<1>2. call.op = "unmap"
  BY <1>1 DEF Inv, Placed, Unmap
<1>3. MediumOK'
  BY <1>1 DEF Inv, TypeOK, MediumOK, medium
<1>4. at \in Nat /\ trim \in TrimState /\ call.list \in Seq(Nat \X Nat)
  BY CallFacts DEF Inv, TypeOK, Call
<1>5. at' \in Nat /\ trim' \in TrimState
  <2> DEFINE i == trim.index + 1
  <2>1. i \in Nat /\ i >= 1
    BY <1>4 DEF TrimState
  <2>2. CASE i > Len(call.list)
    BY <1>4, <2>2 DEF NextDescriptor
  <2>3. CASE ~(i > Len(call.list))
    <3>1. call.list[i] \in Nat \X Nat
      BY <1>4, <2>1, <2>3
    <3>2. CASE call.list[i][2] = 0
      <4>1. at' = at /\ trim' = [trim EXCEPT !.index = i]
        BY <2>3, <3>2 DEF NextDescriptor
      <4>q. QED BY <1>4, <2>1, <4>1 DEF TrimState
    <3>3. CASE call.list[i][2] # 0
      <4>1. at' = call.list[i][1] /\ trim' = [trim EXCEPT !.index = i, !.left = call.list[i][2],
                                                    !.asked = @ + call.list[i][2]]
        BY <2>3, <3>3 DEF NextDescriptor
      <4>2. /\ call.list[i][1] \in Nat /\ call.list[i][2] \in Nat /\ trim.asked \in Nat
        BY <1>4, <3>1 DEF TrimState
      <4>3. trim.asked + call.list[i][2] \in Nat
        BY <4>2
      <4> HIDE DEF i
      <4>q. QED BY <1>4, <2>1, <4>1, <4>2, <4>3 DEF TrimState
    <3>q. QED BY <3>2, <3>3
  <2>q. QED BY <2>2, <2>3
<1>q. QED BY <1>1, <1>2, <1>3, <1>5, UnmapInv DEF Unmap, Inv, TypeOK, Results

(* A number of two bytes is a number in either order.                      *)
LEMMA SwappedNumber == ASSUME NEW x \in Nat PROVE Swapped(x) \in Nat
<1>1. x % Radix \in Nat /\ x \div Radix \in Nat /\ Radix \in Nat
  BY LimitsAssumption
<1>2. (x \div Radix) % Radix \in Nat
  BY <1>1, LimitsAssumption
<1>3. (x % Radix) * Radix \in Nat
  BY <1>1
<1>q. QED BY <1>2, <1>3 DEF Swapped

(* An entry put into the buffer.                                           *)
LEMMA EntryInv ==
  ASSUME Inv, NEW long \in BOOLEAN, EntryOf(long), long => trim.left > MaxRange
  PROVE  Inv'
<1> DEFINE n == IF long THEN MaxRange ELSE trim.left
<1>1. /\ step = "entry" /\ step' \in {"entry", "trim", "crashed"} /\ ret' = ret
      /\ UNCHANGED <<medium, drive, known, infoAvailable, calls, call, exit, missed>>
      /\ at' = (IF long THEN at + MaxRange ELSE at)
      /\ trim' = [trim EXCEPT
           !.left = IF long THEN @ - MaxRange ELSE @,
           !.offset = NextOffset(trim.offset),
           !.entries = IF trim.offset < PerBuffer
                       THEN [@ EXCEPT ![trim.offset] = <<Swapped(at), Swapped(n)>>] ELSE @]
  BY DEF EntryOf, Goto, translator
<1>2. call.op = "unmap"
  BY <1>1 DEF Inv, Placed, Unmap
<1>3. MediumOK'
  BY <1>1 DEF Inv, TypeOK, MediumOK, medium
<1>4. at \in Nat /\ trim \in TrimState /\ MaxRange \in Nat /\ trim.left \in Nat
      /\ trim.offset \in Nat /\ trim.entries \in [Slots -> Nat \X Nat]
  BY LimitsAssumption DEF Inv, TypeOK, TrimState
<1>5. Swapped(at) \in Nat /\ Swapped(n) \in Nat
  BY <1>4, SwappedNumber
<1>6. NextOffset(trim.offset) \in Nat
  BY <1>4, LimitsAssumption DEF NextOffset
<1>7. (IF long THEN trim.left - MaxRange ELSE trim.left) \in Nat
  BY <1>4
<1> HIDE DEF n
<1>8. (IF trim.offset < PerBuffer
       THEN [trim.entries EXCEPT ![trim.offset] = <<Swapped(at), Swapped(n)>>]
       ELSE trim.entries) \in [Slots -> Nat \X Nat]
  BY <1>4, <1>5
<1>9. trim' \in TrimState
  BY <1>1, <1>4, <1>6, <1>7, <1>8 DEF TrimState
<1>10. at' \in Nat
  BY <1>1, <1>4
<1>q. QED BY <1>1, <1>2, <1>3, <1>9, <1>10, UnmapInv DEF Unmap, Inv, TypeOK

(* The buffer is sent.                                                     *)
LEMMA SendTrimInv ==
  ASSUME Inv, NEW a \in Answers, NEW r \in Results, SendTrim(a, r)
  PROVE  Inv'
<1>1. /\ step \in {"trim", "lastTrim"} /\ Trim(Entries, a)
      /\ UNCHANGED <<drive, known, infoAvailable, calls, call, at, exit, missed>>
      /\ step' \in {"entry", "idle"} /\ ret' \in {ret, r}
      /\ trim' = trim \/ trim' = [trim EXCEPT !.offset = 0, !.entries = NoTrim.entries]
  BY DEF SendTrim, Goto, Finish, translator
<1>2. call.op = "unmap"
  BY <1>1 DEF Inv, Placed, Unmap
<1>3. MediumOK'
  BY <1>1, TrimEffect DEF Inv, TypeOK
<1>4. NoTrim.entries \in [Slots -> Nat \X Nat]
  BY DEF NoTrim, Slots
<1>5. trim' \in TrimState
  <2>1. trim \in TrimState
    BY DEF Inv, TypeOK
  <2> DEFINE E == NoTrim.entries
  <2>2. E \in [Slots -> Nat \X Nat]
    BY <1>4
  <2>3. trim' = trim \/ trim' = [trim EXCEPT !.offset = 0, !.entries = E]
    BY <1>1
  <2> HIDE DEF E
  <2>4. CASE trim' = [trim EXCEPT !.offset = 0, !.entries = E]
    <3>1. [trim EXCEPT !.offset = 0, !.entries = E] \in TrimState
      BY <2>1, <2>2 DEF TrimState
    <3>q. QED BY <2>4, <3>1
  <2>q. QED BY <2>1, <2>3, <2>4
<1>q. QED BY <1>1, <1>2, <1>3, <1>5, UnmapInv DEF Unmap, Inv, TypeOK

-----------------------------------------------------------------------------
(* The commands of an NVMe drive.                                          *)

(* The checks before the NVMe command.                                     *)
LEMMA NvmeStartInv == ASSUME Inv, NvmeStart, Nvme PROVE Inv'
<1>1. /\ step = "start"
      /\ UNCHANGED <<cached, data, saved, bad, regs, faults, wrote>>
      /\ UNCHANGED <<drive, known, infoAvailable, calls, call, at, trim, exit, missed>>
      /\ \/ step' = "idle" /\ ret' = "illegal"
         \/ ~NvmeIllegal(call) /\ NvmeNothing(call) /\ step' = "idle" /\ ret' = "success"
         \/ step' = "nvme" /\ ret' = ret
  BY DEF NvmeStart, Goto, Finish, translator, loops, medium
<1>2. MediumOK' /\ ret' \in Results
  BY <1>1 DEF Inv, TypeOK, MediumOK, Results
<1>3. OnlyAskedBlocks'
  BY <1>1, NoWrites DEF Inv
<1>4. CASE step' = "idle"
  <2>1. Promises'
    <3>1. CASE ret' = "success"
      <4>1. (call.op \in Transfers /\ call.n = 0) \/ call.op = "unmap"
        BY <1>1, <1>4, <3>1 DEF NvmeNothing, Transfers
      <4>q. QED BY <1>1, <3>1, <4>1, NothingPromised
    <3>q. QED BY <3>1, Silent
  <2>q. QED BY <1>1, <1>2, <1>3, <1>4, <2>1, EndInv DEF Inv, TypeOK
<1>5. CASE step' = "nvme"
  <2>1. TypeOK'
    BY <1>1, <1>2, <1>5 DEF Inv, TypeOK, Steps
  <2>2. Placed' /\ Accepted' /\ Single' /\ Behind' /\ Position'
    BY <1>5 DEF Placed, Accepted, Single, Behind, Position, Format, Unmap
  <2>q. QED BY <1>3, <1>5, <2>1, <2>2, Silent DEF Inv
<1>q. QED BY <1>1, <1>4, <1>5

(* How an NVMe command ends: its failure is told, or its blocks are missed. *)
LEMMA EndFacts ==
  ASSUME Inv, Nvme, NEW failed \in BOOLEAN, NEW S \in SUBSET Blocks, NEW a, NEW r \in Results,
         End(failed, S, a, r), r = "success" => ~failed, drive' = drive
  PROVE  /\ step' = "idle" /\ ret' \in Results /\ missed' \subseteq Blocks
         /\ ret' = "success" /\ failed =>
              S \subseteq missed' /\ \A b : b \in S \/ b \notin Blocks => Unheard(b)'
<1>1. /\ step' = "idle"
      /\ ret' = IF Untold(failed, a) THEN "success" ELSE r
      /\ missed' = IF Untold(failed, a) THEN missed \cup S ELSE missed
  BY DEF End, Finish
<1>2. Untold(failed, a) => "silent" \in drive
  BY DEF Untold
<1>3. missed \subseteq Blocks
  BY DEF Inv, TypeOK
<1>q. QED BY <1>1, <1>2, <1>3 DEF Unheard, Nvme, Results, Blocks

(* What an NVMe command is told to have done, by its answer.               *)
LEMMA ToldFacts ==
  ASSUME NEW a \in Answers
  PROVE  /\ Result(a) \in Results /\ NvmeResult(a) \in Results
         /\ Result(a) = "success" => a.status = "ok"
BY DEF Result, NvmeResult, Results

(* A write to an NVMe drive.                                               *)
LEMMA NvmeWriteInv == ASSUME Inv, NEW a \in Answers, NvmeWrite(a), Nvme PROVE Inv'
<1> DEFINE W == Span(call.lba, call.n)
<1>1. /\ call.op = "write" /\ Execute("write", call.lba, call.n, call.v, PassedOn, a)
      /\ End(a.status # "ok", W \ Span(call.lba, a.done), a, Result(a))
      /\ UNCHANGED <<drive, known, infoAvailable, calls, call, at, trim, exit>>
  BY DEF NvmeWrite, One, Left, translator, loops
<1>2. Asked = W /\ Written = call.v /\ Pattern = call.v /\ Unsent = {}
  BY <1>1, CallFacts DEF Asked, Written, Pattern, Unsent, Inv
<1>3. /\ MediumOK' /\ Span(call.lba, a.done) \subseteq W
      /\ a.status = "ok" => a.done = call.n
      /\ wrote' = wrote \cup (Span(call.lba, a.done) \X {call.v})
      /\ \A b \in Span(call.lba, a.done) : data'[b] = call.v /\ (PassedOn => saved'[b] = call.v)
  <2>1. call.n \in Nat /\ call.lba \in Nat /\ call.v \in Values /\ MediumOK
    BY CallFacts DEF Inv, TypeOK
  <2>q. QED BY <1>1, <2>1, WriteEffect
<1>4. /\ step' = "idle" /\ ret' \in Results /\ missed' \subseteq Blocks
      /\ ret' = "success" => W \ Span(call.lba, a.done) \subseteq missed'
  <2>1. W \ Span(call.lba, a.done) \in SUBSET Blocks
    BY DEF Span
  <2>2. /\ step' = "idle" /\ ret' \in Results /\ missed' \subseteq Blocks
        /\ ret' = "success" /\ a.status # "ok" => W \ Span(call.lba, a.done) \subseteq missed'
    BY <1>1, <2>1, ToldFacts, EndFacts
  <2>q. QED BY <1>3, <2>2
<1> HIDE DEF W
<1>5. OnlyAskedBlocks'
  BY <1>1, <1>2, <1>3, RightWrites DEF Inv
<1>6. Asked' = Asked /\ Unsent' = Unsent /\ Pattern' = Pattern
  BY <1>1, Static
<1>7. SuccessMeansWritten'
  BY <1>1, <1>2, <1>3, <1>4, <1>6 DEF SuccessMeansWritten, Succeeded
<1>8. DurableWhenTold'
  BY <1>1, <1>2, <1>3, <1>4, <1>6 DEF DurableWhenTold, Succeeded, PassedOn
<1>9. VerifiedMeansReadable'
  BY <1>1 DEF VerifiedMeansReadable, Succeeded
<1>q. QED BY <1>1, <1>3, <1>4, <1>5, <1>7, <1>8, <1>9, EndInv
          DEF Inv, TypeOK, Promises

(* VERIFY, as Verify or as Compare.                                        *)
LEMMA NvmeVerifyInv ==
  ASSUME Inv, NEW a \in Answers, NEW f, call.op = "verify",
         Execute("read", call.lba, call.n, 0, f, a), step' = "idle", ret' \in Results,
         missed' \subseteq Blocks,
         ret' = "success" =>
           \/ /\ a.status = "ok"
              /\ "bytchk" \in call.flags => \A b \in Span(call.lba, call.n) : data[b] = call.v
           \/ \A b \in Span(call.lba, call.n) : Unheard(b)',
         UNCHANGED <<drive, known, infoAvailable, calls, call, at, trim, exit>>
  PROVE  Inv'
<1>1. MediumOK' /\ wrote' = wrote /\ data' = data /\ bad' = bad
  BY ReadEffect DEF Inv, TypeOK, Reads
<1>2. a.status = "ok" => \A b \in Span(call.lba, call.n) : b \notin bad
  BY DEF Execute, Answer, Reads
<1>3. Asked = Span(call.lba, call.n) /\ Asked' = Asked
  BY Static DEF Asked
<1>4. Compared' \subseteq Span(call.lba, call.n)
  <2>1. Compared' = Compared
    BY DEF Compared, Span, Blocks
  <2>q. QED BY <2>1, ComparedBlocks DEF Inv
<1>5. VerifiedMeansReadable'
  BY <1>1, <1>2, <1>3, <1>4 DEF VerifiedMeansReadable, Verified, Succeeded
<1>6. SuccessMeansWritten' /\ DurableWhenTold'
  BY DEF SuccessMeansWritten, DurableWhenTold, Succeeded, Writers
<1>q. QED BY <1>1, <1>5, <1>6, NoWrites, EndInv DEF Inv, TypeOK, Promises

(* Any step of the NVMe translation.                                       *)
LEMMA TranslateNvmeInv == ASSUME Inv, Nvme, TranslateNvme PROVE Inv'
<1> USE DEF One, translator, loops
<1>1. ASSUME NEW a \in Answers, NvmeRead(a) PROVE Inv'
  <2>1. Span(call.lba, call.n) \in SUBSET Blocks
    BY DEF Span
  <2>2. step' = "idle" /\ ret' \in Results /\ missed' \subseteq Blocks
    BY <1>1, <2>1, ToldFacts, EndFacts DEF NvmeRead
  <2>q. QED BY <1>1, <2>2, ReadInv DEF NvmeRead
<1>2. ASSUME NEW a \in Answers, NvmeVerify(a) PROVE Inv'
  <2>1. Span(call.lba, call.n) \in SUBSET Blocks
    BY DEF Span
  <2>2. /\ step' = "idle" /\ ret' \in Results /\ missed' \subseteq Blocks
        /\ ret' = "success" /\ a.status # "ok" => \A b \in Span(call.lba, call.n) : Unheard(b)'
    BY <1>2, <2>1, ToldFacts, EndFacts DEF NvmeVerify
  <2>q. QED BY <1>2, <2>2, NvmeVerifyInv DEF NvmeVerify
<1>3. ASSUME NEW a \in Answers, NvmeCompare(a) PROVE Inv'
  <2> DEFINE differs == a.status = "ok" /\ \E b \in Span(call.lba, call.n) : data[b] # call.v
             failed == a.status # "ok" \/ differs
             r == IF differs THEN "miscompare" ELSE Result(a)
  <2>1. /\ call.op = "verify" /\ Execute("read", call.lba, call.n, 0, TRUE, a)
        /\ End(failed, Span(call.lba, call.n), a, r)
        /\ UNCHANGED <<drive, known, infoAvailable, calls, call, at, trim, exit>>
    BY <1>3 DEF NvmeCompare
  <2>2. Span(call.lba, call.n) \in SUBSET Blocks
    BY DEF Span
  <2>3. r \in Results /\ (r = "success" => ~failed)
    BY ToldFacts DEF Results
  <2>4. ~failed => a.status = "ok" /\ \A b \in Span(call.lba, call.n) : data[b] = call.v
    OBVIOUS
  <2>5. failed \in BOOLEAN
    OBVIOUS
  <2> HIDE DEF failed, r
  <2>6. /\ step' = "idle" /\ ret' \in Results /\ missed' \subseteq Blocks
        /\ ret' = "success" /\ failed => \A b \in Span(call.lba, call.n) : Unheard(b)'
    BY <2>1, <2>2, <2>3, <2>5, EndFacts
  <2>q. QED BY <2>1, <2>4, <2>6, NvmeVerifyInv
<1>4. ASSUME NEW a \in Answers, NvmeWriteUncorrectable(a) PROVE Inv'
  <2>1. /\ call.op = "writeLong" /\ Spoil({call.lba}, a)
        /\ End(a.status # "ok", Span(call.lba, 1), a, Result(a))
        /\ UNCHANGED <<drive, known, infoAvailable, calls, call, at, trim, exit>>
    BY <1>4 DEF NvmeWriteUncorrectable
  <2>2. {call.lba} \subseteq Blocks => {call.lba} \subseteq Asked
    BY <2>1 DEF Asked, Physical
  <2>3. Span(call.lba, 1) \in SUBSET Blocks /\ (call.lba \in Span(call.lba, 1) \/ call.lba \notin Blocks)
    BY CallFacts DEF Span, Inv
  <2>4. /\ step' = "idle" /\ ret' \in Results /\ missed' \subseteq Blocks
        /\ ret' = "success" /\ a.status # "ok" => Unheard(call.lba)'
    BY <2>1, <2>3, ToldFacts, EndFacts
  <2>q. QED BY <2>1, <2>2, <2>4, SpoilInv
<1>5. ASSUME NEW a \in Answers, NvmeFlush(a) PROVE Inv'
  <2>1. /\ step' = "idle" /\ ret' \in Results /\ missed' \subseteq Blocks
        /\ ret' = "success" /\ a.status # "ok" => \A b \in Blocks : Unheard(b)'
    BY <1>5, ToldFacts, EndFacts DEF NvmeFlush
  <2>q. QED BY <1>5, <2>1, FlushInv DEF NvmeFlush
<1>6. CASE NvmeUnmap
  BY <1>6, UnmapInv DEF NvmeUnmap, Goto, medium, Unmap, Inv, TypeOK, MediumOK
<1>7. CASE NvmeEntry
  BY <1>7, EntryInv DEF NvmeEntry
<1>8. ASSUME NEW a \in Answers, NvmeSendRanges(a) PROVE Inv'
  BY <1>8, ToldFacts, SendTrimInv DEF NvmeSendRanges
<1>q. QED BY <1>1, <1>2, <1>3, <1>4, <1>5, <1>6, <1>7, <1>8, IdentifyInv, NvmeStartInv, NvmeWriteInv,
             DescriptorInv DEF TranslateNvme, NvmeDescriptor

(* Any step of the ATA translation.                                        *)
LEMMA TranslateInv == ASSUME Inv, ~Nvme, Translate PROVE Inv'
<1>1. ASSUME NEW a \in Answers, Read(a) PROVE Inv'
  BY <1>1, ToldFacts, ReadInv DEF Read, Inv, TypeOK, Placed, Finish, translator, loops
<1>2. ASSUME NEW a \in Answers, Flush(a) PROVE Inv'
  BY <1>2, ToldFacts, FlushInv DEF Flush, Inv, TypeOK, Placed, Finish, translator, loops
<1>3. CASE Entry
  <2>1. (trim.left > MaxRange /\ "xl" \notin Seen) \in BOOLEAN
    OBVIOUS
  <2>q. QED BY <1>3, <2>1, EntryInv DEF Entry
<1>4. CASE Descriptor
  BY <1>4, DescriptorInv DEF Descriptor
<1>5. ASSUME NEW a \in Answers, SendTrim(a, Result(a)) PROVE Inv'
  BY <1>5, ToldFacts, SendTrimInv
<1>q. QED BY <1>1, <1>2, <1>3, <1>4, <1>5, IdentifyInv, StartInv, PreverifyInv, WriteInv, VerifyInv,
             CompareInv, SameInv, SequentialWriteInv, WriteLongInv, CertifyStep, RewriteStep,
             ReverifyStep DEF Translate

-----------------------------------------------------------------------------
(* The invariant holds before the first command.                           *)
LEMMA InitInv == Init => Inv
<1> SUFFICES ASSUME Init PROVE Inv
  OBVIOUS
<1>1. MediumOK
  <2>1. PICK m \in Media : data = m.data /\ saved = m.saved /\ bad = m.bad
    BY DEF Init
  <2>q. QED BY <2>1, MediaAssumption, MediumAssumption DEF Init, MediumOK
<1>2. NoTrim \in TrimState
  BY DEF NoTrim, TrimState, Slots
<1>3. TypeOK
  BY <1>1, <1>2, LimitsAssumption DEF Init, TypeOK, Steps, Results
<1>4. Placed /\ Accepted /\ Single /\ Behind /\ Position
  BY DEF Init, Placed, Accepted, Single, Behind, Position, Format, Unmap
<1>5. OnlyAskedBlocks /\ Promises
  BY DEF Init, OnlyAskedBlocks, Promises, SuccessMeansWritten, VerifiedMeansReadable,
         DurableWhenTold, Succeeded
<1>q. QED BY <1>3, <1>4, <1>5 DEF Inv

(* Nothing happens.                                                        *)
LEMMA StutterInv == ASSUME Inv, UNCHANGED vars PROVE Inv'
<1>1. UNCHANGED <<cached, data, saved, bad, regs, faults, wrote, drive, known, infoAvailable,
                  calls, call, step, at, trim, exit, ret, missed>>
  BY DEF vars, medium
<1>2. TypeOK'
  BY <1>1 DEF Inv, TypeOK, MediumOK
<1>3. Placed' /\ Single' /\ Accepted'
  BY <1>1, Static DEF Inv, Placed, Single, Accepted
<1>4. Position' /\ Behind'
  BY <1>1, Static DEF Inv, Position, Dealt, Behind, Span, Blocks
<1>5. OnlyAskedBlocks'
  BY <1>1, NoWrites DEF Inv
<1>6. Promises'
  <2>1. Compared' = Compared /\ Asked' = Asked /\ Unsent' = Unsent /\ Seen' = Seen
        /\ Nvme' = Nvme /\ Pattern' = Pattern
    BY <1>1, Static DEF Compared, Span, Blocks, Lesser
  <2>2. \A b : Unheard(b)' <=> Unheard(b)
    BY <1>1 DEF Unheard, Nvme
  <2>3. SuccessMeansWritten' /\ DurableWhenTold'
    BY <1>1, <2>1, <2>2, Static DEF Inv, Promises, SuccessMeansWritten, DurableWhenTold, Succeeded, Unheard, Nvme
  <2>4. VerifiedMeansReadable'
    BY <1>1, <2>1, <2>2 DEF Inv, Promises, VerifiedMeansReadable, Verified, Succeeded, Unheard, Nvme
  <2>q. QED BY <2>3, <2>4 DEF Promises
<1>q. QED BY <1>2, <1>3, <1>4, <1>5, <1>6 DEF Inv

(* The invariant is inductive.                                             *)
LEMMA NextInv == Inv /\ [Next]_vars => Inv'
BY TranslateInv, TranslateNvmeInv, BeginInv, StutterInv DEF Next

(* Nothing the translators do, on any drive and with any faults, breaks the *)
(* inductive invariant.                                                    *)
THEOREM Invariance == Spec => []Inv
BY InitInv, NextInv, PTL DEF Spec

(* Every variable keeps its type: the drive's contents, the position in    *)
(* the range (satl_Sequential_Write_Commands, satl_Format_Unit) and the    *)
(* UNMAP buffer, however long the ranges.                                  *)
THEOREM TypeCorrect == Spec => []TypeOK
<1>1. Inv => TypeOK
  BY DEF Inv
<1>q. QED BY <1>1, Invariance, PTL

(* A command other than UNMAP changes no block but those it is about, and  *)
(* these only to the data that came with it, whichever translator takes it *)
(* and however many of the drive's commands fail.  Nothing is said of      *)
(* UNMAP, whose entries have their bytes in the wrong order.               *)
THEOREM NothingElseWritten == Spec => []OnlyAskedBlocks
<1>1. Inv => OnlyAskedBlocks
  BY DEF Inv
<1>q. QED BY <1>1, Invariance, PTL

(* A write reported as done wrote every block it is about, but for blocks  *)
(* whose failure a later success hides, blocks never sent, and blocks of a *)
(* failed command of an NVMe drive whose pass-through drops the status.    *)
THEOREM WrittenTruly == Spec => []SuccessMeansWritten
<1>1. Inv => SuccessMeansWritten
  BY DEF Inv, Promises
<1>q. QED BY <1>1, Invariance, PTL

(* A verification reported as good read, and with BYTCHK compared, every   *)
(* block, but when it compares zeros (with the zeros a failed read left),  *)
(* with BYTCHK of 11b, where it compared the first block only, and on an   *)
(* NVMe drive whose pass-through drops the status.                         *)
THEOREM VerifiedTruly == Spec => []VerifiedMeansReadable
<1>1. Inv => VerifiedMeansReadable
  BY DEF Inv, Promises
<1>q. QED BY <1>1, Invariance, PTL

(* Writes with FUA, in each way a drive allows it, and everything before a *)
(* SYNCHRONIZE CACHE that sent its command are on the medium when the      *)
(* command succeeds, but for the blocks of a failed command that a later   *)
(* success, or a pass-through without status, hides.                       *)
THEOREM DurableTruly == Spec => []DurableWhenTold
<1>1. Inv => DurableWhenTold
  BY DEF Inv, Promises
<1>q. QED BY <1>1, Invariance, PTL
=============================================================================
