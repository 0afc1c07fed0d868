------------------------------ MODULE SatlBlock ------------------------------
(***************************************************************************)
(* The block commands of the software SAT translator (sat_helper.c):       *)
(* translate_SCSI_Command and its translations of READ, WRITE, VERIFY,     *)
(* WRITE AND VERIFY, WRITE SAME, WRITE LONG, SYNCHRONIZE CACHE, UNMAP and  *)
(* FORMAT UNIT into sequences of ATA commands on one drive (DriveMedium).  *)
(*                                                                         *)
(* A caller sees what private_SCSI_Send_CDB makes of the sense data and of *)
(* the translator's return value: it succeeds if neither is an error.  The *)
(* counts that have a width in the code are scaled down: 256 and 65536     *)
(* blocks, the 64K of a sequential write, an UNMAP range of 65535 blocks.  *)
(***************************************************************************)
EXTENDS DriveMedium, Sequences

CONSTANTS ShortLimit,  (* blocks of a 28-bit command: 256                  *)
          LongLimit,   (* blocks of a 48-bit command, a 16-bit count: 65536 *)
          Chunk,       (* blocks in a buffer of 65535 bytes                *)
          PerBuffer,   (* entries that fit in the TRIM buffer              *)
          MaxRange,    (* blocks of one entry: UINT16_MAX                  *)
          OffsetSpan,  (* entries until the 16-bit buffer offset wraps     *)
          Radix,       (* addresses have two bytes, of Radix values each   *)
          Drives,      (* the features of the drives                       *)
          Media,       (* what may be on the drive, and in its cache       *)
          Calls,       (* the SCSI commands that are sent                  *)
          MaxCalls     (* bound: commands sent                             *)

(* Features: 48-bit commands, DMA, SCT WRITE SAME, ZERO EXT, FLUSH CACHE,  *)
(* TRIM and its XL form, WRITE UNCORRECTABLE, several blocks in a physical *)
(* one; an NVMe drive (SntlBlock), one with the Verify command, and one    *)
(* whose pass-through drops every status.                                  *)
Features == {"ext", "dma", "sct", "zero", "flush", "trim", "xl", "uncor", "phys",
             "nvme", "verify", "silent"}

Ops == {"read", "write", "verify", "writeVerify", "writeSame", "writeLong",
        "sync", "unmap", "format"}
(* BYTCHK of 01b is "bytchk", 10b "reserved", 11b "bytchk" and "each".      *)
Flags == {"fua", "bytchk", "each", "reserved", "ndob", "pattern", "certify",
          "corDis", "wrUncor", "pblock"}
(* The flags a command has a field for.                                    *)
FlagsOf(op) ==
  CASE op \in {"read", "write"} -> {"fua"}
    [] op \in {"verify", "writeVerify"} -> {"bytchk", "each", "reserved"}
    [] op = "writeSame" -> {"ndob"}
    [] op = "writeLong" -> {"corDis", "wrUncor", "pblock"}
    [] op = "format" -> {"pattern", "certify"}
    [] OTHER -> {}
Call == [op: Ops, lba: Nat, n: Nat, v: Values, flags: SUBSET Flags,
         list: Seq(Nat \X Nat)]

ASSUME LimitsAssumption ==
  /\ ShortLimit \in Nat \ {0} /\ LongLimit \in Nat /\ ShortLimit < LongLimit
  /\ Chunk \in Nat \ {0}
  /\ PerBuffer \in Nat \ {0} /\ MaxRange \in Nat \ {0}
  /\ OffsetSpan \in Nat /\ OffsetSpan > PerBuffer + 1
  /\ Radix \in Nat \ {0}
  /\ MaxCalls \in Nat
ASSUME DrivesAssumption == Drives \subseteq SUBSET Features
ASSUME MediaAssumption ==
  Media \subseteq [data: [Blocks -> Values], saved: [Blocks -> Values],
                   bad: SUBSET Blocks]
ASSUME CallsAssumption ==
  /\ Calls \subseteq Call
  /\ \A c \in Calls : c.flags \subseteq FlagsOf(c.op) /\ ("each" \in c.flags => "bytchk" \in c.flags)

VARIABLES
  drive,    (* the features of the drive                                   *)
  known,    (* its IDENTIFY data is in the device structure                *)
  infoAvailable, (* static deviceInfoAvailable of translate_SCSI_Command   *)
  calls,    (* commands sent so far                                        *)
  call,     (* the command under way, or the last one                      *)
  step,     (* the next ATA command of its translation, "idle" without one *)
  at,       (* startLba, lbaIter, unmapLogicalBlockAddress                 *)
  trim,     (* UNMAP: the descriptor, what is left of it, blocks asked     *)
            (* for, the offset in the buffer, and the buffer's entries     *)
  exit,     (* FORMAT UNIT: exitTheLoop and deviceFault                    *)
  ret,      (* the result: that of the last ATA command, at the end the    *)
            (* caller's                                                    *)
  missed    (* history: blocks whose write failed while the call went on,  *)
            (* and those of a command whose failure was not heard          *)

vars == <<medium, drive, known, infoAvailable, calls, call, step, at, trim, exit,
          ret, missed>>

-----------------------------------------------------------------------------
(* What the IDENTIFY data says; all zeros before it was read.              *)
Seen == IF known THEN drive ELSE {}
MaxLba == IF known THEN Last ELSE 0

(* The blocks a drive takes a count for: none means as many as possible.   *)
MaxSectors == IF "ext" \in Seen THEN LongLimit ELSE ShortLimit
Sectors(n) == IF n = 0 \/ n > MaxSectors THEN MaxSectors ELSE n

Lesser(m, n) == IF m < n THEN m ELSE n

Transfers == {"read", "write", "verify", "writeVerify"}

(* The lengths that are refused; a 28-bit write looks at a 16-bit count.   *)
(* Mutant: the limit of the 28-bit commands is forgotten.                  *)
TooLongOnly48(c) == c.n > LongLimit
TooLong(c) ==
  \/ c.n > LongLimit
  \/ /\ "ext" \notin Seen
     /\ IF c.op = "write" THEN c.n % LongLimit > ShortLimit ELSE c.n > ShortLimit

(* The blocks of a physical block, one or two; none beyond the drive.      *)
Physical(b) ==
  {c \in Blocks : b \in Blocks /\ IF "phys" \in drive THEN c \div 2 = b \div 2 ELSE c = b}

(* WRITE LONG has no data and makes a block uncorrectable; without PBLOCK  *)
(* it cannot do that to a part of a physical block, unless it only flags.  *)
(* Mutant: the size of the physical blocks is not looked at.               *)
BadLongAnySize(c) == c.n > 0 \/ "wrUncor" \notin c.flags
BadLong(c) ==
  \/ c.n > 0
  \/ "wrUncor" \notin c.flags
  \/ c.flags \cap {"corDis", "pblock"} = {} /\ "phys" \in Seen

Illegal(c) ==
  \/ c.op \in Transfers /\ c.n > 0
     /\ (TooLong(c) \/ (c.op = "verify" /\ "reserved" \in c.flags))
  \/ c.op = "unmap" /\ "trim" \notin Seen
  \/ c.op = "writeLong" /\ ("uncor" \notin Seen \/ BadLong(c))

(* WRITE SAME: no count means the whole drive, and no data means zeros.    *)
Count == IF call.op = "format" \/ call.n = 0 THEN MaxLba ELSE call.n
Pattern == IF "ndob" \in call.flags THEN 0 ELSE call.v
OneCommand ==
  \/ "sct" \in Seen
  \/ /\ call.op = "writeSame" /\ "ndob" \in call.flags
     /\ "zero" \in Seen /\ Count < LongLimit - 1
ChunkSize == IF call.op = "format" \/ "ndob" \in call.flags THEN Chunk ELSE 1

(* Writes whose command itself goes past the cache.                        *)
WriteIsFua == "fua" \in call.flags /\ {"ext", "dma"} \subseteq Seen

Result(a) == IF a.status = "ok" THEN "success" ELSE "failure"

Goto(s) == step' = s
Finish(r) == step' = "idle" /\ ret' = r

translator == <<drive, known, infoAvailable, calls, call>>
loops == <<at, trim, exit>>

NoTrim == [index |-> 0, left |-> 0, asked |-> 0, offset |-> 0,
           entries |-> [i \in 0..(PerBuffer - 1) |-> <<0, 0>>]]

-----------------------------------------------------------------------------
Init ==
  /\ drive \in Drives
  /\ known \in BOOLEAN
  /\ infoAvailable \in BOOLEAN
  /\ cached \in BOOLEAN
  /\ \E m \in Media : data = m.data /\ saved = m.saved /\ bad = m.bad
  /\ cached \/ saved = data
  /\ regs \in BOOLEAN
  /\ faults = 0
  /\ wrote = {}
  /\ calls = 0
  /\ call \in {c \in Calls : c.op = "sync"}
  /\ step = "idle"
  /\ at = 0
  /\ trim = NoTrim
  /\ exit = {}
  /\ ret = "none"
  /\ missed = {}

(* A SCSI command arrives.                                                 *)
Begin(c) ==
  /\ step = "idle"
  /\ calls < MaxCalls
  /\ call' = c
  /\ calls' = calls + 1
  /\ Goto("start")
  /\ at' = IF c.op = "format" THEN 0 ELSE c.lba
  /\ trim' = NoTrim
  /\ exit' = {}
  /\ ret' = "success"
  /\ wrote' = {}
  /\ missed' = {}
  /\ UNCHANGED <<drive, known, infoAvailable, cached, data, saved, bad, regs, faults>>

(* fill_In_ATA_Drive_Info, unless a device, this one or another, was found *)
(* to have its data before.                                                *)
Identify ==
  /\ step = "start"
  /\ ~infoAvailable
  /\ \/ known' = TRUE /\ infoAvailable' = TRUE /\ UNCHANGED <<step, ret, faults>>
     \/ /\ ~known
        /\ faults < MaxFaults /\ faults' = faults + 1
        /\ Finish("failure")
        /\ UNCHANGED <<known, infoAvailable>>
  /\ UNCHANGED <<drive, cached, data, saved, bad, regs, wrote, calls, call, loops, missed>>

FirstStep ==
  CASE call.op = "read" -> IF "fua" \in call.flags /\ known /\ cached
                           THEN "preverify" ELSE "read"
    [] call.op = "verify" -> IF "bytchk" \in call.flags THEN "compare" ELSE "verify"
    [] call.op \in {"write", "writeVerify"} -> "write"
    [] call.op = "writeSame" \/ "pattern" \in call.flags ->
         IF OneCommand THEN "same" ELSE "chunk"
    [] call.op = "format" /\ "pattern" \notin call.flags -> "certify"
    [] call.op = "sync" -> "flush"
    [] call.op = "unmap" -> "descriptor"
    [] call.op = "writeLong" -> "uncorrectable"

(* Nothing is left to send: no length, no blocks, no descriptors, a drive  *)
(* without FLUSH CACHE, which gets the status of the command before.       *)
Nothing ==
  \/ call.op \in Transfers /\ call.n = 0
  \/ call.op = "writeSame" /\ ~OneCommand /\ Count = 0
  \/ call.op = "sync" /\ "flush" \notin Seen
  \/ call.op = "unmap" /\ call.list = <<>>
  \/ call.op = "format" /\ (MaxLba = 0 \/ call.flags = {})

Start ==
  /\ step = "start"
  /\ infoAvailable
  /\ IF Illegal(call) THEN Finish("illegal")
     ELSE IF Nothing
     THEN Finish(IF call.op = "sync" /\ regs THEN "failure" ELSE "success")
     ELSE Goto(FirstStep) /\ UNCHANGED ret
  /\ UNCHANGED <<medium, translator, loops, missed>>

(* satl_Read_Command; a verification first for FUA, whose result is lost.  *)
Preverify(a) ==
  /\ step = "preverify"
  /\ Execute("verify", call.lba, Sectors(call.n), 0, FALSE, a)
  /\ Goto("read")
  /\ UNCHANGED <<translator, loops, ret, missed>>

Read(a) ==
  /\ step = "read"
  /\ Execute("read", call.lba, Sectors(call.n), 0, FALSE, a)
  /\ Finish(Result(a))
  /\ UNCHANGED <<translator, loops, missed>>

(* The blocks a write left out, when the call goes on after it.            *)
Left(lba, n, a) == Span(lba, n) \ Span(lba, a.done)
Goes(lba, n, a) ==
  missed' = IF step' # "idle" /\ a.status # "ok"
            THEN missed \cup Left(lba, n, a) ELSE missed

(* Mutant: WRITE with FUA is not followed by a verification.               *)
AfterWriteNoVerify == IF call.op = "write" THEN "idle" ELSE "verify"
AfterWrite ==
  IF call.op = "write"
  THEN IF "fua" \in call.flags /\ ~WriteIsFua THEN "verify" ELSE "idle"
  ELSE IF "reserved" \in call.flags THEN "reserved"
  ELSE IF "bytchk" \in call.flags THEN "compare" ELSE "verify"

(* The write of satl_Write_Command and of WRITE AND VERIFY, which only     *)
(* then looks at a reserved BYTCHK.                                        *)
Write(a) ==
  /\ step = "write"
  /\ Execute("write", call.lba, Sectors(call.n), call.v, WriteIsFua, a)
  /\ IF AfterWrite = "reserved" THEN Finish("illegal")
     ELSE Goto(AfterWrite) /\ ret' = Result(a)
  /\ Goes(call.lba, Sectors(call.n), a)
  /\ UNCHANGED <<translator, loops>>

(* READ VERIFY SECTORS: its result is the result.                          *)
Verify(a) ==
  /\ step = "verify"
  /\ Execute("verify", call.lba, Sectors(call.n), 0, FALSE, a)
  /\ Finish(Result(a))
  /\ UNCHANGED <<translator, loops, missed>>

(* A read into a buffer of zeros and the comparison with the caller's      *)
(* data, whatever became of the read.  The buffer has the length of the    *)
(* caller's data: with BYTCHK of 11b VERIFY has one block, and the loop    *)
(* over the blocks ends after the first one.  WRITE AND VERIFY has all.    *)
(* Mutant: what was read before a failure is kept in the buffer.           *)
Compared ==
  Span(call.lba, IF call.op = "verify" /\ "each" \in call.flags
                 THEN Lesser(1, call.n) ELSE call.n)
BufferKept(a) == [b \in Compared |-> data[b]]
Buffer(a) == [b \in Compared |-> IF a.status = "ok" THEN data[b] ELSE 0]
Compare(a) ==
  /\ step = "compare"
  /\ Execute("read", call.lba, Sectors(call.n), 0, FALSE, a)
  /\ Finish(IF \A b \in DOMAIN Buffer(a) : Buffer(a)[b] = call.v
            THEN "success" ELSE "miscompare")
  /\ UNCHANGED <<translator, loops, missed>>

(* The end of the write pass: FORMAT UNIT may have to certify as well.     *)
AfterSame == IF call.op = "format" /\ "certify" \in call.flags THEN "certify" ELSE "idle"

(* ZERO EXT, or SCT WRITE SAME (DmaFallback), on the whole range.          *)
Same(a) ==
  /\ step = "same"
  /\ Execute("write", call.lba, Count, Pattern, FALSE, a)
  /\ Goto(AfterSame)
  /\ ret' = Result(a)
  /\ Goes(call.lba, Count, a)
  /\ UNCHANGED <<translator, loops>>

(* Mutant: the last chunk is not shortened.                                *)
ChunkLengthFull == ChunkSize
ChunkLength == Lesser(ChunkSize, call.lba + Count - at)

(* Mutant: a chunk that failed is sent again.                              *)
NextChunkAgain(a) == IF a.status = "ok" THEN at + ChunkLength ELSE at
NextChunk(a) == at + ChunkLength

(* satl_Sequential_Write_Commands: it goes on after a chunk that failed.   *)
SequentialWrite(a) ==
  /\ step = "chunk"
  /\ Execute("write", at, ChunkLength, Pattern, FALSE, a)
  /\ ret' = Result(a)
  /\ IF NextChunk(a) < call.lba + Count
     THEN Goto("chunk") /\ at' = NextChunk(a)
     ELSE Goto(AfterSame) /\ at' = 0
  /\ Goes(at, ChunkLength, a)
  /\ UNCHANGED <<translator, trim, exit>>

(* WRITE UNCORRECTABLE EXT, of the flagged or of the pseudo kind, which    *)
(* takes the whole physical block.                                         *)
WriteLong(a) ==
  /\ step = "uncorrectable"
  /\ Spoil(IF "corDis" \in call.flags THEN {call.lba} ELSE Physical(call.lba), a)
  /\ Finish(Result(a))
  /\ UNCHANGED <<translator, loops, missed>>

Flush(a) ==
  /\ step = "flush"
  /\ FlushAll(a)
  /\ Finish(Result(a))
  /\ UNCHANGED <<translator, loops, missed>>

-----------------------------------------------------------------------------
(* FORMAT UNIT, certification: verifications with a count of zero, as many *)
(* blocks as possible, of which each goes one chunk ahead.                 *)
CertifyOn(r) ==
  LET next == at + Lesser(Chunk, MaxLba - at) IN
    IF next < MaxLba THEN Goto("certify") /\ at' = next /\ ret' = r
    ELSE Finish(r) /\ UNCHANGED at

Certify(a) ==
  /\ step = "certify"
  /\ Execute("verify", at, Sectors(0), 0, FALSE, a)
  /\ IF a.status = "unreadable"
     THEN Goto("rewrite") /\ UNCHANGED <<at, ret>>
     ELSE CertifyOn(Result(a))
  /\ UNCHANGED <<translator, trim, exit, missed>>

(* The blocks are written, always one more than a chunk, and verified      *)
(* again, until that works; exitTheLoop keeps the loop going.              *)
Rewrite(a) ==
  /\ step = "rewrite"
  /\ Execute("write", at, Sectors(Chunk + 1), call.v, FALSE, a)
  /\ exit' = IF a.status = "fault" THEN exit \cup {"deviceFault"} ELSE exit
  /\ IF "deviceFault" \notin exit' THEN Goto("reverify") /\ UNCHANGED ret
     ELSE IF "exitTheLoop" \in exit' THEN Goto("rewrite") /\ UNCHANGED ret
     ELSE Finish("failure")
  /\ UNCHANGED <<translator, at, trim, missed>>

Reverify(a) ==
  /\ step = "reverify"
  /\ Execute("verify", at, Sectors(0), 0, FALSE, a)
  /\ exit' = CASE a.status \in {"ok", "unreadable"} -> exit
               [] a.status = "fault" -> exit \cup {"deviceFault"}
               [] OTHER -> exit \cup {"exitTheLoop"}
  /\ IF "exitTheLoop" \in exit' \/ a.status = "unreadable"
     THEN Goto("rewrite") /\ UNCHANGED <<at, ret>>
     ELSE IF a.status = "fault" THEN Finish("failure") /\ UNCHANGED at
     ELSE CertifyOn("success")
  /\ UNCHANGED <<translator, trim, missed>>

-----------------------------------------------------------------------------
(* UNMAP: the next descriptor and the checks of it; a range that ends with *)
(* the last block is refused as well.                                      *)
TooMuch(n) == "xl" \notin Seen /\ trim.asked + n > PerBuffer * MaxRange
NextDescriptor(limited) ==
  /\ step = "descriptor"
  /\ LET i == trim.index + 1 IN
       IF i > Len(call.list)
       THEN Goto("lastTrim") /\ UNCHANGED <<at, trim, ret>>
       ELSE LET lba == call.list[i][1]  n == call.list[i][2] IN
            IF n = 0
            THEN trim' = [trim EXCEPT !.index = i] /\ UNCHANGED <<step, at, ret>>
            ELSE /\ at' = lba
                 /\ trim' = [trim EXCEPT !.index = i, !.left = n, !.asked = @ + n]
                 /\ IF \/ lba > MaxLba \/ lba + n > MaxLba
                       \/ i - 1 > PerBuffer
                       \/ limited /\ TooMuch(n)
                    THEN Finish("failure")
                    ELSE Goto("entry") /\ UNCHANGED ret
  /\ UNCHANGED <<medium, translator, exit, missed>>

Descriptor == NextDescriptor(TRUE)

(* A number whose bytes are written in the other order than they are read. *)
Swapped(x) == ((x % Radix) * Radix) + ((x \div Radix) % Radix)

(* ataTrimOffset has 16 bits.                                              *)
NextOffset(o) == (o + 1) % OffsetSpan

(* One entry of the loop that ends when nothing is left; but only a range  *)
(* longer than an entry's makes what is left less.  An entry beyond the    *)
(* buffer is written over other memory.                                    *)
EntryOf(long) ==
  LET n == IF long THEN MaxRange ELSE trim.left
      offset == NextOffset(trim.offset)
  IN
    /\ step = "entry"
    /\ trim.left > 0
    /\ trim' = [trim EXCEPT
         !.left = IF long THEN @ - MaxRange ELSE @,
         !.offset = offset,
         !.entries = IF trim.offset < PerBuffer
                     THEN [@ EXCEPT ![trim.offset] = <<Swapped(at), Swapped(n)>>]
                     ELSE @]
    /\ at' = IF long THEN at + MaxRange ELSE at
    /\ \/ Goto(IF offset > PerBuffer /\ trim.index < Len(call.list)
               THEN "trim" ELSE "entry")
       \/ trim.offset >= PerBuffer /\ Goto("crashed")
    /\ UNCHANGED <<medium, translator, exit, ret, missed>>

Entry == EntryOf(trim.left > MaxRange /\ "xl" \notin Seen)

Entries == {trim.entries[i] : i \in 0..(PerBuffer - 1)}

(* The full buffer, and the last one.                                      *)
SendTrim(a, r) ==
  /\ step \in {"trim", "lastTrim"}
  /\ Trim(Entries, a)
  /\ IF step = "trim" /\ r = "success"
     THEN /\ Goto("entry")
          /\ trim' = [trim EXCEPT !.offset = 0, !.entries = NoTrim.entries]
          /\ UNCHANGED ret
     ELSE Finish(r) /\ UNCHANGED trim
  /\ UNCHANGED <<translator, at, exit, missed>>

-----------------------------------------------------------------------------
Translate ==
  \/ Identify \/ Start \/ Descriptor \/ Entry
  \/ \E a \in Answers :
       \/ Preverify(a) \/ Read(a) \/ Write(a) \/ Verify(a) \/ Compare(a)
       \/ Same(a) \/ SequentialWrite(a) \/ Flush(a)
       \/ WriteLong(a) \/ Certify(a) \/ Rewrite(a) \/ Reverify(a)
       \/ SendTrim(a, Result(a))
=============================================================================
