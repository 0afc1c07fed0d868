---------------------------- MODULE BlockCommands ----------------------------
(***************************************************************************)
(* SCSI block commands for a drive that takes none, ATA or NVMe: both      *)
(* software translators, as send_IO chooses between them, and what a       *)
(* caller may rely on whichever it is.                                     *)
(***************************************************************************)
EXTENDS SntlBlock

Nvme == "nvme" \in drive

Next ==
  \/ ~Nvme /\ Translate
  \/ Nvme /\ TranslateNvme
  \/ \E c \in Calls : Begin(c)

(* Every ATA and NVMe command returns, if only for its timeout.            *)
Spec == Init /\ [][Next]_vars /\ WF_vars(Translate \/ TranslateNvme)

-----------------------------------------------------------------------------
(* Properties.                                                             *)

Writers == {"write", "writeVerify", "writeSame"}
Written == IF call.op = "writeLong" THEN Uncorrectable ELSE Pattern
Succeeded(ops) == step = "idle" /\ ret = "success" /\ call.op \in ops

(* The blocks a command is about: those of WRITE SAME without a count and  *)
(* of FORMAT UNIT go to the end of the drive; WRITE LONG is about a block, *)
(* or, told so, a physical block.                                          *)
Asked ==
  CASE call.op = "format" -> Blocks
    [] call.op = "writeSame" /\ call.n = 0 -> {b \in Blocks : b >= call.lba}
    [] call.op = "writeLong" ->
         IF "pblock" \in call.flags THEN Physical(call.lba) ELSE {call.lba}
    [] OTHER -> Span(call.lba, call.n)

(* Of these, the blocks no command is sent for: the last one of the drive  *)
(* where there is no count, all of them while nothing is known of it; and  *)
(* what exceeds 256 blocks of 65536 in a 28-bit write.                     *)
Unsent ==
  IF call.op = "write" /\ ~Nvme THEN {b \in Blocks : b >= call.lba + Sectors(call.n)}
  ELSE IF call.op = "writeSame" /\ call.n = 0 THEN {b \in Blocks : b >= MaxLba}
  ELSE {}

(* A command for a block failed, and its pass-through made it a success:   *)
(* an NVMe drive on Linux.                                                 *)
Unheard(b) == Nvme /\ "silent" \in drive /\ (b \in missed \/ b \notin Blocks)

(* Whatever fails, a command changes no block but those it is about, and   *)
(* these only to the data that came with it, or makes them uncorrectable   *)
(* (UNMAP excepted, whose entries have their bytes in the wrong order).    *)
OnlyAskedBlocks ==
  call.op # "unmap" =>
    \A w \in wrote : w[1] \in Asked /\ w[2] = Written

(* A write that is reported as done was done for every block it is about,  *)
(* but for those that a later command's success hides: blocks whose write  *)
(* failed before the verification or the next chunk succeeded, blocks      *)
(* never sent, and those of an NVMe command whose failure is not heard.    *)
SuccessMeansWritten ==
  /\ Succeeded(Writers) =>
       \A b \in Asked \ (missed \cup Unsent) : <<b, Pattern>> \in wrote
  /\ Succeeded({"writeLong"}) => <<call.lba, Uncorrectable>> \in wrote \/ Unheard(call.lba)

(* A verification that is reported as good read every block, and found the *)
(* data it was to compare with.  The exceptions: a comparison with zeros   *)
(* succeeds on blocks that cannot be read, for its buffer is zeros; with   *)
(* BYTCHK of 11b only the first block is compared, though the code's       *)
(* comment says "compare each logical sector to the data sent into this    *)
(* command"; and the failure of an NVMe command may not be heard.          *)
Verified(B) == \A b \in B : Unheard(b) \/ (b \notin bad /\ data[b] = call.v)
VerifiedMeansReadable ==
  Succeeded({"verify", "writeVerify"}) =>
    IF "bytchk" \in call.flags
    THEN call.v = 0 \/ Verified(IF "each" \in call.flags THEN Compared ELSE Asked)
    ELSE \A b \in Asked : b \in bad => Unheard(b)

(* What was to be on the medium is there when the command succeeds: the    *)
(* blocks of a write with FUA, in each of the ways a drive allows it, and  *)
(* all after SYNCHRONIZE CACHE, unless an ATA drive is not known to have   *)
(* FLUSH CACHE, and but for the blocks missed.                             *)
DurableWhenTold ==
  /\ Succeeded(Writers) /\ "fua" \in call.flags =>
       \A b \in Asked \ (missed \cup Unsent) : saved[b] = call.v
  /\ Succeeded({"sync"}) /\ (Nvme \/ "flush" \in Seen) =>
       \A b \in Blocks : saved[b] = data[b] \/ Unheard(b)

(* Every command ends, on any drive and whatever fails, but UNMAP and the  *)
(* certification of FORMAT UNIT.                                           *)
CommandsReturn ==
  (step = "start" /\ call.op # "unmap" /\ "certify" \notin call.flags)
    ~> step = "idle"
=============================================================================
