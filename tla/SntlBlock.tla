------------------------------ MODULE SntlBlock ------------------------------
(***************************************************************************)
(* The block commands of the SCSI to NVMe translator (sntl_helper.c):      *)
(* sntl_Translate_SCSI_Command and its translations of READ, WRITE,        *)
(* VERIFY, WRITE LONG, SYNCHRONIZE CACHE and UNMAP, each into one NVMe     *)
(* command.  It does without WRITE SAME, WRITE AND VERIFY and FORMAT UNIT. *)
(* The result is set_Sense_Data_By_NVMe_Status of the last command, and    *)
(* the return value of nvme_Cmd for one that has no status.  On Linux none *)
(* has one: send_NVMe_IO takes the positive result of the ioctl, which is  *)
(* the status, for success.                                                *)
(***************************************************************************)
EXTENDS SatlBlock

(* What is refused without a command, in the order of the code: a length   *)
(* of zero is looked at before what VERIFY is to do.  Comparisons need no  *)
(* feature, verifications that of the controller.                          *)
NvmeIllegal(c) ==
  \/ c.op \in {"writeVerify", "writeSame", "format"}
  \/ c.op \in {"read", "write", "verify"} /\ c.n > LongLimit
  \/ /\ c.op = "verify" /\ c.n > 0
     /\ {"reserved", "each"} \cap c.flags # {} \/ ("bytchk" \notin c.flags /\ "verify" \notin Seen)
  \/ c.op = "unmap" /\ "trim" \notin Seen
  \/ /\ c.op = "writeLong"
     /\ \/ "uncor" \notin Seen \/ c.n > 0
        \/ ~({"corDis", "wrUncor"} \subseteq c.flags) \/ "pblock" \in c.flags

NvmeNothing(c) ==
  \/ c.op \in {"read", "write", "verify"} /\ c.n = 0
  \/ c.op = "unmap" /\ c.list = <<>>

(* The identify data is read as by the other translator (Identify).        *)
NvmeStart ==
  /\ step = "start"
  /\ infoAvailable
  /\ IF NvmeIllegal(call) THEN Finish("illegal")
     ELSE IF NvmeNothing(call) THEN Finish("success")
     ELSE Goto("nvme") /\ UNCHANGED ret
  /\ UNCHANGED <<medium, translator, loops, missed>>

One(op) ==
  /\ step = "nvme"
  /\ call.op = op
  /\ UNCHANGED <<translator, loops>>

(* What the drive refuses or fails, and a miscompare, is a success to a    *)
(* pass-through without status.                                            *)
Untold(failed, a) == failed /\ "silent" \in drive /\ a.status # "lost"
NvmeResult(a) == IF Untold(a.status # "ok", a) THEN "success" ELSE Result(a)

(* The end of a command that did not do its part for the blocks of S, if   *)
(* it failed.                                                              *)
End(failed, S, a, r) ==
  /\ Finish(IF Untold(failed, a) THEN "success" ELSE r)
  /\ missed' = IF Untold(failed, a) THEN missed \cup S ELSE missed

NvmeRead(a) ==
  /\ One("read")
  /\ Execute("read", call.lba, call.n, 0, "fua" \in call.flags, a)
  /\ End(a.status # "ok", Span(call.lba, call.n), a, Result(a))

(* Mutant: FUA is not passed on.                                           *)
PassedOnNever == FALSE
PassedOn == "fua" \in call.flags
NvmeWrite(a) ==
  /\ One("write")
  /\ Execute("write", call.lba, call.n, call.v, PassedOn, a)
  /\ End(a.status # "ok", Left(call.lba, call.n, a), a, Result(a))

(* VERIFY: the Verify command, for which no sense data is set, or a        *)
(* Compare with FUA.                                                       *)
NvmeVerify(a) ==
  /\ One("verify")
  /\ "bytchk" \notin call.flags
  /\ Execute("read", call.lba, call.n, 0, FALSE, a)
  /\ End(a.status # "ok", Span(call.lba, call.n), a, Result(a))

NvmeCompare(a) ==
  /\ One("verify")
  /\ "bytchk" \in call.flags
  /\ Execute("read", call.lba, call.n, 0, TRUE, a)
  /\ LET differs == a.status = "ok" /\ \E b \in Span(call.lba, call.n) : data[b] # call.v
     IN End(a.status # "ok" \/ differs, Span(call.lba, call.n), a,
            IF differs THEN "miscompare" ELSE Result(a))

NvmeWriteUncorrectable(a) ==
  /\ One("writeLong")
  /\ Spoil({call.lba}, a)
  /\ End(a.status # "ok", Span(call.lba, 1), a, Result(a))

NvmeFlush(a) ==
  /\ One("sync")
  /\ FlushAll(a)
  /\ End(a.status # "ok", Blocks, a, Result(a))

-----------------------------------------------------------------------------
(* UNMAP.  A range has 32 bits for its length, as a descriptor has, so     *)
(* there is never too much for one; but nothing makes what is left of a    *)
(* descriptor less, and the buffer fills with the same range.              *)
NvmeUnmap ==
  /\ step = "nvme"
  /\ call.op = "unmap"
  /\ Goto("descriptor")
  /\ UNCHANGED <<medium, translator, loops, ret, missed>>

NvmeDescriptor == NextDescriptor(FALSE)
NvmeEntry == EntryOf(FALSE)

(* numberOfRanges has eight bits: of the ranges of a full buffer and one   *)
(* more, one is sent; all are the same.                                    *)
NvmeSendRanges(a) == SendTrim(a, NvmeResult(a))

TranslateNvme ==
  \/ Identify \/ NvmeStart \/ NvmeUnmap \/ NvmeDescriptor \/ NvmeEntry
  \/ \E a \in Answers :
       \/ NvmeRead(a) \/ NvmeWrite(a) \/ NvmeVerify(a) \/ NvmeCompare(a)
       \/ NvmeWriteUncorrectable(a) \/ NvmeFlush(a) \/ NvmeSendRanges(a)
=============================================================================
