----------------------------- MODULE LbaCommands -----------------------------
(***************************************************************************)
(* The block operations a caller uses whatever the drive is (cmds.c):      *)
(* read_LBA, write_LBA, verify_LBA, compare_LBA, flush_Cache, write_Same.  *)
(*                                                                         *)
(* An ATA drive has DMA and PIO forms of its commands, an NVMe drive one   *)
(* form, a SCSI drive forms of several lengths, and only by trying does    *)
(* one learn which it takes.  What a first call learns decides the form of *)
(* all later ones, though these may need more of it: the shorter a form,   *)
(* the fewer bits it has for the address and the count.                    *)
(*                                                                         *)
(* The addresses of CHS drives are taken to be converted; sense data is    *)
(* what the code asks of it.                                               *)
(***************************************************************************)
EXTENDS DriveMedium, Integers

(* The forms: eSCSICmdSize, and those of the other two interfaces.         *)
Undetermined == 0
Cdb6 == 1
Cdb10 == 2
Cdb12 == 3
Cdb16 == 4
Dma == 5
Pio == 6
Queue == 7
Never == -1        (* known not to be supported                            *)

(* eSCSIVersion, in its order.                                             *)
Scsi1 == 1
Scsi2 == 2
Spc == 3
Spc3 == 5
Spc4 == 6

CONSTANTS Lba6, Lba10,      (* addresses of 21 and 32 bits, scaled down    *)
          Count6, Count10, Count16,  (* counts of 8, 16, 32 bits: how many *)
          Drives,           (* the drives                                  *)
          Media,            (* what may be on them, and in their caches    *)
          Calls,            (* the operations called                       *)
          MaxCalls          (* bound: calls made                           *)

Kinds == {"read", "write", "verify", "sync", "same"}

(* A drive: its interface, its version of SCSI, the forms of each kind of  *)
(* command it takes, and its features: FUA (write commands with FUA), NDOB, *)
(* Compare, the NVMe Verify command, 48-bit addresses, READ and WRITE      *)
(* MULTIPLE, SCT WRITE SAME and its predecessor; a USB bridge before it;   *)
(* an NVMe pass-through without statuses (that of Linux: FirmwareActivate). *)
(* All drives of the model have the same blocks: those of a large drive    *)
(* have addresses beyond 32 bits, of a tiny drive none beyond 21 bits.     *)
Features == {"fua", "ndob", "compare", "verify", "ext", "multiple", "sct", "legacy",
             "usb", "silent", "large", "tiny"}
Drive == [iface: {"ata", "scsi", "nvme"}, ver: Scsi1..Spc4,
          forms: SUBSET (Kinds \X (Cdb6..Queue)), has: SUBSET Features]

Ops == {"read", "write", "verify", "compare", "flush", "writeSame"}
Call == [op: Ops, lba: Nat, n: Nat, v: Values, flags: SUBSET {"fua", "noData"}]

ASSUME LimitsAssumption ==
  /\ Lba6 \in Nat \ {0} /\ Lba10 \in Nat /\ Lba6 < Lba10
  /\ Count6 \in Nat \ {0} /\ Count10 \in Nat /\ Count6 < Count10
  /\ Count16 \in Nat /\ Count10 <= Count16
  /\ MaxCalls \in Nat
ASSUME DrivesAssumption ==
  (* FUA is a bit of the forms longer than six bytes, of reads and writes *)
  /\ Drives \subseteq Drive
  /\ \A d \in Drives : d.iface = "scsi" /\ "fua" \in d.has =>
                         {"read", "write"} \X {Cdb10} \subseteq d.forms
ASSUME MediaAssumption ==
  Media \subseteq [data: [Blocks -> Values], saved: [Blocks -> Values], bad: SUBSET Blocks]
ASSUME CallsAssumption ==
  (* less than a block of data is a bad parameter; no data means zeros *)
  /\ Calls \subseteq Call
  /\ \A c \in Calls : /\ c.n > 0 \/ c.op \in {"flush", "writeSame"}
                      /\ "noData" \in c.flags => c.v = 0

VARIABLES
  drive,
  hacks,    (* what was learned: passThroughHacks.scsiHacks, dpoFUA, dmaMode *)
  sense,    (* lastCommandSenseData                                        *)
  calls,    (* calls made so far                                           *)
  call,     (* the call under way, or the last one                         *)
  step,     (* what it does next, "idle" without one                       *)
  form,     (* cmdSize: the form tried, Undetermined before the first      *)
  ret,      (* its result                                                  *)
  got,      (* history: where the data of the last read came from          *)
  missed    (* history: the write failed, and verification went on; or a    *)
            (* failure was not heard                                       *)

session == <<drive, hacks, calls, call, got, missed>>
vars == <<medium, session, sense, step, form, ret>>

Unknown == [rw |-> Undetermined, same |-> Undetermined, sync |-> Undetermined,
            zeroes |-> FALSE,      (* writeSameDataOutRequired             *)
            noCompare |-> FALSE, fua |-> FALSE, fuaValid |-> FALSE, dma |-> TRUE]

Init ==
  /\ drive \in Drives
  /\ cached \in BOOLEAN
  /\ \E m \in Media : data = m.data /\ saved = m.saved /\ bad = m.bad
  /\ regs = FALSE /\ faults = 0 /\ wrote = {}
  /\ hacks = Unknown /\ sense = "none"
  /\ calls = 0 /\ step = "idle" /\ form = Undetermined /\ ret = "none"
  /\ call = [op |-> "flush", lba |-> 0, n |-> 0, v |-> 0, flags |-> {}]
  /\ got = <<0, 0>> /\ missed = FALSE

-----------------------------------------------------------------------------
Ata == drive.iface = "ata"
Scsi == drive.iface = "scsi"
Nvme == drive.iface = "nvme"
Large == "large" \in drive.has
Tiny == "tiny" \in drive.has
Fua == "fua" \in call.flags
NoData == "noData" \in call.flags

(* verify_ATA_Xfer_Len: the count fits; a full one is sent as zero.        *)
TooLong(c) == Ata /\ c.n > (IF "ext" \in drive.has THEN Count10 ELSE Count6)

(* ata_Write_Same_Cmd: what one of its two commands can do.                *)
WriteSameFits(c) ==
  \/ "sct" \in drive.has
  \/ "legacy" \in drive.has /\ (c.n < Count6 - 1 \/ (c.lba = 0 /\ c.n = Last + 1))

(* The first step of a call, or none, where it is refused at once.         *)
FirstStep(c) ==
  LET fua == "fua" \in c.flags
      generic == IF TooLong(c) THEN "refused" ELSE "read"
  IN
  CASE c.op = "read" ->
         IF TooLong(c) THEN "refused"
         ELSE IF fua /\ Scsi THEN "fua" ELSE IF fua /\ Ata THEN "preverify" ELSE "read"
    [] c.op = "write" ->
         IF TooLong(c) THEN "refused" ELSE IF fua /\ Scsi THEN "fua" ELSE "write"
    [] c.op = "verify" ->
         IF TooLong(c) THEN "refused"
         ELSE IF Nvme /\ ("verify" \notin drive.has \/ c.n >= Count10 - 2) THEN "read"
         ELSE "verify"
    [] c.op = "compare" ->
         IF Scsi /\ "usb" \notin drive.has /\ drive.ver >= Scsi2 /\ ~hacks.noCompare
         THEN "compare"
         ELSE IF Nvme /\ "compare" \in drive.has THEN "compare" ELSE generic
    [] c.op = "flush" -> IF Scsi /\ hacks.sync = Never THEN "refused" ELSE "sync"
    [] c.op = "writeSame" ->
         IF \/ Nvme
            \/ Ata /\ ~WriteSameFits(c)
            \/ Scsi /\ hacks.same = Never
         THEN "refused" ELSE "same"

Begin(c) ==
  /\ step = "idle" /\ calls < MaxCalls
  /\ calls' = calls + 1 /\ call' = c
  /\ step' = IF FirstStep(c) = "refused" THEN "idle" ELSE FirstStep(c)
  /\ ret' = IF FirstStep(c) = "refused" THEN "notSent" ELSE "none"
  /\ form' = Undetermined /\ wrote' = {} /\ got' = <<0, 0>> /\ missed' = FALSE
  /\ UNCHANGED <<cached, data, saved, bad, regs, faults, drive, hacks, sense>>

Return(r) == step' = "idle" /\ form' = Undetermined /\ ret' = r
GoTo(s) == step' = s /\ form' = Undetermined /\ UNCHANGED ret

(* get_SCSI_DPO_FUA_Support: asked once, and a failure is an answer too.   *)
LearnFua(works) ==
  /\ step = "fua"
  /\ LET asks == ~hacks.fuaValid /\ drive.ver >= Scsi2
         fua == IF asks THEN works /\ "fua" \in drive.has ELSE hacks.fua
     IN
     /\ ~works => asks /\ faults < MaxFaults
     /\ faults' = IF works THEN faults ELSE faults + 1
     /\ sense' = IF ~asks THEN sense ELSE IF works THEN "none" ELSE "other"
     /\ hacks' = [hacks EXCEPT !.fua = fua, !.fuaValid = TRUE]
     /\ GoTo(IF call.op = "write" THEN "write" ELSE IF fua THEN "read" ELSE "preverify")
  /\ UNCHANGED <<cached, data, saved, bad, regs, wrote, drive, calls, call, got, missed>>

-----------------------------------------------------------------------------
(* How a command may end, and with which sense data.                       *)
Outcomes ==
  {o \in Answers \X {"none", "opcode", "field", "other"} :
     /\ o[1].status \in {"refused", "unreadable"} => o[1].done = 0
     /\ o[2] = "none" => o[1].status \in {"ok", "lost"}
     /\ o[2] \in {"opcode", "field"} => o[1].status = "refused"
     /\ o[2] = "other" => o[1].status # "lost"}

(* A command in one of its forms.                                          *)

(* What is left of an address and a count in the fields of a form.         *)
At(f, lba) ==
  IF f = Cdb6 /\ ~Tiny THEN lba % Lba6
  ELSE IF f \in {Cdb10, Cdb12} /\ Large THEN lba % Lba10 ELSE lba
For(f, n) ==
  CASE f = Cdb6 -> IF n % Count6 = 0 THEN Count6 ELSE n % Count6
    [] f = Cdb10 -> n % Count10
    [] f = Queue -> ((n - 1) % Count10) + 1
    [] OTHER -> n

(* The count of a command; WRITE SAME, on the way to any of its forms, has *)
(* 32 bits for that of the caller's.                                       *)
Number == IF step = "same" /\ Scsi THEN call.n % Count16 ELSE call.n

Takes(kind, f) == <<kind, IF kind = "sync" /\ f = Cdb12 THEN Cdb10 ELSE f>> \in drive.forms

(* What a drive says to a form it does not take: SCSI drives that the      *)
(* opcode is invalid, bridges to ATA drives also that a field is.          *)
Refusals == IF Scsi THEN {"opcode"} ELSE IF Ata THEN {"field", "other"} ELSE {"other"}

Sense(a) == IF a.status \in {"ok", "lost"} THEN "none" ELSE "other"

(* What a drive says is for nothing if the pass-through drops it.          *)
Silent == Nvme /\ "silent" \in drive.has
Unheard(a) == Silent /\ a.status \notin {"ok", "lost"}
Good(a) == a.status = "ok" \/ Unheard(a)

Refused(kind, f, a, s) ==
  /\ ~Takes(kind, f)
  /\ a.status = "refused" /\ s \in Refusals
  /\ UNCHANGED medium

(* A count of zero asks for nothing.                                       *)
Sent(kind, f, n, fua, v, a, s) ==
  /\ Takes(kind, f)
  /\ IF n = 0 THEN a = [status |-> "ok", done |-> 0] /\ UNCHANGED medium
     ELSE Execute(kind, At(f, call.lba), n, v, fua, a)
  /\ s = Sense(a)

-----------------------------------------------------------------------------
(* determine_scsi_read_write_cmd, and the calls once the form is learned.  *)

Short == ~Large /\ Number < Count10
StartSize(since) == IF drive.ver >= since /\ ~Short THEN Cdb16 ELSE Cdb10

Learned(kind) ==
  CASE kind = "sync" -> hacks.sync
    [] kind = "same" -> hacks.same
    [] kind = "verify" /\ hacks.rw = Cdb6 -> Cdb10   (* no 6-byte VERIFY    *)
    [] OTHER -> hacks.rw

Kind(s) ==
  IF s \in {"preverify", "postverify"} THEN "verify" ELSE IF s = "compare" THEN "verify" ELSE s
Form ==
  IF form # Undetermined THEN form
  ELSE IF Nvme THEN Queue
  ELSE IF Ata THEN IF hacks.dma /\ Kind(step) \in {"read", "write"} THEN Dma ELSE Pio
  ELSE IF Learned(Kind(step)) # Undetermined THEN Learned(Kind(step))
  ELSE StartSize(IF step = "same" THEN Spc ELSE Spc3)

Probing == Scsi /\ Learned(Kind(step)) = Undetermined

(* Mutant: the sizes learned for writes and for reads are not told apart   *)
(* from those of cache commands.                                           *)
NotedSizeOfSync(kind, f) ==
  [hacks EXCEPT !.sync = IF f = Cdb12 THEN Cdb10 ELSE f, !.rw = f]
NotedSize(kind, f) ==
  IF kind = "sync" THEN [hacks EXCEPT !.sync = IF f = Cdb12 THEN Cdb10 ELSE f]
  ELSE [hacks EXCEPT !.rw = f]

(* The next form to try after a failure, Undetermined if there is none: a  *)
(* shorter one if the opcode was invalid, for an ATA drive PIO if a field  *)
(* was.  There are no 6-byte forms of VERIFY and SYNCHRONIZE CACHE.        *)
NextForm(f, s) ==
  IF Ata THEN IF f = Dma /\ s = "field" THEN Pio ELSE Undetermined
  ELSE IF Probing /\ s = "opcode" THEN f - 1 ELSE Undetermined

NoSixByteForm == Form = Cdb6 /\ Kind(step) \in {"verify", "sync"} /\ Probing

(* use_ATA_Write_FUA; the PIO commands have a FUA form only as multiple.   *)
AtaFua == Fua /\ {"fua", "ext"} \subseteq drive.has
WithFua ==
  CASE Ata -> step = "write" /\ AtaFua /\ (Form = Dma \/ "multiple" \in drive.has)
    [] Scsi -> Fua /\ hacks.fua /\ Form # Cdb6
    [] Nvme -> Fua \/ call.op = "verify"

(* The result of a read, write, verification or flush, and what comes next. *)
Matches(n, a) ==
  /\ a.status = "ok" => \A b \in Span(At(Form, call.lba), n) : data[b] = call.v
  (* the buffer was zeros *)
  /\ n < call.n \/ a.status # "ok" => call.v = 0
(* Mutant: verification is skipped where FUA was asked for, not used.      *)
VerifiesAfterNever(ok) == FALSE
VerifiesAfter(ok) ==
  Fua /\ (IF Scsi THEN ~hacks.fua ELSE Ata /\ ok /\ ~AtaFua)

(* What a command that ends the search for a form teaches: the size that   *)
(* worked; that PIO works where DMA does not; that comparing is reading.   *)
Noticed(kind, f, ok) ==
  [(IF Probing /\ ok THEN NotedSize(kind, f) ELSE hacks) EXCEPT
     !.dma = @ /\ ~(Ata /\ ok /\ form = Pio),
     !.noCompare = @ \/ (step = "read" /\ call.op = "compare" /\ Scsi
                           /\ "usb" \notin drive.has /\ drive.ver >= Scsi2)]

Continue(ok, equal) ==
  CASE step = "preverify" -> IF ok THEN GoTo("read") ELSE Return("failure")
    [] step = "write" /\ VerifiesAfter(ok) -> GoTo("postverify")
    [] step = "read" /\ call.op = "compare" ->
         Return(IF ok /\ equal THEN "success" ELSE "failure")
    [] OTHER -> Return(IF ok THEN "success" ELSE "failure")

Transfer ==
  /\ step \in {"preverify", "read", "write", "postverify", "verify"}
  /\ ~NoSixByteForm
  /\ LET f == Form
         kind == Kind(step)
         n == For(f, call.n)
         fua == WithFua
     IN
     \E o \in Outcomes :
       LET ok == Good(o[1]) IN
       /\ Refused(kind, f, o[1], o[2]) \/ Sent(kind, f, n, fua, call.v, o[1], o[2])
       /\ sense' = o[2]
       /\ got' = IF kind = "read" THEN <<At(f, call.lba), n>> ELSE got
       /\ IF ~ok /\ NextForm(f, o[2]) # Undetermined
          THEN form' = NextForm(f, o[2]) /\ UNCHANGED <<step, ret, hacks, missed>>
          ELSE /\ hacks' = Noticed(kind, f, ok)
               /\ missed' = (missed \/ (step = "write" /\ ~ok) \/ Unheard(o[1]))
               /\ Continue(ok, Matches(n, o[1]))
  /\ UNCHANGED <<drive, calls, call>>

(* SYNCHRONIZE CACHE and FLUSH CACHE: all of the drive.                    *)
Flush ==
  /\ step = "sync" /\ ~NoSixByteForm
  /\ LET f == Form IN
     \E o \in Outcomes :
       LET ok == Good(o[1]) IN
       /\ \/ Refused("sync", f, o[1], o[2])
          \/ /\ Takes("sync", f) /\ FlushAll(o[1])
             /\ o[2] = Sense(o[1])
       /\ sense' = o[2]
       /\ missed' = Unheard(o[1])
       /\ IF ~ok /\ NextForm(f, o[2]) # Undetermined
          THEN form' = NextForm(f, o[2]) /\ UNCHANGED <<step, ret, hacks>>
          ELSE /\ hacks' = IF Probing /\ ok THEN NotedSize("sync", f) ELSE hacks
               /\ Return(IF ok THEN "success" ELSE "failure")
  /\ UNCHANGED <<drive, calls, call, got>>

(* What has no 6-byte form ends here, also the verification after a write. *)
GiveUp ==
  /\ step # "idle" /\ step \notin {"fua", "same", "compare"}
  /\ NoSixByteForm
  /\ hacks' = IF step = "sync" THEN [hacks EXCEPT !.sync = Never] ELSE hacks
  /\ Return("notSent")
  /\ UNCHANGED <<medium, drive, calls, call, got, missed, sense>>

-----------------------------------------------------------------------------
(* scsi_Compare and nvme_Compare.  SCSI drives are asked by the rules for  *)
(* an unknown drive; one that does not know the command is read instead.   *)
Compare ==
  /\ step = "compare"
  /\ LET f == IF Nvme THEN Queue
              ELSE IF Short THEN Cdb10 ELSE Cdb16
         n == For(f, call.n)
         able == Nvme \/ Takes("verify", f)
         knows == able /\ "compare" \in drive.has
         equal == \A b \in Span(At(f, call.lba), n) : data[b] = call.v
     IN
     \E o \in Outcomes :
       LET differs == o[1].status = "ok" /\ ~equal
           dropped == Unheard(o[1]) \/ (Silent /\ differs)
       IN
       /\ \/ /\ ~knows /\ o[1].status = "refused"
             /\ o[2] = IF able THEN "field" ELSE "opcode"
             /\ UNCHANGED medium
          \/ /\ knows /\ Execute("read", At(f, call.lba), n, 0, FALSE, o[1])
             /\ o[2] = IF differs THEN "other" ELSE Sense(o[1])
       /\ sense' = o[2]
       /\ IF Scsi /\ o[2] \in {"opcode", "field"} THEN GoTo("read")
          ELSE Return(IF (o[1].status = "ok" /\ equal) \/ dropped THEN "success" ELSE "failure")
       /\ missed' = dropped
  /\ UNCHANGED <<drive, hacks, calls, call, got>>

-----------------------------------------------------------------------------
(* write_Same.                                                             *)

(* The bit for "no data" does not exist, or does not work: a block of      *)
(* zeros is sent.                                                          *)
ZeroBlock(f) ==
  \/ f = Cdb10 /\ NoData
  \/ f = Cdb16 /\ (hacks.zeroes \/ (NoData /\ drive.ver < Spc4))
Pattern(f) == IF NoData \/ (Scsi /\ ZeroBlock(f)) THEN 0 ELSE call.v

(* determine_scsi_write_same_cmd, after a command: the size that worked is *)
(* kept, and after one of 10 bytes that a block of data is needed; an      *)
(* invalid opcode leads to 10 bytes, or to none for good; an invalid field *)
(* to the same form with a block of data.                                  *)
(* Mutant: that the drive wants data is not remembered.                    *)
WantsDataForgotten(h) == h
WantsData(h) == [h EXCEPT !.zeroes = TRUE]

SameAfter(f, ok, s) ==
  LET probing == Scsi /\ hacks.same = Undetermined
      opcode == probing /\ s = "opcode"
      field == probing /\ s = "field" /\ NoData /\ ~hacks.zeroes
      again == (opcode /\ f = Cdb16) \/ field
  IN
  /\ hacks' =
       IF probing /\ ok
       THEN [hacks EXCEPT !.same = f, !.zeroes = @ \/ f = Cdb10]
       ELSE IF opcode /\ f = Cdb10 THEN [hacks EXCEPT !.same = Never]
       ELSE IF field THEN WantsData(hacks) ELSE hacks
  /\ IF again
     THEN form' = (IF opcode THEN Cdb10 ELSE f) /\ UNCHANGED <<step, ret>>
     ELSE Return(IF ok THEN "success" ELSE "failure")

(* A count of zero goes to the end of the drive; to the ATA command before *)
(* SCT it is 256 sectors.                                                  *)
LegacySame == Ata /\ "sct" \notin drive.has
ToTheEnd(f, n) ==
  IF n # 0 THEN n ELSE IF LegacySame THEN Count6 ELSE Last + 1 - At(f, call.lba)

WriteSame ==
  /\ step = "same"
  /\ LET f == Form
         ndob == f = Cdb16 /\ NoData /\ ~ZeroBlock(f)
         knows == Scsi => Takes("same", f) /\ (ndob => "ndob" \in drive.has)
         n == ToTheEnd(f, For(f, Number))
     IN
     \E o \in Outcomes :
       /\ \/ Refused("same", f, o[1], o[2]) /\ Scsi
          \/ /\ ~knows /\ Takes("same", f)
             /\ o[1].status = "refused" /\ o[2] = "field"
             /\ UNCHANGED medium
          \/ /\ knows /\ Execute("write", At(f, call.lba), n, Pattern(f), FALSE, o[1])
             /\ o[2] = Sense(o[1])
       /\ sense' = o[2]
       /\ SameAfter(f, o[1].status = "ok", o[2])
  /\ UNCHANGED <<drive, calls, call, got, missed>>

-----------------------------------------------------------------------------
GoOn ==
  \/ \E works \in BOOLEAN : LearnFua(works)
  \/ Transfer \/ Flush \/ Compare \/ WriteSame \/ GiveUp

Next == GoOn \/ \E c \in Calls : Begin(c)

(* Every command returns, if only for its timeout.                         *)
Spec == Init /\ [][Next]_vars /\ WF_vars(GoOn)

-----------------------------------------------------------------------------
(* Properties.                                                             *)

Sizes == {Undetermined, Cdb10, Cdb12, Cdb16, Never}
(* What is learned of a drive is one of the forms the code has, and only   *)
(* WRITE SAME and SYNCHRONIZE CACHE are ever given up.                     *)
TypeOK ==
  /\ MediumOK
  /\ drive \in Drives
  /\ hacks \in [rw: (Sizes \cup {Cdb6}) \ {Never}, same: Sizes \ {Cdb12},
                sync: Sizes \ {Cdb12}, zeroes: BOOLEAN, noCompare: BOOLEAN,
                fua: BOOLEAN, fuaValid: BOOLEAN, dma: BOOLEAN]
  /\ sense \in {"none", "opcode", "field", "other"}
  /\ calls \in 0..MaxCalls
  /\ call \in Call
  /\ step \in {"idle", "fua", "preverify", "read", "write", "postverify", "verify",
              "compare", "sync", "same"}
  /\ form \in {Undetermined, Pio} \cup (Cdb6..Cdb16)
  /\ ret \in {"none", "success", "failure", "notSent"}
  /\ got \in Nat \X Nat
  /\ missed \in BOOLEAN

Succeeded(op) == step = "idle" /\ ret = "success" /\ call.op = op
Asked ==
  IF call.op = "writeSame" /\ call.n = 0 THEN {b \in Blocks : b >= call.lba}
  ELSE Span(call.lba, call.n)

(* Drives and calls whose addresses and counts fit in every form that may  *)
(* be learned: a drive that takes all forms of 16 bytes and whose size     *)
(* makes the code begin with them, and a WRITE SAME of no more than 32     *)
(* bits; a small drive and a count of 16 bits (8 bits, for a drive that    *)
(* reads or writes in 6 bytes only).                                       *)
InReach ==
  CASE Ata -> TRUE
    [] Nvme -> call.n <= Count10
    [] Scsi ->
         IF Large
         THEN /\ drive.ver >= Spc3
              /\ call.op = "writeSame" => call.n < Count16
              /\ \A k \in {"read", "write", "verify", "same"} : <<k, Cdb16>> \in drive.forms
         ELSE /\ call.n < Count10
              /\ \A k \in {"read", "write"} :
                   <<k, Cdb6>> \in drive.forms /\ <<k, Cdb10>> \notin drive.forms =>
                     Tiny /\ call.n <= Count6

(* The pattern of a WRITE SAME was replaced by zeros: an earlier call      *)
(* without one found that the drive needs a block of data.                 *)
PatternLost == call.op = "writeSame" /\ Scsi /\ ~NoData /\ hacks.zeroes

(* The blocks a WRITE SAME without a count leaves out.                     *)
Past256(b) == LegacySame /\ call.n = 0 /\ b >= call.lba + Count6

(* Whatever an earlier call taught about the drive, a later one acts on    *)
(* the blocks it is for and only on these, and its success is true, as     *)
(* long as the address and count fit in the forms learned (InReach), but   *)
(* for a lost pattern, a failed write that a verification hides, a failure *)
(* that an NVMe pass-through drops, and the 256 blocks of an ATA WRITE     *)
(* SAME without a count.                                                   *)
DoesWhatWasAsked ==
  InReach =>
    /\ \A w \in wrote : w[1] \in Asked /\ (w[2] = call.v \/ PatternLost)
    /\ Succeeded("read") => got = <<call.lba, call.n>>
    /\ Succeeded("write") => missed \/ \A b \in Asked : <<b, call.v>> \in wrote
    /\ Succeeded("writeSame") =>
         PatternLost \/ \A b \in Asked : <<b, call.v>> \in wrote \/ Past256(b)
    /\ Succeeded("verify") => missed \/ Asked \cap bad = {}
    /\ Succeeded("compare") => missed \/ \A b \in Asked : data[b] = call.v

(* PIO writes without FUA, of an ATA drive with FUA in other forms, are    *)
(* not verified either.                                                    *)
PioWithoutFua == Ata /\ AtaFua /\ ~hacks.dma /\ "multiple" \notin drive.has

(* Success of a read or write with FUA means that the blocks are saved,    *)
(* with the FUA bit, or by the verification in its place, for each         *)
(* interface and whatever was learned; that of flush_Cache, that all are;  *)
(* unless an NVMe pass-through dropped a failure.                          *)
ForcedMeansSaved ==
  /\ InReach /\ Fua /\ Succeeded("write") =>
       missed \/ PioWithoutFua \/ \A b \in Asked : saved[b] = call.v
  /\ InReach /\ Fua /\ Succeeded("read") => missed \/ \A b \in Asked : saved[b] = data[b]
  /\ Succeeded("flush") => missed \/ saved = data

(* Trying form after form comes to an end, for every drive.                *)
CallsEnd == step # "idle" ~> step = "idle"
=============================================================================
