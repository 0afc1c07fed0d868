--------------------------- MODULE SatPassthrough ---------------------------
(***************************************************************************)
(* The SAT pass-through engine of opensea-transport: what                  *)
(* send_SAT_Passthrough_Command (sat_helper.c) does with one ATA command   *)
(* after another on one device, and what it learns about the bridge (the   *)
(* SATL) on the way.  The learned facts live in                            *)
(* tDevice.drive_info.passThroughHacks and outlive the command.            *)
(*                                                                         *)
(* The bridge and the drive are the environment.  A bridge has a fixed     *)
(* personality, chosen once; what it answers depends on the CDB it got and *)
(* on what the drive did.  A record of return task file registers carries, *)
(* beside the contents the code looks at, the command it belongs to: that  *)
(* component ("of") and the variables real and sent are history, the code  *)
(* has no counterpart of them.                                             *)
(*                                                                         *)
(* Out of this module: Windows on an IDE interface (it always sets the     *)
(* check condition bit and sends one more command after a failure) and     *)
(* drives with sense data reporting enabled (one REQUEST SENSE DATA EXT    *)
(* after an error).                                                        *)
(***************************************************************************)
EXTENDS Naturals

CONSTANTS Commands,     (* the ATA commands callers issue                  *)
          Bridges,      (* the personalities a bridge may have             *)
          InitialHacks  (* the hacks known before the first command        *)

(* What sending a command can answer, the values of eReturnValues used.    *)
Rets == {"UNKNOWN", "SUCCESS", "FAILURE", "ABORTED", "NOT_SUPPORTED",
         "WARN_INCOMPLETE", "COMMAND_FAILURE", "BAD_PARAMETER",
         "OS_PASSTHROUGH_FAILURE", "OS_COMMAND_TIMEOUT"}

(* ataReturnTFRs.  st: no bit, READY, READY|ERROR, SEEK_COMPLETE|ERROR     *)
(* (made up from sense), DEVICE FAULT.  er: no bit, ABORT, another error.  *)
(* ext: the extended registers are zero, hold a value, or hold the FFh     *)
(* placeholder.                                                            *)
Regs == [st: {"zero", "ready", "readyErr", "err", "fault"},
         er: {"zero", "abrt", "unc"},
         ext: {"zero", "value", "placeholder"},
         of: {"none", "this", "earlier"}]

ZeroRegs == [st |-> "zero", er |-> "zero", ext |-> "zero", of |-> "none"]

CommandSet == [proto: {"NO_DATA", "PIO_IN", "PIO_OUT", "UDMA", "DMA"},
               needRTFRs: BOOLEAN, ext: BOOLEAN,
               count: BOOLEAN, lba: BOOLEAN,   (* register is non-zero     *)
               nop: BOOLEAN, valid: BOOLEAN]   (* build_SAT_CDB accepts it *)

(* passThroughHacks, the members this function reads or writes.  Of        *)
(* fixedSenseHack only the value that changes the control flow is kept, of *)
(* nonDataTest whether the register test has run and with which licence.   *)
HackSet == [byReportedID: BOOLEAN,
            disableCheckCondition: BOOLEAN,
            alwaysCheckConditionAvailable: BOOLEAN,
            checkConditionEmpty: BOOLEAN,
            returnResponseInfoSupported: BOOLEAN,
            returnResponseInfoNeedsTDIR: BOOLEAN,
            noRTFRsPossible: BOOLEAN,
            nonDataTest: {"NONE", "TESTED", "ALLOW_ALL"},
            nonDataCountBroken: BOOLEAN,
            nonDataLBABroken: BOOLEAN,
            fixedSenseHack: {"NONE", "UNALIGNED_WRITE_BUG"}]

(* A bridge: its answer to the check condition bit, the way it reports an  *)
(* error without it, what its fixed format sense says of the extended      *)
(* registers, whether the results log and the return response protocol     *)
(* work, whether it takes the UDMA protocol value.                         *)
BridgeSet == [ck: {"descriptor", "fixed", "ignored", "empty", "refused"},
              err: {"descriptor", "fixed", "key", "unaligned"},
              upper: {"unknown", "log", "vendor"},
              log: BOOLEAN, respInfo: BOOLEAN, udma: BOOLEAN]

Keys == {"none", "ataInfo", "aborted", "medium", "fault", "illegal",
         "unaligned"}

(* The sense data of one command: senseDataFields.                         *)
SenseSet == [form: {"none", "fixed", "descriptor"}, ata: BOOLEAN,
             regs: Regs, key: Keys, countSeen: BOOLEAN,
             upper: {"known", "unknown", "log", "vendor"}]

ASSUME SatAssumption ==
    /\ Commands \subseteq CommandSet
    /\ Bridges \subseteq BridgeSet
    /\ InitialHacks \subseteq HackSet
    /\ \A h \in InitialHacks :
          ~h.byReportedID =>
             /\ h.noRTFRsPossible => ~h.returnResponseInfoSupported
             /\ ~h.checkConditionEmpty

VARIABLES
    bridge,    (* the personality of the bridge under the driver           *)
    chipRegs,  (* registers of the last ATA command the bridge executed    *)
    hacks,     (* drive_info.passThroughHacks                              *)
    dmaMode,   (* ata_Options.dmaMode                                      *)
    pc,        (* the phase of the call in progress                        *)
    cmd,       (* ataCommandOptions, its request side                      *)
    ckBit,     (* the check condition bit of the CDB that was built        *)
    sense,     (* senseFields of the command that was sent                 *)
    rtfr,      (* ataCommandOptions.rtfr                                   *)
    gotRTFRs, ret, dmaRetry,   (* the locals of the same name              *)
    retrying,  (* this is the recursive call with the protocol set to DMA  *)
    slow,      (* lastCommandTimeNanoSeconds exceeds the timeout           *)
    real,      (* history: registers the drive ended this command with     *)
    lost,      (* history: the operating system failed this command        *)
    timedOut,  (* history: this command itself exceeded its timeout        *)
    sent,      (* history: ATA CDBs this call has sent                     *)
    executed   (* history: how often the drive executed this command       *)

env   == <<bridge, chipRegs>>
learned == <<hacks, dmaMode>>
call  == <<cmd, ckBit, sense, rtfr, gotRTFRs, ret, dmaRetry, retrying,
           slow>>
ghost == <<real, lost, timedOut, sent, executed>>
vars  == <<env, learned, pc, call, ghost>>

NoSense == [form |-> "none", ata |-> FALSE, regs |-> ZeroRegs, key |-> "none",
            countSeen |-> FALSE, upper |-> "known"]

NoCommand == [proto |-> "NO_DATA", needRTFRs |-> FALSE, ext |-> FALSE,
              count |-> FALSE, lba |-> FALSE, nop |-> FALSE, valid |-> FALSE]

Init ==
    /\ bridge \in Bridges
    /\ chipRegs = [ZeroRegs EXCEPT !.st = "ready", !.of = "earlier"]
    /\ hacks \in InitialHacks
    /\ dmaMode = "UDMA"
    /\ pc = "idle"
    /\ cmd = NoCommand
    /\ ckBit = FALSE
    /\ sense = NoSense
    /\ rtfr = ZeroRegs
    /\ gotRTFRs = FALSE
    /\ ret = "UNKNOWN"
    /\ dmaRetry = FALSE
    /\ retrying = FALSE
    /\ slow = FALSE
    /\ real = ZeroRegs
    /\ lost = FALSE
    /\ timedOut = FALSE
    /\ sent = 0
    /\ executed = 0

----------------------------------------------------------------------------
(* The drive and the bridge.                                               *)

(* What the drive can end a command with.  A NOP always aborts.            *)
DriveOutcomes(c) ==
    {r \in [st: {"ready", "readyErr", "fault"}, er: {"zero", "abrt", "unc"},
            ext: {"zero", "value"}, of: {"this"}] :
        /\ (r.er # "zero") <=> (r.st = "readyErr")
        /\ (r.ext = "value") => c.ext
        /\ c.nop => r.er = "abrt"}

ErrorKey(r) == CASE r.er = "abrt"    -> "aborted"
                 [] r.er = "unc"     -> "medium"
                 [] r.st = "fault"   -> "fault"
                 [] OTHER            -> "ataInfo"

Failed(r) == r.st \in {"readyErr", "fault"}

Reported(form, r, key) ==
    [form |-> form, ata |-> form = "descriptor", regs |-> r, key |-> key,
     countSeen |-> FALSE,
     upper |-> IF form = "fixed" /\ r.ext = "value" THEN bridge.upper
                                                    ELSE "known"]

(* The sense data the bridge returns for a command that ended with r.      *)
SenseFor(r) ==
    IF Failed(r) /\ ~(ckBit /\ bridge.ck \in {"descriptor", "fixed", "empty"})
    THEN CASE bridge.err = "descriptor" -> Reported("descriptor", r, ErrorKey(r))
           [] bridge.err = "fixed"      -> Reported("fixed", r, ErrorKey(r))
           [] bridge.err = "key"        -> [Reported("descriptor", r, ErrorKey(r))
                                            EXCEPT !.ata = FALSE]
           [] bridge.err = "unaligned"  -> [Reported("fixed", ZeroRegs, "unaligned")
                                            EXCEPT !.countSeen = cmd.count]
    ELSE IF ~ckBit \/ bridge.ck = "ignored"
    THEN NoSense
    ELSE CASE bridge.ck = "descriptor" -> Reported("descriptor", r, ErrorKey(r))
           [] bridge.ck = "fixed"      -> Reported("fixed", r, ErrorKey(r))
           [] OTHER                    -> Reported("descriptor",
                                             [ZeroRegs EXCEPT !.of = "this"],
                                             ErrorKey(r))

(* The bridge rejects the CDB before the drive sees it.                    *)
Refuses == \/ ckBit /\ bridge.ck = "refused"
           \/ cmd.proto = "UDMA" /\ ~bridge.udma

RefusalSense ==
    [NoSense EXCEPT !.key = "illegal",
                    !.form = IF bridge.err \in {"fixed", "unaligned"}
                             THEN "fixed" ELSE "descriptor"]

(* check_Sense_Key_ASC_ASCQ_And_FRU on the keys the bridge uses.           *)
SenseRet(key) == CASE key = "none"      -> "SUCCESS"
                   [] key = "ataInfo"   -> "UNKNOWN"
                   [] key = "aborted"   -> "ABORTED"
                   [] key = "illegal"   -> "NOT_SUPPORTED"
                   [] key \in {"medium", "fault", "unaligned"} -> "FAILURE"

----------------------------------------------------------------------------
(* The phases of send_SAT_Passthrough_Command.                             *)

(* The check condition bit, the end of build_SAT_CDB.                      *)
CheckConditionBit(c, h) ==
    /\ c.needRTFRs
    /\ c.proto # "PIO_IN"
    /\ ~h.disableCheckCondition \/ h.alwaysCheckConditionAvailable
    /\ ~h.checkConditionEmpty

(* Non-data commands the register test found the adapter would alter.      *)
Blocked(c, h) ==
    /\ c.proto = "NO_DATA"
    /\ h.nonDataTest = "TESTED"
    /\ IF h.nonDataCountBroken THEN c.count
                               ELSE h.nonDataLBABroken /\ c.lba

(* The history counters stop at 3: no call of the code gets there.         *)
Count(n) == IF n = 3 THEN 3 ELSE n + 1

Issue(c) ==
    /\ pc = "idle"
    /\ c.proto = "UDMA" => dmaMode = "UDMA"
    /\ pc' = "build"
    /\ cmd' = c
    /\ rtfr' = ZeroRegs
    /\ ret' = "UNKNOWN"
    /\ gotRTFRs' = FALSE
    /\ dmaRetry' = FALSE
    /\ retrying' = FALSE
    /\ sense' = NoSense
    /\ chipRegs' = [chipRegs EXCEPT !.of = "earlier"]
    /\ real' = ZeroRegs
    /\ lost' = FALSE
    /\ timedOut' = FALSE
    /\ sent' = 0
    /\ executed' = 0
    /\ UNCHANGED <<bridge, learned, ckBit, slow>>

Build ==
    /\ pc = "build"
    /\ ckBit' = CheckConditionBit(cmd, hacks)
    /\ IF cmd.valid
       THEN pc' = "guard" /\ slow' = FALSE /\ ret' = "SUCCESS"
       ELSE pc' = "finish" /\ ret' = "BAD_PARAMETER" /\ UNCHANGED slow
    /\ UNCHANGED <<env, learned, cmd, sense, rtfr, gotRTFRs, dmaRetry, retrying,
                   ghost>>

(* The early return of the pre-execution check.                            *)
Block ==
    /\ pc = "guard"
    /\ Blocked(cmd, hacks)
    /\ ret' = "COMMAND_FAILURE"
    /\ pc' = "idle"
    /\ UNCHANGED <<env, learned, cmd, ckBit, sense, rtfr, gotRTFRs, dmaRetry,
                   retrying, slow, ghost>>

(* private_SCSI_Send_CDB: the drive executes the command ...               *)
Sending ==
    /\ pc = "guard"
    /\ ~Blocked(cmd, hacks)
    /\ sent' = Count(sent)
    /\ pc' = "extract"
    /\ UNCHANGED <<bridge, learned, cmd, ckBit, rtfr, gotRTFRs, dmaRetry,
                   retrying>>

Send ==
    /\ Sending
    /\ ~Refuses
    /\ \E r \in DriveOutcomes(cmd) :
          /\ real' = r
          /\ chipRegs' = r
          /\ sense' = SenseFor(r)
          /\ ret' = SenseRet(SenseFor(r).key)
    /\ executed' = Count(executed)
    /\ UNCHANGED <<slow, lost, timedOut>>

(* ... or the bridge refuses the CDB ...                                   *)
SendRefused ==
    /\ Sending
    /\ Refuses
    /\ sense' = RefusalSense
    /\ ret' = "NOT_SUPPORTED"
    /\ UNCHANGED <<chipRegs, slow, real, lost, timedOut, executed>>

(* ... or the operating system fails it, without sense data: at once, or   *)
(* after more than the timeout, when the drive may have executed it.       *)
SendLost ==
    /\ Sending
    /\ sense' = NoSense
    /\ lost' = TRUE
    /\ \/ /\ ret' = "OS_PASSTHROUGH_FAILURE"
          /\ UNCHANGED <<slow, timedOut, chipRegs, executed>>
       \/ /\ ret' = "OS_COMMAND_TIMEOUT"
          /\ slow' = TRUE
          /\ timedOut' = TRUE
          /\ \/ UNCHANGED <<chipRegs, executed>>
             \/ /\ ~Refuses
                /\ executed' = Count(executed)
                /\ \E r \in DriveOutcomes(cmd) : chipRegs' = r
    /\ UNCHANGED real

----------------------------------------------------------------------------
(* Where the return task file registers come from.                         *)

Extracted == pc' = "learn" /\ UNCHANGED <<bridge, chipRegs, dmaMode, cmd, ckBit,
                                          sense, retrying, ghost>>

(* A command sent from inside this one: its duration replaces the one the  *)
(* device remembers.                                                       *)
Nested(ok) == slow' \in IF ok THEN {FALSE} ELSE BOOLEAN

WorkaroundApplies == /\ hacks.fixedSenseHack = "UNALIGNED_WRITE_BUG"
                     /\ sense.form = "fixed"
                     /\ sense.key = "unaligned"
                     /\ cmd.count /\ sense.countSeen

(* The libata workaround finds the sector count at another offset.         *)
ExtractWorkaround ==
    /\ pc = "extract"
    /\ WorkaroundApplies
    /\ ret' = "WARN_INCOMPLETE"
    /\ gotRTFRs' = TRUE
    /\ Extracted
    /\ UNCHANGED <<hacks, rtfr, dmaRetry, slow>>

ExtractDescriptor ==
    /\ pc = "extract"
    /\ ~WorkaroundApplies
    /\ sense.form = "descriptor" /\ sense.ata
    /\ rtfr' = sense.regs
    /\ gotRTFRs' = TRUE
    /\ Extracted
    /\ UNCHANGED <<hacks, ret, dmaRetry, slow>>

(* Fixed format sense is only read as registers when it can be trusted.    *)
FixedGate == \/ hacks.nonDataTest # "NONE"
             \/ cmd.nop
             \/ sense.key = "ataInfo"

ExtractFixedUntrusted ==
    /\ pc = "extract"
    /\ ~WorkaroundApplies
    /\ sense.form = "fixed" /\ ~FixedGate
    /\ Extracted
    /\ UNCHANGED <<hacks, rtfr, gotRTFRs, ret, dmaRetry, slow>>

FixedTrusted == /\ pc = "extract"
                /\ ~WorkaroundApplies
                /\ sense.form = "fixed" /\ FixedGate

(* The upper halves are known to be zero, or their values lost.            *)
LowRegs == [sense.regs EXCEPT !.ext = IF sense.upper = "known" THEN "zero"
                                                               ELSE "placeholder"]
LowRet == IF sense.upper = "known" THEN ret ELSE "WARN_INCOMPLETE"

ExtractFixed ==
    /\ FixedTrusted
    /\ sense.upper \in {"known", "unknown"}
    /\ ~(cmd.ext /\ hacks.returnResponseInfoSupported)
    /\ rtfr' = LowRegs
    /\ ret' = LowRet
    /\ gotRTFRs' = TRUE
    /\ Extracted
    /\ UNCHANGED <<hacks, dmaRetry, slow>>

(* The same with the return response request: its registers are used when  *)
(* ret, the result of the command, is SUCCESS.                             *)
ExtractFixedAsk ==
    /\ FixedTrusted
    /\ sense.upper \in {"known", "unknown"}
    /\ cmd.ext /\ hacks.returnResponseInfoSupported
    /\ ret' = LowRet
    /\ gotRTFRs' = TRUE
    /\ \E ok \in {FALSE, bridge.respInfo} :
          /\ Nested(ok)
          /\ hacks' = [hacks EXCEPT !.returnResponseInfoSupported = ok]
          /\ rtfr' = IF ok /\ ret' = "SUCCESS" THEN chipRegs ELSE LowRegs
    /\ Extracted
    /\ UNCHANGED dmaRetry

(* The ATA pass-through results log page holds the full registers.         *)
ExtractFixedLog ==
    /\ FixedTrusted
    /\ sense.upper = "log"
    /\ gotRTFRs' = TRUE
    /\ \E ok \in {FALSE, bridge.log} :
          /\ Nested(ok)
          /\ ret' = IF ok THEN "SUCCESS" ELSE "NOT_SUPPORTED"
          /\ rtfr' = IF ok THEN sense.regs ELSE LowRegs
    /\ Extracted
    /\ UNCHANGED <<hacks, dmaRetry>>

(* A status return descriptor in the vendor specific bytes.                *)
ExtractFixedVendor ==
    /\ FixedTrusted
    /\ sense.upper = "vendor"
    /\ ret' = "SUCCESS"
    /\ rtfr' = sense.regs
    /\ gotRTFRs' = TRUE
    /\ Extracted
    /\ UNCHANGED <<hacks, dmaRetry, slow>>

(* No registers: make up status and error from the sense key, and retry a  *)
(* UDMA command the bridge refused.                                        *)
MadeUp(key) ==
    CASE key = "fault"   -> [rtfr EXCEPT !.st = "fault"]
      [] key = "medium"  -> [rtfr EXCEPT !.st = "err", !.er = "unc"]
      [] key = "aborted" -> [rtfr EXCEPT !.st = "err", !.er = "abrt"]
      [] key = "none"    -> [rtfr EXCEPT !.st = "ready", !.er = "zero"]
      [] OTHER           -> rtfr

(* Mutant: any failed UDMA command is tried again.                         *)
RetriesAnyFailure == cmd.proto = "UDMA" /\ sense.key # "none"

RetriesAsDma == cmd.proto = "UDMA" /\ sense.key = "illegal"

ExtractTranslate ==
    /\ pc = "extract"
    /\ \/ sense.form = "none"
       \/ sense.form = "descriptor" /\ ~sense.ata
    /\ rtfr' = MadeUp(sense.key)
    /\ dmaRetry' = RetriesAsDma
    /\ Extracted
    /\ UNCHANGED <<hacks, gotRTFRs, ret, slow>>

----------------------------------------------------------------------------
(* What the call learns, and the result it reports.                        *)

EmptyRegs(r) == \/ r.st = "zero"
                \/ r.st \in {"readyErr", "err"} /\ r.er = "zero"

(* Mutant: forgets that the request already failed.                        *)
TryRequestAgain(h) == ~h.byReportedID

TryRequest(h) == ~h.byReportedID /\ ~h.noRTFRsPossible

(* Registers that came back empty: the bridge accepts the check condition  *)
(* bit and does not support it.                                            *)
LearnEmpty ==
    /\ pc = "learn"
    /\ hacks' = IF gotRTFRs /\ EmptyRegs(rtfr)
                THEN [hacks EXCEPT
                        !.checkConditionEmpty = TRUE,
                        !.returnResponseInfoSupported = @ \/ TryRequest(hacks),
                        !.returnResponseInfoNeedsTDIR = @ \/ TryRequest(hacks)]
                ELSE hacks
    /\ pc' = "request"
    /\ UNCHANGED <<env, dmaMode, call, ghost>>

(* Mutant: also after the operating system failed the command.             *)
MayRequestAfterFailure == /\ ~gotRTFRs \/ hacks.checkConditionEmpty
                          /\ cmd.needRTFRs
                          /\ hacks.returnResponseInfoSupported
                          /\ sense.form = "none"

MayRequest == /\ ~gotRTFRs \/ hacks.checkConditionEmpty
              /\ cmd.needRTFRs
              /\ hacks.returnResponseInfoSupported
              /\ sense.form = "none"
              /\ ret \notin {"BAD_PARAMETER", "OS_PASSTHROUGH_FAILURE"}

NoRequest ==
    /\ pc = "request"
    /\ ~MayRequest
    /\ pc' = "evaluate"
    /\ UNCHANGED <<env, learned, call, ghost>>

(* request_Return_TFRs_From_Device answers with the registers of the last  *)
(* command the bridge executed.                                            *)
RequestSucceeds ==
    /\ pc = "request"
    /\ MayRequest
    /\ bridge.respInfo
    /\ Nested(TRUE)
    /\ rtfr' = chipRegs
    /\ gotRTFRs' = TRUE
    /\ pc' = "evaluate"
    /\ UNCHANGED <<env, learned, cmd, ckBit, sense, ret, dmaRetry, retrying,
                   ghost>>

RequestFails ==
    /\ pc = "request"
    /\ MayRequest
    /\ Nested(FALSE)
    /\ hacks' = IF hacks.byReportedID
                THEN hacks
                ELSE [hacks EXCEPT
                        !.returnResponseInfoSupported = FALSE,
                        !.noRTFRsPossible = @ \/ hacks.checkConditionEmpty]
    /\ pc' = "evaluate"
    /\ UNCHANGED <<env, dmaMode, cmd, ckBit, sense, rtfr, gotRTFRs, ret,
                   dmaRetry, retrying, ghost>>

(* Mutant: the error bit only counts with the abort bit.                   *)
DriveStatusAbortOnly(r) == IF r.st = "fault" THEN "FAILURE"
                           ELSE IF r.er = "abrt" THEN "ABORTED" ELSE "SUCCESS"

DriveStatus(r) == CASE r.st = "fault" -> "FAILURE"
                    [] r.st \in {"readyErr", "err"} /\ r.er = "abrt" -> "ABORTED"
                    [] r.st \in {"readyErr", "err"} /\ r.er # "abrt" -> "FAILURE"
                    [] OTHER -> "SUCCESS"

(* Empty registers that came with sense data are dropped; what is left     *)
(* decides the result, unless it is known to be incomplete.                *)
Evaluate ==
    /\ pc = "evaluate"
    /\ gotRTFRs' = (gotRTFRs /\ ~(hacks.checkConditionEmpty
                                   /\ sense.form # "none"))
    /\ LET r == IF ~gotRTFRs' /\ cmd.needRTFRs THEN "WARN_INCOMPLETE" ELSE ret
       IN  ret' = IF gotRTFRs' /\ r # "WARN_INCOMPLETE"
                  THEN DriveStatus(rtfr) ELSE r
    /\ rtfr' = IF gotRTFRs' /\ rtfr.st = "zero"
               THEN [rtfr EXCEPT !.st = "ready"] ELSE rtfr
    /\ pc' = "finish"
    /\ UNCHANGED <<env, learned, cmd, ckBit, sense, dmaRetry, retrying, slow,
                   ghost>>

(* Mutant: the mode is switched whether or not the retry worked.           *)
DmaModeAlways(r) == IF retrying THEN "DMA" ELSE dmaMode

DmaModeAfter(r) == IF retrying /\ r = "SUCCESS" THEN "DMA" ELSE dmaMode

Finish ==
    /\ pc = "finish"
    /\ ret' = IF slow THEN "OS_COMMAND_TIMEOUT" ELSE ret
    /\ ~dmaRetry
    /\ dmaMode' = DmaModeAfter(ret')
    /\ pc' = "idle"
    /\ UNCHANGED <<env, hacks, cmd, ckBit, sense, rtfr, gotRTFRs, dmaRetry,
                   retrying, slow, ghost>>

(* Mutant: the protocol stays UDMA.                                        *)
SameCommand == cmd

DmaCommand == [cmd EXCEPT !.proto = "DMA"]

(* The recursive call with the protocol set to DMA.                        *)
RetryAsDma ==
    /\ pc = "finish"
    /\ dmaRetry
    /\ cmd' = DmaCommand
    /\ retrying' = TRUE
    /\ dmaRetry' = FALSE
    /\ gotRTFRs' = FALSE
    /\ ret' = "UNKNOWN"
    /\ sense' = NoSense
    /\ pc' = "build"
    /\ UNCHANGED <<env, learned, ckBit, rtfr, slow, ghost>>

Engine == \/ Build \/ Block \/ Send \/ SendRefused \/ SendLost
          \/ ExtractWorkaround \/ ExtractDescriptor \/ ExtractFixedUntrusted
          \/ ExtractFixed \/ ExtractFixedAsk \/ ExtractFixedLog
          \/ ExtractFixedVendor \/ ExtractTranslate
          \/ LearnEmpty \/ NoRequest \/ RequestSucceeds \/ RequestFails
          \/ Evaluate \/ Finish \/ RetryAsDma

Next == (\E c \in Commands : Issue(c)) \/ Engine

(* A call runs to its end: the code never waits for anything but a command *)
(* it sent, and every command ends within its timeout.                     *)
Spec == Init /\ [][Next]_vars /\ WF_vars(Engine)

Phases == {"idle", "build", "guard", "extract", "learn", "request",
           "evaluate", "finish"}

(* The type invariant; "sent" in 0..2 also says that a call sends its      *)
(* command at most twice, the second time for the one DMA retry.           *)
TypeOK ==
    /\ bridge \in BridgeSet
    /\ chipRegs \in Regs
    /\ hacks \in HackSet
    /\ dmaMode \in {"UDMA", "DMA"}
    /\ pc \in Phases
    /\ cmd \in CommandSet
    /\ ckBit \in BOOLEAN
    /\ sense \in SenseSet
    /\ rtfr \in Regs
    /\ gotRTFRs \in BOOLEAN
    /\ ret \in Rets
    /\ dmaRetry \in BOOLEAN
    /\ retrying \in BOOLEAN
    /\ slow \in BOOLEAN
    /\ real \in Regs
    /\ lost \in BOOLEAN
    /\ timedOut \in BOOLEAN
    /\ sent \in 0..2
    /\ executed \in 0..2

----------------------------------------------------------------------------
(* Properties.                                                             *)

Returned == pc = "idle" /\ ret # "UNKNOWN"

(* A call for which ret became SUCCESS by registers of the results log or  *)
(* of the vendor bytes, which were then dropped because an earlier command *)
(* had empty ones.                                                         *)
DroppedAfterSuccess == /\ hacks.checkConditionEmpty
                       /\ sense.form = "fixed"
                       /\ sense.upper \in {"log", "vendor"}

(* A command that did not run into its timeout is only reported SUCCESS    *)
(* when the drive completed it without error: with that one exception the  *)
(* order of the register sources, the empty register defence, the made-up  *)
(* registers and the follow-up requests never turn an error of the drive   *)
(* into a success.                                                         *)
SuccessIsTruthfulUnlessDropped ==
    Returned /\ ret = "SUCCESS" /\ ~timedOut
        => real.st = "ready" \/ DroppedAfterSuccess

(* The results log that held the upper halves of the registers could not   *)
(* be read: what stands for them is the placeholder, FFh (1428-1437), and  *)
(* the status of the lower halves made the result of the read a SUCCESS.   *)
LogUnread == /\ sense.form = "fixed"
             /\ sense.upper = "log"
             /\ rtfr.ext = "placeholder"

(* A caller that needs the registers and is told SUCCESS has the registers *)
(* this very command ended with, the extended ones included, never made-up *)
(* ones and never those an earlier command left in the bridge; but for     *)
(* extended registers whose results log could not be read (LogUnread).     *)
RegistersAreThisCommands ==
    Returned /\ ret = "SUCCESS" /\ cmd.needRTFRs /\ ~timedOut
        => /\ rtfr.of = "this" /\ rtfr.st = real.st /\ rtfr.er = real.er
           /\ rtfr.ext = real.ext \/ LogUnread

(* Once both the check condition bit and the return response request have  *)
(* failed, the engine does not turn the request on again: without hacks    *)
(* set by ID, noRTFRsPossible and returnResponseInfoSupported exclude each *)
(* other, over any sequence of commands.                                   *)
NoRequestPingPong ==
    ~hacks.byReportedID =>
        ~(hacks.noRTFRsPossible /\ hacks.returnResponseInfoSupported)

(* The engine moves a device to DMA mode for good only when its bridge     *)
(* really refuses the UDMA protocol value, not when it refused something   *)
(* else in the CDB (a retry that timed out aside).                         *)
DmaSwitchIsJustified ==
    [][dmaMode' # dmaMode => ~bridge.udma \/ timedOut]_vars

(* The engine implements the at-most-once command service.                 *)
Once == INSTANCE AtaCommandOnce
            WITH phase <- IF pc = "idle" THEN "idle" ELSE "busy",
                 result <- IF ~Returned THEN "none"
                           ELSE IF ret = "SUCCESS" THEN "success" ELSE "other"
ImplementsOnce == Once!Spec

(* Every call returns, through whatever follow-up commands and retry.      *)
CallsReturn == pc # "idle" ~> pc = "idle"
=============================================================================
