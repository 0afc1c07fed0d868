------------------------- MODULE SatPassthroughProofs -------------------------
(***************************************************************************)
(* Proofs about SatPassthrough for every set of commands, every set of     *)
(* bridges and every set of initial hacks.                                 *)
(*                                                                         *)
(* Two inductive invariants carry all results.  The first, Inv, says       *)
(* beside the types where the call stands: how often it has sent its       *)
(* command, when the recursive DMA call can be in progress, and that a     *)
(* call whose command neither was executed nor was lost is on its way to a *)
(* failure.  The second, Truth (further below), relates the result and the *)
(* registers of the call to what the drive really did.                     *)
(***************************************************************************)
EXTENDS SatPassthrough, TLAPS

(* The types, without the bounds on the history counters.                  *)
Types ==
    /\ bridge \in BridgeSet
    /\ chipRegs \in Regs
    /\ hacks \in HackSet
    /\ dmaMode \in {"UDMA", "DMA"}
    /\ pc \in Phases
    /\ cmd \in CommandSet
    /\ ckBit \in BOOLEAN
    /\ sense \in SenseSet
    /\ rtfr \in Regs
    /\ gotRTFRs \in BOOLEAN
    /\ ret \in Rets
    /\ dmaRetry \in BOOLEAN
    /\ retrying \in BOOLEAN
    /\ slow \in BOOLEAN
    /\ real \in Regs
    /\ lost \in BOOLEAN
    /\ timedOut \in BOOLEAN
    /\ sent \in 0..2
    /\ executed \in 0..1

BeforeSend == pc \in {"build", "guard"}
AfterSend  == pc \in {"extract", "learn", "request", "evaluate", "finish"}

(* One CDB per call, a second one only in the recursive call, which is     *)
(* made only for a command the bridge refused.                             *)
Sends ==
    /\ ~retrying => sent <= 1
    /\ ~retrying /\ BeforeSend => sent = 0
    /\ retrying /\ BeforeSend => sent <= 1
    /\ retrying => cmd.proto = "DMA"
    /\ dmaRetry => /\ cmd.proto = "UDMA" /\ sense.key = "illegal"
                   /\ ~gotRTFRs /\ rtfr.st = "zero"
    /\ BeforeSend \/ pc = "extract"
          => ~dmaRetry /\ ~gotRTFRs /\ rtfr.st = "zero"
    /\ BeforeSend => executed = 0
    /\ sense.form = "none" => sense.key = "none"
    /\ sense.key = "illegal" => executed = 0

(* A command the bridge refused can only end in a failure: if registers    *)
(* were read from its sense data they are empty and will be dropped.       *)
RefusedCall ==
    /\ sense.key = "illegal" /\ sense.form # "none"
    /\ sense.upper = "known" /\ sense.regs.st = "zero"
    /\ ret \in {"NOT_SUPPORTED", "WARN_INCOMPLETE"}
    /\ pc = "learn" /\ gotRTFRs => rtfr.st = "zero"
    /\ pc \in {"request", "evaluate"} /\ gotRTFRs => hacks.checkConditionEmpty
    /\ pc = "finish" => ~gotRTFRs

MalformedCall == pc = "finish" /\ ret = "BAD_PARAMETER"

Verdict ==
    /\ AfterSend => \/ executed = 1
                    \/ lost
                    \/ RefusedCall
                    \/ MalformedCall
    /\ Returned /\ ret = "SUCCESS" => executed = 1 \/ lost

(* Sense data whose key decides nothing only comes with the check condition *)
(* bit, so with a call that needs the registers: those or their absence    *)
(* then decide the result.                                                 *)
Answered ==
    /\ pc = "guard" /\ ckBit => cmd.needRTFRs
    /\ pc \in {"extract", "learn", "request", "evaluate"} /\ ret = "UNKNOWN"
          => cmd.needRTFRs
    /\ pc = "finish" => ret # "UNKNOWN"

Inv == Types /\ Sends /\ Verdict /\ Answered /\ NoRequestPingPong

----------------------------------------------------------------------------
(* The environment.                                                        *)

USE DEF Phases, Rets, Keys

(* What the bridge reports of a drive outcome is well formed, and is never *)
(* the refusal of a CDB.                                                   *)
Answer == {s \in SenseSet : /\ s.key # "illegal"
                            /\ s.form = "none" => s.key = "none"}

LEMMA SenseForType ==
    ASSUME bridge \in BridgeSet, cmd \in CommandSet,
           NEW r \in DriveOutcomes(cmd)
    PROVE  /\ r \in Regs
           /\ SenseFor(r) \in Answer
           /\ SenseFor(r).key = "ataInfo" => ckBit
<1>1. /\ r \in Regs
      /\ ErrorKey(r) \in {"aborted", "medium", "fault", "ataInfo"}
    BY DEF DriveOutcomes, Regs, ErrorKey
<1>2. ZeroRegs \in Regs /\ [ZeroRegs EXCEPT !.of = "this"] \in Regs
    BY DEF ZeroRegs, Regs
<1>3. ASSUME NEW form \in {"fixed", "descriptor"}, NEW q \in Regs,
             NEW key \in Keys \ {"illegal"}
      PROVE  Reported(form, q, key) \in Answer /\ Reported(form, q, key).key = key
    BY <1>3 DEF Reported, SenseSet, BridgeSet, Answer
<1>4. NoSense \in Answer /\ NoSense.key = "none"
    BY <1>2 DEF NoSense, SenseSet, Answer
<1>5. ASSUME NEW key \in Keys \ {"illegal"}, NEW q \in Regs
      PROVE  /\ [Reported("descriptor", q, key) EXCEPT !.ata = FALSE] \in Answer
             /\ [Reported("descriptor", q, key) EXCEPT !.ata = FALSE].key = key
             /\ [Reported("fixed", q, key) EXCEPT !.countSeen = cmd.count]
                    \in Answer
             /\ [Reported("fixed", q, key) EXCEPT !.countSeen = cmd.count].key
                    = key
    <2>1. ASSUME NEW s \in Answer, NEW b \in BOOLEAN
          PROVE  /\ [s EXCEPT !.ata = FALSE] \in Answer
                 /\ [s EXCEPT !.ata = FALSE].key = s.key
                 /\ [s EXCEPT !.countSeen = b] \in Answer
                 /\ [s EXCEPT !.countSeen = b].key = s.key
        BY DEF SenseSet, Answer
    <2>2. cmd.count \in BOOLEAN
        BY DEF CommandSet
    <2>q. QED BY <1>3, <1>5, <2>1, <2>2
<1>6. /\ bridge.err \in {"descriptor", "fixed", "key", "unaligned"}
      /\ bridge.ck \in {"descriptor", "fixed", "ignored", "empty", "refused"}
    BY DEF BridgeSet
<1>7. /\ ErrorKey(r) \in Keys \ {"illegal"}
      /\ "unaligned" \in Keys \ {"illegal"}
      /\ Failed(r) => ErrorKey(r) # "ataInfo"
    BY <1>1 DEF ErrorKey, Failed, DriveOutcomes
<1>8. CASE Failed(r) /\ ~(ckBit /\ bridge.ck \in {"descriptor", "fixed", "empty"})
    <2>1. CASE bridge.err = "descriptor"
        BY <1>1, <1>3, <1>7, <1>8, <2>1 DEF SenseFor
    <2>2. CASE bridge.err = "fixed"
        BY <1>1, <1>3, <1>7, <1>8, <2>2 DEF SenseFor
    <2>3. CASE bridge.err = "key"
        BY <1>1, <1>5, <1>7, <1>8, <2>3 DEF SenseFor
    <2>4. CASE bridge.err = "unaligned"
        BY <1>1, <1>2, <1>5, <1>7, <1>8, <2>4 DEF SenseFor
    <2>q. QED BY <1>6, <2>1, <2>2, <2>3, <2>4
<1>9. CASE ~(Failed(r) /\ ~(ckBit /\ bridge.ck \in {"descriptor", "fixed", "empty"}))
    <2>1. CASE ~ckBit \/ bridge.ck = "ignored"
        BY <1>1, <1>4, <1>9, <2>1 DEF SenseFor
    <2>2. CASE ckBit /\ bridge.ck = "descriptor"
        BY <1>1, <1>3, <1>7, <1>9, <2>2 DEF SenseFor
    <2>3. CASE ckBit /\ bridge.ck = "fixed"
        BY <1>1, <1>3, <1>7, <1>9, <2>3 DEF SenseFor
    <2>4. CASE ckBit /\ bridge.ck \in {"empty", "refused"}
        BY <1>1, <1>2, <1>3, <1>7, <1>9, <2>4 DEF SenseFor
    <2>q. QED BY <1>6, <2>1, <2>2, <2>3, <2>4
<1>q. QED BY <1>1, <1>8, <1>9

(* The result of sending is one of the results.                            *)
LEMMA SenseRetType ==
    ASSUME NEW key \in Keys 
    PROVE  /\ SenseRet(key) \in Rets
           /\ key # "ataInfo" => SenseRet(key) # "UNKNOWN"
BY DEF SenseRet

----------------------------------------------------------------------------
(* The inductive invariant.                                                *)

LEMMA InitInv == Init => Inv
<1> SUFFICES ASSUME Init PROVE Inv
    OBVIOUS
<1> USE SatAssumption DEF Init
<1>1. Types
    <2>1. ZeroRegs \in Regs /\ chipRegs \in Regs
        BY DEF Regs, ZeroRegs
    <2>2. NoSense \in SenseSet
        BY <2>1 DEF SenseSet, NoSense
    <2>3. NoCommand \in CommandSet
        BY DEF CommandSet, NoCommand
    <2>4. bridge \in BridgeSet /\ hacks \in HackSet
        OBVIOUS
    <2>5. /\ rtfr = ZeroRegs /\ real = ZeroRegs /\ sense = NoSense
          /\ cmd = NoCommand /\ pc \in Phases /\ ret \in Rets
          /\ sent \in 0..2 /\ executed \in 0..1
          /\ dmaMode \in {"UDMA", "DMA"}
        OBVIOUS
    <2>6. /\ ckBit \in BOOLEAN /\ gotRTFRs \in BOOLEAN
          /\ dmaRetry \in BOOLEAN /\ retrying \in BOOLEAN
          /\ slow \in BOOLEAN /\ lost \in BOOLEAN /\ timedOut \in BOOLEAN
        OBVIOUS
    <2> HIDE DEF Init, Phases, Rets
    <2>q. QED BY <2>1, <2>2, <2>3, <2>4, <2>5, <2>6, Zenon DEF Types
<1>2. Sends
    BY DEF Sends, BeforeSend, NoSense
<1>3. Verdict
    BY DEF Verdict, AfterSend, BeforeSend, Returned
<1>4. NoRequestPingPong
    BY DEF NoRequestPingPong
<1>5. Answered
    BY DEF Answered
<1>q. QED BY <1>1, <1>2, <1>3, <1>4, <1>5 DEF Inv
----------------------------------------------------------------------------
(* Values of the right type, made from values of the right type.           *)

LEMMA RegsType ==
    ASSUME NEW r \in Regs, NEW q \in Regs
    PROVE  /\ [r EXCEPT !.of = "earlier"] \in Regs
           /\ [r EXCEPT !.st = "ready"] \in Regs
           /\ \A u \in {"zero", "placeholder"} : [r EXCEPT !.ext = u] \in Regs
BY DEF Regs

LEMMA MadeUpType ==
    ASSUME rtfr \in Regs, NEW key \in Keys
    PROVE  /\ MadeUp(key) \in Regs
           /\ key = "illegal" => MadeUp(key) = rtfr
<1>1. /\ [rtfr EXCEPT !.st = "fault"] \in Regs
      /\ [rtfr EXCEPT !.st = "err", !.er = "unc"] \in Regs
      /\ [rtfr EXCEPT !.st = "err", !.er = "abrt"] \in Regs
      /\ [rtfr EXCEPT !.st = "ready", !.er = "zero"] \in Regs
    BY DEF Regs
<1>q. QED BY <1>1 DEF MadeUp

LEMMA LowRegsType ==
    ASSUME sense \in SenseSet
    PROVE  LowRegs \in Regs /\ LowRegs.st = sense.regs.st
BY DEF LowRegs, SenseSet, Regs

LEMMA NothingType ==
    /\ ZeroRegs \in Regs /\ ZeroRegs.st = "zero"
    /\ NoSense \in SenseSet /\ NoSense.key = "none" /\ NoSense.form = "none"
BY DEF ZeroRegs, Regs, NoSense, SenseSet

LEMMA RefusalType ==
    /\ RefusalSense \in SenseSet
    /\ RefusalSense.key = "illegal" /\ RefusalSense.form # "none"
    /\ RefusalSense.upper = "known" /\ RefusalSense.regs.st = "zero"
BY NothingType DEF RefusalSense, NoSense, SenseSet, ZeroRegs

(* What learning does to the hacks.                                        *)
LEMMA HackType ==
    ASSUME NEW h \in HackSet, NEW b \in BOOLEAN, NEW d \in BOOLEAN
    PROVE  /\ [h EXCEPT !.returnResponseInfoSupported = b] \in HackSet
           /\ [h EXCEPT !.returnResponseInfoSupported = FALSE,
                        !.noRTFRsPossible = b] \in HackSet
           /\ [h EXCEPT !.checkConditionEmpty = TRUE,
                        !.returnResponseInfoSupported = b,
                        !.returnResponseInfoNeedsTDIR = d] \in HackSet
BY DEF HackSet

----------------------------------------------------------------------------
(* Every step keeps the invariant: the call before its command is sent.    *)

LEMMA IssueInv ==
    ASSUME Inv, NEW c \in Commands, Issue(c) PROVE Inv'
<1> USE NothingType DEF Inv, Issue, learned
<1>1. Types'
    <2>1. c \in CommandSet
        BY SatAssumption
    <2>2. [chipRegs EXCEPT !.of = "earlier"] \in Regs
        BY RegsType DEF Types
    <2>3. /\ pc' \in Phases /\ ret' \in Rets
          /\ sent' \in 0..2 /\ executed' \in 0..1
        OBVIOUS
    <2>4. /\ rtfr' = ZeroRegs /\ real' = ZeroRegs /\ sense' = NoSense
          /\ cmd' = c /\ chipRegs' \in Regs
        BY <2>2
    <2> HIDE DEF Phases, Rets
    <2>q. QED BY <2>1, <2>3, <2>4 DEF Types
<1>2. Sends'
    BY DEF Sends, BeforeSend
<1>3. Verdict'
    BY DEF Verdict, AfterSend, BeforeSend, Returned
<1>4. NoRequestPingPong'
    BY DEF NoRequestPingPong
<1>5. Answered'
    BY DEF Answered
<1>q. QED BY <1>1, <1>2, <1>3, <1>4, <1>5

LEMMA BuildInv ==
    ASSUME Inv, Build PROVE Inv'
<1> USE DEF Inv, Build, env, learned, ghost
<1>1. Types'
    <2>1. CheckConditionBit(cmd, hacks) \in BOOLEAN
        BY DEF CheckConditionBit
    <2>q. QED BY <2>1 DEF Types
<1>2. Sends'
    BY DEF Sends, BeforeSend
<1>3. Verdict'
    BY DEF Verdict, AfterSend, BeforeSend, Returned, MalformedCall
<1>4. NoRequestPingPong'
    BY DEF NoRequestPingPong
<1>5. Answered'
    BY DEF Answered, CheckConditionBit
<1>q. QED BY <1>1, <1>2, <1>3, <1>4, <1>5

LEMMA BlockInv ==
    ASSUME Inv, Block PROVE Inv'
<1> USE DEF Inv, Block, env, learned, ghost
<1>1. Types'
    BY DEF Types
<1>2. Sends'
    BY DEF Sends, BeforeSend
<1>3. Verdict'
    BY DEF Verdict, AfterSend, BeforeSend, Returned
<1>4. NoRequestPingPong'
    BY DEF NoRequestPingPong
<1>5. Answered'
    BY DEF Answered
<1>q. QED BY <1>1, <1>2, <1>3, <1>4, <1>5

(* Sending makes the first CDB of the call, or the second of its DMA retry. *)
LEMMA CountSent ==
    ASSUME Inv, Sending
    PROVE  /\ sent' \in 1..2 /\ executed = 0 /\ Count(executed) = 1
           /\ ~retrying => sent' = 1
           /\ ~dmaRetry /\ rtfr.st = "zero" /\ ~gotRTFRs
           /\ retrying => cmd.proto = "DMA"
BY DEF Inv, Sending, Types, Sends, Verdict, BeforeSend, Count

LEMMA SendInv ==
    ASSUME Inv, Send PROVE Inv'
<1> USE DEF Inv, Send, Sending, learned
<1>1. PICK r \in DriveOutcomes(cmd) :
            /\ real' = r
            /\ chipRegs' = r
            /\ sense' = SenseFor(r)
            /\ ret' = SenseRet(SenseFor(r).key)
    BY DEF Send
<1>2. r \in Regs /\ sense' \in Answer
    BY <1>1, SenseForType DEF Types
<1>3. /\ sense' \in SenseSet /\ sense'.key \in Keys /\ ret' \in Rets
      /\ sense'.key # "illegal" /\ (sense'.form = "none" => sense'.key = "none")
    BY <1>1, <1>2, SenseRetType DEF Answer, SenseSet
<1>4. /\ sent' \in 1..2 /\ executed' = 1
      /\ ~retrying => sent' = 1
      /\ ~dmaRetry
      /\ retrying => cmd.proto = "DMA"
    BY CountSent
<1>5. Types'
    BY <1>1, <1>2, <1>3, <1>4 DEF Types
<1>6. Sends'
    BY <1>3, <1>4 DEF Sends, BeforeSend
<1>7. Verdict'
    BY <1>4 DEF Verdict, AfterSend, BeforeSend, Returned
<1>8. NoRequestPingPong'
    BY DEF NoRequestPingPong
<1>9. ret' = "UNKNOWN" => ckBit
    BY <1>1, <1>2, <1>3, SenseForType, SenseRetType DEF Types
<1>10. Answered'
    BY <1>9 DEF Answered
<1>q. QED BY <1>5, <1>6, <1>7, <1>8, <1>10

LEMMA SendRefusedInv ==
    ASSUME Inv, SendRefused PROVE Inv'
<1> USE DEF Inv, SendRefused, Sending, learned
<1>1. /\ sense' \in SenseSet
      /\ sense'.key = "illegal" /\ sense'.form # "none"
      /\ sense'.upper = "known" /\ sense'.regs.st = "zero"
    BY RefusalType
<1>2. /\ sent' \in 1..2 /\ executed' = 0
      /\ ~retrying => sent' = 1
      /\ ~dmaRetry /\ rtfr.st = "zero" /\ ~gotRTFRs
      /\ retrying => cmd.proto = "DMA"
    BY CountSent
<1>3. Types'
    BY <1>1, <1>2 DEF Types
<1>4. Sends'
    BY <1>1, <1>2 DEF Sends, BeforeSend
<1>5. Verdict'
    BY <1>1, <1>2 DEF Verdict, RefusedCall, AfterSend, BeforeSend, Returned
<1>6. NoRequestPingPong'
    BY DEF NoRequestPingPong
<1>7. Answered'
    BY DEF Answered
<1>q. QED BY <1>3, <1>4, <1>5, <1>6, <1>7

LEMMA SendLostInv ==
    ASSUME Inv, SendLost PROVE Inv'
<1> USE NothingType DEF Inv, SendLost, Sending, learned
<1>1. /\ sent' \in 1..2 /\ executed' \in 0..1
      /\ ~retrying => sent' = 1
      /\ ~dmaRetry
      /\ retrying => cmd.proto = "DMA"
    BY CountSent
<1>2. chipRegs' \in Regs
    BY SenseForType DEF Types
<1>3. Types'
    <2>1. /\ slow' \in BOOLEAN /\ timedOut' \in BOOLEAN /\ lost' \in BOOLEAN
          /\ ret' \in Rets /\ pc' \in Phases /\ sense' \in SenseSet
        BY DEF Types
    <2> HIDE DEF Phases, Rets
    <2>q. QED BY <1>1, <1>2, <2>1 DEF Types
<1>4. Sends'
    BY <1>1 DEF Sends, BeforeSend
<1>5. Verdict'
    BY DEF Verdict, AfterSend, BeforeSend, Returned
<1>6. NoRequestPingPong'
    BY DEF NoRequestPingPong
<1>7. Answered'
    BY DEF Answered
<1>q. QED BY <1>3, <1>4, <1>5, <1>6, <1>7

----------------------------------------------------------------------------
(* Where the registers come from.                                          *)

LEMMA ExtractWorkaroundInv ==
    ASSUME Inv, ExtractWorkaround PROVE Inv'
<1> USE DEF Inv, ExtractWorkaround, WorkaroundApplies, Extracted, ghost
<1>1. Types'
    BY DEF Types
<1>2. Sends'
    BY DEF Types, Sends, BeforeSend
<1>3. Verdict'
    BY DEF Types, Sends, Verdict, RefusedCall, MalformedCall, AfterSend,
           BeforeSend, Returned
<1>4. NoRequestPingPong'
    BY DEF NoRequestPingPong
<1>5. Answered'
    BY DEF Types, Answered
<1>q. QED BY <1>1, <1>2, <1>3, <1>4, <1>5

LEMMA ExtractDescriptorInv ==
    ASSUME Inv, ExtractDescriptor PROVE Inv'
<1> USE DEF Inv, ExtractDescriptor, Extracted, ghost
<1>1. Types'
    <2>1. rtfr' \in Regs
        BY DEF Types, SenseSet
    <2>q. QED BY <2>1 DEF Types
<1>2. Sends'
    BY DEF Types, Sends, BeforeSend
<1>3. Verdict'
    BY DEF Types, Sends, Verdict, RefusedCall, MalformedCall, AfterSend,
           BeforeSend, Returned
<1>4. NoRequestPingPong'
    BY DEF NoRequestPingPong
<1>5. Answered'
    BY DEF Types, Answered
<1>q. QED BY <1>1, <1>2, <1>3, <1>4, <1>5

LEMMA ExtractFixedUntrustedInv ==
    ASSUME Inv, ExtractFixedUntrusted PROVE Inv'
<1> USE DEF Inv, ExtractFixedUntrusted, Extracted, ghost
<1>1. Types'
    BY DEF Types
<1>2. Sends'
    BY DEF Types, Sends, BeforeSend
<1>3. Verdict'
    BY DEF Types, Sends, Verdict, RefusedCall, MalformedCall, AfterSend,
           BeforeSend, Returned
<1>4. NoRequestPingPong'
    BY DEF NoRequestPingPong
<1>5. Answered'
    BY DEF Types, Answered
<1>q. QED BY <1>1, <1>2, <1>3, <1>4, <1>5

LEMMA ExtractFixedInv ==
    ASSUME Inv, ExtractFixed PROVE Inv'
<1> USE DEF Inv, ExtractFixed, FixedTrusted, Extracted, ghost
<1>0. /\ LowRegs \in Regs /\ LowRegs.st = sense.regs.st
      /\ LowRet \in Rets /\ LowRet \in {ret, "WARN_INCOMPLETE"}
      /\ sense.upper = "known" => LowRet = ret
    BY LowRegsType DEF Types, LowRet
<1>1. Types'
    BY <1>0 DEF Types
<1>2. Sends'
    BY DEF Types, Sends, BeforeSend
<1>3. Verdict'
    BY <1>0 DEF Types, Sends, Verdict, RefusedCall, MalformedCall, AfterSend,
           BeforeSend, Returned
<1>4. NoRequestPingPong'
    BY DEF NoRequestPingPong
<1>5. Answered'
    BY <1>0 DEF Types, Answered
<1>q. QED BY <1>1, <1>2, <1>3, <1>4, <1>5

LEMMA ExtractFixedAskInv ==
    ASSUME Inv, ExtractFixedAsk PROVE Inv'
<1> USE DEF Inv, ExtractFixedAsk, FixedTrusted, Extracted, Nested, ghost
<1>0. /\ LowRegs \in Regs /\ LowRegs.st = sense.regs.st
      /\ LowRet \in Rets /\ LowRet \in {ret, "WARN_INCOMPLETE"}
      /\ sense.upper = "known" => LowRet = ret
    BY LowRegsType DEF Types, LowRet
<1>6. PICK ok \in {FALSE, bridge.respInfo} :
            /\ Nested(ok)
            /\ hacks' = [hacks EXCEPT !.returnResponseInfoSupported = ok]
            /\ rtfr' = IF ok /\ ret' = "SUCCESS" THEN chipRegs ELSE LowRegs
    BY Zenon
<1>7. ok \in BOOLEAN
    BY <1>6 DEF Types, BridgeSet
<1>1. Types'
    <2>1. rtfr' \in Regs
        BY <1>0 DEF Types
    <2>2. slow' \in BOOLEAN
        BY <1>6
    <2>3. hacks' \in HackSet
        BY <1>6, <1>7, HackType, Zenon DEF Types
    <2>q. QED BY <1>0, <2>1, <2>2, <2>3 DEF Types
<1>2. Sends'
    BY DEF Types, Sends, BeforeSend
<1>3. Verdict'
    BY <1>0 DEF Types, Sends, Verdict, RefusedCall, MalformedCall, AfterSend,
           BeforeSend, Returned
<1>4. NoRequestPingPong'
    BY DEF NoRequestPingPong
<1>5. Answered'
    BY <1>0 DEF Types, Answered
<1>q. QED BY <1>1, <1>2, <1>3, <1>4, <1>5

LEMMA ExtractFixedLogInv ==
    ASSUME Inv, ExtractFixedLog PROVE Inv'
<1> USE DEF Inv, ExtractFixedLog, FixedTrusted, Extracted, Nested, ghost
<1>0. /\ LowRegs \in Regs /\ LowRegs.st = sense.regs.st
      /\ LowRet \in Rets /\ LowRet \in {ret, "WARN_INCOMPLETE"}
      /\ sense.upper = "known" => LowRet = ret
    BY LowRegsType DEF Types, LowRet
<1>1. Types'
    <2>1. rtfr' \in Regs
        BY <1>0 DEF Types, SenseSet
    <2>q. QED BY <2>1 DEF Types
<1>2. Sends'
    BY DEF Types, Sends, BeforeSend
<1>3. Verdict'
    BY DEF Types, Sends, Verdict, RefusedCall, MalformedCall, AfterSend,
           BeforeSend, Returned
<1>4. NoRequestPingPong'
    BY DEF NoRequestPingPong
<1>5. Answered'
    BY DEF Types, Answered
<1>q. QED BY <1>1, <1>2, <1>3, <1>4, <1>5

LEMMA ExtractFixedVendorInv ==
    ASSUME Inv, ExtractFixedVendor PROVE Inv'
<1> USE DEF Inv, ExtractFixedVendor, FixedTrusted, Extracted, ghost
<1>1. Types'
    <2>1. rtfr' \in Regs
        BY DEF Types, SenseSet
    <2>q. QED BY <2>1 DEF Types
<1>2. Sends'
    BY DEF Types, Sends, BeforeSend
<1>3. Verdict'
    BY DEF Types, Sends, Verdict, RefusedCall, MalformedCall, AfterSend,
           BeforeSend, Returned
<1>4. NoRequestPingPong'
    BY DEF NoRequestPingPong
<1>5. Answered'
    BY DEF Types, Answered
<1>q. QED BY <1>1, <1>2, <1>3, <1>4, <1>5

LEMMA ExtractTranslateInv ==
    ASSUME Inv, ExtractTranslate PROVE Inv'
<1> USE DEF Inv, ExtractTranslate, RetriesAsDma, Extracted, ghost
<1>0. /\ MadeUp(sense.key) \in Regs
      /\ sense.key = "illegal" => MadeUp(sense.key) = rtfr
    BY MadeUpType DEF Types, SenseSet
<1>1. Types'
    <2>1. rtfr' \in Regs
        BY <1>0 DEF Types
    <2>q. QED BY <2>1 DEF Types
<1>2. Sends'
    BY <1>0 DEF Types, Sends, BeforeSend
<1>3. Verdict'
    BY <1>0 DEF Types, Sends, Verdict, RefusedCall, MalformedCall, AfterSend,
           BeforeSend, Returned
<1>4. NoRequestPingPong'
    BY DEF NoRequestPingPong
<1>5. Answered'
    BY DEF Types, Answered
<1>q. QED BY <1>1, <1>2, <1>3, <1>4, <1>5

----------------------------------------------------------------------------
(* Learning, the follow-up request and the result.                         *)

LEMMA LearnEmptyInv ==
    ASSUME Inv, LearnEmpty PROVE Inv'
<1> DEFINE b == hacks.returnResponseInfoSupported \/ TryRequest(hacks)
           d == hacks.returnResponseInfoNeedsTDIR \/ TryRequest(hacks)
           h == [hacks EXCEPT !.checkConditionEmpty = TRUE,
                              !.returnResponseInfoSupported = b,
                              !.returnResponseInfoNeedsTDIR = d]
<1>1. hacks \in HackSet /\ b \in BOOLEAN /\ d \in BOOLEAN
    BY DEF Inv, Types, HackSet, TryRequest
<1> HIDE DEF b, d
<1>2. /\ h.checkConditionEmpty
      /\ h.byReportedID = hacks.byReportedID
      /\ h.noRTFRsPossible = hacks.noRTFRsPossible
      /\ h.returnResponseInfoSupported = b
    BY <1>1 DEF HackSet
<1>11. h \in HackSet
    BY <1>1, HackType, Zenon
<1>3. hacks' = IF gotRTFRs /\ EmptyRegs(rtfr) THEN h ELSE hacks
    BY DEF LearnEmpty, b, d
<1>4. /\ gotRTFRs /\ rtfr.st = "zero" => hacks'.checkConditionEmpty
      /\ hacks'.byReportedID = hacks.byReportedID
      /\ hacks'.noRTFRsPossible = hacks.noRTFRsPossible
      /\ hacks'.returnResponseInfoSupported
             => hacks.returnResponseInfoSupported \/ TryRequest(hacks)
      /\ hacks' \in HackSet
    BY <1>1, <1>2, <1>3, <1>11 DEF EmptyRegs, b
<1> HIDE DEF h
<1> USE DEF Inv, env, call, ghost
<1>5. /\ pc = "learn" /\ pc' = "request"
      /\ UNCHANGED <<env, dmaMode, call, ghost>>
    BY DEF LearnEmpty
<1>6. Types'
    BY <1>4, <1>5 DEF Types
<1>7. Sends'
    BY <1>5 DEF Types, Sends, BeforeSend
<1>8. Verdict'
    BY <1>4, <1>5 DEF Verdict, RefusedCall, MalformedCall, AfterSend,
           BeforeSend, Returned
<1>9. NoRequestPingPong'
    BY <1>4 DEF NoRequestPingPong, TryRequest
<1>10. Answered'
    BY <1>5 DEF Answered
<1>q. QED BY <1>6, <1>7, <1>8, <1>9, <1>10

LEMMA NoRequestInv ==
    ASSUME Inv, NoRequest PROVE Inv'
<1> USE DEF Inv, NoRequest, env, learned, call, ghost
<1>1. Types'
    BY DEF Types
<1>2. Sends'
    BY DEF Types, Sends, BeforeSend
<1>3. Verdict'
    BY DEF Types, Sends, Verdict, RefusedCall, MalformedCall, AfterSend,
           BeforeSend, Returned
<1>4. NoRequestPingPong'
    BY DEF NoRequestPingPong
<1>5. Answered'
    BY DEF Types, Answered
<1>q. QED BY <1>1, <1>2, <1>3, <1>4, <1>5

LEMMA RequestSucceedsInv ==
    ASSUME Inv, RequestSucceeds PROVE Inv'
<1> USE DEF Inv, RequestSucceeds, MayRequest, Nested, env, learned, ghost
<1>1. Types'
    BY DEF Types
<1>2. Sends'
    BY DEF Types, Sends, BeforeSend
<1>3. Verdict'
    BY DEF Types, Sends, Verdict, RefusedCall, MalformedCall, AfterSend,
           BeforeSend, Returned
<1>4. NoRequestPingPong'
    BY DEF NoRequestPingPong
<1>5. Answered'
    BY DEF Types, Answered
<1>q. QED BY <1>1, <1>2, <1>3, <1>4, <1>5

LEMMA RequestFailsInv ==
    ASSUME Inv, RequestFails PROVE Inv'
<1> USE DEF Inv, RequestFails, MayRequest, Nested, env, ghost
<1>1. Types'
    <2>1. hacks' \in HackSet
        BY HackType DEF Types
    <2>q. QED BY <2>1 DEF Types
<1>2. Sends'
    BY DEF Types, Sends, BeforeSend
<1>3. Verdict'
    BY DEF Types, Sends, Verdict, RefusedCall, MalformedCall, AfterSend,
           BeforeSend, Returned
<1>4. NoRequestPingPong'
    BY DEF NoRequestPingPong
<1>5. Answered'
    BY DEF Types, Answered
<1>q. QED BY <1>1, <1>2, <1>3, <1>4, <1>5

LEMMA EvaluateInv ==
    ASSUME Inv, Evaluate PROVE Inv'
<1> USE DEF Inv, Evaluate, env, learned, ghost
<1>1. Types'
    <2>1. rtfr' \in Regs
        BY RegsType DEF Types
    <2>2. ret' \in Rets
        BY DEF Types, DriveStatus
    <2>3. gotRTFRs' \in BOOLEAN
        BY DEF Types
    <2> HIDE DEF Rets
    <2>q. QED BY <2>1, <2>2, <2>3 DEF Types
<1>2. Sends'
    BY DEF Types, Sends, BeforeSend
<1>3. Verdict'
    BY DEF Types, Sends, Verdict, RefusedCall, MalformedCall, AfterSend,
           BeforeSend, Returned
<1>4. NoRequestPingPong'
    BY DEF NoRequestPingPong
<1>5. Answered'
    BY DEF Types, Answered, DriveStatus
<1>q. QED BY <1>1, <1>2, <1>3, <1>4, <1>5

LEMMA FinishInv ==
    ASSUME Inv, Finish PROVE Inv'
<1> USE DEF Inv, Finish, env, ghost
<1>1. Types'
    BY DEF Types, DmaModeAfter
<1>2. Sends'
    BY DEF Types, Sends, BeforeSend
<1>3. Verdict'
    BY DEF Types, Sends, Verdict, RefusedCall, MalformedCall, AfterSend,
           BeforeSend, Returned
<1>4. NoRequestPingPong'
    BY DEF NoRequestPingPong
<1>5. Answered'
    BY DEF Types, Answered
<1>q. QED BY <1>1, <1>2, <1>3, <1>4, <1>5

LEMMA RetryAsDmaInv ==
    ASSUME Inv, RetryAsDma PROVE Inv'
<1> USE DEF Inv, RetryAsDma, env, learned, ghost
<1>0. DmaCommand \in CommandSet /\ DmaCommand.proto = "DMA"
    BY DEF Types, CommandSet, DmaCommand
<1>1. Types'
    BY <1>0, NothingType DEF Types
<1>2. Sends'
    BY <1>0, NothingType DEF Types, Sends, BeforeSend
<1>3. Verdict'
    BY NothingType DEF Types, Sends, Verdict, RefusedCall, MalformedCall, AfterSend,
           BeforeSend, Returned
<1>4. NoRequestPingPong'
    BY DEF NoRequestPingPong
<1>5. Answered'
    BY DEF Types, Answered
<1>q. QED BY <1>1, <1>2, <1>3, <1>4, <1>5

----------------------------------------------------------------------------
(* The invariant holds of every behaviour.                                 *)

LEMMA NextInv ==
    ASSUME Inv, [Next]_vars PROVE Inv'
<1>1. CASE UNCHANGED vars
    BY <1>1 DEF vars, env, learned, call, ghost, Inv, Types, Sends, Verdict,
                Answered, RefusedCall, MalformedCall, BeforeSend, AfterSend,
                Returned, NoRequestPingPong
<1>2. ASSUME NEW c \in Commands, Issue(c) PROVE Inv'
    BY <1>2, IssueInv
<1>3. CASE Engine
    BY <1>3, BuildInv, BlockInv, SendInv, SendRefusedInv, SendLostInv,
       ExtractWorkaroundInv, ExtractDescriptorInv, ExtractFixedUntrustedInv,
       ExtractFixedInv, ExtractFixedAskInv, ExtractFixedLogInv,
       ExtractFixedVendorInv, ExtractTranslateInv, LearnEmptyInv,
       NoRequestInv, RequestSucceedsInv, RequestFailsInv, EvaluateInv,
       FinishInv, RetryAsDmaInv DEF Engine
<1>q. QED BY <1>1, <1>2, <1>3 DEF Next

THEOREM Invariance == Spec => []Inv
<1>1. Init => Inv
    BY InitInv
<1>2. Inv /\ [Next]_vars => Inv'
    BY NextInv
<1>q. QED BY <1>1, <1>2, PTL DEF Spec

(* Every variable keeps its type; in particular a call of the engine sends *)
(* its command at most twice, the second time for the one DMA retry.       *)
THEOREM TypeCorrect == Spec => []TypeOK
<1>1. Inv => TypeOK
    BY DEF Inv, Types, TypeOK
<1>q. QED BY <1>1, Invariance, PTL

(* Over any sequence of commands the engine never turns the return         *)
(* response request on again after it failed on a bridge without the check *)
(* condition bit.                                                          *)
THEOREM NoPingPong == Spec => []NoRequestPingPong
<1>1. Inv => NoRequestPingPong
    BY DEF Inv
<1>q. QED BY <1>1, Invariance, PTL

----------------------------------------------------------------------------
(* The engine implements the at-most-once service.                         *)

LEMMA InitRefines == Init => Once!Init
BY DEF Init, Once!Init, Returned

LEMMA StepRefines ==
    ASSUME Inv, Inv', [Next]_vars PROVE [Once!Next]_(Once!vars)
<1> USE DEF Once!vars, Returned
<1>1. CASE UNCHANGED vars
    BY <1>1 DEF vars, env, learned, call, ghost
<1>2. ASSUME NEW c \in Commands, Issue(c) PROVE Once!Submit
    BY <1>2 DEF Issue, Once!Submit
<1>3. CASE Block
    BY <1>3 DEF Block, ghost, Once!Next, Once!Return
<1>4. CASE Send
    <2>1. executed = 0 /\ executed' = 1
        BY <1>4, CountSent DEF Send
    <2>q. QED BY <1>4, <2>1 DEF Send, Sending, Once!Next, Once!Execute
<1>5. CASE SendLost
    <2>1. executed' \in {executed, 1}
        BY <1>5, CountSent DEF SendLost
    <2>q. QED BY <1>5, <2>1 DEF SendLost, Sending, Once!Next, Once!Lose
<1>6. CASE Finish
    <2>1. ret # "UNKNOWN" /\ ret' # "UNKNOWN"
        BY <1>6 DEF Finish, Inv, Answered
    <2>2. ret' = "SUCCESS" => executed' = 1 \/ lost'
        BY <1>6, <2>1 DEF Finish, Inv, Verdict
    <2>q. QED BY <1>6, <2>1, <2>2 DEF Finish, ghost, Once!Next, Once!Return
<1>7. CASE Build \/ SendRefused \/ RetryAsDma
    BY <1>7 DEF Build, SendRefused, Sending, RetryAsDma, ghost
<1>8. CASE \/ ExtractWorkaround \/ ExtractDescriptor \/ ExtractFixedUntrusted
           \/ ExtractFixed \/ ExtractFixedAsk \/ ExtractFixedLog
           \/ ExtractFixedVendor \/ ExtractTranslate
    BY <1>8 DEF ExtractWorkaround, ExtractDescriptor, ExtractFixedUntrusted,
           ExtractFixed, ExtractFixedAsk, ExtractFixedLog, ExtractFixedVendor,
           ExtractTranslate, FixedTrusted, Extracted, ghost
<1>9. CASE LearnEmpty \/ NoRequest \/ RequestSucceeds \/ RequestFails \/ Evaluate
    BY <1>9 DEF LearnEmpty, NoRequest, RequestSucceeds, RequestFails, Evaluate,
           call, ghost
<1>q. QED BY <1>1, <1>2, <1>3, <1>4, <1>5, <1>6, <1>7, <1>8, <1>9
          DEF Next, Engine, Once!Next

(* Whatever the bridge does, the drive executes a command at most once per *)
(* call, and SUCCESS is only reported for a command it executed or that    *)
(* the operating system lost.                                              *)
THEOREM Refinement == Spec => ImplementsOnce
<1>1. Init => Once!Init
    BY InitRefines
<1>2. Inv /\ Inv' /\ [Next]_vars => [Once!Next]_(Once!vars)
    BY StepRefines
<1>q. QED BY <1>1, <1>2, Invariance, PTL DEF Spec, Once!Spec, ImplementsOnce
----------------------------------------------------------------------------
(* What SUCCESS and the registers of a call are worth.                     *)
(*                                                                         *)
(* A second inductive invariant, Truth, on top of Inv.  It follows what    *)
(* the call knows of the drive's own result from the moment the command    *)
(* was sent: which sense data stand for which registers (Completed), that  *)
(* a lost command ends in a failure (LostCall), where a SUCCESS or the     *)
(* registers of the phases in between can come from (SuccessSource,        *)
(* RegsSource), what is claimed at the end (Claim), and what a retry as    *)
(* DMA is blamed on (Blame).                                               *)

(* The registers this command ended with, as far as callers rely on them.  *)
AreThis(r) == r.of = "this" /\ r.st = real.st /\ r.er = real.er

(* Where the extended registers are not those of this command, the result  *)
(* says so already, or the results log was not read.                       *)
ExtKnown == rtfr.ext = real.ext \/ ret = "WARN_INCOMPLETE" \/ LogUnread

Completed ==
    AfterSend /\ executed = 1 /\ ~lost =>
        /\ real.st \in {"ready", "readyErr", "fault"} /\ real.of = "this"
        /\ real.st = "readyErr" => real.er # "zero"
        /\ chipRegs = real
        /\ sense.form = "none" => real.st = "ready"
        /\ sense.regs = real \/ sense.regs.st = "zero"
        /\ sense.form = "fixed" /\ sense.upper = "known" /\ sense.regs = real
              => real.ext = "zero"

LostCall ==
    /\ BeforeSend => ~lost
    /\ timedOut => lost
    /\ AfterSend /\ lost => sense.form = "none"
    /\ AfterSend /\ lost /\ ~timedOut =>
           /\ ret \in {"OS_PASSTHROUGH_FAILURE", "WARN_INCOMPLETE"} /\ ~gotRTFRs
           /\ pc # "finish" => ret = "OS_PASSTHROUGH_FAILURE"

SuccessSource ==
    pc \in {"extract", "learn", "request", "evaluate"} /\ ret = "SUCCESS" =>
        \/ sense.form = "none"
        \/ gotRTFRs /\ sense.form = "fixed" /\ sense.upper \in {"log", "vendor"}

RegsSource ==
    pc \in {"learn", "request", "evaluate"} /\ gotRTFRs /\ ~timedOut =>
        \/ executed = 1 /\ AreThis(rtfr) /\ ExtKnown
        \/ /\ rtfr.st = "zero" /\ sense.form # "none"
           /\ pc # "learn" => hacks.checkConditionEmpty

Claim ==
    pc \in {"finish", "idle"} /\ ret = "SUCCESS" /\ ~timedOut =>
        /\ real.st = "ready" \/ DroppedAfterSuccess
        /\ cmd.needRTFRs => AreThis(rtfr) /\ (rtfr.ext = real.ext \/ LogUnread)

(* The bridge refuses the UDMA protocol value, or the check condition bit, *)
(* which the retry then has as well.                                       *)
Refusal == ~bridge.udma \/ (CheckConditionBit(cmd, hacks) /\ bridge.ck = "refused")

Blame ==
    /\ pc = "guard" => ckBit = CheckConditionBit(cmd, hacks)
    /\ pc = "extract" /\ sense.key = "illegal" => Refusal
    /\ dmaRetry => Refusal
    /\ retrying /\ BeforeSend => Refusal
    /\ retrying /\ AfterSend => ~bridge.udma \/ executed = 0 \/ timedOut

Truth == Completed /\ LostCall /\ SuccessSource /\ RegsSource /\ Claim /\ Blame

(* What the bridge tells of a drive outcome: no sense data stands for no   *)
(* error, registers in it are those of the outcome or empty.               *)
LEMMA SenseForTruth ==
    ASSUME bridge \in BridgeSet, NEW r \in DriveOutcomes(cmd)
    PROVE  /\ r.st \in {"ready", "readyErr", "fault"} /\ r.of = "this"
           /\ r.st = "readyErr" => r.er # "zero"
           /\ SenseFor(r).form = "none" => r.st = "ready"
           /\ SenseFor(r).regs = r \/ SenseFor(r).regs.st = "zero"
           /\ SenseFor(r).key = "none" => SenseFor(r).form = "none"
           /\ SenseFor(r).form = "fixed" /\ SenseFor(r).upper = "known"
                 /\ SenseFor(r).regs = r => r.ext = "zero"
<1>1. /\ r.st \in {"ready", "readyErr", "fault"} /\ r.of = "this"
      /\ r.ext \in {"zero", "value"}
      /\ r.st = "readyErr" => r.er # "zero"
      /\ Failed(r) <=> r.st # "ready"
    BY DEF DriveOutcomes, Failed
<1>2. ErrorKey(r) # "none"
    BY DEF ErrorKey
<1>3. ZeroRegs.st = "zero" /\ [ZeroRegs EXCEPT !.of = "this"].st = "zero"
    BY DEF ZeroRegs
<1>4. ASSUME NEW form, NEW q, NEW key
      PROVE  /\ Reported(form, q, key).form = form
             /\ Reported(form, q, key).regs = q
             /\ Reported(form, q, key).key = key
             /\ form = "fixed" /\ q.ext = "value"
                   => Reported(form, q, key).upper = bridge.upper
    BY DEF Reported
<1>5. /\ bridge.upper # "known"
      /\ bridge.err \in {"descriptor", "fixed", "key", "unaligned"}
      /\ bridge.ck \in {"descriptor", "fixed", "ignored", "empty", "refused"}
    BY DEF BridgeSet
<1>6. CASE Failed(r) /\ ~(ckBit /\ bridge.ck \in {"descriptor", "fixed", "empty"})
    <2>1. CASE bridge.err = "descriptor"
        BY <1>1, <1>2, <1>4, <1>6, <2>1 DEF SenseFor
    <2>2. CASE bridge.err = "fixed"
        <3>1. SenseFor(r) = Reported("fixed", r, ErrorKey(r))
            BY <1>6, <2>2 DEF SenseFor
        <3>2. SenseFor(r).upper = "known" => r.ext = "zero"
            BY <1>1, <1>4, <1>5, <3>1
        <3>q. QED BY <1>1, <1>2, <1>4, <3>1, <3>2
    <2>3. CASE bridge.err = "key"
        <3>1. SenseFor(r) = [Reported("descriptor", r, ErrorKey(r)) EXCEPT !.ata = FALSE]
            BY <1>6, <2>3 DEF SenseFor
        <3>2. /\ SenseFor(r).form = "descriptor"
              /\ SenseFor(r).regs = r
              /\ SenseFor(r).key = ErrorKey(r)
            BY <3>1 DEF Reported
        <3>q. QED BY <1>1, <1>2, <3>2
    <2>4. CASE bridge.err = "unaligned"
        <3>1. SenseFor(r) = [Reported("fixed", ZeroRegs, "unaligned")
                                EXCEPT !.countSeen = cmd.count]
            BY <1>6, <2>4 DEF SenseFor
        <3>2. /\ SenseFor(r).form = "fixed"
              /\ SenseFor(r).regs = ZeroRegs
              /\ SenseFor(r).key = "unaligned"
            BY <3>1 DEF Reported
        <3>q. QED BY <1>1, <1>3, <3>2
    <2>q. QED BY <1>5, <2>1, <2>2, <2>3, <2>4
<1>7. CASE ~(Failed(r) /\ ~(ckBit /\ bridge.ck \in {"descriptor", "fixed", "empty"}))
    <2>1. CASE ~ckBit \/ bridge.ck = "ignored"
        <3>1. SenseFor(r) = NoSense /\ ~Failed(r)
            BY <1>7, <2>1 DEF SenseFor
        <3>q. QED BY <1>1, <1>3, <3>1 DEF NoSense
    <2>2. CASE ckBit /\ bridge.ck = "descriptor"
        BY <1>1, <1>2, <1>4, <1>7, <2>2 DEF SenseFor
    <2>3. CASE ckBit /\ bridge.ck = "fixed"
        <3>1. SenseFor(r) = Reported("fixed", r, ErrorKey(r))
            BY <1>7, <2>3 DEF SenseFor
        <3>2. SenseFor(r).upper = "known" => r.ext = "zero"
            BY <1>1, <1>4, <1>5, <3>1
        <3>q. QED BY <1>1, <1>2, <1>4, <3>1, <3>2
    <2>4. CASE ckBit /\ bridge.ck \in {"empty", "refused"}
        <3>1. SenseFor(r) = Reported("descriptor", [ZeroRegs EXCEPT !.of = "this"],
                                     ErrorKey(r))
            BY <1>7, <2>4 DEF SenseFor
        <3>2. /\ SenseFor(r).form = "descriptor"
              /\ SenseFor(r).regs = [ZeroRegs EXCEPT !.of = "this"]
              /\ SenseFor(r).key = ErrorKey(r)
            BY <3>1, <1>4
        <3>q. QED BY <1>1, <1>2, <1>3, <3>2
    <2>q. QED BY <1>5, <2>1, <2>2, <2>3, <2>4
<1>q. QED BY <1>6, <1>7

(* Nothing is claimed before the first call, and a new call claims nothing. *)
LEMMA InitTruth == Init => Truth
BY DEF Init, Truth, Completed, LostCall, SuccessSource, RegsSource, Claim, Blame,
       AfterSend, BeforeSend, NoSense

(* A new call claims nothing yet.                                          *)
LEMMA IssueTruth ==
    ASSUME Inv, Truth, NEW c \in Commands, Issue(c) PROVE Truth'
BY DEF Issue, Truth, Completed, LostCall, SuccessSource, RegsSource, Claim, Blame,
       AfterSend, BeforeSend

(* The CDB is built once per attempt, with the bit CheckConditionBit says. *)
LEMMA BuildTruth ==
    ASSUME Inv, Truth, Build PROVE Truth'
<1>1. /\ pc = "build" /\ pc' \in {"guard", "finish"} /\ executed = 0 /\ ~lost /\ ~timedOut
      /\ ckBit' = CheckConditionBit(cmd, hacks)
      /\ pc' = "finish" => ret' = "BAD_PARAMETER"
      /\ UNCHANGED <<env, learned, cmd, sense, rtfr, gotRTFRs, dmaRetry, retrying, ghost>>
    BY DEF Build, Inv, Sends, BeforeSend, Truth, LostCall
<1>2. Completed' /\ LostCall' /\ SuccessSource' /\ RegsSource' /\ Claim'
    BY <1>1 DEF Completed, LostCall, SuccessSource, RegsSource, Claim, AfterSend,
           BeforeSend, ghost
<1>3. Refusal' = Refusal /\ CheckConditionBit(cmd, hacks)' = CheckConditionBit(cmd, hacks)
    BY <1>1 DEF env, learned, Refusal, CheckConditionBit
<1>4. Blame'
    BY <1>1, <1>3 DEF Truth, Blame, BeforeSend, AfterSend, ghost
<1>q. QED BY <1>2, <1>4 DEF Truth

(* A command the register test blocks ends without SUCCESS.                *)
LEMMA BlockTruth ==
    ASSUME Inv, Truth, Block PROVE Truth'
BY DEF Block, env, learned, ghost, Truth, Completed, LostCall, SuccessSource, RegsSource,
       Claim, Blame, Refusal, CheckConditionBit, AfterSend, BeforeSend

(* The three ways a command can go.                                        *)
LEMMA SendTruth ==
    ASSUME Inv, Truth, Send PROVE Truth'
<1>1. PICK r \in DriveOutcomes(cmd) :
            /\ real' = r /\ chipRegs' = r
            /\ sense' = SenseFor(r) /\ ret' = SenseRet(SenseFor(r).key)
    BY DEF Send
<1>2. /\ pc = "guard" /\ pc' = "extract" /\ executed' = 1 /\ ~lost /\ ~timedOut
      /\ UNCHANGED <<bridge, hacks, cmd, ckBit, gotRTFRs, dmaRetry, retrying, lost, timedOut>>
      /\ ~Refuses /\ ~dmaRetry
    BY CountSent DEF Send, Sending, learned, Truth, LostCall, BeforeSend
<1>3. SenseFor(r) \in Answer /\ bridge \in BridgeSet
    BY SenseForType DEF Inv, Types
<1>4. sense'.key # "illegal" /\ (ret' = "SUCCESS" => sense'.form = "none")
    BY <1>1, <1>3, SenseForTruth DEF Answer, SenseSet, SenseRet
<1>5. Completed'
    BY <1>1, <1>3, SenseForTruth DEF Completed
<1>6. LostCall' /\ SuccessSource' /\ RegsSource' /\ Claim'
    BY <1>2, <1>4 DEF LostCall, SuccessSource, RegsSource, Claim, AfterSend, BeforeSend
<1>7. retrying => ~bridge.udma
    BY <1>2 DEF Truth, Blame, Refusal, BeforeSend, Refuses
<1>8. Blame'
    BY <1>2, <1>4, <1>7 DEF Blame, BeforeSend, AfterSend
<1>q. QED BY <1>5, <1>6, <1>8 DEF Truth

(* The bridge refuses: the sense key says so and the refusal has a cause.  *)
LEMMA SendRefusedTruth ==
    ASSUME Inv, Truth, SendRefused PROVE Truth'
<1>1. /\ pc = "guard" /\ pc' = "extract" /\ executed' = 0 /\ ~lost /\ ~timedOut
      /\ UNCHANGED <<bridge, hacks, cmd, ckBit, gotRTFRs, dmaRetry, retrying, lost, timedOut>>
      /\ Refuses /\ ret' = "NOT_SUPPORTED" /\ ~dmaRetry /\ cmd \in CommandSet
      /\ executed' = executed
    BY CountSent DEF SendRefused, Sending, learned, Truth, LostCall, BeforeSend, Inv, Types
<1>2. Completed' /\ LostCall' /\ SuccessSource' /\ RegsSource' /\ Claim'
    BY <1>1 DEF Completed, LostCall, SuccessSource, RegsSource, Claim, AfterSend, BeforeSend
<1>3. Refusal'
    BY <1>1 DEF Truth, Blame, Refusal, Refuses, CheckConditionBit
<1>4. Blame'
    BY <1>1, <1>3 DEF Blame, BeforeSend, AfterSend
<1>q. QED BY <1>2, <1>4 DEF Truth

(* The system fails the command: no sense data, and no success either.     *)
LEMMA SendLostTruth ==
    ASSUME Inv, Truth, SendLost PROVE Truth'
<1>1. /\ pc = "guard" /\ pc' = "extract" /\ lost' /\ ~dmaRetry /\ ~gotRTFRs /\ executed = 0
      /\ UNCHANGED <<bridge, hacks, cmd, ckBit, gotRTFRs, dmaRetry, retrying>>
      /\ sense'.form = "none" /\ sense'.key = "none"
      /\ \/ ret' = "OS_PASSTHROUGH_FAILURE" /\ executed' = executed
         \/ ret' = "OS_COMMAND_TIMEOUT" /\ timedOut'
    BY CountSent, NothingType DEF SendLost, Sending, learned
<1>2. Completed' /\ LostCall' /\ SuccessSource' /\ RegsSource' /\ Claim'
    BY <1>1 DEF Completed, LostCall, SuccessSource, RegsSource, Claim, AfterSend, BeforeSend
<1>3. Blame'
    BY <1>1 DEF Blame, BeforeSend, AfterSend
<1>q. QED BY <1>2, <1>3 DEF Truth

----------------------------------------------------------------------------
(* A call with sense data was not lost, has no SUCCESS yet, and the        *)
(* registers in the sense data are this command's or empty.                *)
LEMMA WithSense ==
    ASSUME Inv, Truth, pc = "extract", sense.form # "none"
    PROVE  /\ ~lost /\ ~timedOut /\ ret # "SUCCESS" /\ ~dmaRetry /\ ~gotRTFRs
           /\ rtfr.st = "zero"
           /\ \/ /\ executed = 1 /\ AreThis(sense.regs) /\ sense.regs.ext = real.ext
                 /\ sense.form = "fixed" /\ sense.upper = "known" => real.ext = "zero"
              \/ sense.regs.st = "zero"
<1>1. /\ ~lost /\ ~timedOut /\ ~dmaRetry /\ ~gotRTFRs /\ rtfr.st = "zero"
      /\ executed \in 0..1
    BY DEF Truth, LostCall, AfterSend, Inv, Sends, Types
<1>2. ret # "SUCCESS"
    BY <1>1 DEF Truth, SuccessSource
<1>3. executed = 1 \/ sense.regs.st = "zero"
    BY <1>1 DEF Inv, Verdict, AfterSend, RefusedCall, MalformedCall
<1>4. executed = 1 =>
        \/ /\ AreThis(sense.regs) /\ sense.regs.ext = real.ext
           /\ sense.form = "fixed" /\ sense.upper = "known" => real.ext = "zero"
        \/ sense.regs.st = "zero"
    BY <1>1 DEF Truth, Completed, AfterSend, AreThis
<1>q. QED BY <1>1, <1>2, <1>3, <1>4

(* What an extraction has to show: the sense data have been looked at, so  *)
(* only the new registers and the new result matter.                       *)
LEMMA ExtractedTruth ==
    ASSUME Inv, Truth, pc = "extract", Extracted,
           lost => ret' = ret /\ ~gotRTFRs',
           ret' = "SUCCESS" =>
               \/ sense.form = "none"
               \/ gotRTFRs' /\ sense.form = "fixed" /\ sense.upper \in {"log", "vendor"},
           gotRTFRs' /\ ~timedOut =>
               \/ executed = 1 /\ AreThis(rtfr') /\ ExtKnown'
               \/ rtfr'.st = "zero" /\ sense.form # "none",
           dmaRetry' => sense.key = "illegal" /\ hacks' = hacks
    PROVE  Truth'
<1>1. /\ pc' = "learn" /\ real' = real
      /\ UNCHANGED <<bridge, chipRegs, cmd, sense, retrying, lost, timedOut, executed>>
    BY DEF Extracted, ghost
<1>2. Completed' /\ LostCall'
    BY <1>1 DEF Truth, Completed, LostCall, AfterSend, BeforeSend
<1>3. SuccessSource' /\ RegsSource' /\ Claim'
    BY <1>1 DEF SuccessSource, RegsSource, Claim, AreThis
<1>4. dmaRetry' => Refusal'
    BY <1>1 DEF Truth, Blame, Refusal, CheckConditionBit
<1>5. Blame'
    BY <1>1, <1>4 DEF Truth, Blame, BeforeSend, AfterSend
<1>q. QED BY <1>2, <1>3, <1>5 DEF Truth

(* Dropping the upper halves leaves status and error alone.                *)
LEMMA LowRegsTruth ==
    ASSUME sense \in SenseSet
    PROVE  /\ LowRegs.st = sense.regs.st
           /\ AreThis(sense.regs) => AreThis(LowRegs)
           /\ LowRegs.ext = IF sense.upper = "known" THEN "zero" ELSE "placeholder"
BY DEF LowRegs, SenseSet, Regs, AreThis

(* Every source of registers keeps the claim.                              *)
LEMMA ExtractTruth ==
    ASSUME Inv, Truth,
           \/ ExtractWorkaround \/ ExtractDescriptor \/ ExtractFixedUntrusted
           \/ ExtractFixed \/ ExtractFixedAsk \/ ExtractFixedLog
           \/ ExtractFixedVendor \/ ExtractTranslate
    PROVE  Truth'
<1> USE DEF FixedTrusted, WorkaroundApplies
<1>0. sense \in SenseSet
    BY DEF Inv, Types
<1>1. CASE ExtractWorkaround
    BY <1>1, WithSense, ExtractedTruth DEF ExtractWorkaround
<1>2. CASE ExtractDescriptor
    BY <1>2, WithSense, ExtractedTruth DEF ExtractDescriptor, Extracted, ghost, ExtKnown
<1>3. CASE ExtractFixedUntrusted
    BY <1>3, WithSense, ExtractedTruth DEF ExtractFixedUntrusted
<1>4. CASE ExtractFixed
    <2>1. /\ pc = "extract" /\ Extracted /\ sense.form = "fixed" /\ rtfr' = LowRegs
          /\ ret' \in {ret, "WARN_INCOMPLETE"} /\ dmaRetry' = dmaRetry
          /\ sense.upper # "known" => ret' = "WARN_INCOMPLETE"
        BY <1>4 DEF ExtractFixed, LowRet
    <2>2. ExtKnown' \/ sense.regs.st = "zero"
        BY <2>1, LowRegsTruth, WithSense, <1>0 DEF ExtKnown, Extracted, ghost
    <2>q. QED BY <1>0, <2>1, <2>2, LowRegsTruth, WithSense, ExtractedTruth
<1>5. CASE ExtractFixedAsk
    <2>1. /\ pc = "extract" /\ Extracted /\ sense.form = "fixed"
          /\ ret' \in {ret, "WARN_INCOMPLETE"} /\ dmaRetry' = dmaRetry
          /\ ret' # "SUCCESS" => rtfr' = LowRegs
          /\ sense.upper # "known" => ret' = "WARN_INCOMPLETE"
        BY <1>5 DEF ExtractFixedAsk, LowRet
    <2>2. rtfr' = LowRegs
        BY <2>1, WithSense
    <2>3. ExtKnown' \/ sense.regs.st = "zero"
        BY <2>1, <2>2, LowRegsTruth, WithSense, <1>0 DEF ExtKnown, Extracted, ghost
    <2>q. QED BY <1>0, <2>1, <2>2, <2>3, LowRegsTruth, WithSense, ExtractedTruth
<1>6. CASE ExtractFixedLog
    <2>1. /\ pc = "extract" /\ Extracted /\ sense.form = "fixed" /\ sense.upper = "log"
          /\ gotRTFRs' /\ rtfr' \in {LowRegs, sense.regs} /\ dmaRetry' = dmaRetry
        BY <1>6 DEF ExtractFixedLog
    <2>2. ExtKnown' \/ sense.regs.st = "zero"
        BY <2>1, LowRegsTruth, WithSense, <1>0 DEF ExtKnown, LogUnread, Extracted, ghost
    <2>q. QED BY <1>0, <2>1, <2>2, LowRegsTruth, WithSense, ExtractedTruth
<1>7. CASE ExtractFixedVendor
    BY <1>7, WithSense, ExtractedTruth DEF ExtractFixedVendor, Extracted, ghost, ExtKnown
<1>8. CASE ExtractTranslate
    <2>1. /\ pc = "extract" /\ Extracted /\ ret' = ret /\ ~gotRTFRs' /\ hacks' = hacks
          /\ dmaRetry' => sense.key = "illegal"
        BY <1>8 DEF ExtractTranslate, RetriesAsDma, Inv, Sends
    <2>2. ret = "SUCCESS" => sense.form = "none"
        BY <2>1, WithSense
    <2>q. QED BY <2>1, <2>2, ExtractedTruth
<1>q. QED BY <1>1, <1>2, <1>3, <1>4, <1>5, <1>6, <1>7, <1>8

----------------------------------------------------------------------------
(* Empty registers are remembered before the result is made of them.       *)
LEMMA LearnEmptyTruth ==
    ASSUME Inv, Truth, LearnEmpty PROVE Truth'
<1>1. /\ pc = "learn" /\ pc' = "request"
      /\ UNCHANGED <<env, dmaMode, call, ghost>>
      /\ ~gotRTFRs => hacks' = hacks
    BY DEF LearnEmpty
<1>2. gotRTFRs /\ rtfr.st = "zero" => hacks'.checkConditionEmpty
    <2>1. hacks \in HackSet
        BY DEF Inv, Types
    <2>q. QED BY <2>1 DEF LearnEmpty, EmptyRegs, HackSet
<1>3. Completed' /\ LostCall' /\ SuccessSource' /\ RegsSource' /\ Claim'
    BY <1>1, <1>2 DEF env, call, ghost, Truth, Completed, LostCall, SuccessSource,
           RegsSource, Claim, AfterSend, BeforeSend, AreThis, ExtKnown, LogUnread
<1>4. dmaRetry => ~gotRTFRs
    BY DEF Inv, Sends
<1>5. Blame'
    BY <1>1, <1>4 DEF env, call, ghost, Truth, Blame, Refusal, CheckConditionBit,
           AfterSend, BeforeSend
<1>q. QED BY <1>3, <1>5 DEF Truth

(* A follow-up request asks for the registers of the command it follows.   *)
LEMMA RequestTruth ==
    ASSUME Inv, Truth, NoRequest \/ RequestSucceeds \/ RequestFails PROVE Truth'
<1>1. /\ pc = "request" /\ pc' = "evaluate"
      /\ UNCHANGED <<bridge, chipRegs, cmd, sense, ret, dmaRetry, retrying, ghost>>
    BY DEF NoRequest, RequestSucceeds, RequestFails, env, learned, call
<1>2. Completed' /\ Claim'
    BY <1>1 DEF ghost, Truth, Completed, Claim, AfterSend
<1>3. CASE NoRequest
    <2>1. UNCHANGED <<env, learned, call, ghost>>
        BY <1>3 DEF NoRequest
    <2>q. QED BY <1>1, <1>2, <2>1 DEF env, learned, call, ghost, Truth, LostCall,
              SuccessSource, RegsSource, Blame, Refusal, CheckConditionBit, AfterSend,
              BeforeSend, AreThis, ExtKnown, LogUnread
<1>4. CASE MayRequest
    <2>1. /\ sense.form = "none" /\ ret # "OS_PASSTHROUGH_FAILURE"
        BY <1>4 DEF MayRequest
    <2>2. timedOut \/ ~lost
        BY <1>1, <2>1 DEF Truth, LostCall, AfterSend
    <2>3. timedOut \/ executed = 1
        BY <1>1, <2>1, <2>2 DEF Inv, Verdict, AfterSend, RefusedCall, MalformedCall
    <2>4. timedOut \/ (AreThis(chipRegs) /\ chipRegs.ext = real.ext)
        BY <1>1, <2>2, <2>3 DEF Truth, Completed, AfterSend, AreThis
    <2>5. ~dmaRetry
        BY <2>1 DEF Inv, Sends
    <2>6. \/ gotRTFRs' = gotRTFRs /\ rtfr' = rtfr
          \/ gotRTFRs' /\ rtfr' = chipRegs
        BY <1>4 DEF NoRequest, RequestSucceeds, RequestFails
    <2>7. LostCall' /\ SuccessSource'
        BY <1>1, <2>1, <2>2 DEF ghost, Truth, LostCall, SuccessSource, AfterSend,
               BeforeSend
    <2>8. RegsSource'
        BY <1>1, <2>1, <2>2, <2>3, <2>4, <2>6 DEF ghost, Truth, RegsSource, AreThis,
               ExtKnown, LogUnread
    <2>9. Blame'
        BY <1>1, <2>5 DEF ghost, Truth, Blame, AfterSend, BeforeSend
    <2>q. QED BY <1>2, <2>7, <2>8, <2>9 DEF Truth
<1>q. QED BY <1>3, <1>4 DEF RequestSucceeds, RequestFails

(* The result: by registers that are this command's, or without any, which *)
(* is a failure for callers that need them.                                *)
LEMMA EvaluateTruth ==
    ASSUME Inv, Truth, Evaluate PROVE Truth'
<1> DEFINE keeps == gotRTFRs /\ ~(hacks.checkConditionEmpty /\ sense.form # "none")
           r == IF ~keeps /\ cmd.needRTFRs THEN "WARN_INCOMPLETE" ELSE ret
<1>1. /\ pc = "evaluate" /\ pc' = "finish" /\ gotRTFRs' = keeps
      /\ ret' = IF keeps /\ r # "WARN_INCOMPLETE" THEN DriveStatus(rtfr) ELSE r
      /\ rtfr' = IF keeps /\ rtfr.st = "zero" THEN [rtfr EXCEPT !.st = "ready"] ELSE rtfr
      /\ UNCHANGED <<env, learned, cmd, ckBit, sense, dmaRetry, retrying, slow, ghost>>
      /\ gotRTFRs \in BOOLEAN
    BY DEF Evaluate, Inv, Types
<1>2. Completed' /\ SuccessSource' /\ RegsSource' /\ Blame'
    BY <1>1 DEF env, learned, ghost, Truth, Completed, SuccessSource, RegsSource, Blame,
           Refusal, CheckConditionBit, AfterSend, BeforeSend
<1>3. LostCall'
    BY <1>1 DEF env, learned, ghost, Truth, LostCall, AfterSend, BeforeSend
<1>4. ASSUME ret' = "SUCCESS", ~timedOut
      PROVE  /\ real.st = "ready" \/ DroppedAfterSuccess
             /\ cmd.needRTFRs => AreThis(rtfr') /\ (rtfr'.ext = real.ext \/ LogUnread')
    <2>1. CASE keeps
        <3>1. ~lost /\ executed = 1 /\ AreThis(rtfr) /\ ExtKnown
            BY <1>1, <1>4, <2>1 DEF Truth, RegsSource, LostCall, AfterSend
        <3>2. /\ real.st \in {"ready", "readyErr", "fault"}
              /\ real.st = "readyErr" => real.er # "zero"
            BY <1>1, <3>1 DEF Truth, Completed, AfterSend
        <3>3. DriveStatus(rtfr) = "SUCCESS"
            BY <1>1, <1>4, <2>1
        <3>4. rtfr.st = "ready"
            BY <3>1, <3>2, <3>3 DEF DriveStatus, AreThis
        <3>5. ret # "WARN_INCOMPLETE"
            BY <1>1, <1>4, <2>1
        <3>q. QED BY <1>1, <3>1, <3>4, <3>5 DEF AreThis, ExtKnown, LogUnread
    <2>2. CASE ~keeps
        <3>1. ~cmd.needRTFRs /\ ret = "SUCCESS"
            BY <1>1, <1>4, <2>2
        <3>2. ~lost
            BY <1>1, <1>4, <3>1 DEF Truth, LostCall, AfterSend
        <3>3. executed = 1
            BY <1>1, <3>1, <3>2 DEF Inv, Verdict, AfterSend, RefusedCall, MalformedCall
        <3>4. CASE sense.form = "none"
            BY <1>1, <3>1, <3>2, <3>3, <3>4 DEF Truth, Completed, AfterSend
        <3>5. CASE gotRTFRs /\ sense.form = "fixed" /\ sense.upper \in {"log", "vendor"}
            BY <2>2, <3>1, <3>5 DEF DroppedAfterSuccess
        <3>q. QED BY <1>1, <3>1, <3>4, <3>5 DEF Truth, SuccessSource
    <2>q. QED BY <2>1, <2>2
<1>5. Claim'
    BY <1>1, <1>4 DEF env, learned, ghost, Claim, DroppedAfterSuccess, AreThis, LogUnread
<1>q. QED BY <1>2, <1>3, <1>5 DEF Truth

(* Leaving the call changes the result to a timeout at most.               *)
LEMMA FinishTruth ==
    ASSUME Inv, Truth, Finish PROVE Truth'
<1>1. /\ pc = "finish" /\ pc' = "idle" /\ (ret' = "SUCCESS" => ret = "SUCCESS") /\ ~dmaRetry
      /\ UNCHANGED <<env, hacks, cmd, ckBit, sense, rtfr, gotRTFRs, dmaRetry, retrying,
                     slow, ghost>>
    BY DEF Finish
<1>q. QED BY <1>1 DEF env, ghost, Truth, Completed, LostCall, SuccessSource, RegsSource,
          Claim, Blame, DroppedAfterSuccess, AreThis, LogUnread, AfterSend, BeforeSend

(* The retry is of a refused command, with nothing learned in between.     *)
LEMMA RetryAsDmaTruth ==
    ASSUME Inv, Truth, RetryAsDma PROVE Truth'
<1>1. /\ pc = "finish" /\ pc' = "build" /\ dmaRetry /\ ~dmaRetry' /\ cmd' = DmaCommand
      /\ UNCHANGED <<env, learned, ckBit, rtfr, slow, ghost>>
    BY DEF RetryAsDma
<1>2. /\ cmd.proto = "UDMA" /\ sense.form # "none" /\ cmd \in CommandSet
    BY <1>1 DEF Inv, Sends, Types
<1>3. ~lost
    BY <1>1, <1>2 DEF Truth, LostCall, AfterSend
<1>4. Refusal'
    <2>1. Refusal
        BY <1>1 DEF Truth, Blame
    <2>2. CheckConditionBit(DmaCommand, hacks) = CheckConditionBit(cmd, hacks)
        BY <1>2 DEF CheckConditionBit, DmaCommand, CommandSet
    <2>q. QED BY <1>1, <2>1, <2>2 DEF Refusal, env, learned
<1>q. QED BY <1>1, <1>3, <1>4 DEF ghost, Truth, Completed, LostCall, SuccessSource,
          RegsSource, Claim, Blame, AfterSend, BeforeSend

(* Every step keeps it.                                                    *)
LEMMA NextTruth ==
    ASSUME Inv, Truth, [Next]_vars PROVE Truth'
<1>1. CASE UNCHANGED vars
    <2>1. UNCHANGED <<bridge, chipRegs, hacks, dmaMode, pc, cmd, ckBit, sense, rtfr,
                      gotRTFRs, ret, dmaRetry, retrying, real, lost, timedOut, executed>>
        BY <1>1 DEF vars, env, learned, call, ghost
    <2>2. Completed' /\ LostCall'
        BY <2>1 DEF Truth, Completed, LostCall, AfterSend, BeforeSend
    <2>3. SuccessSource' /\ RegsSource'
        BY <2>1 DEF Truth, SuccessSource, RegsSource, AreThis, ExtKnown, LogUnread
    <2>4. Claim'
        BY <2>1 DEF Truth, Claim, DroppedAfterSuccess, AreThis, LogUnread
    <2>5. Blame'
        BY <2>1 DEF Truth, Blame, Refusal, CheckConditionBit, AfterSend, BeforeSend
    <2>q. QED BY <2>2, <2>3, <2>4, <2>5 DEF Truth
<1>2. ASSUME NEW c \in Commands, Issue(c) PROVE Truth'
    BY <1>2, IssueTruth
<1>3. CASE Engine
    BY <1>3, BuildTruth, BlockTruth, SendTruth, SendRefusedTruth, SendLostTruth,
       ExtractTruth, LearnEmptyTruth, RequestTruth, EvaluateTruth, FinishTruth,
       RetryAsDmaTruth DEF Engine
<1>q. QED BY <1>1, <1>2, <1>3 DEF Next

(* Inv and Truth hold of every behaviour.                                  *)
THEOREM TruthInvariance == Spec => [](Inv /\ Truth)
<1>1. Init => Inv /\ Truth
    BY InitInv, InitTruth
<1>2. (Inv /\ Truth) /\ [Next]_vars => (Inv /\ Truth)'
    BY NextInv, NextTruth
<1>q. QED BY <1>1, <1>2, PTL DEF Spec

(* Over any sequence of commands, through any bridge and with any hacks, a *)
(* SUCCESS of a command that did not time out is the drive's own, registers*)
(* dropped after a success apart.                                          *)
THEOREM SuccessTruthful == Spec => []SuccessIsTruthfulUnlessDropped
<1>1. Inv /\ Truth => SuccessIsTruthfulUnlessDropped
    BY DEF Truth, Claim, Returned, SuccessIsTruthfulUnlessDropped
<1>q. QED BY <1>1, TruthInvariance, PTL

(* Registers returned with a SUCCESS to a caller that needs them are those *)
(* of this command, the extended ones included, unless these were to come  *)
(* from a results log that could not be read.                              *)
THEOREM OwnRegisters == Spec => []RegistersAreThisCommands
<1>1. Inv /\ Truth => RegistersAreThisCommands
    BY DEF Truth, Claim, Returned, RegistersAreThisCommands, AreThis
<1>q. QED BY <1>1, TruthInvariance, PTL

(* The switch to DMA for good: the bridge refuses the UDMA protocol value. *)
THEOREM DmaSwitch == Spec => DmaSwitchIsJustified
<1>1. ASSUME Inv, Truth, [Next]_vars, dmaMode' # dmaMode PROVE ~bridge.udma \/ timedOut
    <2>1. Finish /\ retrying /\ ret' = "SUCCESS"
        BY <1>1 DEF Next, Engine, vars, env, learned, Issue, Build, Block, Send, SendRefused,
               SendLost, Sending, ExtractWorkaround, ExtractDescriptor,
               ExtractFixedUntrusted, ExtractFixed, ExtractFixedAsk, ExtractFixedLog,
               ExtractFixedVendor, ExtractTranslate, Extracted, LearnEmpty, NoRequest,
               RequestSucceeds, RequestFails, Evaluate, Finish, DmaModeAfter, RetryAsDma
    <2>2. pc = "finish" /\ ret = "SUCCESS"
        BY <2>1 DEF Finish
    <2>3. CASE lost
        BY <1>1, <2>2, <2>3 DEF Truth, LostCall, AfterSend
    <2>4. CASE ~lost
        <3>1. executed = 1
            BY <1>1, <2>2, <2>4 DEF Inv, Verdict, AfterSend, RefusedCall, MalformedCall
        <3>q. QED BY <1>1, <2>1, <2>2, <3>1 DEF Truth, Blame, AfterSend
    <2>q. QED BY <2>3, <2>4
<1>2. Inv /\ Truth /\ [Next]_vars
          => [dmaMode' # dmaMode => ~bridge.udma \/ timedOut]_vars
    BY <1>1
<1>q. QED BY <1>2, TruthInvariance, PTL DEF Spec, DmaSwitchIsJustified
=============================================================================
