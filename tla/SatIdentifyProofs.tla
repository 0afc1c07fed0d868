------------------------- MODULE SatIdentifyProofs -------------------------
(***************************************************************************)
(* Proofs about the identify ladder, for every bridge and every initial    *)
(* knowledge of it.  The variant: every retry spends a hack the ladder can *)
(* change only once.  The guard: while commands are being sent, a drive    *)
(* known to take packets has A1h switched off.  The climb: what the ladder *)
(* has learned of the bridge is true, so that it ends at the bridge's form *)
(* when nothing is lost on the way.                                        *)
(***************************************************************************)
EXTENDS SatIdentify, TLAPS

One(b) == IF b THEN 1 ELSE 0

(* The rungs of the ladder that are left.                                  *)
Left(h) == One(h.alwaysCheckConditionAvailable) + One(~h.a1NeverSupported)
             + One(~h.alwaysUseTPSIU) + One(h.passthroughType # "JMICRON")

Types == /\ bridge \in BridgeSet
         /\ drive \in DriveSet
         /\ hacks \in HackSet
         /\ sense \in Senses
         /\ signature \in BOOLEAN
         /\ pc \in {"idle", "identify", "packet", "ladder"}
         /\ ret \in {"UNKNOWN", "SUCCESS", "FAILURE"}
         /\ attempts \in Nat
         /\ steady \in BOOLEAN

Variant == attempts + Left(hacks) <= IF pc = "identify" THEN 4 ELSE 5

Asking == pc \in {"identify", "packet"} \/ (pc = "ladder" /\ ret # "SUCCESS")

A1Off == (Asking /\ KnownOptical(drive) /\ ~KnownBridge(hacks))
             => hacks.a1NeverSupported

Inv == Types /\ Variant /\ A1Off /\ blanked = FALSE

(* What the ladder has to go by: the sense data after a refusal is the     *)
(* bridge's answer to the form just sent, and a bridge was only taken for  *)
(* a JMicron one when it refused a 16 byte CDB by its opcode.              *)
Failed == pc = "ladder" /\ ret # "SUCCESS" /\ hacks.passthroughType # "NONE"

Signed == signature => bridge.atapi
Packet == pc = "packet" => bridge.atapi /\ ~TakesPackets(drive)
Turned ==
    /\ hacks.passthroughType = "NONE" => ~hacks.retryWithJMicronPT
    /\ hacks.passthroughType = "JMICRON" /\ MayLearn =>
          \E t \in BOOLEAN : bridge.answer[SatForm("85", t)] = "opcode"
Told == Failed /\ sense \in {"field", "opcode"} => bridge.answer[Form(hacks)] = sense
Refusal == Failed /\ steady /\ bridge.atapi = TakesPackets(drive) =>
              bridge.answer[Form(hacks)] = sense /\ sense \in Senses \ {"none"}

Climb == Signed /\ Packet /\ Turned /\ Told /\ Refusal

----------------------------------------------------------------------------
LEMMA LeftRange == ASSUME NEW h \in HackSet PROVE Left(h) \in 0..4
<1>1. \A b \in BOOLEAN : One(b) \in 0..1
  BY DEF One
<1>2. /\ h.alwaysCheckConditionAvailable \in BOOLEAN
      /\ (~h.a1NeverSupported) \in BOOLEAN
      /\ (~h.alwaysUseTPSIU) \in BOOLEAN
      /\ (h.passthroughType # "JMICRON") \in BOOLEAN
  BY DEF HackSet
<1>3. /\ One(h.alwaysCheckConditionAvailable) \in 0..1
      /\ One(~h.a1NeverSupported) \in 0..1
      /\ One(~h.alwaysUseTPSIU) \in 0..1
      /\ One(h.passthroughType # "JMICRON") \in 0..1
  BY <1>1, <1>2
<1> QED BY <1>3 DEF Left

LEMMA InitInv == Init => Inv
<1> SUFFICES ASSUME Init PROVE Inv
  OBVIOUS
<1>1. Types
  BY IdentifyAssumption DEF Init, Types, Senses
<1>2. Left(hacks) \in 0..4
  BY <1>1, LeftRange DEF Types
<1>3. Variant
  BY <1>2 DEF Init, Variant
<1> QED BY <1>1, <1>3 DEF Init, Inv, A1Off, Asking

LEMMA DiscoverInv == ASSUME Inv, Discover PROVE Inv'
<1>1. hacks' \in HackSet
  BY DEF Inv, Types, Discover, HackSet
<1>2. Types'
  BY <1>1 DEF Inv, Types, Discover
<1>3. Variant'
  BY <1>1, LeftRange DEF Variant, Discover
<1>4. A1Off'
  <2>1. CASE KnownOptical(drive) /\ ~KnownBridge(hacks)
    BY <2>1 DEF Discover, A1Off, Inv, Types, HackSet
  <2>2. CASE ~(KnownOptical(drive) /\ ~KnownBridge(hacks))
    BY <2>2 DEF Discover, A1Off
  <2> QED BY <2>1, <2>2
<1> QED BY <1>2, <1>3, <1>4 DEF Inv, Discover

----------------------------------------------------------------------------
(* Sending one command.                                                    *)

LEMMA FormType == ASSUME NEW h \in HackSet PROVE Form(h) \in Forms
  BY DEF HackSet, Form, Forms

(* A1h is not sent to a drive known to take packets, and the answer has    *)
(* the right types.                                                        *)
LEMMA OutcomeInv ==
  ASSUME Inv, Asking, NEW toPacket \in BOOLEAN, Outcome(toPacket)
  PROVE  /\ sense' \in Senses /\ signature' \in BOOLEAN
         /\ ret' \in {"SUCCESS", "FAILURE"} /\ steady' \in BOOLEAN
         /\ blanked' = FALSE
<1>1. Form(hacks) \in Forms /\ bridge.atapi \in BOOLEAN
      /\ bridge.answer[Form(hacks)] \in {"takes", "field", "opcode", "other"}
  BY FormType DEF Inv, Types, BridgeSet
<1>2. ASSUME Goes PROVE blanked' = FALSE
  <2>1. CASE Form(hacks).op = "A1"
    <3>1. ~hacks.a1NeverSupported
      BY <2>1 DEF Form
    <3>2. ~(KnownOptical(drive) /\ ~KnownBridge(hacks))
      BY <3>1 DEF Inv, A1Off
    <3>3. drive.type \in {"ATAPI", "TAPE"} \/ drive.media # "OTHER"
            => KnownOptical(drive)
      BY DEF KnownOptical, TakesPackets, Inv, Types, DriveSet
    <3> QED BY <1>2, <3>2, <3>3 DEF Goes, Inv
  <2>2. CASE Form(hacks).op # "A1"
    BY <1>2, <2>2 DEF Goes, Inv
  <2> QED BY <2>1, <2>2
<1>3. CASE Answered(toPacket)
  BY <1>2, <1>3 DEF Answered, Senses, Inv, Types
<1>4. CASE Damaged(toPacket)
  BY <1>2, <1>4 DEF Damaged, Senses
<1>5. CASE Aborted(toPacket)
  BY <1>1, <1>2, <1>5 DEF Aborted, Senses, Inv, Types
<1>6. CASE Refused
  BY <1>1, <1>2, <1>6 DEF Refused, NoNewRegisters, Senses, Inv, Types
<1>7. CASE Lost
  BY <1>2, <1>7 DEF Lost, NoNewRegisters, Senses, Inv, Types
<1>8. CASE NotSent
  BY <1>8 DEF NotSent, Inv, Types
<1> QED BY <1>3, <1>4, <1>5, <1>6, <1>7, <1>8 DEF Outcome

LEMMA IdentifyInv == ASSUME Inv, Identify PROVE Inv'
<1>1. Asking /\ pc = "identify" /\ TakesPackets(drive) \in BOOLEAN
  BY DEF Identify, Asking, TakesPackets
<1>2. /\ sense' \in Senses /\ signature' \in BOOLEAN
      /\ ret' \in {"SUCCESS", "FAILURE"} /\ steady' \in BOOLEAN
      /\ blanked' = FALSE
  BY <1>1, OutcomeInv DEF Identify
<1>3. /\ pc' \in {"packet", "ladder"} /\ attempts' = attempts + 1
      /\ bridge' = bridge /\ drive' = drive /\ hacks' = hacks
  BY DEF Identify
<1>4. Types'
  BY <1>2, <1>3 DEF Inv, Types
<1>5. Left(hacks) \in 0..4
  BY LeftRange DEF Inv, Types
<1>6. Variant'
  BY <1>1, <1>3, <1>5 DEF Inv, Types, Variant
<1>7. A1Off'
  BY <1>1, <1>3 DEF Inv, A1Off
<1> QED BY <1>2, <1>4, <1>6, <1>7 DEF Inv

LEMMA PacketInv == ASSUME Inv, IdentifyPacket PROVE Inv'
<1>1. Asking /\ pc = "packet"
  BY DEF IdentifyPacket, Asking
<1>2. /\ sense' \in Senses /\ signature' \in BOOLEAN
      /\ ret' \in {"SUCCESS", "FAILURE"} /\ steady' \in BOOLEAN
      /\ blanked' = FALSE
  BY <1>1, OutcomeInv DEF IdentifyPacket
<1>3. /\ pc' = "ladder" /\ attempts' = attempts
      /\ bridge' = bridge /\ hacks' = hacks
      /\ drive' \in DriveSet /\ (ret' # "SUCCESS" => drive' = drive)
  BY DEF IdentifyPacket, Inv, Types, DriveSet
<1>4. Types'
  BY <1>2, <1>3 DEF Inv, Types
<1>5. Variant'
  BY <1>1, <1>3 DEF Inv, Variant
<1>6. A1Off'
  BY <1>1, <1>3 DEF Inv, A1Off, Asking
<1> QED BY <1>2, <1>4, <1>5, <1>6 DEF Inv

----------------------------------------------------------------------------
(* The ladder: a rung is spent, and neither A1h comes back nor is a bridge *)
(* forgotten.                                                              *)
LEMMA TryAgainInv ==
  ASSUME Inv, NEW h \in HackSet, TryAgain(h), Left(h) = Left(hacks) - 1,
         hacks.a1NeverSupported => h.a1NeverSupported,
         KnownBridge(hacks) => KnownBridge(h)
  PROVE  Inv'
<1>1. SenseAfterwards \subseteq Senses
  BY DEF SenseAfterwards, Inv, Types
<1>2. /\ pc = "ladder" /\ pc' = "identify" /\ ret # "SUCCESS"
      /\ hacks' = h /\ sense' \in Senses
      /\ UNCHANGED <<bridge, drive, signature, ret, attempts, steady, blanked>>
  BY <1>1 DEF TryAgain
<1>3. Types'
  BY <1>2 DEF Inv, Types
<1>4. Left(hacks) \in 0..4
  BY LeftRange DEF Inv, Types
<1>5. Variant'
  BY <1>2, <1>4 DEF Inv, Types, Variant
<1>6. A1Off'
  BY <1>2 DEF Inv, A1Off, Asking
<1> QED BY <1>2, <1>3, <1>5, <1>6 DEF Inv

LEMMA LadderInv ==
  ASSUME Inv, DropCheckCondition \/ LeaveA1 \/ TurnToTpsiu \/ TurnToJMicron
  PROVE  Inv'
<1>0. hacks \in HackSet
  BY DEF Inv, Types
<1>1. CASE DropCheckCondition
  <2> DEFINE h == [hacks EXCEPT !.alwaysCheckConditionAvailable = FALSE]
  <2>1. h \in HackSet /\ TryAgain(h) /\ hacks.alwaysCheckConditionAvailable = TRUE
    BY <1>0, <1>1 DEF DropCheckCondition, DropsCheckCondition, HackSet
  <2>2. Left(h) = Left(hacks) - 1
    BY <1>0, <2>1 DEF Left, One, HackSet
  <2>3. h.a1NeverSupported = hacks.a1NeverSupported /\ (KnownBridge(hacks) => KnownBridge(h))
    BY <1>0 DEF HackSet, KnownBridge
  <2> QED BY <2>1, <2>2, <2>3, TryAgainInv
<1>2. CASE LeaveA1
  <2> DEFINE h == [hacks EXCEPT !.a1NeverSupported = TRUE]
  <2>1. h \in HackSet /\ TryAgain(h) /\ hacks.a1NeverSupported = FALSE
    BY <1>0, <1>2 DEF LeaveA1, LeavesA1, HackSet
  <2>2. Left(h) = Left(hacks) - 1
    BY <1>0, <2>1 DEF Left, One, HackSet
  <2>3. h.a1NeverSupported /\ (KnownBridge(hacks) => KnownBridge(h))
    BY <1>0 DEF HackSet, KnownBridge
  <2> QED BY <2>1, <2>2, <2>3, TryAgainInv
<1>3. CASE TurnToTpsiu
  <2> DEFINE h == [hacks EXCEPT !.alwaysUseTPSIU = TRUE]
  <2>1. h \in HackSet /\ TryAgain(h) /\ hacks.alwaysUseTPSIU = FALSE
    BY <1>0, <1>3 DEF TurnToTpsiu, TurnsToTpsiu, HackSet
  <2>2. Left(h) = Left(hacks) - 1
    BY <1>0, <2>1 DEF Left, One, HackSet
  <2>3. h.a1NeverSupported = hacks.a1NeverSupported /\ (KnownBridge(hacks) => KnownBridge(h))
    BY <1>0 DEF HackSet, KnownBridge
  <2> QED BY <2>1, <2>2, <2>3, TryAgainInv
<1>4. CASE TurnToJMicron
  <2> DEFINE h == [hacks EXCEPT !.passthroughType = "JMICRON"]
  <2>1. h \in HackSet /\ TryAgain(h) /\ hacks.passthroughType # "JMICRON"
    BY <1>0, <1>4 DEF TurnToJMicron, TurnsToJMicron, HackSet
  <2>2. Left(h) = Left(hacks) - 1
    BY <1>0, <2>1 DEF Left, One, HackSet
  <2>3. h.a1NeverSupported = hacks.a1NeverSupported /\ (KnownBridge(hacks) => KnownBridge(h))
    BY <1>0 DEF HackSet, KnownBridge
  <2> QED BY <2>1, <2>2, <2>3, TryAgainInv
<1> QED BY <1>1, <1>2, <1>3, <1>4

LEMMA EndInv == ASSUME Inv, GiveUp \/ Found PROVE Inv'
<1>1. SenseAfterwards \subseteq Senses
  BY DEF SenseAfterwards, Inv, Types
<1>2. drive' \in DriveSet
  BY DEF GiveUp, Found, Inv, Types, DriveSet
<1>3. Types'
  BY <1>1, <1>2 DEF GiveUp, Found, Inv, Types
<1>4. Variant'
  BY DEF GiveUp, Found, Inv, Variant
<1> QED BY <1>3, <1>4 DEF GiveUp, Found, Inv, A1Off, Asking

THEOREM Invariance == Spec => []Inv
<1>1. Inv /\ [Next]_vars => Inv'
  <2> SUFFICES ASSUME Inv, [Next]_vars PROVE Inv'
    OBVIOUS
  <2>1. CASE Discover
    BY <2>1, DiscoverInv
  <2>2. CASE Identify
    BY <2>2, IdentifyInv
  <2>3. CASE IdentifyPacket
    BY <2>3, PacketInv
  <2>4. CASE DropCheckCondition \/ LeaveA1 \/ TurnToTpsiu \/ TurnToJMicron
    BY <2>4, LadderInv
  <2>5. CASE GiveUp \/ Found
    BY <2>5, EndInv
  <2>6. CASE UNCHANGED vars
    BY <2>6 DEF vars, Inv, Types, Variant, A1Off, Asking, KnownOptical, KnownBridge,
       TakesPackets
  <2> QED BY <2>1, <2>2, <2>3, <2>4, <2>5, <2>6 DEF Next, Discovery
<1> QED BY <1>1, InitInv, PTL DEF Spec

(* The variables keep their types, and no discovery asks for the identify  *)
(* data more than five times: initial_Identify_Device ends.                *)
THEOREM LadderEnds == Spec => []TypeOK
<1>1. Inv => TypeOK
  <2> SUFFICES ASSUME Inv PROVE TypeOK
    OBVIOUS
  <2>1. Left(hacks) \in 0..4
    BY LeftRange DEF Inv, Types
  <2>2. attempts \in 0..MaxAttempts
    BY <2>1 DEF Inv, Types, Variant, MaxAttempts
  <2> QED BY <2>2 DEF Inv, Types, TypeOK
<1> QED BY <1>1, Invariance, PTL

(* A drive known to take packets is never sent A1h through a bridge that   *)
(* is not known, in any discovery.                                         *)
THEOREM NeverBlanked == Spec => []OpticalNotSentA1
<1>1. Inv => OpticalNotSentA1
  BY DEF Inv, OpticalNotSentA1
<1> QED BY <1>1, Invariance, PTL

(* What is known of a bridge by its IDs stays known.                       *)
THEOREM KnownStaysKnown == Spec => ReportedHacksKept
<1> DEFINE Kept == hacks.hacksSetByReportedID =>
                     hacks' \in {hacks, [hacks EXCEPT !.passthroughType = "JMICRON"]}
<1>1. [Next]_vars => [Kept]_vars
  <2> SUFFICES ASSUME Next, hacks.hacksSetByReportedID
               PROVE hacks' \in {hacks, [hacks EXCEPT !.passthroughType = "JMICRON"]}
    OBVIOUS
  <2>1. CASE Discover
    BY <2>1 DEF Discover, KnownBridge
  <2>2. CASE Identify \/ IdentifyPacket \/ GiveUp \/ Found
    BY <2>2 DEF Identify, IdentifyPacket, GiveUp, Found
  <2>3. CASE DropCheckCondition \/ LeaveA1 \/ TurnToTpsiu
    BY <2>3 DEF DropCheckCondition, DropsCheckCondition, LeaveA1, LeavesA1, TurnToTpsiu,
       TurnsToTpsiu, MayLearn
  <2>4. CASE TurnToJMicron
    BY <2>4 DEF TurnToJMicron, TryAgain
  <2> QED BY <2>1, <2>2, <2>3, <2>4 DEF Next, Discovery
<1> QED BY <1>1, PTL DEF Spec, ReportedHacksKept

----------------------------------------------------------------------------
(* Where the ladder leads.                                                 *)

(* The form of a command and the answer to it.                             *)
LEMMA Answers ==
  ASSUME Types
  PROVE  /\ bridge.answer[Form(hacks)] \in {"takes", "field", "opcode", "other"}
         /\ bridge.atapi \in BOOLEAN /\ TakesPackets(drive) \in BOOLEAN
<1>1. hacks \in HackSet /\ bridge \in BridgeSet
  BY DEF Types
<1>2. Form(hacks) \in Forms
  BY <1>1, FormType
<1> QED BY <1>1, <1>2 DEF BridgeSet, TakesPackets

(* What one command tells.                                                 *)
LEMMA OutcomeTells ==
  ASSUME Types, Signed, NEW toPacket \in BOOLEAN, Outcome(toPacket)
  PROVE  /\ signature' \in BOOLEAN /\ (signature' => bridge.atapi)
         /\ ret' # "SUCCESS" /\ hacks.passthroughType # "NONE" =>
              /\ sense' \in {"field", "opcode"} => bridge.answer[Form(hacks)] = sense'
              /\ steady' /\ toPacket = bridge.atapi =>
                   bridge.answer[Form(hacks)] = sense' /\ sense' \in Senses \ {"none"}
<1>0. bridge.answer[Form(hacks)] \in {"takes", "field", "opcode", "other"}
      /\ bridge.atapi \in BOOLEAN /\ signature \in BOOLEAN
  BY Answers DEF Types
<1>1. CASE Answered(toPacket)
  BY <1>1 DEF Answered
<1>2. CASE Damaged(toPacket)
  BY <1>2 DEF Damaged
<1>3. CASE Aborted(toPacket)
  BY <1>0, <1>3 DEF Aborted
<1>4. CASE Refused
  BY <1>0, <1>4 DEF Refused, NoNewRegisters, Signed, Senses
<1>5. CASE Lost
  BY <1>0, <1>5 DEF Lost, NoNewRegisters, Signed
<1>6. CASE NotSent
  BY <1>0, <1>6 DEF NotSent, Signed
<1> QED BY <1>1, <1>2, <1>3, <1>4, <1>5, <1>6 DEF Outcome

(* A command is sent.                                                      *)
LEMMA SentClimb ==
  ASSUME Types, Climb, Identify \/ IdentifyPacket
  PROVE  Climb'
<1>0. bridge.atapi \in BOOLEAN /\ TakesPackets(drive) \in BOOLEAN
  BY Answers
<1>1. CASE Identify
  <2>1. /\ bridge' = bridge /\ drive' = drive /\ hacks' = hacks
        /\ Outcome(TakesPackets(drive))
        /\ pc' = IF ret' # "SUCCESS" /\ signature' /\ ~TakesPackets(drive)
                 THEN "packet" ELSE "ladder"
    BY <1>1 DEF Identify
  <2>2. /\ signature' \in BOOLEAN /\ (signature' => bridge.atapi)
        /\ ret' # "SUCCESS" /\ hacks.passthroughType # "NONE" =>
             /\ sense' \in {"field", "opcode"} => bridge.answer[Form(hacks)] = sense'
             /\ steady' /\ TakesPackets(drive) = bridge.atapi =>
                  bridge.answer[Form(hacks)] = sense' /\ sense' \in Senses \ {"none"}
    BY <1>0, <2>1, OutcomeTells DEF Climb
  <2>3. Signed' /\ Packet'
    BY <2>1, <2>2 DEF Signed, Packet
  <2>4. Turned' /\ Told' /\ Refusal'
    BY <2>1, <2>2 DEF Climb, Turned, MayLearn, Told, Refusal, Failed
  <2> QED BY <2>3, <2>4 DEF Climb
<1>2. CASE IdentifyPacket
  <2>1. /\ bridge' = bridge /\ hacks' = hacks /\ pc' = "ladder"
        /\ Outcome(TRUE) /\ (ret' # "SUCCESS" => drive' = drive)
        /\ bridge.atapi /\ ~TakesPackets(drive)
    BY <1>2 DEF IdentifyPacket, Climb, Packet
  <2>2. /\ signature' => bridge.atapi
        /\ ret' # "SUCCESS" /\ hacks.passthroughType # "NONE" /\
              sense' \in {"field", "opcode"} => bridge.answer[Form(hacks)] = sense'
    BY <2>1, OutcomeTells DEF Climb
  <2>3. Signed' /\ Packet' /\ Turned'
    BY <2>1, <2>2 DEF Climb, Signed, Packet, Turned, MayLearn
  <2>4. Told'
    BY <2>1, <2>2 DEF Told, Failed
  <2>5. Refusal'
    <3>1. ret' # "SUCCESS" => bridge'.atapi # TakesPackets(drive)'
      BY <1>0, <2>1
    <3> QED BY <3>1 DEF Refusal, Failed
  <2> QED BY <2>3, <2>4, <2>5 DEF Climb
<1> QED BY <1>1, <1>2

(* A rung of the ladder.                                                   *)
LEMMA RungClimb ==
  ASSUME Types, Climb, DropCheckCondition \/ LeaveA1 \/ TurnToTpsiu \/ TurnToJMicron
  PROVE  Climb'
<1>0. hacks \in HackSet
  BY DEF Types
<1>1. /\ pc = "ladder" /\ ret # "SUCCESS" /\ pc' = "identify"
      /\ UNCHANGED <<bridge, drive, signature>>
      /\ hacks' \in {[hacks EXCEPT !.alwaysCheckConditionAvailable = FALSE],
                     [hacks EXCEPT !.a1NeverSupported = TRUE],
                     [hacks EXCEPT !.alwaysUseTPSIU = TRUE],
                     [hacks EXCEPT !.passthroughType = "JMICRON"]}
  BY DEF DropCheckCondition, LeaveA1, TurnToTpsiu, TurnToJMicron, TryAgain
<1>2. Signed' /\ Packet' /\ Told' /\ Refusal'
  BY <1>1 DEF Climb, Signed, Packet, Told, Refusal, Failed
<1>3. CASE ~TurnToJMicron
  <2>1. /\ hacks'.passthroughType = hacks.passthroughType
        /\ hacks'.retryWithJMicronPT = hacks.retryWithJMicronPT
        /\ hacks'.hacksSetByReportedID = hacks.hacksSetByReportedID
    BY <1>0, <1>3 DEF DropCheckCondition, LeaveA1, TurnToTpsiu, TryAgain, HackSet
  <2> QED BY <1>1, <1>2, <2>1 DEF Climb, Turned, MayLearn
<1>4. CASE TurnToJMicron
  <2>1. /\ TurnsToJMicron /\ hacks' = [hacks EXCEPT !.passthroughType = "JMICRON"]
    BY <1>4 DEF TurnToJMicron, TryAgain
  <2>2. hacks'.passthroughType = "JMICRON"
        /\ hacks'.hacksSetByReportedID = hacks.hacksSetByReportedID
    BY <1>0, <2>1 DEF HackSet
  <2>3. hacks.passthroughType = "SAT"
    BY <1>0, <2>1 DEF TurnsToJMicron, Climb, Turned, HackSet
  <2>4. ASSUME MayLearn
        PROVE  \E t \in BOOLEAN : bridge.answer[SatForm("85", t)] = "opcode"
    <3>1. bridge.answer[Form(hacks)] = "opcode" /\ hacks.a1NeverSupported
      BY <1>1, <2>1, <2>3, <2>4 DEF TurnsToJMicron, Climb, Told, Failed
    <3>2. Form(hacks) = SatForm("85", hacks.alwaysUseTPSIU)
      BY <2>3, <3>1 DEF Form, SatForm
    <3>3. hacks.alwaysUseTPSIU \in BOOLEAN
      BY <1>0 DEF HackSet
    <3> QED BY <3>1, <3>2, <3>3
  <2>5. Turned'
    BY <1>1, <2>2, <2>4 DEF Turned, MayLearn
  <2> QED BY <1>2, <2>5 DEF Climb
<1> QED BY <1>3, <1>4

(* What the ladder has learned stays true at every step.                   *)
LEMMA ClimbInductive == Inv /\ Climb /\ [Next]_vars => Climb'
<1> SUFFICES ASSUME Types, Climb, [Next]_vars PROVE Climb'
  BY DEF Inv
<1>1. CASE Discover
  <2>1. /\ bridge' = bridge /\ drive' = drive /\ pc' = "identify"
        /\ signature' \in {FALSE, signature} /\ signature \in BOOLEAN
        /\ hacks' \in {hacks, [hacks EXCEPT !.a1NeverSupported = TRUE]}
        /\ hacks \in HackSet
    BY <1>1 DEF Discover, Types
  <2>2. /\ hacks'.passthroughType = hacks.passthroughType
        /\ hacks'.retryWithJMicronPT = hacks.retryWithJMicronPT
        /\ hacks'.hacksSetByReportedID = hacks.hacksSetByReportedID
    BY <2>1 DEF HackSet
  <2>3. Signed'
    <3>1. signature' => signature
      BY <2>1
    <3> QED BY <2>1, <3>1 DEF Climb, Signed
  <2>4. Packet' /\ Told' /\ Refusal'
    <3>1. pc' = "identify"
      BY <2>1
    <3>2. ~Failed'
      BY <3>1 DEF Failed
    <3> QED BY <3>1, <3>2 DEF Packet, Told, Refusal
  <2>5. Turned'
    BY <2>1, <2>2 DEF Climb, Turned, MayLearn
  <2> QED BY <2>3, <2>4, <2>5 DEF Climb
<1>2. CASE Identify \/ IdentifyPacket
  BY <1>2, SentClimb
<1>3. CASE DropCheckCondition \/ LeaveA1 \/ TurnToTpsiu \/ TurnToJMicron
  BY <1>3, RungClimb
<1>4. CASE GiveUp \/ Found
  <2>1. pc' = "idle" /\ UNCHANGED <<bridge, hacks, signature>>
    BY <1>4 DEF GiveUp, Found
  <2> QED BY <2>1 DEF Climb, Signed, Packet, Turned, MayLearn, Told, Refusal, Failed
<1>5. CASE UNCHANGED vars
  BY <1>5 DEF vars, Climb, Signed, Packet, Turned, MayLearn, Told, Refusal, Failed
<1> QED BY <1>1, <1>2, <1>3, <1>4, <1>5 DEF Next, Discovery

(* No rung is left for such a bridge only when it took the command.        *)
LEMMA RungLeft ==
  ASSUME Types, Climb, GiveUp, steady, bridge.atapi = TakesPackets(drive),
         hacks.passthroughType # "NONE", TakesLongTpsiu \/ TakesJMicron
  PROVE  FALSE
<1>1. /\ hacks \in HackSet
      /\ bridge.answer[Form(hacks)] = sense /\ sense \in Senses \ {"none"}
  BY DEF GiveUp, Climb, Refusal, Failed, Types
<1>2. ~DropsCheckCondition /\ ~LeavesA1 /\ ~TurnsToTpsiu /\ ~TurnsToJMicron
  BY DEF GiveUp
<1>3. sense # "takes"
  BY <1>1 DEF Senses
<1>4. hacks.passthroughType = "SAT" =>
        Form(hacks) = SatForm(IF hacks.a1NeverSupported THEN "85" ELSE "A1", hacks.alwaysUseTPSIU)
  BY DEF Form, SatForm
<1>5. hacks.passthroughType = "JMICRON" => Form(hacks) = JMForm
  BY DEF Form, JMForm
<1>6. hacks.passthroughType \in {"SAT", "JMICRON"} /\ hacks.alwaysUseTPSIU \in BOOLEAN
      /\ hacks.a1NeverSupported \in BOOLEAN
  BY <1>1 DEF HackSet
<1>7. CASE TakesLongTpsiu
  <2>1. MayLearn /\ hacks.passthroughType = "SAT"
    BY <1>6, <1>7 DEF TakesLongTpsiu, MayLearn, Climb, Turned
  <2>2. CASE hacks.a1NeverSupported
    <3>1. Form(hacks) = SatForm("85", hacks.alwaysUseTPSIU)
      BY <1>4, <2>1, <2>2
    <3>2. hacks.alwaysUseTPSIU = FALSE /\ sense = "field"
      BY <1>1, <1>3, <1>6, <1>7, <3>1 DEF TakesLongTpsiu
    <3> QED BY <1>2, <2>1, <2>2, <3>2 DEF DropsCheckCondition, TurnsToTpsiu
  <2>3. CASE ~hacks.a1NeverSupported
    <3>1. Form(hacks) = SatForm("A1", hacks.alwaysUseTPSIU)
      BY <1>4, <2>1, <2>3
    <3>2. sense \in {"field", "opcode"}
      BY <1>1, <1>3, <1>6, <1>7, <3>1 DEF TakesLongTpsiu
    <3> QED BY <1>2, <2>1, <2>3, <3>2 DEF DropsCheckCondition, LeavesA1
  <2> QED BY <2>2, <2>3
<1>8. CASE TakesJMicron
  <2>1. hacks.passthroughType = "SAT"
    BY <1>1, <1>3, <1>5, <1>6, <1>8 DEF TakesJMicron
  <2>2. sense = "opcode"
    BY <1>1, <1>4, <1>6, <1>8, <2>1 DEF TakesJMicron
  <2>3. hacks.retryWithJMicronPT
    BY <1>8 DEF TakesJMicron
  <2> QED BY <1>2, <2>1, <2>2, <2>3 DEF LeavesA1, TurnsToJMicron, DropsCheckCondition
<1> QED BY <1>7, <1>8

(* A bridge that takes the 16 byte CDB with TPSIU, or that of JMicron, and *)
(* refuses the others as such bridges do, is found by the ladder in        *)
(* initial_Identify_Device unless a command is lost or damaged on the way, *)
(* or it was sent the identify command of the other kind of drive.         *)
THEOREM LadderFinds == Spec => WorkingBridgeFound
<1> DEFINE NoneLeft == (pc = "ladder" /\ pc' = "idle" /\ ret = "FAILURE") =>
                        \/ ~steady
                        \/ bridge.atapi # TakesPackets(drive)
                        \/ hacks.passthroughType = "NONE"
                        \/ ~TakesLongTpsiu /\ ~TakesJMicron
<1>1. Init => Climb
  BY IdentifyAssumption
     DEF Init, Climb, Signed, Packet, Turned, MayLearn, Told, Refusal, Failed
<1>2. Inv /\ Climb /\ [Next]_vars => [NoneLeft]_vars
  <2> SUFFICES ASSUME Types, Climb, Next, pc = "ladder", pc' = "idle", ret = "FAILURE"
               PROVE  \/ ~steady
                      \/ bridge.atapi # TakesPackets(drive)
                      \/ hacks.passthroughType = "NONE"
                      \/ ~TakesLongTpsiu /\ ~TakesJMicron
    BY DEF Inv
  <2>1. GiveUp
    BY DEF Next, Discovery, Discover, Identify, IdentifyPacket, DropCheckCondition, LeaveA1,
           TurnToTpsiu, TurnToJMicron, TryAgain, Found
  <2> QED BY <2>1, RungLeft
<1> QED BY <1>1, <1>2, ClimbInductive, Invariance, PTL DEF Spec, WorkingBridgeFound
=============================================================================
