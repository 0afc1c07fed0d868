---------------------------- MODULE SatIdentify ----------------------------
(***************************************************************************)
(* How discovery gets the first answer out of a drive behind a bridge it   *)
(* knows little of: initial_Identify_Device (ata_helper.c) sends IDENTIFY  *)
(* DEVICE, looks at the sense data of a refusal, changes one of the        *)
(* pass-through hacks and tries again.  The hacks outlive the discovery,   *)
(* and discoveries are repeated.                                           *)
(*                                                                         *)
(* The bridge and the drive are the environment: an answer for every form  *)
(* of the command, fixed once, and commands that are lost now and then.    *)
(* IDENTIFY is a PIO data-in command, so the check condition bit is never  *)
(* part of its CDB, whatever the hacks say of it (build_SAT_CDB).          *)
(***************************************************************************)
EXTENDS Naturals

CONSTANTS Bridges,       (* how bridges answer                             *)
          InitialHacks,  (* what is known before the first discovery       *)
          Drives         (* interface, drive type and media type           *)

(* The forms of the command.  A1h and 85h are the SAT pass-through opcodes *)
(* with 12 and 16 byte CDBs, JM is the pass-through of JMicron bridges.    *)
Forms == [op: {"A1", "85"}, tpsiu: BOOLEAN]
           \cup {[op |-> "JM", tpsiu |-> FALSE]}

(* What lastCommandSenseData says: nothing, invalid field in CDB, invalid  *)
(* operation code, another error.                                          *)
Senses == {"none", "field", "opcode", "other"}

BridgeSet == [answer: [Forms -> {"takes", "field", "opcode", "other"}],
              atapi: BOOLEAN]       (* the drive takes IDENTIFY PACKET     *)

HackSet == [passthroughType: {"SAT", "JMICRON", "NONE"},
            a1NeverSupported: BOOLEAN,
            alwaysUseTPSIU: BOOLEAN,
            alwaysCheckConditionAvailable: BOOLEAN,
            disableCheckCondition: BOOLEAN,
            retryWithJMicronPT: BOOLEAN,
            hacksSetByReportedID: BOOLEAN,
            someHacksSetByOSDiscovery: BOOLEAN]

DriveSet == [iface: {"USB", "SCSI", "IDE"},
             type: {"UNKNOWN", "SCSI", "ATA", "ATAPI", "TAPE"},
             media: {"OTHER", "OPTICAL", "TAPE"}]

(* The hacks set by IDs and by the system: the retry is for bridges whose  *)
(* pass-through is SAT, or may be, and only IDs tell a JMicron bridge.     *)
ASSUME IdentifyAssumption ==
    /\ Bridges \subseteq BridgeSet
    /\ InitialHacks \subseteq HackSet
    /\ \A h \in InitialHacks :
          /\ h.passthroughType = "NONE" => ~h.retryWithJMicronPT
          /\ h.passthroughType = "JMICRON" => h.hacksSetByReportedID
    /\ Drives \subseteq DriveSet

VARIABLES
    bridge,     (* how this bridge answers                                 *)
    drive,      (* interface_type, drive_type and media_type               *)
    hacks,      (* drive_info.passThroughHacks                             *)
    sense,      (* drive_info.lastCommandSenseData                         *)
    signature,  (* lastCommandRTFRs holds the signature of a packet device *)
    pc,         (* the phase of the discovery                              *)
    ret,        (* what get_Identify_Data returned                         *)
    attempts,   (* history: calls of get_Identify_Data in this discovery   *)
    steady,     (* history: no command of this discovery was lost and no   *)
                (*   data came back damaged                                *)
    blanked     (* history: A1h went to a drive known to take packets,     *)
                (*   for which it is the BLANK command                     *)

vars == <<bridge, drive, hacks, sense, signature, pc, ret, attempts, steady,
          blanked>>

Init ==
    /\ bridge \in Bridges
    /\ drive \in Drives
    /\ hacks \in InitialHacks
    /\ sense = "none"
    /\ signature = FALSE
    /\ pc = "idle"
    /\ ret = "UNKNOWN"
    /\ attempts = 0
    /\ steady = TRUE
    /\ blanked = FALSE

----------------------------------------------------------------------------
TakesPackets(d) == d.type \in {"ATAPI", "TAPE"}

(* Mutant: only looks at the type of the drive.                            *)
KnownByType(d) == TakesPackets(d)

KnownOptical(d) == TakesPackets(d) \/ d.media \in {"OPTICAL", "TAPE"}

KnownBridge(h) == h.hacksSetByReportedID \/ h.someHacksSetByOSDiscovery

(* A drive known to take packets must not see A1h.                         *)
Discover ==
    /\ pc = "idle"
    /\ hacks' = IF KnownOptical(drive) /\ ~KnownBridge(hacks)
                THEN [hacks EXCEPT !.a1NeverSupported = TRUE]
                ELSE hacks
    /\ sense' \in Senses          (* of the commands sent since            *)
    /\ signature' \in {FALSE, signature}
    /\ pc' = "identify"
    /\ attempts' = 0
    /\ steady' = TRUE
    /\ UNCHANGED <<bridge, drive, ret, blanked>>

----------------------------------------------------------------------------
(* One IDENTIFY DEVICE or IDENTIFY PACKET DEVICE.                          *)

Form(h) == IF h.passthroughType = "JMICRON"
           THEN [op |-> "JM", tpsiu |-> FALSE]
           ELSE [op |-> IF h.a1NeverSupported THEN "85" ELSE "A1",
                 tpsiu |-> h.alwaysUseTPSIU]

Goes ==
    /\ hacks.passthroughType # "NONE"
    /\ blanked' = (blanked \/ /\ Form(hacks).op = "A1"
                              /\ drive.type \in {"ATAPI", "TAPE"} \/ drive.media # "OTHER"
                              /\ ~KnownBridge(hacks))

Answered(toPacket) ==
    /\ Goes
    /\ bridge.answer[Form(hacks)] = "takes"
    /\ toPacket = bridge.atapi
    /\ sense' = "none"
    /\ signature' = FALSE
    /\ ret' = "SUCCESS"
    /\ UNCHANGED steady

(* The data is empty or has a wrong checksum.                              *)
Damaged(toPacket) ==
    /\ Goes
    /\ bridge.answer[Form(hacks)] = "takes"
    /\ toPacket = bridge.atapi
    /\ sense' = "none"
    /\ signature' = FALSE
    /\ ret' = "FAILURE"
    /\ steady' = FALSE

(* The drive aborts the identify command of the other kind; the registers  *)
(* with its signature may or may not get through.                          *)
Aborted(toPacket) ==
    /\ Goes
    /\ bridge.answer[Form(hacks)] = "takes"
    /\ toPacket # bridge.atapi
    /\ sense' = "other"
    /\ signature' \in {FALSE, bridge.atapi}
    /\ ret' = "FAILURE"
    /\ UNCHANGED steady

(* On a JMicron bridge the register read before the command may be what    *)
(* fails: the registers of the last command then stay (set_JM_Dev).        *)
NoNewRegisters ==
    signature' \in IF hacks.passthroughType = "JMICRON" THEN {FALSE, signature}
                                                       ELSE {FALSE}

Refused ==
    /\ Goes
    /\ bridge.answer[Form(hacks)] # "takes"
    /\ sense' = bridge.answer[Form(hacks)]
    /\ NoNewRegisters
    /\ ret' = "FAILURE"
    /\ UNCHANGED steady

Lost ==
    /\ Goes
    /\ sense' = "none"
    /\ NoNewRegisters
    /\ ret' = "FAILURE"
    /\ steady' = FALSE

(* Not a pass-through type for ATA commands: nothing is sent, and the      *)
(* sense data and registers of some earlier command stay.                  *)
NotSent ==
    /\ hacks.passthroughType = "NONE"
    /\ ret' = "FAILURE"
    /\ UNCHANGED <<sense, signature, steady, blanked>>

Outcome(toPacket) == \/ Answered(toPacket) \/ Damaged(toPacket)
                     \/ Aborted(toPacket) \/ Refused
                     \/ Lost \/ NotSent

(* get_Identify_Data.  A drive that is not known to take packets gets the  *)
(* packet command when the registers hold the signature.                   *)
Identify ==
    /\ pc = "identify"
    /\ Outcome(TakesPackets(drive))
    /\ pc' = IF ret' # "SUCCESS" /\ signature' /\ ~TakesPackets(drive)
             THEN "packet" ELSE "ladder"
    /\ attempts' = attempts + 1
    /\ UNCHANGED <<bridge, drive, hacks>>

IdentifyPacket ==
    /\ pc = "packet"
    /\ Outcome(TRUE)
    /\ drive' = IF ret' = "SUCCESS" THEN [drive EXCEPT !.type = "ATAPI"] ELSE drive
    /\ pc' = "ladder"
    /\ UNCHANGED <<bridge, hacks, attempts>>

----------------------------------------------------------------------------
(* The ladder: at most one hack changes, in this order.                    *)

MayLearn == ~hacks.hacksSetByReportedID

DropsOnOpcode == /\ hacks.a1NeverSupported
                 /\ drive.iface = "USB"
                 /\ ~hacks.disableCheckCondition

DropsCheckCondition ==
    /\ MayLearn /\ hacks.alwaysCheckConditionAvailable
    /\ sense = "field" \/ (sense = "opcode" /\ DropsOnOpcode)

(* Mutant: only when the opcode itself is refused.                         *)
LeavesA1OnOpcode ==
    /\ MayLearn /\ ~hacks.a1NeverSupported
    /\ sense = "opcode"

LeavesA1 ==
    /\ MayLearn /\ ~hacks.a1NeverSupported
    /\ \/ sense = "opcode"
       \/ sense = "field" /\ ~hacks.alwaysCheckConditionAvailable

(* Mutant: does not ask whether it is used already.                        *)
TurnsToTpsiuAgain ==
    /\ MayLearn /\ hacks.a1NeverSupported
    /\ sense = "field" /\ ~hacks.alwaysCheckConditionAvailable

TurnsToTpsiu ==
    /\ MayLearn /\ hacks.a1NeverSupported /\ ~hacks.alwaysUseTPSIU
    /\ sense = "field" /\ ~hacks.alwaysCheckConditionAvailable

TurnsToJMicron ==
    /\ sense = "opcode" /\ hacks.retryWithJMicronPT
    /\ hacks.passthroughType # "JMICRON"
    /\ MayLearn => /\ hacks.a1NeverSupported
                   /\ ~(DropsOnOpcode /\ hacks.alwaysCheckConditionAvailable)

(* After a failure the drive gets a TEST UNIT READY, whose sense data is   *)
(* the last from then on; not on IDE, where the library translates it.     *)
SenseAfterwards == IF drive.iface = "IDE" THEN {sense} ELSE Senses

TryAgain(h) ==
    /\ pc = "ladder" /\ ret # "SUCCESS"
    /\ hacks' = h
    /\ sense' \in SenseAfterwards
    /\ pc' = "identify"
    /\ UNCHANGED <<bridge, drive, signature, ret, attempts, steady, blanked>>

DropCheckCondition ==
    /\ DropsCheckCondition
    /\ TryAgain([hacks EXCEPT !.alwaysCheckConditionAvailable = FALSE])
LeaveA1 ==
    /\ LeavesA1
    /\ TryAgain([hacks EXCEPT !.a1NeverSupported = TRUE])
TurnToTpsiu ==
    /\ TurnsToTpsiu
    /\ TryAgain([hacks EXCEPT !.alwaysUseTPSIU = TRUE])
TurnToJMicron ==
    /\ TurnsToJMicron
    /\ TryAgain([hacks EXCEPT !.passthroughType = "JMICRON"])

(* No rung is left.  What the caller makes of it differs: the device is    *)
(* treated as SCSI, or its type stays.                                     *)
GiveUp ==
    /\ pc = "ladder" /\ ret # "SUCCESS"
    /\ ~(DropsCheckCondition \/ LeavesA1 \/ TurnsToTpsiu \/ TurnsToJMicron)
    /\ sense' \in SenseAfterwards
    /\ drive' \in {drive, [drive EXCEPT !.type = "SCSI"]}
    /\ pc' = "idle"
    /\ UNCHANGED <<bridge, hacks, signature, ret, attempts, steady, blanked>>

(* The type of the drive as its identify data has it.                      *)
Found ==
    /\ pc = "ladder" /\ ret = "SUCCESS"
    /\ drive' = IF bridge.atapi
                THEN [drive EXCEPT !.type = "ATAPI", !.media = "OPTICAL"]
                ELSE [drive EXCEPT !.type = "ATA"]
    /\ pc' = "idle"
    /\ UNCHANGED <<bridge, hacks, sense, signature, ret, attempts, steady, blanked>>

Discovery == \/ Identify \/ IdentifyPacket
             \/ DropCheckCondition \/ LeaveA1 \/ TurnToTpsiu \/ TurnToJMicron
             \/ GiveUp \/ Found

Next == Discover \/ Discovery

Spec == Init /\ [][Next]_vars

----------------------------------------------------------------------------
(* Properties.                                                             *)

(* Five times get_Identify_Data: once, and once more for every hack the    *)
(* ladder can still change.                                                *)
MaxAttempts == 5

(* The types of the variables.  The bound of attempts is the reason the    *)
(* do-while loop of initial_Identify_Device ends, whatever the bridge      *)
(* answers and whatever stale sense data it looks at.                      *)
TypeOK ==
    /\ bridge \in BridgeSet
    /\ drive \in DriveSet
    /\ hacks \in HackSet
    /\ sense \in Senses
    /\ signature \in BOOLEAN
    /\ pc \in {"idle", "identify", "packet", "ladder"}
    /\ ret \in {"UNKNOWN", "SUCCESS", "FAILURE"}
    /\ attempts \in 0..MaxAttempts
    /\ steady \in BOOLEAN
    /\ blanked \in BOOLEAN

(* A drive that is known to take packets never gets A1h, which it would    *)
(* execute as BLANK, unless the bridge is known: not in the first          *)
(* discovery and not in a later one, whatever the ladder did in between.   *)
OpticalNotSentA1 == ~blanked

SatForm(op, tpsiu) == [op |-> op, tpsiu |-> tpsiu]
JMForm == [op |-> "JM", tpsiu |-> FALSE]

(* A bridge that takes the 16 byte CDB with TPSIU, may know no other form, *)
(* and says so with the sense data SAT has for it.                         *)
TakesLongTpsiu ==
    /\ bridge.answer[SatForm("85", TRUE)] = "takes"
    /\ bridge.answer[SatForm("85", FALSE)] \in {"takes", "field"}
    /\ \A t \in BOOLEAN : bridge.answer[SatForm("A1", t)] \in {"takes", "field", "opcode"}
    /\ ~hacks.hacksSetByReportedID

(* A JMicron bridge that may or may not know SAT.                          *)
TakesJMicron ==
    /\ hacks.retryWithJMicronPT
    /\ bridge.answer[JMForm] = "takes"
    /\ \A op \in {"A1", "85"}, t \in BOOLEAN : bridge.answer[SatForm(op, t)] = "opcode"

(* The ladder reaches the form such a bridge takes: a discovery in which   *)
(* no command was lost, and whose command is the one this drive takes,     *)
(* does not give up.                                                       *)
WorkingBridgeFound ==
    [][(pc = "ladder" /\ pc' = "idle" /\ ret = "FAILURE") =>
          \/ ~steady
          \/ bridge.atapi # TakesPackets(drive)
          \/ hacks.passthroughType = "NONE"
          \/ ~TakesLongTpsiu /\ ~TakesJMicron]_vars

(* What is known of a bridge by its IDs is not unlearned: for such a       *)
(* bridge the ladder only ever turns to the JMicron pass-through.          *)
ReportedHacksKept ==
    [][hacks.hacksSetByReportedID =>
          hacks' \in {hacks, [hacks EXCEPT !.passthroughType = "JMICRON"]}]_vars
====
