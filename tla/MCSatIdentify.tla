--------------------------- MODULE MCSatIdentify ---------------------------
(* Bridges that refuse each form of the command in their own way, the      *)
(* hacks they may be known by, and the drives behind them.                 *)
EXTENDS SatIdentify

MCBridges ==
    {b \in BridgeSet :
        /\ \A f \in Forms : b.answer[f] \in IF f.op = "JM" THEN {"takes", "opcode"}
                                            ELSE {"takes", "field", "opcode"}
        /\ b.answer[SatForm("A1", FALSE)] = "opcode" => b.answer[SatForm("A1", TRUE)] = "opcode"
        /\ b.answer[SatForm("85", FALSE)] = "opcode" => b.answer[SatForm("85", TRUE)] # "field"}

(* A bridge is known by its IDs, by what the system says, or not at all.   *)
(* The JMicron retry is asked for by the vendor ID alone (an unknown       *)
(* product) or by both IDs, never for a bridge without ATA pass-through.   *)
MCHacks ==
    {h \in HackSet :
        /\ h.someHacksSetByOSDiscovery =>
              ~h.hacksSetByReportedID /\ ~h.alwaysUseTPSIU /\ ~h.retryWithJMicronPT
        /\ h.passthroughType = "NONE" => ~h.retryWithJMicronPT
        /\ h.passthroughType = "JMICRON" =>
              h.hacksSetByReportedID /\ ~h.retryWithJMicronPT /\ ~h.alwaysUseTPSIU
        /\ h.disableCheckCondition => ~h.alwaysCheckConditionAvailable}

MCDrives ==
    {[iface |-> "USB",  type |-> "UNKNOWN", media |-> "OTHER"],
     [iface |-> "USB",  type |-> "SCSI",    media |-> "OPTICAL"],
     [iface |-> "SCSI", type |-> "ATAPI",   media |-> "OTHER"],
     [iface |-> "IDE",  type |-> "ATA",     media |-> "OTHER"]}
=============================================================================
