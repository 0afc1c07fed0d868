-------------------------- MODULE MCSatPassthrough --------------------------
(***************************************************************************)
(* A finite instance of SatPassthrough: a bridge of each behaviour, and    *)
(* commands whose registers, guard and protocol the engine treats          *)
(* differently.  What SatPassthroughProofs proves is for all of them.      *)
(***************************************************************************)
EXTENDS SatPassthrough

Plain == [proto |-> "NO_DATA", needRTFRs |-> FALSE, ext |-> FALSE,
          count |-> FALSE, lba |-> FALSE, nop |-> FALSE, valid |-> TRUE]

ReadMaxExt  == [Plain EXCEPT !.needRTFRs = TRUE, !.ext = TRUE]
SetFeature  == [Plain EXCEPT !.count = TRUE]
Nop         == [Plain EXCEPT !.needRTFRs = TRUE, !.count = TRUE, !.lba = TRUE,
                             !.nop = TRUE]
TrustedRecv == [Plain EXCEPT !.proto = "UDMA", !.needRTFRs = TRUE]
Malformed   == [Plain EXCEPT !.valid = FALSE]

AllCommands == {ReadMaxExt, SetFeature, Nop, TrustedRecv, Malformed}

(* One bridge per behaviour: what fixed format sense leaves out matters    *)
(* where there is any, the results log where it is pointed at.  A bridge   *)
(* that answers the check condition bit has one format of sense data; the  *)
(* errors of libata come from one that answers in descriptor format; and   *)
(* a bridge takes UDMA or the request for registers.                       *)
AllBridges == {b \in BridgeSet :
                 /\ b.log => b.upper = "log"
                 /\ "fixed" \notin {b.ck, b.err} => b.upper = "unknown"
                 /\ b.ck \in {"descriptor", "fixed"} => (b.ck = "fixed") = (b.err = "fixed")
                 /\ b.err = "unaligned" => b.ck = "descriptor"
                 /\ b.udma \/ b.respInfo}

NoHacks == [byReportedID |-> FALSE, disableCheckCondition |-> FALSE,
            alwaysCheckConditionAvailable |-> FALSE,
            checkConditionEmpty |-> FALSE,
            returnResponseInfoSupported |-> FALSE,
            returnResponseInfoNeedsTDIR |-> FALSE,
            noRTFRsPossible |-> FALSE, nonDataTest |-> "NONE",
            nonDataCountBroken |-> FALSE, nonDataLBABroken |-> FALSE,
            fixedSenseHack |-> "NONE"]

(* A device found by trial and error, one whose ID is in the table, one    *)
(* that is there with a check condition bit that comes back empty, one     *)
(* behind an adapter that zeroes the count, one that needs the libata      *)
(* workaround.                                                             *)
ById      == [NoHacks EXCEPT !.byReportedID = TRUE,
                             !.returnResponseInfoSupported = TRUE]
Empty     == [ById EXCEPT !.disableCheckCondition = TRUE,
                          !.checkConditionEmpty = TRUE,
                          !.returnResponseInfoNeedsTDIR = TRUE]
ZeroCount == [NoHacks EXCEPT !.nonDataTest = "TESTED", !.nonDataCountBroken = TRUE]
Libata    == [NoHacks EXCEPT !.nonDataTest = "ALLOW_ALL",
                             !.nonDataLBABroken = TRUE,
                             !.fixedSenseHack = "UNALIGNED_WRITE_BUG"]

AllHacks == {NoHacks, ById, Empty, ZeroCount, Libata}
=============================================================================
