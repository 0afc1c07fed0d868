------------------------------- MODULE NopTest -------------------------------
(***************************************************************************)
(* The register test of opensea-transport,                                 *)
(* test_Passthrough_Register_Response_NonData (ata_helper.c): six NOP      *)
(* commands, each with its own sector count and LBA, which the drive must  *)
(* abort and echo.  From what comes back the function learns whether the   *)
(* adapter loses a register of non-data commands, and stores the verdict   *)
(* in passThroughHacks, where the engine's pre-execution check reads it.   *)
(*                                                                         *)
(* Register values are abstracted to where a value that was sent comes     *)
(* back: in its register, elsewhere in the result, or nowhere.             *)
(***************************************************************************)
EXTENDS Integers

CONSTANTS Adapters,  (* the adapters that may sit before the drive         *)
          Noise      (* what an unsteady adapter answers a NOP with        *)

NOP_MAX_TESTS == 6

(* What one NOP brings back: how the call ended, where the count and the   *)
(* LBA are, whether the command specific information of fixed format sense *)
(* data looks like an ATA status and error, whether the sense is the       *)
(* UNALIGNED WRITE COMMAND of libata.                                      *)
ResponseSet == [ret: {"ABORTED", "SUCCESS", "OTHER"},
                count: {"echo", "offset", "wrong"},
                lba: {"echo", "swapped", "offset", "wrong"},
                csi: BOOLEAN, unaligned: BOOLEAN]

(* An adapter: the registers of a non-data command it zeroes on the way to *)
(* the drive, where it puts those the drive returns, how it lets a NOP     *)
(* end, and whether it answers every NOP alike.                            *)
AdapterSet == [zeroes: SUBSET {"count", "lba"},
               back: {"plain", "swapped", "shifted", "libata12", "libata16"},
               ret: {"ABORTED", "SUCCESS", "OTHER"},
               steady: BOOLEAN]

ASSUME NopAssumption == Adapters \subseteq AdapterSet /\ Noise \subseteq ResponseSet

VARIABLES
    adapter,        (* the adapter under test                              *)
    nopSupported,   (* ata_Options.nopSupported                            *)
    pc,             (* where the function is                               *)
    testNum,
    successfulMatches, brokenCountResponses, brokenLBAResponses,
    swappedLBAResponses, confidenceScore,
    countOffset,    (* countOffsetInResult: none, the register, elsewhere  *)
    lbaOffset,      (* lbaOffsetInResult is valid                          *)
    nonDataTest, nonDataCountBroken, nonDataLBABroken, fixedSenseHack

counters == <<successfulMatches, brokenCountResponses, brokenLBAResponses,
              swappedLBAResponses>>
offsets == <<countOffset, lbaOffset>>
verdict == <<nonDataTest, nonDataCountBroken, nonDataLBABroken,
             fixedSenseHack>>
drive   == <<adapter, nopSupported>>
testVars    == <<drive, pc, testNum, counters, confidenceScore, offsets, verdict>>

InitTest ==
    /\ adapter \in Adapters
    /\ nopSupported \in BOOLEAN
    /\ pc = "done"
    /\ testNum = 0
    /\ successfulMatches = 0
    /\ brokenCountResponses = 0
    /\ brokenLBAResponses = 0
    /\ swappedLBAResponses = 0
    /\ confidenceScore = 0
    /\ countOffset = "none"
    /\ lbaOffset = FALSE
    /\ nonDataTest = "NONE"
    /\ nonDataCountBroken = FALSE
    /\ nonDataLBABroken = FALSE
    /\ fixedSenseHack = "NONE"

(* The device is identified, for the first time or again: the verdict of an *)
(* earlier test stays until this one has its own.                          *)
BeginTest ==
    /\ pc = "done"
    /\ pc' = "test"
    /\ testNum' = 0
    /\ successfulMatches' = 0
    /\ brokenCountResponses' = 0
    /\ brokenLBAResponses' = 0
    /\ swappedLBAResponses' = 0
    /\ confidenceScore' = IF nopSupported THEN 20 ELSE 0
    /\ countOffset' = "none"
    /\ lbaOffset' = FALSE
    /\ UNCHANGED <<drive, verdict>>

----------------------------------------------------------------------------
(* The NOP command.                                                        *)

SteadyResponse(a) ==
    [ret |-> a.ret,
     count |-> IF "count" \in a.zeroes \/ a.back = "libata16" THEN "wrong"
               ELSE IF a.back \in {"shifted", "libata12"} THEN "offset" ELSE "echo",
     lba |-> IF "lba" \in a.zeroes \/ a.back \in {"libata12", "libata16"} THEN "wrong"
             ELSE IF a.back = "shifted" THEN "offset"
             ELSE IF a.back = "swapped" THEN "swapped" ELSE "echo",
     csi |-> a.back \in {"libata12", "libata16"},
     unaligned |-> a.back \in {"libata12", "libata16"} /\ "count" \notin a.zeroes]

Responses == IF adapter.steady THEN {SteadyResponse(adapter)} ELSE Noise

(* Mutant: the count is not looked at.                                     *)
BlockedLbaOnly(count, lba) ==
    /\ nonDataTest \notin {"NONE", "ALLOW_ALL"}
    /\ nonDataLBABroken /\ lba

(* The pre-execution check of send_SAT_Passthrough_Command on a non-data   *)
(* command, given which of its registers are not zero.                     *)
Blocked(count, lba) ==
    /\ nonDataTest \notin {"NONE", "ALLOW_ALL"}
    /\ IF nonDataCountBroken THEN count ELSE nonDataLBABroken /\ lba

NothingBack == [ret |-> "OTHER", count |-> "wrong", lba |-> "wrong",
                csi |-> FALSE, unaligned |-> FALSE]

(* Once the hack is set, send_SAT_Passthrough_Command itself picks the     *)
(* count out of such sense data, and nothing else, and says so.            *)
Worked(r) == fixedSenseHack = "UNALIGNED_WRITE_BUG" /\ r.unaligned

PickedCount(r) == [r EXCEPT !.ret = "OTHER", !.count = "echo", !.lba = "wrong"]

(* ata_NOP: the test of an adapter an earlier test found broken is itself  *)
(* subject to the check.                                                   *)
Nop(r) == IF Blocked(TRUE, TRUE) THEN NothingBack
          ELSE IF Worked(r) THEN PickedCount(r)
          ELSE r

----------------------------------------------------------------------------
(* One round of the test.                                                  *)

(* The first NOP that does not come back right looks for the count in the  *)
(* whole result, its own register included, and then for the LBA.          *)
Discovers(r) == testNum = 0 /\ ~(r.count = "echo" /\ r.lba = "echo")

CountOffset(r) ==
    IF ~Discovers(r) THEN countOffset
    ELSE CASE r.count = "echo"   -> "register"
           [] r.count = "offset" -> "elsewhere"
           [] r.count = "wrong"  -> "none"

LbaOffset(r) == lbaOffset \/ (/\ Discovers(r)
                              /\ r.count # "wrong"
                              /\ r.lba = "offset")

CountMatch(r) == r.count = (IF CountOffset(r) = "elsewhere" THEN "offset"
                                                            ELSE "echo")
LbaMatch(r) == r.lba = (IF LbaOffset(r) THEN "offset" ELSE "echo")

One(b) == IF b THEN 1 ELSE 0

Bonus(r) ==
    (IF r.ret = "ABORTED" THEN 5 ELSE -10)
    + (IF Discovers(r) /\ CountOffset(r) # "none" THEN 15 ELSE 0)
    + (CASE CountMatch(r) /\ LbaMatch(r)   -> 5
         [] ~CountMatch(r) /\ ~LbaMatch(r) -> 3
         [] OTHER                          -> 0)

(* Both registers came back, or neither did.                               *)
Consistent(r) == CountMatch(r) = LbaMatch(r)

(* Mutant: any answer will do.                                             *)
ExitsAnyway(r) == nopSupported

(* A NOP the drive says it supports ends the test at once.                 *)
Exits(r) == Consistent(r) /\ nopSupported

BrokenLba(r) == ~LbaMatch(r) /\ r.lba # "swapped"

Test(r) ==
    /\ pc = "test"
    /\ countOffset' = CountOffset(r)
    /\ lbaOffset' = LbaOffset(r)
    /\ confidenceScore' = confidenceScore + Bonus(r)
    /\ successfulMatches' = successfulMatches + One(Consistent(r))
    /\ brokenCountResponses' = brokenCountResponses + One(~CountMatch(r))
    /\ brokenLBAResponses' = brokenLBAResponses + One(BrokenLba(r))
    /\ swappedLBAResponses'
           = swappedLBAResponses + One(~LbaMatch(r) /\ r.lba = "swapped")
    /\ UNCHANGED drive

AllowAll ==
    /\ nonDataCountBroken' = FALSE
    /\ nonDataLBABroken' = FALSE
    /\ fixedSenseHack' = "ANY_SENSE_ALLOWED"
    /\ nonDataTest' = "ALLOW_ALL"

EarlyExit ==
    /\ \E raw \in Responses : Test(Nop(raw)) /\ Exits(Nop(raw))
    /\ AllowAll
    /\ pc' = "done"
    /\ UNCHANGED testNum

Tested(n) == n = NOP_MAX_TESTS

(* An inconsistent answer whose sense data looks like libata's.            *)
LooksLikeLibata(r) == ~Consistent(r) /\ r.csi /\ r.lba # "swapped"

NextTest ==
    /\ \E raw \in Responses :
          LET r == Nop(raw)
          IN  /\ Test(r)
              /\ ~Exits(r)
              /\ fixedSenseHack' = IF LooksLikeLibata(r)
                                   THEN "UNALIGNED_WRITE_BUG"
                                   ELSE fixedSenseHack
    /\ testNum' = testNum + 1
    /\ pc' = IF Tested(testNum') THEN "decide" ELSE "test"
    /\ UNCHANGED <<nonDataTest, nonDataCountBroken, nonDataLBABroken>>

----------------------------------------------------------------------------
(* The verdict.                                                            *)

(* Mutant: most answers are enough.                                        *)
AlmostAll(n) == n >= NOP_MAX_TESTS - 1

All(n) == n = NOP_MAX_TESTS

Decision ==
    IF All(successfulMatches) /\ confidenceScore >= 50        THEN "pass"
    ELSE IF All(brokenCountResponses) /\ confidenceScore >= 20 THEN "count"
    ELSE IF All(swappedLBAResponses) /\ confidenceScore >= 20  THEN "swapped"
    ELSE IF All(brokenLBAResponses) /\ confidenceScore >= 20   THEN "lba"
    ELSE IF countOffset # "none" /\ All(brokenLBAResponses)    THEN "misaligned"
    ELSE IF /\ All(successfulMatches) /\ All(brokenCountResponses)
            /\ All(brokenLBAResponses) /\ confidenceScore >= 0 THEN "fallback"
    ELSE "inconclusive"

Decided(d) ==
    /\ pc = "decide"
    /\ Decision = d
    /\ UNCHANGED <<drive, testNum, counters, confidenceScore, offsets>>

(* The verification NOP is only sent for the libata workaround.            *)
VerifyNext ==
    pc' = IF fixedSenseHack' = "UNALIGNED_WRITE_BUG" THEN "verify" ELSE "done"

DecidePass == Decided("pass") /\ AllowAll /\ VerifyNext

DecideCount ==
    /\ Decided("count")
    /\ nonDataCountBroken' = TRUE
    /\ nonDataTest' = "COUNT_ZERO_ONLY"
    /\ UNCHANGED <<nonDataLBABroken, fixedSenseHack>>
    /\ VerifyNext

DecideSwapped ==
    /\ Decided("swapped")
    /\ nonDataLBABroken' = FALSE
    /\ fixedSenseHack' = "SWAPPED_LBA_BYTE_ORDER"
    /\ nonDataTest' = "ALLOW_ALL"
    /\ UNCHANGED nonDataCountBroken
    /\ VerifyNext

DecideLba ==
    /\ Decided("lba")
    /\ nonDataLBABroken' = TRUE
    /\ nonDataTest' = "LBA_ZERO_ONLY"
    /\ UNCHANGED <<nonDataCountBroken, fixedSenseHack>>
    /\ VerifyNext

DecideMisaligned ==
    /\ Decided("misaligned")
    /\ nonDataCountBroken' = FALSE
    /\ nonDataLBABroken' = TRUE
    /\ fixedSenseHack' = "UNALIGNED_WRITE_BUG"
    /\ nonDataTest' = "ALLOW_ALL"
    /\ VerifyNext

DecideFallback ==
    /\ Decided("fallback")
    /\ nonDataCountBroken' = FALSE
    /\ nonDataLBABroken' = TRUE
    /\ nonDataTest' = "LBA_ZERO_ONLY"
    /\ UNCHANGED fixedSenseHack
    /\ VerifyNext

DecideInconclusive ==
    /\ Decided("inconclusive")
    /\ nonDataTest' = "INDETERMINATE"
    /\ UNCHANGED <<nonDataCountBroken, nonDataLBABroken, fixedSenseHack>>
    /\ VerifyNext

----------------------------------------------------------------------------
(* The verification NOP, its result read from the standard registers.      *)

Boost(r) == CASE r.count = "echo" /\ r.lba = "echo"                     -> 35
              [] r.count = "echo" /\ r.lba # "echo"                     -> 15
              [] r.count # "echo" /\ r.lba = "echo"
                    /\ All(brokenLBAResponses)                          -> 15
              [] OTHER                                                  -> 0

Verify ==
    /\ pc = "verify"
    /\ \E raw \in Responses :
          LET r == Nop(raw)
              score == confidenceScore
                         + (IF r.ret \in {"SUCCESS", "ABORTED"} THEN Boost(r) ELSE 0)
              upgrade == /\ r.ret \in {"SUCCESS", "ABORTED"}
                         /\ score >= 50
                         /\ nonDataTest = "INDETERMINATE"
              count == upgrade /\ All(brokenCountResponses) /\ r.count = "echo"
              lba == /\ upgrade /\ ~count
                     /\ All(brokenLBAResponses) /\ r.lba = "echo"
          IN  /\ confidenceScore' = score
              /\ nonDataCountBroken' = (nonDataCountBroken \/ count)
              /\ nonDataLBABroken' = (nonDataLBABroken \/ lba)
              /\ nonDataTest' = CASE count -> "COUNT_ZERO_ONLY"
                                  [] lba   -> "LBA_ZERO_ONLY"
                                  [] OTHER -> nonDataTest
    /\ pc' = "done"
    /\ UNCHANGED <<drive, testNum, counters, offsets, fixedSenseHack>>

Run == \/ EarlyExit \/ NextTest
       \/ DecidePass \/ DecideCount \/ DecideSwapped \/ DecideLba
       \/ DecideMisaligned \/ DecideFallback \/ DecideInconclusive
       \/ Verify

(* The type invariant; the bounds are those of six tests of at most 10     *)
(* points, the discovery, the first 20 and the verification's 35.          *)
TestTypeOK ==
    /\ adapter \in AdapterSet
    /\ nopSupported \in BOOLEAN
    /\ pc \in {"test", "decide", "verify", "done"}
    /\ testNum \in 0..NOP_MAX_TESTS
    /\ successfulMatches \in 0..NOP_MAX_TESTS
    /\ brokenCountResponses \in 0..NOP_MAX_TESTS
    /\ brokenLBAResponses \in 0..NOP_MAX_TESTS
    /\ swappedLBAResponses \in 0..NOP_MAX_TESTS
    /\ confidenceScore \in -60..130
    /\ countOffset \in {"none", "register", "elsewhere"}
    /\ lbaOffset \in BOOLEAN
    /\ nonDataTest \in {"NONE", "INDETERMINATE", "ALLOW_ALL",
                        "COUNT_ZERO_ONLY", "LBA_ZERO_ONLY"}
    /\ nonDataCountBroken \in BOOLEAN
    /\ nonDataLBABroken \in BOOLEAN
    /\ fixedSenseHack \in {"NONE", "ANY_SENSE_ALLOWED", "UNALIGNED_WRITE_BUG",
                           "SWAPPED_LBA_BYTE_ORDER"}

----------------------------------------------------------------------------
(* Properties.                                                             *)

(* However an adapter answers, steadily or not: a register is only found   *)
(* broken when every one of the six tests lost it, by whichever of the     *)
(* decisions and upgrades.                                                 *)
BrokenOnUnanimity ==
    [][/\ nonDataCountBroken' /\ ~nonDataCountBroken
             => brokenCountResponses' = NOP_MAX_TESTS
       /\ nonDataLBABroken' /\ ~nonDataLBABroken
             => brokenLBAResponses' = NOP_MAX_TESTS]_testVars
=============================================================================
