---------------------------- MODULE NonDataGuard ----------------------------
(***************************************************************************)
(* What the register test is for: non-data commands sent after it, through *)
(* the same adapter, past the pre-execution check of                       *)
(* send_SAT_Passthrough_Command (sat_helper.c).  A device may be           *)
(* identified, and so tested, more than once.                              *)
(***************************************************************************)
EXTENDS NopTest, FiniteSets

VARIABLES
    sent,    (* the registers that are not zero in the last command        *)
    got,     (* those of them the drive executed it with                   *)
    outcome, (* "none", "executed" or "blocked"                            *)
    discoveries   (* history: how often the device was identified, up to 2 *)

guarded == <<sent, got, outcome, discoveries>>
allVars == <<testVars, guarded>>

GuardInit ==
    /\ InitTest
    /\ sent = {}
    /\ got = {}
    /\ outcome = "none"
    /\ discoveries = 0

Discover ==
    /\ BeginTest
    /\ sent' = {}
    /\ got' = {}
    /\ outcome' = "none"
    /\ discoveries' = IF discoveries < 2 THEN discoveries + 1 ELSE 2

(* A non-data command whose registers regs are not zero.                   *)
NonData(regs) ==
    /\ pc = "done" /\ discoveries > 0
    /\ sent' = regs
    /\ IF Blocked("count" \in regs, "lba" \in regs)
       THEN outcome' = "blocked" /\ got' = {}
       ELSE outcome' = "executed" /\ got' = regs \ adapter.zeroes
    /\ UNCHANGED <<testVars, discoveries>>

GuardNext == \/ Discover
             \/ Run /\ UNCHANGED guarded
             \/ \E regs \in SUBSET {"count", "lba"} : NonData(regs)

GuardSpec == GuardInit /\ [][GuardNext]_allVars

Altered == outcome = "executed" /\ got # sent

(* An adapter that answers every NOP alike and lets it end in the abort it *)
(* must end in.                                                            *)
Honest == adapter.steady /\ adapter.ret = "ABORTED"

----------------------------------------------------------------------------
(* Properties.                                                             *)

(* Behind an honest adapter that loses one register and puts the other     *)
(* where it belongs, once the device was identified the drive never        *)
(* executes a non-data command that was altered on the way.                *)
FirstTestProtects ==
    /\ Honest /\ adapter.back = "plain" /\ Cardinality(adapter.zeroes) = 1
    /\ discoveries = 1
    => ~Altered

(* In one of the two forms of libata's misaligned sense data neither       *)
(* register is in a place the test looks at: though nothing was lost on    *)
(* the way to the drive, the count is declared broken (ata_helper.c 2506)  *)
(* and the commands with one are blocked.                                  *)
CountUnreadable == adapter.back = "libata16"

(* The guard blocks what it has to block and little else, after any number *)
(* of discoveries: unless the drive reports the NOP command as supported,  *)
(* no honest adapter whatsoever, however it garbles what the drive         *)
(* returns, makes the drive execute a command without its count; and an    *)
(* adapter that loses nothing on the way to the drive has no command       *)
(* blocked, however the NOPs end, though their answers come back swapped,  *)
(* shifted or as libata's unaligned write, unless in the form from which   *)
(* no register can be read (CountUnreadable).                              *)
GuardIsExact ==
    /\ Honest /\ ~nopSupported /\ outcome = "executed"
        => ("count" \in sent => "count" \in got)
    /\ adapter.steady /\ adapter.zeroes = {} /\ ~CountUnreadable
        => outcome # "blocked"

(* The protection outlives a second discovery of the device.               *)
ProtectionLasts ==
    /\ Honest /\ adapter.back = "plain" /\ Cardinality(adapter.zeroes) = 1
    => ~Altered
=============================================================================
