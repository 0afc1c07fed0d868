----------------------------- MODULE DriveMedium -----------------------------
(***************************************************************************)
(* The blocks of a drive, ATA or NVMe, as the software translators meet    *)
(* them: what reads return, what is on the medium beneath a write cache,   *)
(* which blocks cannot be read, and the status of the last command.        *)
(*                                                                         *)
(* A command outside the drive is refused, a read or verification of an    *)
(* unreadable block fails, and a fault ends a command early, with a device *)
(* fault in the registers or, lost in the operating system, with none.     *)
(***************************************************************************)
EXTENDS Naturals

CONSTANTS Last,       (* the last block: return_Device_MaxLba              *)
          Values,     (* the contents of a block; 0 is all zeros           *)
          Uncorrectable, (* what a block made unreadable is written with   *)
          MaxFaults   (* bound: commands that meet a fault                 *)

ASSUME MediumAssumption ==
  Last \in Nat /\ 0 \in Values /\ Uncorrectable \notin Values /\ MaxFaults \in Nat

VARIABLES
  cached,   (* the drive has a write cache and it is enabled               *)
  data,     (* what a read of each block returns                           *)
  saved,    (* what each block would hold without the cache                *)
  bad,      (* blocks that cannot be read until they are written           *)
  regs,     (* lastCommandRTFRs shows an error                             *)
  faults,   (* faults so far                                               *)
  wrote     (* history: what the commands of a call wrote, and where       *)

medium == <<cached, data, saved, bad, regs, faults, wrote>>

Blocks == 0..Last
Span(lba, n) == {b \in Blocks : lba <= b /\ b < lba + n}
Fits(lba, n) == n > 0 /\ lba + n <= Last + 1

Reads == {"read", "verify"}
Answers == [status: {"ok", "refused", "unreadable", "fault", "lost"},
            done: 0..(Last + 1)]

(* The answers to a command on n blocks: how it ends, and how many blocks  *)
(* were written by then.                                                   *)
Answer(do, lba, n, a) ==
  \/ /\ a.status = "ok"
     /\ Fits(lba, n)
     /\ do \in Reads => Span(lba, n) \cap bad = {}
     /\ a.done = n
  \/ a.status = "refused" /\ ~Fits(lba, n) /\ a.done = 0
  \/ /\ a.status = "unreadable"
     /\ Fits(lba, n) /\ do \in Reads /\ Span(lba, n) \cap bad # {}
     /\ a.done = 0
  \/ /\ a.status \in {"fault", "lost"}
     /\ faults < MaxFaults
     /\ IF do = "write" /\ Fits(lba, n) THEN a.done <= n ELSE a.done = 0

Noted(a) ==
  /\ regs' = (a.status \in {"refused", "unreadable", "fault"})
  /\ faults' = IF a.status \in {"fault", "lost"} THEN faults + 1 ELSE faults
  /\ UNCHANGED cached

(* A command on n blocks: a write of v; a read; a verification.  Written   *)
(* or read past the cache if it says so, and verified anyway, the blocks   *)
(* are saved.                                                              *)
Execute(do, lba, n, v, fua, a) ==
  LET S == Span(lba, a.done) IN
    /\ Answer(do, lba, n, a)
    /\ data' = IF do = "write"
               THEN [b \in Blocks |-> IF b \in S THEN v ELSE data[b]] ELSE data
    /\ saved' = [b \in Blocks |->
                   IF b \in S /\ (do = "verify" \/ fua \/ (do = "write" /\ ~cached))
                   THEN data'[b] ELSE saved[b]]
    /\ bad' = IF do = "write" THEN bad \ S ELSE bad
    /\ wrote' = IF do = "write" THEN wrote \cup (S \X {v}) ELSE wrote
    /\ Noted(a)

(* WRITE UNCORRECTABLE for the blocks of S.                                *)
Spoil(S, a) ==
  LET fits == S # {} /\ S \subseteq Blocks IN
    /\ \/ a.status = "ok" /\ fits /\ a.done = 1
       \/ a.status = "refused" /\ ~fits /\ a.done = 0
       \/ a.status \in {"fault", "lost"} /\ faults < MaxFaults
          /\ a.done \in (IF fits THEN {0, 1} ELSE {0})
    /\ bad' = IF a.done = 1 THEN bad \cup S ELSE bad
    /\ wrote' = IF a.done = 1 THEN wrote \cup (S \X {Uncorrectable}) ELSE wrote
    /\ UNCHANGED <<data, saved>>
    /\ Noted(a)

(* FLUSH CACHE.                                                            *)
FlushAll(a) ==
  /\ \/ a.status = "ok" /\ a.done \in {0}
     \/ a.status \in {"fault", "lost"} /\ faults < MaxFaults /\ a.done \in {0, 1}
  /\ saved' = IF a.status = "ok" \/ a.done = 1 THEN data ELSE saved
  /\ UNCHANGED <<data, bad, wrote>>
  /\ Noted(a)

(* DATA SET MANAGEMENT, TRIM: the blocks of the entries read zeros.  The   *)
(* drive refuses a list with an entry outside of it.                       *)
Trim(entries, a) ==
  LET S == UNION {Span(e[1], e[2]) : e \in entries}
      fits == \A e \in entries : e[1] + e[2] <= Last + 1
  IN
    /\ \/ a.status = "ok" /\ fits /\ a.done = 1
       \/ a.status = "refused" /\ ~fits /\ a.done = 0
       \/ a.status \in {"fault", "lost"} /\ faults < MaxFaults /\ a.done = 0
    /\ data' = [b \in Blocks |-> IF a.done = 1 /\ b \in S THEN 0 ELSE data[b]]
    /\ saved' = [b \in Blocks |-> IF a.done = 1 /\ b \in S THEN 0 ELSE saved[b]]
    /\ bad' = IF a.done = 1 THEN bad \ S ELSE bad
    /\ wrote' = IF a.done = 1 THEN wrote \cup (S \X {0}) ELSE wrote
    /\ Noted(a)

MediumOK ==
  /\ cached \in BOOLEAN
  /\ data \in [Blocks -> Values]
  /\ saved \in [Blocks -> Values]
  /\ bad \in SUBSET Blocks
  /\ regs \in BOOLEAN
  /\ faults \in 0..MaxFaults
  /\ wrote \in SUBSET (Blocks \X (Values \cup {Uncorrectable}))
=============================================================================
