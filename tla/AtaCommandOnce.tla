--------------------------- MODULE AtaCommandOnce ---------------------------
(***************************************************************************)
(* What the SAT pass-through engine promises its callers about one command *)
(* after another, whatever follow-up requests, log reads and retries it    *)
(* takes: the drive executes a command at most once per call, and a call   *)
(* only reports success for a command the drive executed.  The exception   *)
(* is a command lost in the operating system or past its timeout, of which *)
(* nobody knows whether the drive executed it.                             *)
(***************************************************************************)
EXTENDS Naturals

VARIABLES phase,     (* "idle" or "busy": a call is in progress            *)
          executed,  (* how often the drive executed the command           *)
          lost,      (* the operating system lost track of the command     *)
          result     (* what the last call reported                        *)

vars == <<phase, executed, lost, result>>

Init ==
    /\ phase = "idle"
    /\ executed = 0
    /\ lost = FALSE
    /\ result = "none"

Submit ==
    /\ phase = "idle"
    /\ phase' = "busy"
    /\ executed' = 0
    /\ lost' = FALSE
    /\ result' = "none"

Execute ==
    /\ phase = "busy"
    /\ executed = 0
    /\ executed' = 1
    /\ UNCHANGED <<phase, lost, result>>

Lose ==
    /\ phase = "busy"
    /\ lost' = TRUE
    /\ executed' \in {executed, 1}
    /\ UNCHANGED <<phase, result>>

Return ==
    /\ phase = "busy"
    /\ phase' = "idle"
    /\ \/ result' = "other"
       \/ result' = "success" /\ (executed = 1 \/ lost)
    /\ UNCHANGED <<executed, lost>>

Next == Submit \/ Execute \/ Lose \/ Return

Spec == Init /\ [][Next]_vars
=============================================================================
