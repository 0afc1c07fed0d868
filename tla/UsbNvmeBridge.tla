--------------------------- MODULE UsbNvmeBridge ---------------------------
(***************************************************************************)
(* NVMe commands through a USB bridge: nvme_Cmd (nvme_cmds.c) over the     *)
(* pass-throughs of JMicron, ASMedia and Realtek bridges, and the resets   *)
(* of the first two.                                                       *)
(*                                                                         *)
(* One NVMe command is three SCSI commands: the first sets the bridge's    *)
(* payload, the second moves the data and has the bridge run the payload,  *)
(* the third fetches the completion.  The basic pass-throughs have one     *)
(* SCSI command and no completion.  The bridge is the environment: it has  *)
(* one payload and one completion for all who use it, and nothing keeps    *)
(* the commands of two clients (handles, processes) apart.                 *)
(***************************************************************************)
EXTENDS Naturals

CONSTANTS Clients,    (* users of the bridge, each with a tDevice          *)
          Commands,   (* the NVMe commands they send                       *)
          MaxCalls,   (* bound: calls made                                 *)
          MaxFaults   (* bound: SCSI commands lost, refused or late        *)

(* passThroughHacks.passthroughType.                                       *)
Phased == {"jmicron", "asmedia", "realtek"}
Basic == {"asmediaBasic", "realtekBasic"}
Kinds == Phased \cup Basic

Ids == 1..MaxCalls
NoId == 0

(* A command: its set; its opcode, 00h or another one by the direction it  *)
(* stands for; whether it has more in it than opcode and lowest byte of    *)
(* dword 10; the caller's direction is that of the opcode; the caller's    *)
(* timeout is longer than any SCSI command takes.  Or a reset.             *)
Ops == {"zero", "none", "in", "out", "both"}
Command == [what: {"command"}, set: {"admin", "io"}, op: Ops, full: BOOLEAN,
            fits: BOOLEAN, patient: BOOLEAN]
Reset == [what: {"reset", "subsystem"}]
Calls == Commands \cup Reset

ASSUME CommandsAssumption == Commands \subseteq Command
ASSUME BoundsAssumption == MaxCalls \in Nat /\ MaxFaults \in Nat

Payloads == [id: Ids, asked: Ops, op: Ops]
NoPayload == [id |-> NoId, asked |-> "zero", op |-> "zero"]
NoCompletion == [id |-> NoId, ok |-> FALSE]
Bridges == [payload: Payloads \cup {NoPayload},
            completion: [id: Ids \cup {NoId}, ok: BOOLEAN], up: BOOLEAN]

(* What scsi_Send_Cdb makes of one SCSI command.                           *)
Sendings == {"success", "failure", "passthrough", "timeout"}
Results == Sendings \cup {"badParameter", "notAvailable", "notSupported", "none"}

VARIABLES
  kind,    (* the pass-through in use                                      *)
  bridge,  (* payload, completion, and whether the drive is up             *)
  pc,      (* the client's next SCSI command                               *)
  call,    (* the client's call                                            *)
  id,      (* its number                                                   *)
  sendRet, (* local sendRet                                                *)
  valid,   (* commandCompletionData: dw3Valid and whether its status is    *)
           (* successful                                                   *)
  last,    (* last command completion time of the client's tDevice         *)
  ret,     (* what the call returned                                       *)
  calls,   (* calls made                                                   *)
  faults,  (* faults so far                                                *)
  ran,     (* history: commands the drive ran, for which call, by which    *)
           (* call's data phase, and whether that one was alone            *)
  past     (* history of the client's call: others used the bridge; an     *)
           (* answer was lost; it stopped, it restarted the drive          *)

client == <<pc, call, id, sendRet, valid, last, ret>>
vars == <<kind, bridge, client, calls, faults, ran, past>>

Past == [mixed: BOOLEAN, lost: BOOLEAN, stopped: BOOLEAN, restarted: BOOLEAN]
Runs == [id: Ids, by: Ids, alone: BOOLEAN, asked: Ops, op: Ops, ok: BOOLEAN]

-----------------------------------------------------------------------------
Init ==
  /\ kind \in Kinds
  /\ bridge = [payload |-> NoPayload, completion |-> NoCompletion, up |-> TRUE]
  /\ pc = [c \in Clients |-> "idle"]
  /\ call = [c \in Clients |-> [what |-> "reset"]]
  /\ id = [c \in Clients |-> NoId]
  /\ sendRet = [c \in Clients |-> "success"]
  /\ valid = [c \in Clients |-> "no"]
  /\ last = [c \in Clients |-> "short"]
  /\ ret = [c \in Clients |-> "none"]
  /\ calls = 0
  /\ faults = 0
  /\ ran = {}
  /\ past = [c \in Clients |-> [mixed |-> FALSE, lost |-> FALSE,
                                stopped |-> FALSE, restarted |-> FALSE]]

(* set_NVMe_Last_Completion and did_NVMe_Command_Timeout at the end of     *)
(* nvme_Cmd.  Mutant: the duration is not looked at.                       *)
Judged(r, v) ==
  IF v = "no" \/ r = "passthrough" THEN r ELSE IF v = "ok" THEN "success" ELSE "failure"
FinalAnyTime(r, v, time, patient) == Judged(r, v)
Final(r, v, time, patient) ==
  IF time = "long" /\ ~patient THEN "timeout" ELSE Judged(r, v)

(* Commands for which no SCSI command is sent.                             *)
NotSent(m) ==
  CASE kind \in {"asmedia", "realtek"} -> m.op = "both"
    [] kind = "asmediaBasic" -> m.set = "io" \/ m.op # "in" \/ m.full
    [] kind = "realtekBasic" -> m.set = "io"
    [] OTHER -> FALSE

Begin(c, m) ==
  /\ pc[c] = "idle"
  /\ calls < MaxCalls
  /\ calls' = calls + 1
  /\ id' = [id EXCEPT ![c] = calls + 1]
  /\ call' = [call EXCEPT ![c] = m]
  /\ sendRet' = [sendRet EXCEPT ![c] = "success"]
  /\ valid' = [valid EXCEPT ![c] = "no"]
  /\ past' = [past EXCEPT ![c] = [mixed |-> FALSE, lost |-> FALSE,
                                  stopped |-> FALSE, restarted |-> FALSE]]
  /\ UNCHANGED <<kind, bridge, last, faults, ran>>

(* nvme_Cmd.  A call that sends nothing is still measured by the duration  *)
(* of the command before it.                                               *)
BeginCommand(c, m) ==
  /\ Begin(c, m)
  /\ IF m.fits /\ ~NotSent(m)
     THEN /\ pc' = [pc EXCEPT ![c] = IF kind \in Phased THEN "payload" ELSE "basic"]
          /\ ret' = [ret EXCEPT ![c] = "none"]
     ELSE /\ ret' = [ret EXCEPT ![c] =
                       IF ~m.fits THEN "badParameter"
                       ELSE Final("notAvailable", "no", last[c], m.patient)]
          /\ UNCHANGED pc

(* nvme_Reset and nvme_Subsystem_Reset.                                    *)
BeginReset(c, m) ==
  /\ Begin(c, m)
  /\ LET first == CASE kind = "jmicron" -> "shutdown"
                    [] kind = "asmedia" -> IF m.what = "reset" THEN "shutdown" ELSE "relink"
                    [] OTHER -> "idle"
     IN /\ pc' = [pc EXCEPT ![c] = first]
        /\ ret' = [ret EXCEPT ![c] = IF first = "idle" THEN "notAvailable" ELSE "none"]

-----------------------------------------------------------------------------
(* One SCSI command: its result r, its duration, and whether it reached    *)
(* the bridge.  It times out by the SCSI timeout: the data phase of JMicron*)
(* and Realtek bridges has that of the NVMe command, all others the        *)
(* default.                                                                *)
CallersTimeout(c) ==
  \/ pc[c] = "data" /\ kind # "asmedia"
  \/ pc[c] = "basic" /\ kind = "realtekBasic"
TimedOut(c, time) ==
  time = "long" /\ ~(CallersTimeout(c) /\ call[c].patient)

Scsi(c, r, time, reached) ==
  /\ (r = "timeout") = TimedOut(c, time)
  /\ r = "success" => reached
  /\ r # "success" => faults < MaxFaults
  /\ faults' = faults + (IF r = "success" THEN 0 ELSE 1)
  /\ last' = [last EXCEPT ![c] = time]
  /\ UNCHANGED <<kind, calls>>

(* The others who have a call under way did not have the bridge to         *)
(* themselves.                                                             *)
Used(c, lost) ==
  [d \in Clients |->
     IF d = c THEN [past[c] EXCEPT !.lost = @ \/ lost]
     ELSE [past[d] EXCEPT !.mixed = @ \/ pc[d] # "idle"]]

Answer(c, r) ==
  /\ pc' = [pc EXCEPT ![c] = "idle"]
  /\ ret' = [ret EXCEPT ![c] = r]

(* What the first phase puts in the payload.  The I/O commands of JMicron  *)
(* bridges have their opcode put in the CDB in place of the payload.       *)
Payload(c) ==
  [id |-> id[c], asked |-> call[c].op,
   op |-> IF kind = "jmicron" /\ call[c].set = "io" THEN "zero" ELSE call[c].op]

(* Phase 1.  On a JMicron bridge a command for both directions is only     *)
(* found to be impossible when the data phase is built.                    *)
(* Mutant: only a refusal ends the call.                                   *)
GoesOnUnlessRefused(c, r) == r # "failure" /\ call[c].op # "both"
GoesOn(c, r) == r = "success" /\ call[c].op # "both"

SendPayload(c, r, time, reached) ==
  /\ pc[c] = "payload"
  /\ Scsi(c, r, time, reached)
  /\ r = "failure" => ~reached
  /\ bridge' = IF reached THEN [bridge EXCEPT !.payload = Payload(c)] ELSE bridge
  /\ past' = Used(c, reached /\ r # "success")
  /\ IF GoesOn(c, r)
     THEN pc' = [pc EXCEPT ![c] = "data"] /\ UNCHANGED ret
     ELSE Answer(c, Final(IF r = "success" THEN "notAvailable" ELSE r, "no",
                          time, call[c].patient))
  /\ UNCHANGED <<call, id, sendRet, valid, ran>>

(* The bridge runs its payload, if it has one and the drive is up.         *)
Runs1(c, p, ok) ==
  ran \cup {[id |-> p.id, by |-> id[c], alone |-> ~past[c].mixed,
             asked |-> p.asked, op |-> p.op, ok |-> ok]}

(* What is returned where no completion was fetched, or none was valid.    *)
(* Mutant: the result of the data phase is dropped everywhere.             *)
WithoutCompletionAlways(r) == "success"
WithoutCompletion(r) == IF kind = "realtek" THEN "success" ELSE r

(* Phase 2.  A timeout is not followed by the third phase.                 *)
SendData(c, r, time, reached, ok) ==
  /\ pc[c] = "data"
  /\ Scsi(c, r, time, reached)
  /\ LET runs == reached /\ bridge.payload # NoPayload /\ bridge.up IN
       /\ r = "success" => runs
       /\ ok => runs
       /\ IF runs
          THEN /\ bridge' = [bridge EXCEPT !.completion = [id |-> bridge.payload.id, ok |-> ok]]
               /\ ran' = Runs1(c, bridge.payload, ok)
          ELSE UNCHANGED <<bridge, ran>>
  /\ sendRet' = [sendRet EXCEPT ![c] = r]
  /\ past' = Used(c, reached /\ r # "success")
  /\ IF r = "timeout"
     THEN Answer(c, Final(WithoutCompletion(r), "no", time, call[c].patient))
     ELSE pc' = [pc EXCEPT ![c] = "completion"] /\ UNCHANGED ret
  /\ UNCHANGED <<call, id, valid>>

(* Phase 3.  The bridge may or may not keep a completion that was read; it *)
(* marks that it has none (no signature, FFFFh), or refuses.               *)
FetchCompletion(c, r, time, keeps) ==
  /\ pc[c] = "completion"
  /\ Scsi(c, r, time, TRUE)
  /\ LET found == r = "success" /\ bridge.completion # NoCompletion
         v == IF ~found THEN "no" ELSE IF bridge.completion.ok THEN "ok" ELSE "bad"
     IN /\ r = "success" /\ kind = "realtek" => found
        /\ valid' = [valid EXCEPT ![c] = v]
        /\ bridge' = IF keeps THEN bridge ELSE [bridge EXCEPT !.completion = NoCompletion]
        /\ Answer(c, Final(IF found THEN "success" ELSE WithoutCompletion(sendRet[c]),
                           v, time, call[c].patient))
  /\ past' = Used(c, FALSE)
  /\ UNCHANGED <<call, id, sendRet, ran>>

(* The one SCSI command of the basic pass-throughs.                        *)
SendBasic(c, r, time, reached, ok) ==
  /\ pc[c] = "basic"
  /\ Scsi(c, r, time, reached)
  /\ r = "success" => ok /\ bridge.up
  /\ ok => reached
  /\ ran' = IF reached
            THEN Runs1(c, [id |-> id[c], asked |-> call[c].op, op |-> call[c].op], ok)
            ELSE ran
  /\ sendRet' = [sendRet EXCEPT ![c] = r]
  /\ past' = Used(c, reached /\ r # "success")
  /\ Answer(c, Final(r, "no", time, call[c].patient))
  /\ UNCHANGED <<bridge, call, id, valid>>

-----------------------------------------------------------------------------
(* The resets: jm_nvme_Reset and jm_nvme_Subsystem_Reset, asm_nvme_Reset   *)
(* and asm_nvme_Subsystem_Reset.                                           *)

Restarted == [payload |-> NoPayload, completion |-> NoCompletion, up |-> TRUE]

Shutdown(c, r, time, reached) ==
  /\ pc[c] = "shutdown"
  /\ Scsi(c, r, time, reached)
  /\ bridge' = IF reached THEN [bridge EXCEPT !.up = FALSE] ELSE bridge
  /\ past' = [Used(c, reached /\ r # "success") EXCEPT ![c].stopped = reached]
  /\ IF r = "success"
     THEN pc' = [pc EXCEPT ![c] = "restart"] /\ UNCHANGED ret
     ELSE Answer(c, IF kind = "jmicron" THEN "notAvailable" ELSE "notSupported")
  /\ UNCHANGED <<call, id, sendRet, valid, ran>>

(* The MCU reset of a JMicron bridge, the reset of an ASMedia bridge.      *)
(* Mutant: the reset of the bridge is thought to be what was not there.    *)
RestartFailedMissing == "notAvailable"
RestartFailed == "failure"

Restart(c, r, time, reached) ==
  /\ pc[c] = "restart"
  /\ Scsi(c, r, time, reached)
  /\ bridge' = IF reached THEN Restarted ELSE bridge
  /\ past' = [Used(c, reached /\ r # "success") EXCEPT ![c].restarted = reached]
  /\ IF r # "success" /\ kind = "asmedia"
     THEN pc' = [pc EXCEPT ![c] = "relink"] /\ UNCHANGED ret
     ELSE Answer(c, IF r = "success" THEN r ELSE RestartFailed)
  /\ UNCHANGED <<call, id, sendRet, valid, ran>>

Relink(c, r, time, reached) ==
  /\ pc[c] = "relink"
  /\ Scsi(c, r, time, reached)
  /\ bridge' = IF reached THEN Restarted ELSE bridge
  /\ past' = [Used(c, reached /\ r # "success") EXCEPT ![c].restarted = @ \/ reached]
  /\ Answer(c, IF r = "success" \/ call[c].what = "subsystem" THEN r ELSE RestartFailed)
  /\ UNCHANGED <<call, id, sendRet, valid, ran>>

-----------------------------------------------------------------------------
Next ==
  \E c \in Clients :
    \/ \E m \in Commands : BeginCommand(c, m)
    \/ \E m \in Reset : BeginReset(c, m)
    \/ \E r \in Sendings, time \in {"short", "long"}, reached \in BOOLEAN :
         \/ SendPayload(c, r, time, reached)
         \/ \E ok \in BOOLEAN : SendData(c, r, time, reached, ok)
         \/ \E ok \in BOOLEAN : SendBasic(c, r, time, reached, ok)
         \/ Shutdown(c, r, time, reached)
         \/ Restart(c, r, time, reached)
         \/ Relink(c, r, time, reached)
         \/ FetchCompletion(c, r, time, reached)

Spec == Init /\ [][Next]_vars

-----------------------------------------------------------------------------
(* Properties.                                                             *)

TypeOK ==
  /\ kind \in Kinds
  /\ bridge \in Bridges
  /\ pc \in [Clients -> {"idle", "payload", "data", "completion", "basic",
                         "shutdown", "restart", "relink"}]
  /\ call \in [Clients -> Calls]
  /\ id \in [Clients -> Ids \cup {NoId}]
  /\ sendRet \in [Clients -> Sendings]
  /\ valid \in [Clients -> {"no", "ok", "bad"}]
  /\ last \in [Clients -> {"short", "long"}]
  /\ ret \in [Clients -> Results]
  /\ calls \in 0..MaxCalls
  /\ faults \in 0..MaxFaults
  /\ ran \subseteq Runs
  /\ past \in [Clients -> Past]

(* A payload that stayed in the bridge, because its call broke off between *)
(* the phases, is never run by the data phase of a later call: what the    *)
(* drive runs is the command of the call that triggers it, unless another  *)
(* client put its payload in between.  It has the opcode that was asked    *)
(* for, but for the I/O commands of JMicron bridges.                       *)
RunsOwnCommand ==
  \A x \in ran :
    /\ x.alone => x.by = x.id
    /\ x.op # x.asked => kind = "jmicron" /\ x.op = "zero"

(* A command of the call was run, and run well.                            *)
Ran(c) == \E x \in ran : x.id = id[c]
RanWell(c) == \E x \in ran : x.id = id[c] /\ x.ok

(* SUCCESS means that the drive ran the command successfully, and never    *)
(* that its data phase timed out, not even where the result of that phase  *)
(* is dropped: nvme_Cmd compares the duration once more at its end.  The   *)
(* exceptions: another client used the bridge in between; the data phase   *)
(* went well but the status that says otherwise was not to be had; the     *)
(* data phase did not go well, but a completion was read, which may be     *)
(* that of an earlier command; the same on a Realtek bridge without any    *)
(* completion, where the result of the data phase is dropped.              *)
SuccessIsRun(c) ==
  pc[c] = "idle" /\ call[c].what = "command" /\ ret[c] = "success" =>
    /\ sendRet[c] # "timeout"
    /\ \/ RanWell(c)
       \/ past[c].mixed
       \/ sendRet[c] = "success" /\ valid[c] = "no" /\ Ran(c)
       \/ sendRet[c] # "success" /\ (valid[c] = "ok" \/ kind = "realtek")
SuccessMeansRun == \A c \in Clients : SuccessIsRun(c)

(* A reset that reports success has restarted the drive; one that reports  *)
(* not to be available or supported has left it running, unless the answer *)
(* to the shutdown was lost.                                               *)
ResetIsTrue(c) ==
  pc[c] = "idle" /\ call[c].what # "command" =>
    /\ ret[c] = "success" => past[c].restarted
    /\ ret[c] \in {"notAvailable", "notSupported"} => ~past[c].stopped \/ past[c].lost
ResetTellsTheTruth == \A c \in Clients : ResetIsTrue(c)
=============================================================================
