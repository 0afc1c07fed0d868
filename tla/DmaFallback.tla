----------------------------- MODULE DmaFallback -----------------------------
(***************************************************************************)
(* The ATA commands that exist in a DMA and a PIO form (ata_helper.c):     *)
(* each is tried in its DMA form while a flag says that works, sent again  *)
(* in its PIO form when the sense data of the device's last command says   *)
(* "invalid field in CDB", and the flag is switched off unless the PIO     *)
(* form fails as well.  On top of them, SMART command transport (SCT): a   *)
(* command written to one log, and its data moved through another.         *)
(*                                                                         *)
(* Calls are made one after another, on several devices of one process.    *)
(* The drive behind the pass-through engine (SatPassthrough) is the        *)
(* environment: it takes a command or refuses it; a fault loses a command  *)
(* or its answer, or has a follow-up request of the engine refused, whose  *)
(* sense data then stands for the command's.                               *)
(***************************************************************************)
EXTENDS Naturals

(* The commands with two forms, and the flag that each of them goes by.    *)
Family == [readLog |-> "log", readErrorLog |-> "log", writeLog |-> "log",
           readBuffer |-> "readBuffer", writeBuffer |-> "writeBuffer",
           microcode |-> "microcode",
           trustedSend |-> "trustedSend", trustedReceive |-> "trustedReceive",
           readStream |-> "readStream", writeStream |-> "writeStream"]
Families == {Family[k] : k \in DOMAIN Family}

(* Flags that are static variables of a function: one for all devices.     *)
Static == {"trustedSend", "trustedReceive", "readStream", "writeStream"}

(* The SCT operations: status; commands without data (error recovery and   *)
(* feature control, WRITE SAME of a pattern field); with data in; with     *)
(* data out.                                                               *)
DataIn == {"sctTable", "sctReadLong"}
DataOut == {"sctWriteLong", "sctWriteSame"}
SctOps == {"sctStatus", "sctControl", "sctPattern"} \cup DataIn \cup DataOut

(* Drives: their logs, whether they have a DMA mode, what their bridges    *)
(* pass on in DMA form, whether the error logs are read like others, and   *)
(* whether they refuse an SCT command while another waits for its data.    *)
Drive == [log: {"gpl", "smartOnly", "none"}, mode: BOOLEAN,
          dma: SUBSET Families, errorLogDma: BOOLEAN, oneAtATime: BOOLEAN]

CONSTANTS Devices,    (* the drives the process talks to                   *)
          Drives,     (* the kinds of drive they are                       *)
          Ops,        (* the operations called                             *)
          MaxCalls,   (* bound: calls made                                 *)
          MaxFaults   (* bound: answers lost or misread                    *)

ASSUME BoundsAssumption == MaxCalls \in Nat /\ MaxFaults \in Nat
ASSUME DrivesAssumption == Drives \subseteq Drive
ASSUME OpsAssumption == Ops \subseteq DOMAIN Family \cup SctOps

VARIABLES
  device,   (* what kind of drive each device is                           *)
  pending,  (* per drive: the call whose SCT command waits for its data    *)
  dmaOff,   (* the flags that are switched off                             *)
  calls,    (* calls made so far: the number of the last                   *)
  call,     (* the call under way or the last one made                     *)
  faults,   (* faults so far                                               *)
  took,     (* history: how often the drive executed each step of the call *)
  fed,      (* history: the call whose SCT command got this call's data    *)
  misread,  (* history: flags switched off by a follow-up's sense data     *)
  learnt    (* history: drives that refused a DMA form and took the other  *)

history == <<took, fed, misread, learnt>>
vars == <<device, pending, dmaOff, calls, call, faults, history>>

Places == (Families \X Devices) \cup {<<f>> : f \in Static}
Place(d, k) == IF Family[k] \in Static THEN <<Family[k]>> ELSE <<Family[k], d>>

Steps == {"command", "transfer"}
Call == [op: Ops, dev: Devices, bad: BOOLEAN, step: Steps,
         form: {"dma", "pio", "none"}, retry: BOOLEAN,
         ret: {"success", "failure", "unsupported"}]

-----------------------------------------------------------------------------
(* The log command of an SCT step: a general purpose log, or a SMART log   *)
(* where the drive has no others or its bridge hangs on them.              *)
In(o, step) == o = "sctStatus" \/ (o \in DataIn /\ step = "transfer")
SctKind(d, o, step) ==
  IF device[d].log = "gpl"
  THEN IF In(o, step) THEN "readLog" ELSE "writeLog"
  ELSE IF In(o, step) THEN "smartReadLog" ELSE "smartWriteLog"

Kind(d, o, step) == IF o \in SctOps THEN SctKind(d, o, step) ELSE o

(* Mutant: the flag is not looked at.                                      *)
TriesDmaAlways(d, k, off) == k \in DOMAIN Family /\ device[d].mode
TriesDma(d, k, off) ==
  /\ k \in DOMAIN Family
  /\ device[d].mode
  /\ Place(d, k) \notin off
  /\ k = "readErrorLog" => device[d].errorLogDma

FirstForm(d, k, off) == IF TriesDma(d, k, off) THEN "dma" ELSE "pio"

(* Logs are not asked for on a drive without general purpose logging.      *)
NotForDevice(d, o) ==
  o \in {"readLog", "readErrorLog", "writeLog"} /\ device[d].log = "none"

(* Calls that want the registers back: the engine may ask for them with a  *)
(* request of its own after a command that failed.                         *)
WantsRegisters(o, step) ==
  o \in {"sctControl", "sctReadLong", "sctWriteLong"} /\ step = "command"

Moves(o) == o \in DataIn \cup DataOut

-----------------------------------------------------------------------------
(* The drive and its bridge.                                               *)
Kind0 == Kind(call.dev, call.op, call.step)

(* A drive that waits for the data of one SCT command may refuse another.  *)
Refuses ==
  /\ call.op \in SctOps \ {"sctStatus"} /\ call.step = "command"
  /\ pending[call.dev] # 0 /\ device[call.dev].oneAtATime

Able(form) ==
  /\ ~call.bad
  /\ form = "dma" => Family[Kind0] \in device[call.dev].dma
  /\ call.op \in SctOps /\ call.step = "transfer" => pending[call.dev] # 0
  /\ ~Refuses

Answers == [took: BOOLEAN, ok: BOOLEAN, invalid: BOOLEAN, fault: BOOLEAN]
Answer(form, a) ==
  /\ a \in Answers
  /\ a.took => Able(form)
  /\ a.ok => a.took /\ ~a.invalid /\ ~a.fault
  /\ ~a.fault /\ a.took => a.ok
  /\ ~a.fault /\ Able(form) => a.took
  /\ a.fault => faults < MaxFaults
  /\ a.fault /\ a.took /\ a.invalid => WantsRegisters(call.op, call.step)

(* What a drive that takes a step of an SCT operation waits for next.      *)
Waits == IF call.step = "command" /\ Moves(call.op) THEN calls ELSE 0

Taken(a) ==
  /\ pending' = IF a.took /\ call.op \in SctOps \ {"sctStatus"}
                THEN [pending EXCEPT ![call.dev] = Waits] ELSE pending
  /\ took' = IF a.took THEN [took EXCEPT ![call.step] = @ + 1] ELSE took
  /\ fed' = IF a.took /\ call.op \in SctOps /\ call.step = "transfer"
            THEN pending[call.dev] ELSE fed
  /\ faults' = IF a.fault THEN faults + 1 ELSE faults

-----------------------------------------------------------------------------
Init ==
  /\ device \in [Devices -> Drives]
  /\ pending = [d \in Devices |-> 0]
  /\ dmaOff = {}
  /\ calls = 0
  /\ \E d \in Devices, o \in Ops :
       call = [op |-> o, dev |-> d, bad |-> FALSE, step |-> "command",
               form |-> "none", retry |-> FALSE, ret |-> "failure"]
  /\ faults = 0
  /\ took = [s \in Steps |-> 0]
  /\ fed = 0
  /\ misread = {}
  /\ learnt = {}

Idle == call.form = "none"

(* A call of send_ATA_..._Cmd or send_ATA_SCT_..., with parameters the     *)
(* drive takes or not.                                                     *)
Begin(d, o, bad) ==
  /\ Idle
  /\ calls < MaxCalls
  /\ calls' = calls + 1
  /\ call' = [op |-> o, dev |-> d, bad |-> bad, step |-> "command",
              form |-> IF NotForDevice(d, o) THEN "none"
                       ELSE FirstForm(d, Kind(d, o, "command"), dmaOff),
              retry |-> FALSE,
              ret |-> IF NotForDevice(d, o) THEN "unsupported" ELSE "failure"]
  /\ took' = [s \in Steps |-> 0]
  /\ fed' = 0
  /\ UNCHANGED <<device, pending, dmaOff, faults, misread, learnt>>

(* WRITE SAME sends its data whatever became of its command; the others    *)
(* only after a success.  Mutant: all of them send it.                     *)
GoesOnAlways(ok) == call.step = "command" /\ Moves(call.op)
GoesOn(ok) ==
  /\ call.step = "command" /\ Moves(call.op)
  /\ ok \/ call.op = "sctWriteSame"

(* The end of a step, with the flags as they are after it.                 *)
Step(ok) ==
  call' = IF GoesOn(ok)
          THEN [call EXCEPT !.step = "transfer", !.retry = FALSE,
                  !.form = FirstForm(call.dev, Kind(call.dev, call.op, "transfer"),
                                     dmaOff')]
          ELSE [call EXCEPT !.form = "none", !.retry = FALSE,
                  !.ret = IF ok THEN "success" ELSE "failure"]

(* Mutant: any failure of the DMA form leads to the other form.            *)
FallsBackAlways(a) == ~a.ok
FallsBack(a) == ~a.ok /\ a.invalid

(* The DMA form, and the check of lastCommandSenseData after it.           *)
Dma(a) ==
  /\ call.form = "dma"
  /\ Answer("dma", a)
  /\ Taken(a)
  /\ IF FallsBack(a)
     THEN /\ dmaOff' = dmaOff \cup {Place(call.dev, Kind0)}
          /\ call' = [call EXCEPT !.form = "pio", !.retry = TRUE]
          /\ misread' = IF a.fault THEN misread \cup {Place(call.dev, Kind0)}
                        ELSE misread
     ELSE /\ UNCHANGED <<dmaOff, misread>>
          /\ Step(a.ok)
  /\ UNCHANGED <<device, calls, learnt>>

(* The PIO form failed too: it was not DMA.  Mutant: that is not noticed.  *)
RestoresNever(a) == FALSE
Restores(a) == call.retry /\ ~a.ok

(* The PIO form, first or after the DMA form.                              *)
Pio(a) ==
  /\ call.form = "pio"
  /\ Answer("pio", a)
  /\ Taken(a)
  /\ dmaOff' = IF Restores(a) THEN dmaOff \ {Place(call.dev, Kind0)} ELSE dmaOff
  /\ Step(a.ok)
  /\ learnt' = IF call.retry /\ a.ok
               THEN learnt \cup {<<Family[Kind0], call.dev>>} ELSE learnt
  /\ UNCHANGED <<device, calls, misread>>

Next ==
  \/ \E d \in Devices, o \in Ops, bad \in BOOLEAN : Begin(d, o, bad)
  \/ \E a \in Answers : Dma(a) \/ Pio(a)

Spec == Init /\ [][Next]_vars

-----------------------------------------------------------------------------
(* Properties.                                                             *)

(* The type invariant: a step is executed at most twice, in its two forms. *)
TypeOK ==
  /\ device \in [Devices -> Drives]
  /\ pending \in [Devices -> 0..calls]
  /\ dmaOff \in SUBSET Places
  /\ calls \in 0..MaxCalls
  /\ call \in Call
  /\ faults \in 0..MaxFaults
  /\ took \in [Steps -> 0..2]
  /\ fed \in 0..calls
  /\ misread \in SUBSET Places
  /\ learnt \in SUBSET (Families \X Devices)

(* A command is sent again in its PIO form only if the drive did not       *)
(* execute its DMA form: the drive executes a step twice only when the     *)
(* answer to it was lost and a follow-up request for its registers was     *)
(* refused, so a trusted send, a microcode segment or the data of an SCT   *)
(* command, for which no registers are asked, is never executed twice      *)
(* (the checks of lastCommandSenseData in ata_helper.c).                   *)
TwiceOnlyForRegisters ==
  \A s \in Steps : took[s] > 1 => WantsRegisters(call.op, s)

(* DMA is given up for cause, and for good.  After a call, a flag is off   *)
(* only if a device that goes by it cannot take a command of that family   *)
(* in DMA form, or the refusal of a follow-up was mistaken for one; a      *)
(* request refused for its parameters in both forms leaves the flag on.    *)
(* And once a drive has refused a command in DMA form and executed it in   *)
(* PIO form, no command of that family is sent to it in DMA form again,    *)
(* whatever later calls meet with on it and, for the static flags, on the  *)
(* other devices.                                                          *)
DmaOffForCauseAndGood ==
  /\ ~call.retry =>
       \A p \in dmaOff :
         \/ p \in misread
         \/ \E d \in Devices : /\ p \in {<<p[1]>>, <<p[1], d>>}
                               /\ p[1] \notin device[d].dma
  /\ call.form = "dma" => <<Family[Kind0], call.dev>> \notin learnt

(* The data of an SCT operation goes to the command of that operation, not *)
(* to one that an earlier call, whose transfer failed, left waiting in the *)
(* drive.  The exception is WRITE SAME, which sends its pattern after a    *)
(* command that failed.                                                    *)
DataFeedsOwnCommand ==
  fed # 0 => \/ fed = calls
             \/ call.op = "sctWriteSame" /\ took["command"] = 0

(* A reported success means the drive executed every step of the operation *)
(* for this call; only a WRITE SAME can report one for a command the drive *)
(* refused, and only where an earlier call left a command waiting.         *)
SuccessMeansTaken ==
  Idle /\ call.ret = "success" =>
    /\ took["command"] = 0 => call.op = "sctWriteSame" /\ fed \notin {0, calls}
    /\ Moves(call.op) => took["transfer"] > 0
=============================================================================
