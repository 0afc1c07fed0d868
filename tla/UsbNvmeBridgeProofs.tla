------------------------- MODULE UsbNvmeBridgeProofs -------------------------
(***************************************************************************)
(* Proofs about UsbNvmeBridge, for every set of clients and of commands,   *)
(* every number of calls and of faults.                                    *)
(*                                                                         *)
(* What a client knows of the bridge between two of its SCSI commands      *)
(* holds as long as it had the bridge to itself: its payload is in it      *)
(* before the data phase, its completion before the third phase.  Steps of *)
(* the others break that, and leave the mark that frees the client of it.  *)
(***************************************************************************)
EXTENDS UsbNvmeBridge, TLAPS

(* The SCSI commands of nvme_Cmd, and of the resets.                       *)
CommandPhases == {"payload", "data", "completion", "basic"}
ResetPhases == {"shutdown", "restart", "relink"}

Busy(c) ==
  /\ pc[c] # "idle" => id[c] \in Ids
  /\ pc[c] \in CommandPhases => call[c].what = "command"
  /\ pc[c] \in ResetPhases => call[c].what # "command"

OwnPayload(c) == pc[c] = "data" /\ ~past[c].mixed => bridge.payload = Payload(c)

OwnCompletion(c) ==
  pc[c] = "completion" =>
    /\ sendRet[c] # "timeout"
    /\ sendRet[c] = "success" /\ ~past[c].mixed =>
         \E x \in ran : x.id = id[c] /\ bridge.completion = [id |-> id[c], ok |-> x.ok]

ClientInv(c) ==
  /\ Busy(c) /\ OwnPayload(c) /\ OwnCompletion(c)
  /\ SuccessIsRun(c) /\ ResetIsTrue(c)

(* The payload has the opcode that was asked for, or that of a JMicron     *)
(* bridge's I/O commands.                                                  *)
Opcode(p) == p.op # p.asked => kind = "jmicron" /\ p.op = "zero"

Inv ==
  /\ TypeOK
  /\ Opcode(bridge.payload) /\ RunsOwnCommand
  /\ \A c \in Clients : ClientInv(c)

-----------------------------------------------------------------------------
(* The invariant holds before the first call.                              *)
LEMMA InitInv == Init => Inv
<1> SUFFICES ASSUME Init PROVE Inv
  OBVIOUS
<1> USE DEF Init
<1>1. bridge \in Bridges
  BY DEF NoCompletion, Bridges
<1>2. /\ call \in [Clients -> Calls] /\ past \in [Clients -> Past]
      /\ sendRet \in [Clients -> Sendings] /\ ret \in [Clients -> Results]
  BY DEF Calls, Reset, Past, Sendings, Results
<1>3. TypeOK
  BY <1>1, <1>2, BoundsAssumption DEF TypeOK
<1>4. Opcode(bridge.payload) /\ RunsOwnCommand
  BY DEF Opcode, NoPayload, RunsOwnCommand
<1>5. \A c \in Clients : ClientInv(c)
  BY DEF ClientInv, Busy, CommandPhases, ResetPhases, OwnPayload, OwnCompletion,
         SuccessIsRun, ResetIsTrue
<1> QED BY <1>3, <1>4, <1>5 DEF Inv

-----------------------------------------------------------------------------
(* What a step of another client leaves of this one: all of its own state; *)
(* and either the bridge as well, or the mark that it was not alone.       *)
Left(d) ==
  /\ pc'[d] = pc[d] /\ call'[d] = call[d] /\ id'[d] = id[d]
  /\ sendRet'[d] = sendRet[d] /\ valid'[d] = valid[d] /\ ret'[d] = ret[d]
  /\ kind' = kind /\ ran \subseteq ran'
  /\ past'[d].lost = past[d].lost /\ past'[d].stopped = past[d].stopped
  /\ past'[d].restarted = past[d].restarted
  /\ \/ bridge' = bridge /\ past'[d].mixed = past[d].mixed
     \/ past'[d].mixed = (past[d].mixed \/ pc[d] # "idle")

(* It keeps what this client knows.                                        *)
LEMMA OtherClient == ASSUME NEW d \in Clients, ClientInv(d), Left(d) PROVE ClientInv(d)'
<1>1. Busy(d)'
  BY DEF ClientInv, Left, Busy
<1>2. OwnPayload(d)' /\ OwnCompletion(d)'
  <2>1. CASE bridge' = bridge /\ past'[d].mixed = past[d].mixed
    BY <2>1 DEF ClientInv, Left, OwnPayload, OwnCompletion, Payload
  <2>2. CASE past'[d].mixed = (past[d].mixed \/ pc[d] # "idle")
    BY <2>2 DEF ClientInv, Left, OwnPayload, OwnCompletion
  <2> QED BY <2>1, <2>2 DEF Left
<1>3. SuccessIsRun(d)'
  <2> SUFFICES ASSUME pc[d] = "idle", call[d].what = "command", ret[d] = "success"
               PROVE  SuccessIsRun(d)'
    BY DEF Left, SuccessIsRun
  <2>1. /\ sendRet[d] # "timeout"
        /\ \/ RanWell(d) \/ past[d].mixed
           \/ sendRet[d] = "success" /\ valid[d] = "no" /\ Ran(d)
           \/ sendRet[d] # "success" /\ (valid[d] = "ok" \/ kind = "realtek")
    BY DEF ClientInv, SuccessIsRun
  <2>2. (RanWell(d) => RanWell(d)') /\ (Ran(d) => Ran(d)')
    BY DEF Left, RanWell, Ran
  <2>3. past[d].mixed => past'[d].mixed
    BY DEF Left
  <2> QED BY <2>1, <2>2, <2>3 DEF Left, SuccessIsRun
<1>4. ResetIsTrue(d)'
  BY DEF ClientInv, Left, ResetIsTrue
<1> QED BY <1>1, <1>2, <1>3, <1>4 DEF ClientInv

(* Marking the others changes nothing else of their history.               *)
LEMMA UsedFacts ==
  ASSUME past \in [Clients -> Past], NEW c \in Clients, NEW lost \in BOOLEAN
  PROVE  /\ Used(c, lost) \in [Clients -> Past]
         /\ Used(c, lost)[c] = [past[c] EXCEPT !.lost = @ \/ lost]
         /\ \A d \in Clients \ {c} :
              Used(c, lost)[d] = [past[d] EXCEPT !.mixed = @ \/ pc[d] # "idle"]
<1>1. \A d \in Clients : /\ [past[d] EXCEPT !.lost = @ \/ lost] \in Past
                         /\ [past[d] EXCEPT !.mixed = @ \/ pc[d] # "idle"] \in Past
  BY DEF Past
<1> QED BY <1>1 DEF Used

(* A SCSI command of client c, and an opcode-true run, leave the others as *)
(* OtherClient wants them.                                                 *)
LEMMA OthersLeft ==
  ASSUME Inv, NEW c \in Clients, NEW d \in Clients \ {c}, NEW lost \in BOOLEAN,
         past'[d] = Used(c, lost)[d],
         UNCHANGED <<pc[d], call[d], id[d], sendRet[d], valid[d], ret[d]>>,
         kind' = kind, ran \subseteq ran'
  PROVE  ClientInv(d)'
<1>1. past \in [Clients -> Past] /\ past[d] \in Past
  BY DEF Inv, TypeOK
<1>2. past'[d] = [past[d] EXCEPT !.mixed = @ \/ pc[d] # "idle"]
  BY DEF Used
<1>3. Left(d)
  BY <1>1, <1>2 DEF Left, Past
<1> QED BY <1>3, OtherClient DEF Inv

LEMMA ScsiFacts ==
  ASSUME Inv, NEW c \in Clients, NEW r \in Sendings, NEW time \in {"short", "long"},
         NEW reached \in BOOLEAN, Scsi(c, r, time, reached)
  PROVE  /\ faults' \in 0..MaxFaults /\ last' \in [Clients -> {"short", "long"}]
         /\ kind' = kind /\ calls' = calls
         /\ r = "success" => reached
         /\ r = "timeout" <=> TimedOut(c, time)
<1>1. faults \in 0..MaxFaults /\ last \in [Clients -> {"short", "long"}]
  BY DEF Inv, TypeOK
<1>2. faults' \in 0..MaxFaults
  BY <1>1, BoundsAssumption DEF Scsi
<1> QED BY <1>1, <1>2 DEF Scsi, TimedOut, CallersTimeout

(* What the end of nvme_Cmd makes of its results.                          *)
LEMMA FinalFacts ==
  ASSUME NEW r \in Results, NEW v \in {"no", "ok", "bad"}, NEW time, NEW patient
  PROVE  /\ Final(r, v, time, patient) \in Results
         /\ Final(r, v, time, patient) = "success" => /\ v = "ok" \/ (v = "no" /\ r = "success")
                                                      /\ ~(time = "long" /\ ~patient)
  BY DEF Final, Judged, Results, Sendings

-----------------------------------------------------------------------------
(* A call begins with a history of its own.                                *)
LEMMA BeginInv ==
  ASSUME Inv, NEW c \in Clients, NEW m \in Calls, Begin(c, m),
         NEW next \in {"idle"} \cup CommandPhases \cup ResetPhases, NEW answer \in Results,
         next \in {"idle", "payload", "basic"} \/ m.what # "command",
         next \in {"idle", "shutdown", "relink"} \/ m.what = "command",
         pc' = [pc EXCEPT ![c] = next], ret' = [ret EXCEPT ![c] = answer],
         answer # "success" \/ next # "idle"
  PROVE  Inv'
<1> DEFINE new == [mixed |-> FALSE, lost |-> FALSE, stopped |-> FALSE, restarted |-> FALSE]
<1>1. /\ calls' = calls + 1 /\ calls' \in 0..MaxCalls /\ calls' \in Ids
      /\ id' = [id EXCEPT ![c] = calls'] /\ call' = [call EXCEPT ![c] = m]
      /\ sendRet' = [sendRet EXCEPT ![c] = "success"]
      /\ valid' = [valid EXCEPT ![c] = "no"]
      /\ past' = [past EXCEPT ![c] = new] /\ new \in Past
      /\ UNCHANGED <<kind, bridge, last, faults, ran>>
  BY BoundsAssumption DEF Begin, Inv, TypeOK, Ids, Past
<1>2. TypeOK'
  BY <1>1 DEF Inv, TypeOK, CommandPhases, ResetPhases, Sendings
<1>3. Opcode(bridge.payload)' /\ RunsOwnCommand'
  BY <1>1 DEF Inv, Opcode, RunsOwnCommand
<1>4. ClientInv(c)'
  <2>1. /\ pc'[c] = next /\ ret'[c] = answer /\ id'[c] = calls' /\ call'[c] = m
        /\ past'[c] = new
    BY <1>1 DEF Inv, TypeOK
  <2> QED BY <1>1, <2>1 DEF ClientInv, Busy, OwnPayload, OwnCompletion, SuccessIsRun,
             ResetIsTrue, CommandPhases, ResetPhases
<1>5. ASSUME NEW d \in Clients, d # c PROVE ClientInv(d)'
  <2>1. Left(d)
    BY <1>1, <1>5 DEF Left, Inv, TypeOK
  <2> QED BY <2>1, OtherClient DEF Inv
<1> QED BY <1>2, <1>3, <1>4, <1>5 DEF Inv

LEMMA BeginCommandInv ==
  ASSUME Inv, NEW c \in Clients, NEW m \in Commands, BeginCommand(c, m) PROVE Inv'
<1>1. m \in Calls /\ m.what = "command" /\ Begin(c, m) /\ pc[c] = "idle"
  BY CommandsAssumption DEF Calls, Command, BeginCommand, Begin
<1>2. CASE m.fits /\ ~NotSent(m)
  <2> DEFINE next == IF kind \in Phased THEN "payload" ELSE "basic"
  <2>1. /\ pc' = [pc EXCEPT ![c] = next] /\ ret' = [ret EXCEPT ![c] = "none"]
        /\ next \in {"payload", "basic"} /\ "none" \in Results
    BY <1>2 DEF BeginCommand, Results
  <2> HIDE DEF next
  <2> QED BY <1>1, <2>1, BeginInv DEF CommandPhases
<1>3. CASE ~(m.fits /\ ~NotSent(m))
  <2> DEFINE answer == IF ~m.fits THEN "badParameter"
                       ELSE Final("notAvailable", "no", last[c], m.patient)
  <2>1. answer \in Results /\ answer # "success"
    BY FinalFacts DEF Results
  <2>2. ret' = [ret EXCEPT ![c] = answer] /\ pc' = [pc EXCEPT ![c] = "idle"]
    BY <1>1, <1>3 DEF BeginCommand, Inv, TypeOK
  <2> HIDE DEF answer
  <2> QED BY <1>1, <2>1, <2>2, BeginInv
<1> QED BY <1>2, <1>3

LEMMA BeginResetInv ==
  ASSUME Inv, NEW c \in Clients, NEW m \in Reset, BeginReset(c, m) PROVE Inv'
<1>1. m \in Calls /\ m.what # "command" /\ Begin(c, m)
  BY DEF Calls, Reset, BeginReset
<1>2. PICK next \in {"idle", "shutdown", "relink"} :
        /\ pc' = [pc EXCEPT ![c] = next]
        /\ ret' = [ret EXCEPT ![c] = IF next = "idle" THEN "notAvailable" ELSE "none"]
  BY DEF BeginReset
<1>3. PICK answer \in {"notAvailable", "none"} : ret' = [ret EXCEPT ![c] = answer]
  BY <1>2
<1> QED BY <1>1, <1>2, <1>3, BeginInv DEF Results, ResetPhases

-----------------------------------------------------------------------------
(* A step of nvme_Cmd is one of a command with a number and a payload of   *)
(* its own.                                                                *)
LEMMA PhaseFacts ==
  ASSUME Inv, NEW c \in Clients, pc[c] \in CommandPhases
  PROVE  /\ call[c].what = "command" /\ call[c] \in Command /\ id[c] \in Ids
         /\ Payload(c) \in Payloads /\ Opcode(Payload(c))
<1>1. call[c].what = "command" /\ id[c] \in Ids /\ call[c] \in Calls
  BY DEF Inv, TypeOK, ClientInv, Busy, CommandPhases
<1>2. call[c] \in Command
  BY <1>1, CommandsAssumption DEF Calls, Reset
<1> QED BY <1>1, <1>2 DEF Command, Payload, Payloads, Opcode, Ops

(* The payload phase puts the client's own payload in the bridge.          *)
LEMMA SendPayloadInv ==
  ASSUME Inv, NEW c \in Clients, NEW r \in Sendings, NEW time \in {"short", "long"},
         NEW reached \in BOOLEAN, SendPayload(c, r, time, reached)
  PROVE  Inv'
<1> DEFINE lost == reached /\ r # "success"
           refused == Final(IF r = "success" THEN "notAvailable" ELSE r, "no",
                            time, call[c].patient)
<1>1. /\ pc[c] = "payload" /\ Scsi(c, r, time, reached) /\ past' = Used(c, lost)
      /\ bridge' = IF reached THEN [bridge EXCEPT !.payload = Payload(c)] ELSE bridge
      /\ UNCHANGED <<call, id, sendRet, valid, ran>>
  BY DEF SendPayload
<1>2. /\ faults' \in 0..MaxFaults /\ last' \in [Clients -> {"short", "long"}]
      /\ kind' = kind /\ calls' = calls
      /\ r = "success" => reached
  BY <1>1, ScsiFacts
<1>3. /\ call[c].what = "command" /\ id[c] \in Ids
      /\ Payload(c) \in Payloads /\ Opcode(Payload(c))
  BY <1>1, PhaseFacts DEF CommandPhases
<1>4. refused \in Results /\ refused # "success"
  <2>1. PICK x \in Results : x = (IF r = "success" THEN "notAvailable" ELSE r) /\ x # "success"
    BY DEF Results
  <2> QED BY <2>1, FinalFacts
<1>5. PICK next \in {"data", "idle"}, answer \in Results :
        /\ pc' = [pc EXCEPT ![c] = next] /\ ret' = [ret EXCEPT ![c] = answer]
        /\ next = "data" => r = "success"
        /\ next = "idle" => answer # "success"
  <2>1. CASE GoesOn(c, r)
    <3>1. pc' = [pc EXCEPT ![c] = "data"] /\ ret' = [ret EXCEPT ![c] = ret[c]]
          /\ ret[c] \in Results /\ r = "success"
      BY <2>1 DEF SendPayload, GoesOn, Inv, TypeOK
    <3> QED BY <3>1
  <2>2. CASE ~GoesOn(c, r)
    <3>1. pc' = [pc EXCEPT ![c] = "idle"] /\ ret' = [ret EXCEPT ![c] = refused]
      BY <2>2 DEF SendPayload, Answer
    <3> QED BY <1>4, <3>1
  <2> QED BY <2>1, <2>2
<1>6. bridge' \in Bridges
      /\ bridge'.payload = (IF reached THEN Payload(c) ELSE bridge.payload)
  BY <1>1, <1>3 DEF Inv, TypeOK, Bridges
<1>7. /\ past' \in [Clients -> Past]
      /\ past'[c] = [past[c] EXCEPT !.lost = @ \/ lost]
  BY <1>1, UsedFacts DEF Inv, TypeOK
<1>8. TypeOK'
  BY <1>1, <1>2, <1>5, <1>6, <1>7 DEF Inv, TypeOK
<1>9. Opcode(bridge.payload)' /\ RunsOwnCommand'
  BY <1>1, <1>2, <1>3, <1>6 DEF Inv, Opcode, RunsOwnCommand
<1>10. ClientInv(c)'
  <2>1. pc'[c] = next /\ ret'[c] = answer /\ id'[c] = id[c] /\ call'[c] = call[c]
    BY <1>1, <1>5 DEF Inv, TypeOK
  <2>2. OwnPayload(c)'
    BY <1>1, <1>2, <1>5, <1>6, <2>1 DEF OwnPayload, Payload
  <2> QED BY <1>3, <1>5, <2>1, <2>2 DEF ClientInv, Busy, OwnCompletion, SuccessIsRun,
             ResetIsTrue, CommandPhases, ResetPhases
<1>11. ASSUME NEW d \in Clients \ {c} PROVE ClientInv(d)'
  BY <1>1, <1>2, <1>5, OthersLeft DEF Inv, TypeOK
<1> QED BY <1>8, <1>9, <1>10, <1>11 DEF Inv

(* The data phase runs the payload in the bridge: the client's own, where  *)
(* no other has used the bridge.  A timeout is returned as one.            *)
LEMMA SendDataInv ==
  ASSUME Inv, NEW c \in Clients, NEW r \in Sendings, NEW time \in {"short", "long"},
         NEW reached \in BOOLEAN, NEW ok \in BOOLEAN, SendData(c, r, time, reached, ok)
  PROVE  Inv'
<1> DEFINE lost == reached /\ r # "success"
           p == bridge.payload
           runs == reached /\ p # NoPayload /\ bridge.up
           x == [id |-> p.id, by |-> id[c], alone |-> ~past[c].mixed,
                 asked |-> p.asked, op |-> p.op, ok |-> ok]
           timeout == Final(WithoutCompletion(r), "no", time, call[c].patient)
<1>1. /\ pc[c] = "data" /\ Scsi(c, r, time, reached) /\ past' = Used(c, lost)
      /\ r = "success" => runs
      /\ runs => /\ bridge' = [bridge EXCEPT !.completion = [id |-> p.id, ok |-> ok]]
                 /\ ran' = ran \cup {x}
      /\ ~runs => bridge' = bridge /\ ran' = ran
      /\ sendRet' = [sendRet EXCEPT ![c] = r]
      /\ UNCHANGED <<call, id, valid>>
  BY DEF SendData, Runs1
<1>2. /\ faults' \in 0..MaxFaults /\ last' \in [Clients -> {"short", "long"}]
      /\ kind' = kind /\ calls' = calls
      /\ r = "timeout" <=> TimedOut(c, time)
  BY <1>1, ScsiFacts
<1>3. call[c].what = "command" /\ id[c] \in Ids
  BY <1>1, PhaseFacts DEF CommandPhases
<1>4. r = "timeout" => timeout \in Results /\ timeout # "success"
  <2> SUFFICES ASSUME r = "timeout" PROVE timeout \in Results /\ timeout # "success"
    OBVIOUS
  <2>1. WithoutCompletion(r) = (IF kind = "realtek" THEN "success" ELSE "timeout")
    BY DEF WithoutCompletion
  <2>2. kind = "realtek" => time = "long" /\ ~call[c].patient
    BY <1>1, <1>2 DEF TimedOut, CallersTimeout
  <2> QED BY <2>1, <2>2, FinalFacts DEF Results, Sendings
<1>5. PICK next \in {"completion", "idle"}, answer \in Results :
        /\ pc' = [pc EXCEPT ![c] = next] /\ ret' = [ret EXCEPT ![c] = answer]
        /\ next = "completion" => r # "timeout"
        /\ next = "idle" => answer # "success"
  <2>1. CASE r = "timeout"
    <3>1. pc' = [pc EXCEPT ![c] = "idle"] /\ ret' = [ret EXCEPT ![c] = timeout]
      BY <2>1 DEF SendData, Answer
    <3> QED BY <1>4, <2>1, <3>1
  <2>2. CASE r # "timeout"
    <3>1. pc' = [pc EXCEPT ![c] = "completion"] /\ ret' = [ret EXCEPT ![c] = ret[c]]
          /\ ret[c] \in Results
      BY <2>2 DEF SendData, Inv, TypeOK
    <3> QED BY <2>2, <3>1
  <2> QED BY <2>1, <2>2
<1>6. runs => p \in Payloads /\ x \in Runs
  <2>1. p \in Payloads \cup {NoPayload} /\ past[c].mixed \in BOOLEAN
    BY DEF Inv, TypeOK, Past, Bridges
  <2> QED BY <1>3, <2>1 DEF Payloads, Runs
<1>7. /\ bridge' \in Bridges
      /\ bridge'.payload = p
      /\ runs => bridge'.completion = [id |-> p.id, ok |-> ok]
  BY <1>1, <1>6 DEF Inv, TypeOK, Payloads, Bridges
<1>8. /\ past' \in [Clients -> Past]
      /\ past'[c] = [past[c] EXCEPT !.lost = @ \/ lost]
      /\ past'[c].mixed = past[c].mixed
  <2>1. past \in [Clients -> Past] /\ past[c] \in Past
    BY DEF Inv, TypeOK
  <2>2. /\ past' \in [Clients -> Past]
        /\ past'[c] = [past[c] EXCEPT !.lost = @ \/ lost]
    BY <1>1, <2>1, UsedFacts
  <2> QED BY <2>1, <2>2 DEF Past
<1>9. TypeOK'
  <2>1. ran' \subseteq Runs
    BY <1>1, <1>6 DEF Inv, TypeOK
  <2> QED BY <1>1, <1>2, <1>5, <1>7, <1>8, <2>1 DEF Inv, TypeOK
<1>10. ~past[c].mixed => p.id = id[c]
  <2>1. ~past[c].mixed => p = Payload(c)
    BY <1>1 DEF Inv, ClientInv, OwnPayload
  <2> QED BY <2>1 DEF Payload
<1>11. Opcode(bridge.payload)' /\ RunsOwnCommand'
  <2>1. x.alone => x.by = x.id
    BY <1>10
  <2>2. x.op # x.asked => kind = "jmicron" /\ x.op = "zero"
    BY DEF Inv, Opcode
  <2> QED BY <1>1, <1>2, <1>7, <2>1, <2>2 DEF Inv, Opcode, RunsOwnCommand
<1>12. ClientInv(c)'
  <2>1. /\ pc'[c] = next /\ ret'[c] = answer /\ id'[c] = id[c] /\ call'[c] = call[c]
        /\ sendRet'[c] = r
    BY <1>1, <1>5 DEF Inv, TypeOK
  <2>2. ASSUME r = "success", ~past[c].mixed
        PROVE  \E y \in ran' : y.id = id[c] /\ bridge'.completion = [id |-> id[c], ok |-> y.ok]
    <3>1. x \in ran' /\ x.id = id[c] /\ x.ok = ok
      BY <1>1, <1>10, <2>2
    <3>2. bridge'.completion = [id |-> id[c], ok |-> ok]
      BY <1>1, <1>7, <1>10, <2>2
    <3> QED BY <3>1, <3>2
  <2>3. OwnCompletion(c)'
    BY <1>5, <1>8, <2>1, <2>2 DEF OwnCompletion
  <2> QED BY <1>3, <1>5, <2>1, <2>3 DEF ClientInv, Busy, OwnPayload, SuccessIsRun,
             ResetIsTrue, CommandPhases, ResetPhases
<1>13. ASSUME NEW d \in Clients \ {c} PROVE ClientInv(d)'
  BY <1>1, <1>2, <1>5, OthersLeft DEF Inv, TypeOK
<1> QED BY <1>9, <1>11, <1>12, <1>13 DEF Inv

(* The third phase answers by the completion in the bridge: the client's   *)
(* own, where its data phase succeeded and no other has used the bridge.   *)
LEMMA FetchCompletionInv ==
  ASSUME Inv, NEW c \in Clients, NEW r \in Sendings, NEW time \in {"short", "long"},
         NEW keeps \in BOOLEAN, FetchCompletion(c, r, time, keeps)
  PROVE  Inv'
<1> DEFINE found == r = "success" /\ bridge.completion # NoCompletion
           v == IF ~found THEN "no" ELSE IF bridge.completion.ok THEN "ok" ELSE "bad"
           was == IF found THEN "success" ELSE WithoutCompletion(sendRet[c])
           answer == Final(was, v, time, call[c].patient)
<1>1. /\ pc[c] = "completion" /\ Scsi(c, r, time, TRUE) /\ past' = Used(c, FALSE)
      /\ valid' = [valid EXCEPT ![c] = v]
      /\ bridge' = IF keeps THEN bridge ELSE [bridge EXCEPT !.completion = NoCompletion]
      /\ pc' = [pc EXCEPT ![c] = "idle"] /\ ret' = [ret EXCEPT ![c] = answer]
      /\ UNCHANGED <<call, id, sendRet, ran>>
  BY DEF FetchCompletion, Answer
<1>2. /\ faults' \in 0..MaxFaults /\ last' \in [Clients -> {"short", "long"}]
      /\ kind' = kind /\ calls' = calls
  BY <1>1, ScsiFacts
<1>3. call[c].what = "command" /\ id[c] \in Ids
  BY <1>1, PhaseFacts DEF CommandPhases
<1>4. /\ was \in Results /\ v \in {"no", "ok", "bad"}
      /\ found => was = "success"
      /\ ~found => was = (IF kind = "realtek" THEN "success" ELSE sendRet[c])
      /\ v = "no" <=> ~found
      /\ v = "ok" => found /\ bridge.completion.ok
  <2>1. sendRet[c] \in Results /\ "success" \in Results
    BY DEF Inv, TypeOK, Results, Sendings
  <2>2. /\ v \in {"no", "ok", "bad"} /\ (v = "no" <=> ~found)
        /\ v = "ok" => found /\ bridge.completion.ok
    OBVIOUS
  <2> QED BY <2>1, <2>2 DEF WithoutCompletion
<1> HIDE DEF was, v, found
<1>5. answer \in Results /\ (answer = "success" => v = "ok" \/ (v = "no" /\ was = "success"))
  BY <1>4, FinalFacts
<1> HIDE DEF answer
<1>6. /\ bridge' \in Bridges
      /\ bridge'.payload = bridge.payload
  BY <1>1 DEF Inv, TypeOK, NoCompletion, Bridges
<1>7. /\ past' \in [Clients -> Past]
      /\ past'[c].mixed = past[c].mixed
  <2>1. past \in [Clients -> Past] /\ past[c] \in Past
    BY DEF Inv, TypeOK
  <2>2. /\ past' \in [Clients -> Past]
        /\ past'[c] = [past[c] EXCEPT !.lost = @ \/ FALSE]
    BY <1>1, <2>1, UsedFacts
  <2> QED BY <2>1, <2>2 DEF Past
<1>8. TypeOK'
  BY <1>1, <1>2, <1>4, <1>5, <1>6, <1>7 DEF Inv, TypeOK
<1>9. Opcode(bridge.payload)' /\ RunsOwnCommand'
  BY <1>1, <1>2, <1>6 DEF Inv, Opcode, RunsOwnCommand
<1>10. ClientInv(c)'
  <2>1. /\ pc'[c] = "idle" /\ ret'[c] = answer /\ id'[c] = id[c] /\ call'[c] = call[c]
        /\ sendRet'[c] = sendRet[c] /\ valid'[c] = v
    BY <1>1, <1>4 DEF Inv, TypeOK
  <2>2. /\ sendRet[c] # "timeout"
        /\ sendRet[c] = "success" /\ ~past[c].mixed =>
             \E x \in ran : x.id = id[c] /\ bridge.completion = [id |-> id[c], ok |-> x.ok]
    BY <1>1 DEF Inv, ClientInv, OwnCompletion
  <2>3. ASSUME answer = "success", ~past[c].mixed, sendRet[c] = "success"
        PROVE  \/ \E x \in ran : x.id = id[c] /\ x.ok
               \/ v = "no" /\ \E x \in ran : x.id = id[c]
    <3>1. PICK x \in ran : x.id = id[c] /\ bridge.completion = [id |-> id[c], ok |-> x.ok]
      BY <2>2, <2>3
    <3>2. v = "ok" => x.ok
      BY <1>4, <3>1
    <3> QED BY <1>5, <2>3, <3>1, <3>2
  <2>4. ASSUME answer = "success", sendRet[c] # "success" PROVE v = "ok" \/ kind = "realtek"
    BY <1>4, <1>5, <2>4
  <2>5. SuccessIsRun(c)'
    <3> SUFFICES ASSUME answer = "success" PROVE SuccessIsRun(c)'
      BY <2>1 DEF SuccessIsRun
    <3>1. CASE sendRet[c] = "success" /\ ~past[c].mixed
      BY <1>1, <2>1, <2>2, <2>3, <3>1 DEF SuccessIsRun, RanWell, Ran
    <3>2. CASE past[c].mixed
      BY <1>7, <2>1, <2>2, <3>2 DEF SuccessIsRun
    <3>3. CASE sendRet[c] # "success"
      BY <1>2, <2>1, <2>2, <2>4, <3>3 DEF SuccessIsRun
    <3> QED BY <3>1, <3>2, <3>3
  <2> QED BY <1>3, <2>1, <2>5 DEF ClientInv, Busy, OwnPayload, OwnCompletion,
             ResetIsTrue, CommandPhases, ResetPhases
<1>11. ASSUME NEW d \in Clients \ {c} PROVE ClientInv(d)'
  BY <1>1, <1>2, OthersLeft DEF Inv, TypeOK
<1> QED BY <1>8, <1>9, <1>10, <1>11 DEF Inv

(* A basic pass-through runs the client's own command.                     *)
LEMMA SendBasicInv ==
  ASSUME Inv, NEW c \in Clients, NEW r \in Sendings, NEW time \in {"short", "long"},
         NEW reached \in BOOLEAN, NEW ok \in BOOLEAN, SendBasic(c, r, time, reached, ok)
  PROVE  Inv'
<1> DEFINE lost == reached /\ r # "success"
           x == [id |-> id[c], by |-> id[c], alone |-> ~past[c].mixed,
                 asked |-> call[c].op, op |-> call[c].op, ok |-> ok]
           answer == Final(r, "no", time, call[c].patient)
<1>1. /\ pc[c] = "basic" /\ Scsi(c, r, time, reached) /\ past' = Used(c, lost)
      /\ r = "success" => ok /\ reached
      /\ ran' = IF reached THEN ran \cup {x} ELSE ran
      /\ sendRet' = [sendRet EXCEPT ![c] = r]
      /\ pc' = [pc EXCEPT ![c] = "idle"] /\ ret' = [ret EXCEPT ![c] = answer]
      /\ UNCHANGED <<bridge, call, id, valid>>
  BY DEF SendBasic, Runs1, Answer
<1>2. /\ faults' \in 0..MaxFaults /\ last' \in [Clients -> {"short", "long"}]
      /\ kind' = kind /\ calls' = calls
  BY <1>1, ScsiFacts
<1>3. call[c].what = "command" /\ id[c] \in Ids /\ call[c].op \in Ops
  BY <1>1, PhaseFacts DEF CommandPhases, Command
<1>4. answer \in Results /\ (answer = "success" => r = "success")
  BY FinalFacts DEF Results
<1> HIDE DEF answer
<1>5. x \in Runs
  BY <1>3 DEF Inv, TypeOK, Past, Runs
<1>6. past' \in [Clients -> Past]
  BY <1>1, UsedFacts DEF Inv, TypeOK
<1>7. TypeOK'
  <2>1. ran' \subseteq Runs
    BY <1>1, <1>5 DEF Inv, TypeOK
  <2> QED BY <1>1, <1>2, <1>4, <1>6, <2>1 DEF Inv, TypeOK
<1>8. Opcode(bridge.payload)' /\ RunsOwnCommand'
  BY <1>1, <1>2 DEF Inv, Opcode, RunsOwnCommand
<1>9. ClientInv(c)'
  <2>1. /\ pc'[c] = "idle" /\ ret'[c] = answer /\ id'[c] = id[c] /\ call'[c] = call[c]
        /\ sendRet'[c] = r
    BY <1>1, <1>4 DEF Inv, TypeOK
  <2>2. SuccessIsRun(c)'
    <3> SUFFICES ASSUME answer = "success" PROVE SuccessIsRun(c)'
      BY <2>1 DEF SuccessIsRun
    <3>1. x \in ran' /\ x.id = id[c] /\ x.ok
      BY <1>1, <1>4
    <3> QED BY <1>4, <2>1, <3>1 DEF SuccessIsRun, RanWell
  <2> QED BY <1>3, <2>1, <2>2 DEF ClientInv, Busy, OwnPayload, OwnCompletion,
             ResetIsTrue, CommandPhases, ResetPhases
<1>10. ASSUME NEW d \in Clients \ {c} PROVE ClientInv(d)'
  BY <1>1, <1>2, OthersLeft DEF Inv, TypeOK
<1> QED BY <1>7, <1>8, <1>9, <1>10 DEF Inv

-----------------------------------------------------------------------------
(* What a reset answers is true of what it did, by its history.             *)
TrueAnswer(answer, mine) ==
  /\ answer = "success" => mine.restarted
  /\ answer \in {"notAvailable", "notSupported"} => ~mine.stopped \/ mine.lost

(* A step of a reset, whatever it finds: it goes on, or what it answers is *)
(* true of what happened to the drive.                                     *)
LEMMA ResetStepInv ==
  ASSUME Inv, NEW c \in Clients, NEW r \in Sendings, NEW time \in {"short", "long"},
         NEW reached \in BOOLEAN, pc[c] \in ResetPhases, Scsi(c, r, time, reached),
         NEW new \in Bridges,
         new.payload \in {bridge.payload, NoPayload}, bridge' = new,
         NEW next \in {"idle"} \cup ResetPhases, pc' = [pc EXCEPT ![c] = next],
         NEW answer \in Results, ret' = [ret EXCEPT ![c] = answer],
         NEW lost \in BOOLEAN, NEW mine \in Past,
         past' = [Used(c, lost) EXCEPT ![c] = mine],
         next = "idle" => TrueAnswer(answer, mine),
         UNCHANGED <<call, id, sendRet, valid, ran>>
  PROVE  Inv'
<1>1. /\ faults' \in 0..MaxFaults /\ last' \in [Clients -> {"short", "long"}]
      /\ kind' = kind /\ calls' = calls
  BY ScsiFacts
<1>2. call[c].what # "command" /\ id[c] \in Ids
  BY DEF Inv, ClientInv, Busy, ResetPhases
<1>3. /\ past' \in [Clients -> Past] /\ past'[c] = mine
      /\ \A d \in Clients \ {c} : past'[d] = Used(c, lost)[d]
  <2>1. Used(c, lost) \in [Clients -> Past]
    BY UsedFacts DEF Inv, TypeOK
  <2> QED BY <2>1
<1>4. TypeOK'
  BY <1>1, <1>3 DEF Inv, TypeOK, ResetPhases
<1>5. Opcode(bridge.payload)' /\ RunsOwnCommand'
  BY <1>1 DEF Inv, Opcode, RunsOwnCommand, NoPayload
<1>6. ClientInv(c)'
  <2>1. /\ pc'[c] = next /\ ret'[c] = answer /\ id'[c] = id[c] /\ call'[c] = call[c]
    BY DEF Inv, TypeOK
  <2> QED BY <1>2, <1>3, <2>1 DEF ClientInv, Busy, OwnPayload, OwnCompletion, SuccessIsRun,
             ResetIsTrue, TrueAnswer, CommandPhases, ResetPhases
<1>7. ASSUME NEW d \in Clients \ {c} PROVE ClientInv(d)'
  BY <1>1, <1>3, OthersLeft DEF Inv, TypeOK
<1> QED BY <1>4, <1>5, <1>6, <1>7 DEF Inv

(* What is left of a bridge and of a client's history by a step of a reset *)
(* is well formed.                                                         *)
LEMMA ResetTypes ==
  ASSUME Inv, NEW c \in Clients, NEW lost \in BOOLEAN
  PROVE  /\ bridge \in Bridges /\ [bridge EXCEPT !.up = FALSE] \in Bridges
         /\ [bridge EXCEPT !.up = FALSE].payload = bridge.payload
         /\ Restarted \in Bridges /\ Restarted.payload = NoPayload
         /\ Used(c, lost)[c] \in Past /\ (lost => Used(c, lost)[c].lost)
<1>1. past \in [Clients -> Past] /\ past[c] \in Past
  BY DEF Inv, TypeOK
<1>2. Used(c, lost)[c] = [past[c] EXCEPT !.lost = @ \/ lost]
  BY <1>1, UsedFacts
<1>3. Used(c, lost)[c] \in Past /\ (lost => Used(c, lost)[c].lost)
  BY <1>1, <1>2 DEF Past
<1>4. bridge \in Bridges
  BY DEF Inv, TypeOK, Bridges
<1> QED BY <1>3, <1>4 DEF Bridges, Restarted, NoCompletion

(* The shutdown: the drive is stopped if the command reached the bridge.   *)
LEMMA ShutdownInv ==
  ASSUME Inv, NEW c \in Clients, NEW r \in Sendings, NEW time \in {"short", "long"},
         NEW reached \in BOOLEAN, Shutdown(c, r, time, reached)
  PROVE  Inv'
<1> DEFINE lost == reached /\ r # "success"
           mine == [Used(c, lost)[c] EXCEPT !.stopped = reached]
           new == IF reached THEN [bridge EXCEPT !.up = FALSE] ELSE bridge
<1>1. /\ pc[c] \in ResetPhases /\ Scsi(c, r, time, reached) /\ bridge' = new
      /\ UNCHANGED <<call, id, sendRet, valid, ran>>
  BY DEF Shutdown, ResetPhases
<1>2. past' = [Used(c, lost) EXCEPT ![c] = mine]
  BY DEF Shutdown
<1>3. mine \in Past /\ (reached /\ r # "success" => mine.lost) /\ mine.stopped = reached
  <2> DEFINE u == Used(c, lost)[c]
  <2>1. u \in Past /\ (lost => u.lost)
    BY ResetTypes
  <2> QED BY <2>1 DEF Past
<1>4. new.payload \in {bridge.payload, NoPayload}
      /\ new \in Bridges
  BY ResetTypes
<1>5. PICK next \in {"idle", "restart"}, answer \in Results :
        /\ pc' = [pc EXCEPT ![c] = next] /\ ret' = [ret EXCEPT ![c] = answer]
        /\ next = "idle" => r # "success" /\ answer # "success"
  <2>1. CASE r = "success"
    <3>1. pc' = [pc EXCEPT ![c] = "restart"] /\ ret' = [ret EXCEPT ![c] = ret[c]]
          /\ ret[c] \in Results
      BY <2>1 DEF Shutdown, Inv, TypeOK
    <3> QED BY <3>1
  <2>2. CASE r # "success"
    <3>1. PICK answer \in {"notAvailable", "notSupported"} :
            pc' = [pc EXCEPT ![c] = "idle"] /\ ret' = [ret EXCEPT ![c] = answer]
      BY <2>2 DEF Shutdown, Answer
    <3> QED BY <2>2, <3>1 DEF Results
  <2> QED BY <2>1, <2>2
<1>6. lost \in BOOLEAN /\ next \in {"idle"} \cup ResetPhases
  BY DEF ResetPhases
<1>7. next = "idle" => TrueAnswer(answer, mine)
  BY <1>3, <1>5 DEF TrueAnswer
<1> HIDE DEF mine, new
<1> QED BY <1>1, <1>2, <1>3, <1>4, <1>5, <1>6, <1>7, ResetStepInv

(* The reset of the bridge: a success means that it restarted.             *)
LEMMA RestartInv ==
  ASSUME Inv, NEW c \in Clients, NEW r \in Sendings, NEW time \in {"short", "long"},
         NEW reached \in BOOLEAN, Restart(c, r, time, reached)
  PROVE  Inv'
<1> DEFINE lost == reached /\ r # "success"
           mine == [Used(c, lost)[c] EXCEPT !.restarted = reached]
           new == IF reached THEN Restarted ELSE bridge
<1>1. /\ pc[c] \in ResetPhases /\ Scsi(c, r, time, reached) /\ bridge' = new
      /\ UNCHANGED <<call, id, sendRet, valid, ran>>
      /\ r = "success" => reached
  BY DEF Restart, ResetPhases, Scsi
<1>2. past' = [Used(c, lost) EXCEPT ![c] = mine]
  BY DEF Restart
<1>3. mine \in Past /\ mine.restarted = reached
  <2> DEFINE u == Used(c, lost)[c]
  <2>1. u \in Past /\ (lost => u.lost)
    BY ResetTypes
  <2> QED BY <2>1 DEF Past
<1>4. new.payload \in {bridge.payload, NoPayload}
      /\ new \in Bridges
  BY ResetTypes
<1>5. PICK next \in {"idle", "relink"}, answer \in Results :
        /\ pc' = [pc EXCEPT ![c] = next] /\ ret' = [ret EXCEPT ![c] = answer]
        /\ next = "idle" => /\ answer = "success" => r = "success"
                            /\ answer \notin {"notAvailable", "notSupported"}
  <2>1. CASE r # "success" /\ kind = "asmedia"
    <3>1. pc' = [pc EXCEPT ![c] = "relink"] /\ ret' = [ret EXCEPT ![c] = ret[c]]
          /\ ret[c] \in Results
      BY <2>1 DEF Restart, Inv, TypeOK
    <3> QED BY <3>1
  <2>2. CASE ~(r # "success" /\ kind = "asmedia")
    <3>1. PICK answer \in {"success", "failure"} :
            /\ pc' = [pc EXCEPT ![c] = "idle"] /\ ret' = [ret EXCEPT ![c] = answer]
            /\ answer = "success" => r = "success"
      BY <2>2 DEF Restart, Answer, RestartFailed
    <3> QED BY <3>1 DEF Results, Sendings
  <2> QED BY <2>1, <2>2
<1>6. lost \in BOOLEAN /\ next \in {"idle"} \cup ResetPhases
  BY DEF ResetPhases
<1>7. next = "idle" => TrueAnswer(answer, mine)
  BY <1>1, <1>3, <1>5 DEF TrueAnswer
<1> HIDE DEF mine, new
<1> QED BY <1>1, <1>2, <1>3, <1>4, <1>5, <1>6, <1>7, ResetStepInv

(* The reset by the link, which is all there is to a subsystem reset.      *)
LEMMA RelinkInv ==
  ASSUME Inv, NEW c \in Clients, NEW r \in Sendings, NEW time \in {"short", "long"},
         NEW reached \in BOOLEAN, Relink(c, r, time, reached)
  PROVE  Inv'
<1> DEFINE lost == reached /\ r # "success"
           mine == [Used(c, lost)[c] EXCEPT !.restarted = @ \/ reached]
           new == IF reached THEN Restarted ELSE bridge
<1>1. /\ pc[c] \in ResetPhases /\ Scsi(c, r, time, reached) /\ bridge' = new
      /\ UNCHANGED <<call, id, sendRet, valid, ran>>
      /\ r = "success" => reached
  BY DEF Relink, ResetPhases, Scsi
<1>2. past' = [Used(c, lost) EXCEPT ![c] = mine]
  BY DEF Relink
<1>3. mine \in Past /\ (reached => mine.restarted)
  <2> DEFINE u == Used(c, lost)[c]
  <2>1. u \in Past /\ (lost => u.lost)
    BY ResetTypes
  <2> QED BY <2>1 DEF Past
<1>4. new.payload \in {bridge.payload, NoPayload}
      /\ new \in Bridges
  BY ResetTypes
<1>5. PICK answer \in Sendings :
        /\ pc' = [pc EXCEPT ![c] = "idle"] /\ ret' = [ret EXCEPT ![c] = answer]
        /\ answer = "success" => r = "success"
  BY DEF Relink, Answer, RestartFailed, Sendings
<1>6. lost \in BOOLEAN /\ answer \in Results /\ answer \notin {"notAvailable", "notSupported"}
  BY <1>5 DEF Results, Sendings
<1>7. TrueAnswer(answer, mine)
  BY <1>1, <1>3, <1>5, <1>6 DEF TrueAnswer
<1> HIDE DEF mine, new
<1> QED BY <1>1, <1>2, <1>3, <1>4, <1>5, <1>6, <1>7, ResetStepInv

-----------------------------------------------------------------------------
(* Every step of every client keeps the invariant.                         *)
LEMMA NextInv == ASSUME Inv, [Next]_vars PROVE Inv'
<1>1. CASE UNCHANGED vars
  BY <1>1 DEF vars, client, Inv, TypeOK, Opcode, RunsOwnCommand, ClientInv, Busy, OwnPayload,
     OwnCompletion, Payload, SuccessIsRun, ResetIsTrue, RanWell, Ran
<1>2. CASE Next
  BY <1>2, BeginCommandInv, BeginResetInv, SendPayloadInv, SendDataInv, FetchCompletionInv,
     SendBasicInv, ShutdownInv, RestartInv, RelinkInv DEF Next
<1> QED BY <1>1, <1>2

(* The invariant holds in every state, whatever the constants are.         *)
THEOREM Invariant == Spec => []Inv
<1>1. Init => Inv
  BY InitInv
<1>2. Inv /\ [Next]_vars => Inv'
  BY NextInv
<1> QED BY <1>1, <1>2, PTL DEF Spec

(* Every variable keeps its type.                                          *)
THEOREM TypeCorrect == Spec => []TypeOK
<1>1. Inv => TypeOK
  BY DEF Inv
<1> QED BY <1>1, Invariant, PTL

(* A data phase that had the bridge to itself ran its own command, and the *)
(* drive gets the opcode asked for (I/O commands of JMicron bridges apart),*)
(* however many clients there are and whatever is lost between the phases. *)
THEOREM OwnCommandRuns == Spec => []RunsOwnCommand
<1>1. Inv => RunsOwnCommand
  BY DEF Inv
<1> QED BY <1>1, Invariant, PTL

(* SUCCESS of an NVMe command means the drive ran it well, the exceptions  *)
(* named in SuccessMeansRun apart.                                         *)
THEOREM SuccessRun == Spec => []SuccessMeansRun
<1>1. Inv => SuccessMeansRun
  BY DEF Inv, ClientInv, SuccessMeansRun
<1> QED BY <1>1, Invariant, PTL

(* What a reset reports is true of what it did to the drive.               *)
THEOREM ResetTruth == Spec => []ResetTellsTheTruth
<1>1. Inv => ResetTellsTheTruth
  BY DEF Inv, ClientInv, ResetTellsTheTruth
<1> QED BY <1>1, Invariant, PTL
=============================================================================
