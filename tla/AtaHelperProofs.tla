--------------------------- MODULE AtaHelperProofs ---------------------------
(***************************************************************************)
(* Proofs about the two things ata_helper.c finds out about a device and   *)
(* keeps in it: which of its commands are not taken as DMA (DmaFallback),  *)
(* and which registers of a non-data command get lost (NonDataGuard).      *)
(* Each theorem is about the specification it names.                       *)
(*                                                                         *)
(* DmaFallback, for every set of devices and kinds of drive, every number  *)
(* of calls and of faults: the inductive invariant has three parts besides *)
(* the types, how often the drive executed the step under way (Counts),    *)
(* whose SCT command the drive waits with (Waiting), and why each flag is  *)
(* off, which leaves one flag open while the PIO form is tried (Flags).    *)
(*                                                                         *)
(* NonDataGuard, for every set of adapters and of answers, any number of   *)
(* discoveries: the parts of the invariant follow the counters and the     *)
(* score of the test for the adapters that the properties are about: any   *)
(* that loses the count (CountKept), those that lose nothing (NothingLost, *)
(* and Moved for the libata that puts the count elsewhere), and those that *)
(* lose one register, as long as they were tested once (FirstTest).        *)
(***************************************************************************)
EXTENDS DmaFallback, NonDataGuard, FiniteSetTheorems, TLAPS

(* A step is executed before its last attempt only where a follow-up for   *)
(* the registers was refused.                                              *)
Counts ==
  /\ call.form # "none" =>
       \/ took[call.step] = 0
       \/ call.retry /\ took[call.step] = 1 /\ WantsRegisters(call.op, call.step)
  /\ call.step = "command" => took["transfer"] = 0 /\ fed = 0
  /\ call.step = "transfer" => Moves(call.op)

(* During a call the drive waits with this call's command exactly if it    *)
(* executed it; only a WRITE SAME goes on without.                         *)
Waiting ==
  call.form # "none" =>
    /\ took["command"] = 0 => /\ pending[call.dev] # calls
                              /\ call.step = "transfer" => call.op = "sctWriteSame"
    /\ took["command"] # 0 /\ Moves(call.op) => pending[call.dev] = calls

(* The place of the flag of a family and a device, and why it may be off.  *)
PlaceOf(f, d) == IF f \in Static THEN <<f>> ELSE <<f, d>>

Cause(p) ==
  \/ p \in misread
  \/ \E d \in Devices : p \in {<<p[1]>>, <<p[1], d>>} /\ p[1] \notin device[d].dma

(* While the PIO form is tried after the DMA form: what the DMA form, not  *)
(* misread, was refused for.                                               *)
Open == Place(call.dev, Kind0)
OpenCause ==
  \/ Open \in misread
  \/ call.bad
  \/ Family[Kind0] \notin device[call.dev].dma
  \/ call.op \in SctOps /\ call.step = "transfer" /\ pending[call.dev] = 0
  \/ Refuses

Flags ==
  /\ call.form = "dma" => /\ Kind0 \in DOMAIN Family /\ device[call.dev].mode
                          /\ Open \notin dmaOff
  /\ \A f \in Families, d \in Devices : <<f, d>> \in learnt => PlaceOf(f, d) \in dmaOff
  /\ call.retry =>
       /\ call.form = "pio" /\ Kind0 \in DOMAIN Family /\ OpenCause
       /\ Open \in dmaOff
       /\ \A f \in Families, d \in Devices : <<f, d>> \in learnt => PlaceOf(f, d) # Open
  /\ \A p \in dmaOff : Cause(p) \/ (call.retry /\ p = Open)

Inv ==
  /\ TypeOK
  /\ Counts /\ Waiting /\ Flags
  /\ TwiceOnlyForRegisters /\ DataFeedsOwnCommand /\ SuccessMeansTaken

-----------------------------------------------------------------------------
(* The flag of a command is one of the places, and the place of its family *)
(* and the device.                                                         *)
LEMMA PlaceType ==
  ASSUME NEW k \in DOMAIN Family, NEW d \in Devices
  PROVE  /\ Place(d, k) \in Places /\ Family[k] \in Families
         /\ Place(d, k) = PlaceOf(Family[k], d)
<1>1. Family[k] \in Families
  BY DEF Families
<1> QED BY <1>1 DEF Place, Places, PlaceOf

(* A drive that cannot take a family in DMA form is a cause for its flag.  *)
LEMMA PlaceCause ==
  ASSUME NEW k \in DOMAIN Family, NEW d \in Devices, Family[k] \notin device[d].dma
  PROVE  Cause(Place(d, k))
<1> DEFINE p == Place(d, k)
<1>1. p[1] = Family[k] /\ p \in {<<p[1]>>, <<p[1], d>>}
  BY DEF Place
<1> QED BY <1>1 DEF Cause

(* The first form of a step is DMA only where its flag is on.              *)
LEMMA FirstFormFacts ==
  ASSUME NEW d, NEW k, NEW off
  PROVE  /\ FirstForm(d, k, off) \in {"dma", "pio"}
         /\ FirstForm(d, k, off) = "dma" =>
              k \in DOMAIN Family /\ device[d].mode /\ Place(d, k) \notin off
  BY DEF FirstForm, TriesDma

(* The invariant holds before the first call.                              *)
LEMMA InitInv == Init => Inv
<1> SUFFICES ASSUME Init PROVE Inv
  OBVIOUS
<1> USE DEF Init
<1>1. call \in Call /\ call.form = "none" /\ ~call.retry /\ call.ret = "failure"
      /\ call.step = "command"
  BY DEF Call, Steps
<1>2. took = [s \in Steps |-> 0] /\ "command" \in Steps /\ "transfer" \in Steps
  BY DEF Steps
<1>3. TypeOK
  BY <1>1, <1>2, BoundsAssumption DEF TypeOK
<1>4. Counts /\ Waiting /\ Flags
  BY <1>1, <1>2 DEF Counts, Waiting, Flags
<1>5. TwiceOnlyForRegisters /\ DataFeedsOwnCommand /\ SuccessMeansTaken
  BY <1>1, <1>2 DEF TwiceOnlyForRegisters, DataFeedsOwnCommand, SuccessMeansTaken
<1> QED BY <1>3, <1>4, <1>5 DEF Inv

(* A new call has executed nothing, and no drive waits with its command.   *)
LEMMA BeginInv ==
  ASSUME Inv, NEW d \in Devices, NEW o \in Ops, NEW bad \in BOOLEAN, Begin(d, o, bad)
  PROVE  Inv'
<1> DEFINE k == Kind(d, o, "command")
<1>1. /\ call'.op = o /\ call'.dev = d /\ call'.step = "command" /\ ~call'.retry
      /\ call'.form \in {"none", FirstForm(d, k, dmaOff)}
      /\ call'.ret \in {"failure", "unsupported"} /\ call' \in Call
  BY FirstFormFacts DEF Begin, Call, Steps
<1>2. /\ calls' = calls + 1 /\ calls' \in 0..MaxCalls /\ calls \in Nat
      /\ UNCHANGED <<device, pending, dmaOff, faults, misread, learnt>>
      /\ fed' = 0 /\ took' = [s \in Steps |-> 0]
      /\ "command" \in Steps /\ "transfer" \in Steps
  BY BoundsAssumption DEF Begin, Inv, TypeOK, Steps
<1>3. pending' \in [Devices -> 0..calls'] /\ pending'[d] # calls'
  BY <1>2 DEF Inv, TypeOK
<1>4. TypeOK'
  BY <1>1, <1>2, <1>3 DEF Inv, TypeOK
<1>5. Kind0' = k
  BY <1>1, <1>2 DEF Kind0, Kind, SctKind
<1>6. Counts' /\ Waiting'
  BY <1>1, <1>2, <1>3 DEF Counts, Waiting
<1>7. call'.form = "dma" => /\ Kind0' \in DOMAIN Family /\ device'[call'.dev].mode
                            /\ Open' \notin dmaOff'
  BY <1>1, <1>2, <1>5, FirstFormFacts DEF Open, Place
<1>8. /\ \A f \in Families, e \in Devices : <<f, e>> \in learnt' => PlaceOf(f, e) \in dmaOff'
      /\ \A p \in dmaOff' : Cause(p)'
  <2>1. ~call.retry
    BY DEF Inv, Flags, Begin, Idle
  <2> QED BY <1>2, <2>1 DEF Inv, Flags, Cause
<1>9. Flags'
  BY <1>1, <1>7, <1>8 DEF Flags, PlaceOf
<1>10. TwiceOnlyForRegisters' /\ DataFeedsOwnCommand' /\ SuccessMeansTaken'
  BY <1>1, <1>2 DEF TwiceOnlyForRegisters, DataFeedsOwnCommand, SuccessMeansTaken
<1> QED BY <1>4, <1>6, <1>9, <1>10 DEF Inv

-----------------------------------------------------------------------------
(* What the drive's answer to the command under way changes.               *)
LEMMA TakenFacts ==
  ASSUME Inv, call.form # "none", NEW form, NEW a, Answer(form, a), Taken(a)
  PROVE  /\ pending' \in [Devices -> 0..calls] /\ took' \in [Steps -> 0..2]
         /\ fed' \in 0..calls /\ faults' \in 0..MaxFaults
         /\ \A s \in Steps : took'[s] > 1 => WantsRegisters(call.op, s)
         /\ ~a.took => pending' = pending /\ took' = took /\ fed' = fed
         /\ a.took => took'[call.step] = took[call.step] + 1
         /\ \A s \in Steps \ {call.step} : took'[s] = took[s]
         /\ a.ok => a.took
         /\ call.step = "command" =>
              /\ fed' = 0
              /\ took'["command"] = 0 => pending'[call.dev] # calls
              /\ took'["command"] # 0 /\ Moves(call.op) => pending'[call.dev] = calls
         /\ call.step = "transfer" =>
              /\ took["command"] = 0 => call.op = "sctWriteSame"
              /\ fed' # 0 /\ took["command"] # 0 => fed' = calls
              /\ a.ok => fed' # 0 /\ (took["command"] = 0 => fed' # calls)
<1>1. /\ call \in Call /\ call.step \in Steps /\ call.dev \in Devices
      /\ pending \in [Devices -> 0..calls] /\ took \in [Steps -> 0..2]
      /\ fed \in 0..calls /\ calls \in Nat /\ faults \in 0..MaxFaults
      /\ call.step \in {"command", "transfer"}
      /\ "command" \in Steps /\ "transfer" \in Steps
  BY BoundsAssumption DEF Inv, TypeOK, Call, Steps
<1>2. /\ took[call.step] = 0
         \/ (took[call.step] = 1 /\ WantsRegisters(call.op, call.step))
      /\ call.step = "command" => took["transfer"] = 0 /\ fed = 0
      /\ call.step = "transfer" => Moves(call.op)
  BY DEF Inv, Counts
<1>3. /\ took["command"] = 0 => /\ pending[call.dev] # calls
                                /\ call.step = "transfer" => call.op = "sctWriteSame"
      /\ took["command"] # 0 /\ Moves(call.op) => pending[call.dev] = calls
  BY DEF Inv, Waiting
<1>4. Moves(call.op) => call.op \in SctOps \ {"sctStatus"}
  BY DEF Moves, SctOps, DataIn, DataOut
<1>5. /\ a.ok => a.took
      /\ a.took /\ call.op \in SctOps /\ call.step = "transfer" => pending[call.dev] # 0
      /\ a.fault => faults < MaxFaults
  BY DEF Answer, Able
<1>6. Waits \in 0..calls /\ (call.step = "command" /\ Moves(call.op) => Waits = calls)
  BY <1>1 DEF Waits
<1>7. faults' \in 0..MaxFaults
  BY <1>1, <1>5, BoundsAssumption DEF Taken
<1>8. pending' \in [Devices -> 0..calls] /\ fed' \in 0..calls
  BY <1>1, <1>6 DEF Taken
<1>9. /\ took' \in [Steps -> 0..2]
      /\ a.took => took'[call.step] = took[call.step] + 1
      /\ \A s \in Steps \ {call.step} : took'[s] = took[s]
      /\ ~a.took => pending' = pending /\ took' = took /\ fed' = fed
  BY <1>1, <1>2 DEF Taken
<1>10. \A s \in Steps : took'[s] > 1 => WantsRegisters(call.op, s)
  <2> SUFFICES ASSUME NEW s \in Steps, took'[s] > 1 PROVE WantsRegisters(call.op, s)
    OBVIOUS
  <2>1. took[s] > 1 => WantsRegisters(call.op, s)
    BY DEF Inv, TwiceOnlyForRegisters
  <2> QED BY <1>1, <1>2, <1>9, <2>1
<1>11. call.step = "command" =>
         /\ fed' = 0
         /\ took'["command"] = 0 => pending'[call.dev] # calls
         /\ took'["command"] # 0 /\ Moves(call.op) => pending'[call.dev] = calls
  <2> SUFFICES ASSUME call.step = "command"
               PROVE  /\ fed' = 0
                      /\ took'["command"] = 0 => pending'[call.dev] # calls
                      /\ took'["command"] # 0 /\ Moves(call.op) => pending'[call.dev] = calls
    OBVIOUS
  <2>1. CASE a.took
    <3>1. Moves(call.op) => pending'[call.dev] = calls
      BY <1>1, <1>4, <1>6, <2>1 DEF Taken
    <3> QED BY <1>1, <1>2, <1>9, <2>1, <3>1 DEF Taken
  <2>2. CASE ~a.took
    BY <1>2, <1>3, <1>9, <2>2
  <2> QED BY <2>1, <2>2
<1>12. call.step = "transfer" =>
         /\ took["command"] = 0 => call.op = "sctWriteSame"
         /\ fed' # 0 /\ took["command"] # 0 => fed' = calls
         /\ a.ok => fed' # 0 /\ (took["command"] = 0 => fed' # calls)
  <2> SUFFICES ASSUME call.step = "transfer"
               PROVE  /\ fed' # 0 /\ took["command"] # 0 => fed' = calls
                      /\ a.ok => fed' # 0 /\ (took["command"] = 0 => fed' # calls)
    BY <1>3
  <2>1. CASE a.took
    BY <1>2, <1>3, <1>4, <1>5, <2>1 DEF Taken
  <2>2. CASE ~a.took
    <3>1. fed' = fed /\ ~a.ok /\ (fed # 0 => fed = calls \/ took["command"] = 0)
      BY <1>5, <1>9, <2>2 DEF Inv, DataFeedsOwnCommand
    <3> QED BY <3>1
  <2> QED BY <2>1, <2>2
<1> QED BY <1>5, <1>7, <1>8, <1>9, <1>10, <1>11, <1>12

(* The end of a step: the call goes on to its data, or returns.            *)
LEMMA StepFacts ==
  ASSUME Inv, call.form # "none", NEW form, NEW a, Answer(form, a), Taken(a),
         Step(a.ok), UNCHANGED <<device, calls>>
  PROVE  /\ call' \in Call /\ ~call'.retry
         /\ Counts' /\ Waiting'
         /\ TwiceOnlyForRegisters' /\ DataFeedsOwnCommand' /\ SuccessMeansTaken'
         /\ call'.form = "dma" => /\ Kind0' \in DOMAIN Family /\ device'[call'.dev].mode
                                  /\ Open' \notin dmaOff'
<1> DEFINE k == Kind(call.dev, call.op, "transfer")
<1>1. /\ call \in Call /\ call.step \in {"command", "transfer"}
      /\ call.step = "transfer" => Moves(call.op)
      /\ call.step = "command" => took["transfer"] = 0
      /\ "command" \in Steps /\ "transfer" \in Steps /\ Steps = {"command", "transfer"}
      /\ took \in [Steps -> 0..2] /\ took' \in [Steps -> 0..2]
  BY TakenFacts DEF Inv, TypeOK, Call, Steps, Counts
<1>2. TwiceOnlyForRegisters' /\ call'.op = call.op /\ call'.dev = call.dev /\ ~call'.retry
  BY <1>1, TakenFacts DEF TwiceOnlyForRegisters, Step, Call, WantsRegisters
<1>3. DataFeedsOwnCommand'
  <2>1. fed' # 0 => fed' = calls \/ (call.op = "sctWriteSame" /\ took'["command"] = 0)
    BY <1>1, TakenFacts
  <2> QED BY <1>2, <2>1 DEF DataFeedsOwnCommand
<1>4. CASE GoesOn(a.ok)
  <2>1. /\ call.step = "command" /\ Moves(call.op) /\ (a.ok \/ call.op = "sctWriteSame")
    BY <1>4 DEF GoesOn
  <2>2. PICK form1 \in {"dma", "pio"} :
          /\ form1 = FirstForm(call.dev, k, dmaOff')
          /\ call' = [call EXCEPT !.step = "transfer", !.retry = FALSE, !.form = form1]
    BY <1>4, FirstFormFacts DEF Step
  <2>3. /\ call' \in Call /\ call'.step = "transfer"
        /\ call'.form = FirstForm(call.dev, k, dmaOff') /\ call'.form # "none"
    BY <1>1, <2>2 DEF Call
  <2>4. took'["transfer"] = 0 /\ (a.ok => took'["command"] # 0)
    BY <1>1, <2>1, TakenFacts
  <2>5. Counts' /\ Waiting'
    BY <1>2, <2>1, <2>3, <2>4, TakenFacts DEF Counts, Waiting, Moves
  <2>6. Kind0' = k
    BY <1>2, <2>3 DEF Kind0, Kind, SctKind
  <2>7. call'.form = "dma" => /\ Kind0' \in DOMAIN Family /\ device'[call'.dev].mode
                              /\ Open' \notin dmaOff'
    BY <1>2, <2>3, <2>6, FirstFormFacts DEF Open, Place
  <2>8. SuccessMeansTaken'
    BY <2>3 DEF SuccessMeansTaken, Idle
  <2> QED BY <1>2, <1>3, <2>3, <2>5, <2>7, <2>8
<1>5. CASE ~GoesOn(a.ok)
  <2>1. call' = [call EXCEPT !.form = "none", !.retry = FALSE,
                             !.ret = IF a.ok THEN "success" ELSE "failure"]
    BY <1>5 DEF Step
  <2>2. /\ call' \in Call /\ call'.form = "none" /\ call'.step = call.step
        /\ call'.ret = "success" => a.ok
    BY <1>1, <2>1 DEF Call
  <2>3. Counts' /\ Waiting'
    BY <1>1, <1>2, <2>2, TakenFacts DEF Counts, Waiting
  <2>4. SuccessMeansTaken'
    <3> SUFFICES ASSUME a.ok PROVE SuccessMeansTaken'
      BY <2>2 DEF SuccessMeansTaken
    <3>1. took'[call.step] # 0
      BY <1>1, TakenFacts
    <3>2. CASE call.step = "command"
      <4>1. ~Moves(call.op)
        BY <1>5, <3>2 DEF GoesOn
      <4> QED BY <1>2, <3>1, <3>2, <4>1 DEF SuccessMeansTaken, Moves
    <3>3. CASE call.step = "transfer"
      BY <1>1, <1>2, <3>1, <3>3, TakenFacts DEF SuccessMeansTaken
    <3> QED BY <1>1, <3>2, <3>3
  <2> QED BY <1>2, <1>3, <2>2, <2>3, <2>4
<1> QED BY <1>4, <1>5

-----------------------------------------------------------------------------
(* The DMA form: the flag is open while the PIO form is tried.             *)
LEMMA DmaInv == ASSUME Inv, NEW a \in Answers, Dma(a) PROVE Inv'
<1>1. /\ call.form = "dma" /\ Answer("dma", a) /\ Taken(a)
      /\ UNCHANGED <<device, calls, learnt>>
  BY DEF Dma
<1>2. /\ Kind0 \in DOMAIN Family /\ device[call.dev].mode /\ Open \notin dmaOff
      /\ ~call.retry /\ took[call.step] = 0
      /\ \A f \in Families, d \in Devices : <<f, d>> \in learnt => PlaceOf(f, d) \in dmaOff
      /\ \A p \in dmaOff : Cause(p)
  BY <1>1 DEF Inv, Flags, Counts
<1>3. call \in Call /\ call.dev \in Devices /\ call.step \in Steps /\ Open \in Places
      /\ took \in [Steps -> 0..2] /\ took' \in [Steps -> 0..2]
  BY <1>1, <1>2, PlaceType, TakenFacts DEF Inv, TypeOK, Call, Open
<1>4. CASE FallsBack(a)
  <2>1. ~a.ok /\ a.invalid
    BY <1>4 DEF FallsBack
  <2>2. /\ dmaOff' = dmaOff \cup {Open}
        /\ call' = [call EXCEPT !.form = "pio", !.retry = TRUE]
        /\ misread' = IF a.fault THEN misread \cup {Open} ELSE misread
    BY <1>4 DEF Dma, Open
  <2>3. /\ call' \in Call /\ call'.form = "pio" /\ call'.retry /\ call'.step = call.step
        /\ call'.op = call.op /\ call'.dev = call.dev /\ call'.bad = call.bad
    BY <1>3, <2>2 DEF Call
  <2>4. Kind0' = Kind0
    BY <1>1, <2>3 DEF Kind0, Kind, SctKind
  <2>5. Open' = Open
    BY <2>3, <2>4 DEF Open, Place
  <2>6. a.took => a.fault /\ WantsRegisters(call.op, call.step)
    BY <1>1, <2>1 DEF Answer
  <2>7. TypeOK'
    BY <1>1, <1>3, <2>2, <2>3, TakenFacts DEF Inv, TypeOK
  <2>8. Counts'
    <3>1. call'.step = "command" => took'["transfer"] = 0 /\ fed' = 0
      BY <1>1, <2>3, TakenFacts DEF Inv, Counts, Steps
    <3>2. took'[call.step] = 0 \/ (took'[call.step] = 1 /\ WantsRegisters(call.op, call.step))
      BY <1>1, <1>2, <1>3, <2>6, TakenFacts
    <3> QED BY <2>3, <3>1, <3>2 DEF Counts, Inv, Moves, WantsRegisters
  <2>9. Waiting'
    <3>1. CASE call.step = "command"
      BY <1>1, <2>3, <3>1, TakenFacts DEF Waiting, Moves
    <3>2. CASE call.step = "transfer"
      <4>1. ~a.took
        BY <2>6, <3>2 DEF WantsRegisters
      <4> QED BY <1>1, <2>3, <4>1, TakenFacts DEF Inv, Waiting, Moves
    <3> QED BY <1>3, <3>1, <3>2 DEF Steps
  <2>10. OpenCause'
    <3>1. CASE a.fault
      BY <2>2, <2>5, <3>1 DEF OpenCause
    <3>2. CASE ~a.fault
      <4>1. ~Able("dma") /\ ~a.took
        BY <1>1, <2>1, <3>2 DEF Answer
      <4>2. pending' = pending
        BY <1>1, <4>1, TakenFacts
      <4>3. Refuses' = Refuses
        BY <1>1, <2>3, <4>2 DEF Refuses
      <4> QED BY <1>1, <2>3, <2>4, <4>1, <4>2, <4>3 DEF Able, OpenCause
    <3> QED BY <3>1, <3>2
  <2>11. \A f \in Families, d \in Devices :
           <<f, d>> \in learnt' => PlaceOf(f, d) \in dmaOff /\ PlaceOf(f, d) # Open
    BY <1>1, <1>2
  <2>12. \A p \in dmaOff' : Cause(p)' \/ p = Open
    BY <1>1, <1>2, <2>2 DEF Cause
  <2>13. Flags'
    BY <1>2, <2>2, <2>3, <2>4, <2>5, <2>10, <2>11, <2>12 DEF Flags, PlaceOf
  <2>14. TwiceOnlyForRegisters' /\ SuccessMeansTaken'
    BY <1>1, <2>3, TakenFacts DEF TwiceOnlyForRegisters, SuccessMeansTaken, Idle, WantsRegisters
  <2>15. DataFeedsOwnCommand'
    BY <1>1, <1>3, <2>3, TakenFacts DEF DataFeedsOwnCommand, Steps
  <2> QED BY <2>7, <2>8, <2>9, <2>13, <2>14, <2>15 DEF Inv
<1>5. CASE ~FallsBack(a)
  <2>1. UNCHANGED <<dmaOff, misread>> /\ Step(a.ok)
    BY <1>5 DEF Dma
  <2>2. TypeOK'
    BY <1>1, <2>1, TakenFacts, StepFacts DEF Inv, TypeOK
  <2>3. \A p \in dmaOff' : Cause(p)'
    BY <1>1, <1>2, <2>1 DEF Cause
  <2>4. Flags'
    BY <1>1, <1>2, <2>1, <2>3, StepFacts DEF Flags, PlaceOf
  <2> QED BY <1>1, <2>1, <2>2, <2>4, StepFacts DEF Inv
<1> QED BY <1>4, <1>5

(* The PIO form: it settles whether the flag was to blame.                 *)
LEMMA PioInv == ASSUME Inv, NEW a \in Answers, Pio(a) PROVE Inv'
<1>1. /\ call.form = "pio" /\ Answer("pio", a) /\ Taken(a)
      /\ UNCHANGED <<device, calls, misread>> /\ Step(a.ok)
      /\ dmaOff' = IF call.retry /\ ~a.ok THEN dmaOff \ {Open} ELSE dmaOff
      /\ learnt' = IF call.retry /\ a.ok
                   THEN learnt \cup {<<Family[Kind0], call.dev>>} ELSE learnt
  BY DEF Pio, Restores, Open
<1>2. call \in Call /\ call.dev \in Devices /\ call.step \in Steps
  BY DEF Inv, TypeOK, Call
<1>3. call.retry =>
        /\ Kind0 \in DOMAIN Family /\ OpenCause /\ Open \in dmaOff
        /\ Family[Kind0] \in Families /\ Open = PlaceOf(Family[Kind0], call.dev)
        /\ \A f \in Families, d \in Devices : <<f, d>> \in learnt => PlaceOf(f, d) # Open
  BY <1>2, PlaceType DEF Inv, Flags, Open
<1>4. /\ \A f \in Families, d \in Devices : <<f, d>> \in learnt => PlaceOf(f, d) \in dmaOff
      /\ \A p \in dmaOff : Cause(p) \/ (call.retry /\ p = Open)
  BY DEF Inv, Flags
<1>5. \A f \in Families, d \in Devices : <<f, d>> \in learnt' => PlaceOf(f, d) \in dmaOff'
  BY <1>1, <1>3, <1>4
<1>6. \A p \in dmaOff' : Cause(p)
  <2> SUFFICES ASSUME call.retry, a.ok PROVE Cause(Open)
    BY <1>1, <1>4
  <2>1. Able("pio")
    BY <1>1 DEF Answer
  <2>2. Open \in misread \/ Family[Kind0] \notin device[call.dev].dma
    BY <1>3, <2>1 DEF Able, OpenCause
  <2> QED BY <1>2, <1>3, <2>2, PlaceCause DEF Open, Cause
<1>7. Flags'
  <2>1. \A p \in dmaOff' : Cause(p)'
    BY <1>1, <1>6 DEF Cause
  <2> QED BY <1>1, <1>5, <2>1, StepFacts DEF Flags, PlaceOf
<1>8. TypeOK'
  BY <1>1, <1>2, <1>3, TakenFacts, StepFacts, SMTT(30) DEF Inv, TypeOK
<1> QED BY <1>1, <1>7, <1>8, StepFacts DEF Inv

(* Every step keeps the invariant.                                         *)
LEMMA NextInv == ASSUME Inv, [Next]_vars PROVE Inv'
<1>1. CASE UNCHANGED vars
  <2>1. UNCHANGED <<device, pending, dmaOff, calls, call, faults, took, fed, misread, learnt>>
    BY <1>1 DEF vars, history
  <2>2. TypeOK' /\ Counts' /\ Waiting'
    BY <2>1 DEF Inv, TypeOK, Counts, Waiting
  <2>3. Flags'
    <3>1. Open' = Open /\ Kind0' = Kind0
      BY <2>1 DEF Open, Kind0, Kind, SctKind, Place
    <3>2. OpenCause' = OpenCause /\ \A p : Cause(p)' = Cause(p)
      BY <2>1, <3>1 DEF OpenCause, Refuses, Cause
    <3> QED BY <2>1, <3>1, <3>2 DEF Inv, Flags
  <2>4. TwiceOnlyForRegisters' /\ DataFeedsOwnCommand' /\ SuccessMeansTaken'
    BY <2>1 DEF Inv, TwiceOnlyForRegisters, DataFeedsOwnCommand, SuccessMeansTaken, Idle
  <2> QED BY <2>2, <2>3, <2>4 DEF Inv
<1>2. CASE Next
  BY <1>2, BeginInv, DmaInv, PioInv DEF Next
<1> QED BY <1>1, <1>2

(* The invariant holds in every state, whatever the constants are.         *)
THEOREM Invariant == Spec => []Inv
<1>1. Init => Inv
  BY InitInv
<1>2. Inv /\ [Next]_vars => Inv'
  BY NextInv
<1> QED BY <1>1, <1>2, PTL DEF Spec

(* Every variable keeps its type: a step is executed at most twice.        *)
THEOREM TypeCorrect == Spec => []TypeOK
<1>1. Inv => TypeOK
  BY DEF Inv
<1> QED BY <1>1, Invariant, PTL

(* Falling back to the PIO form never makes a drive execute what it        *)
(* already did, a command whose registers are asked for apart.             *)
THEOREM TwiceForRegisters == Spec => []TwiceOnlyForRegisters
<1>1. Inv => TwiceOnlyForRegisters
  BY DEF Inv
<1> QED BY <1>1, Invariant, PTL

(* Between attempts every flag that is off has a cause, and a drive that   *)
(* took the other form is not sent a DMA form of that family again.        *)
THEOREM DmaOffJustified == Spec => []DmaOffForCauseAndGood
<1>1. ASSUME Inv PROVE DmaOffForCauseAndGood
  <2>1. ~call.retry => \A p \in dmaOff : Cause(p)
    BY <1>1 DEF Inv, Flags
  <2>2. ASSUME call.form = "dma" PROVE <<Family[Kind0], call.dev>> \notin learnt
    <3>1. call.dev \in Devices
      BY <1>1 DEF Inv, TypeOK, Call
    <3>2. Kind0 \in DOMAIN Family /\ Open \notin dmaOff
      BY <1>1, <2>2 DEF Inv, Flags
    <3>3. Family[Kind0] \in Families /\ Open = PlaceOf(Family[Kind0], call.dev)
      BY <3>1, <3>2, PlaceType DEF Open
    <3> QED BY <1>1, <3>1, <3>2, <3>3 DEF Inv, Flags
  <2> QED BY <2>1, <2>2 DEF DmaOffForCauseAndGood, Cause
<1> QED BY <1>1, Invariant, PTL

(* The data of an SCT operation goes to its own command (WRITE SAME apart).*)
THEOREM OwnCommandFed == Spec => []DataFeedsOwnCommand
<1>1. Inv => DataFeedsOwnCommand
  BY DEF Inv
<1> QED BY <1>1, Invariant, PTL

(* A call that reports success had every step executed (WRITE SAME apart). *)
THEOREM SuccessTaken == Spec => []SuccessMeansTaken
<1>1. Inv => SuccessMeansTaken
  BY DEF Inv
<1> QED BY <1>1, Invariant, PTL

-----------------------------------------------------------------------------
(***************************************************************************)
(* The register test and its guard.                                        *)
(***************************************************************************)

(* Between the first NOP and the verdict.                                  *)
Testing == pc \in {"test", "decide"}

(* The counters count tests, and no score is out of reach.                 *)
Counted ==
  /\ pc = "test" => testNum < NOP_MAX_TESTS
  /\ pc = "decide" => testNum = NOP_MAX_TESTS
  /\ Testing =>
       /\ successfulMatches <= testNum /\ brokenCountResponses <= testNum
       /\ brokenLBAResponses <= testNum /\ swappedLBAResponses <= testNum
       /\ confidenceScore >= -10 * testNum
       /\ confidenceScore <= 20 + 10 * testNum + (IF testNum = 0 THEN 0 ELSE 15)
  /\ Testing /\ testNum = 0 =>
       countOffset = "none" /\ ~lbaOffset /\ (~nopSupported => confidenceScore = 0)
  /\ pc = "verify" => confidenceScore <= 95

(* The verdict on an adapter that loses the count guards it for good: the  *)
(* NOPs of later tests are blocked, and say nothing.                       *)
LosesCount == Honest /\ ~nopSupported /\ "count" \in adapter.zeroes

CountGuarded == nonDataTest \notin {"NONE", "ALLOW_ALL"} /\ nonDataCountBroken

CountKept ==
  LosesCount =>
    /\ Testing =>
         /\ brokenCountResponses = testNum /\ countOffset = "none" /\ ~lbaOffset
         /\ \/ /\ nonDataTest = "NONE"
               /\ 5 * testNum <= confidenceScore /\ confidenceScore <= 8 * testNum
            \/ CountGuarded /\ confidenceScore = 0 - 7 * testNum
    /\ pc = "verify" => CountGuarded
    /\ pc = "done" => CountGuarded \/ (discoveries = 0 /\ nonDataTest = "NONE")

(* An adapter that loses nothing: the count is never broken, and the LBA   *)
(* only along with the permission of all commands, behind a libata that    *)
(* moves the count.                                                        *)
Whole == adapter.steady /\ adapter.zeroes = {} /\ adapter.back # "libata16"

Unaligned == fixedSenseHack = "UNALIGNED_WRITE_BUG"

NothingLost ==
  Whole =>
    /\ ~nonDataCountBroken
    /\ nonDataLBABroken =>
         adapter.back = "libata12" /\ Unaligned /\ nonDataTest = "ALLOW_ALL"
    /\ adapter.back # "libata12" => brokenCountResponses = 0 /\ brokenLBAResponses = 0
    /\ adapter.back = "libata12" /\ pc = "verify" => nonDataTest = "ALLOW_ALL"
    /\ Testing =>
         /\ adapter.back = "plain" => countOffset = "none" /\ ~lbaOffset
         /\ adapter.back = "swapped" => countOffset # "elsewhere" /\ ~lbaOffset
         /\ adapter.back = "shifted" /\ testNum > 0 => countOffset = "elsewhere" /\ lbaOffset

(* Such a libata is found by its sense data in the first NOP; after that   *)
(* the score is too low for any verdict but that of misaligned registers.  *)
Moved ==
  Whole /\ adapter.back = "libata12" /\ Testing /\ testNum > 0 =>
    /\ Unaligned /\ countOffset # "none"
    /\ brokenLBAResponses = testNum /\ brokenCountResponses < testNum
    /\ \/ countOffset = "register" /\ confidenceScore <= 35 - 10 * testNum
       \/ /\ countOffset = "elsewhere" /\ ~lbaOffset
          /\ nopSupported => testNum = 1
          /\ ~nopSupported => confidenceScore <= 27 - 7 * testNum

(* The first test of an adapter that loses one register.                   *)
LosesOne == Honest /\ adapter.back = "plain" /\ Cardinality(adapter.zeroes) = 1

FirstTest ==
  LosesOne /\ discoveries < 2 =>
    /\ fixedSenseHack = "NONE"
    /\ discoveries = 0 =>
         pc = "done" /\ nonDataTest = "NONE" /\ ~nonDataCountBroken /\ ~nonDataLBABroken
    /\ pc # "verify"
    /\ Testing =>
         /\ nonDataTest = "NONE" /\ ~nonDataCountBroken /\ ~nonDataLBABroken
         /\ successfulMatches = 0 /\ confidenceScore >= 5 * testNum /\ ~lbaOffset
         /\ adapter.zeroes = {"count"} =>
              countOffset = "none" /\ brokenCountResponses = testNum
         /\ adapter.zeroes = {"lba"} =>
              /\ countOffset # "elsewhere"
              /\ brokenCountResponses = 0 /\ swappedLBAResponses = 0
              /\ brokenLBAResponses = testNum
    /\ pc = "done" /\ discoveries = 1 =>
         /\ nonDataTest \in {"COUNT_ZERO_ONLY", "LBA_ZERO_ONLY"}
         /\ adapter.zeroes = {"count"} => nonDataCountBroken
         /\ adapter.zeroes = {"lba"} => ~nonDataCountBroken /\ nonDataLBABroken

(* What was sent arrived, but for what the adapter zeroes.                 *)
Carried ==
  /\ sent \subseteq {"count", "lba"} /\ discoveries \in 0..2
  /\ outcome \in {"none", "executed", "blocked"}
  /\ outcome = "executed" => got = sent \ adapter.zeroes
  /\ outcome # "none" => pc = "done" /\ discoveries > 0
  /\ outcome = "executed" => ~Blocked("count" \in sent, "lba" \in sent)
  /\ outcome = "blocked" => Blocked("count" \in sent, "lba" \in sent)

GuardInv == /\ TestTypeOK /\ Counted /\ CountKept /\ NothingLost /\ Moved /\ FirstTest /\ Carried

-----------------------------------------------------------------------------
(* The answers.                                                            *)

(* What comes back of a NOP is a response, also when it is blocked or      *)
(* picked out of libata's sense data.                                      *)
LEMMA Replies ==
  ASSUME TestTypeOK, NEW raw \in Responses
  PROVE  raw \in ResponseSet /\ Nop(raw) \in ResponseSet
<1>1. SteadyResponse(adapter) \in ResponseSet
  BY DEF TestTypeOK, AdapterSet, SteadyResponse, ResponseSet
<1>2. raw \in ResponseSet
  BY <1>1, NopAssumption DEF Responses
<1>3. NothingBack \in ResponseSet
  BY DEF NothingBack, ResponseSet
<1>4. PickedCount(raw) \in ResponseSet
  BY <1>2 DEF PickedCount, ResponseSet
<1> QED BY <1>2, <1>3, <1>4 DEF Nop

(* What a test adds to the score and the counters.                         *)
LEMMA TestAdds ==
  ASSUME TestTypeOK, Counted, NEW r \in ResponseSet, Test(r)
  PROVE  /\ adapter' = adapter /\ nopSupported' = nopSupported
         /\ testNum \in 0..5 /\ Bonus(r) \in Int /\ Bonus(r) >= -10
         /\ Bonus(r) <= 10 + (IF testNum = 0 THEN 15 ELSE 0)
         /\ confidenceScore' = confidenceScore + Bonus(r)
         /\ successfulMatches' \in {successfulMatches, successfulMatches + 1}
         /\ brokenCountResponses' \in {brokenCountResponses, brokenCountResponses + 1}
         /\ brokenLBAResponses' \in {brokenLBAResponses, brokenLBAResponses + 1}
         /\ swappedLBAResponses' \in {swappedLBAResponses, swappedLBAResponses + 1}
         /\ countOffset' \in {"none", "register", "elsewhere"} /\ lbaOffset' \in BOOLEAN
<1>1. /\ adapter' = adapter /\ nopSupported' = nopSupported /\ pc = "test"
      /\ confidenceScore' = confidenceScore + Bonus(r)
      /\ countOffset' = CountOffset(r) /\ lbaOffset' = LbaOffset(r)
  BY DEF Test, drive
<1>2. /\ successfulMatches' \in {successfulMatches, successfulMatches + 1}
      /\ brokenCountResponses' \in {brokenCountResponses, brokenCountResponses + 1}
      /\ brokenLBAResponses' \in {brokenLBAResponses, brokenLBAResponses + 1}
      /\ swappedLBAResponses' \in {swappedLBAResponses, swappedLBAResponses + 1}
  BY DEF Test, One, TestTypeOK
<1>3. testNum \in 0..5
  BY <1>1 DEF Counted, TestTypeOK, NOP_MAX_TESTS
<1>4. CountOffset(r) \in {"none", "register", "elsewhere"} /\ LbaOffset(r) \in BOOLEAN
  BY DEF CountOffset, LbaOffset, TestTypeOK, ResponseSet
<1>5. /\ Bonus(r) \in Int /\ Bonus(r) >= -10
      /\ Bonus(r) <= 10 + (IF testNum = 0 THEN 15 ELSE 0)
  <2> DEFINE ended == IF r.ret = "ABORTED" THEN 5 ELSE -10
             found == IF Discovers(r) /\ CountOffset(r) # "none" THEN 15 ELSE 0
             agreed == CASE CountMatch(r) /\ LbaMatch(r)   -> 5
                         [] ~CountMatch(r) /\ ~LbaMatch(r) -> 3
                         [] OTHER                          -> 0
  <2>1. ended \in {5, -10} /\ found \in {0, 15} /\ agreed \in {0, 3, 5}
    BY DEF CountMatch, LbaMatch
  <2>2. found = 15 => testNum = 0
    BY DEF Discovers
  <2>3. Bonus(r) = ended + found + agreed
    BY DEF Bonus
  <2> HIDE DEF ended, found, agreed
  <2> QED BY <2>1, <2>2, <2>3
<1> QED BY <1>1, <1>2, <1>3, <1>4, <1>5

(* The same of the test in a step, whichever ends it.                      *)
LEMMA TestTypes ==
  ASSUME TestTypeOK, Counted, NEW r \in ResponseSet, Test(r)
  PROVE  /\ adapter' \in AdapterSet /\ nopSupported' \in BOOLEAN
         /\ successfulMatches' \in 0..(testNum + 1)
         /\ brokenCountResponses' \in 0..(testNum + 1)
         /\ brokenLBAResponses' \in 0..(testNum + 1)
         /\ swappedLBAResponses' \in 0..(testNum + 1)
         /\ confidenceScore' \in Int
         /\ confidenceScore' >= -10 * (testNum + 1)
         /\ confidenceScore' <= 20 + 10 * (testNum + 1) + 15
<1>1. pc = "test" /\ testNum \in 0..5 /\ Testing
  BY TestAdds DEF Test, Testing
<1>2. /\ successfulMatches \in 0..testNum /\ brokenCountResponses \in 0..testNum
      /\ brokenLBAResponses \in 0..testNum /\ swappedLBAResponses \in 0..testNum
      /\ confidenceScore \in Int /\ confidenceScore >= -10 * testNum
      /\ confidenceScore <= 20 + 10 * testNum + (IF testNum = 0 THEN 0 ELSE 15)
  BY <1>1 DEF TestTypeOK, Counted
<1>3. adapter' \in AdapterSet /\ nopSupported' \in BOOLEAN
  BY TestAdds DEF TestTypeOK
<1>4. /\ successfulMatches' \in 0..(testNum + 1) /\ brokenCountResponses' \in 0..(testNum + 1)
      /\ brokenLBAResponses' \in 0..(testNum + 1) /\ swappedLBAResponses' \in 0..(testNum + 1)
  BY <1>1, <1>2, TestAdds
<1>5. /\ confidenceScore' \in Int /\ confidenceScore' >= -10 * (testNum + 1)
      /\ confidenceScore' <= 20 + 10 * (testNum + 1) + 15
  BY <1>1, <1>2, TestAdds
<1> QED BY <1>3, <1>4, <1>5

(* Of an adapter that loses the count, no count comes back; and of a NOP   *)
(* that is blocked, nothing.                                               *)
LEMMA CountLost ==
  ASSUME TestTypeOK, LosesCount, NEW raw \in Responses
  PROVE  /\ Nop(raw).count = "wrong"
         /\ ~Blocked(TRUE, TRUE) => Nop(raw).ret = "ABORTED"
         /\ Blocked(TRUE, TRUE) => Nop(raw) = NothingBack
<1>1. adapter \in AdapterSet /\ raw = SteadyResponse(adapter)
      /\ adapter.ret = "ABORTED" /\ "count" \in adapter.zeroes
  BY DEF LosesCount, Honest, Responses, TestTypeOK
<1>2. raw.count = "wrong" /\ raw.ret = "ABORTED" /\ raw.unaligned = FALSE
  BY <1>1 DEF SteadyResponse
<1> QED BY <1>2 DEF Nop, Worked, NothingBack

(* The two registers are finitely many.                                    *)
LEMMA TwoFinite == IsFiniteSet({"count", "lba"})
<1>1. IsFiniteSet({"count"} \cup {"lba"})
  BY FS_Singleton, FS_Union
<1>2. {"count"} \cup {"lba"} = {"count", "lba"}
  OBVIOUS
<1> QED BY <1>1, <1>2

LEMMA OneRegister ==
  ASSUME TestTypeOK, LosesOne PROVE adapter.zeroes \in {{"count"}, {"lba"}}
<1>1. adapter.zeroes \in SUBSET {"count", "lba"}
  BY DEF TestTypeOK, AdapterSet
<1>2. IsFiniteSet(adapter.zeroes)
  BY <1>1, FS_Subset, TwoFinite
<1>3. PICK reg : adapter.zeroes = {reg}
  BY <1>2, FS_Singleton DEF LosesOne
<1> QED BY <1>1, <1>3

(* An adapter that loses one register and puts the others where they       *)
(* belong.                                                                 *)
LEMMA OneLost ==
  ASSUME TestTypeOK, LosesOne, ~Blocked(TRUE, TRUE), fixedSenseHack = "NONE",
         NEW raw \in Responses
  PROVE  /\ Nop(raw).ret = "ABORTED" /\ ~Nop(raw).csi
         /\ \/ adapter.zeroes = {"count"} /\ Nop(raw).count = "wrong" /\ Nop(raw).lba = "echo"
            \/ adapter.zeroes = {"lba"} /\ Nop(raw).count = "echo" /\ Nop(raw).lba = "wrong"
<1>1. adapter \in AdapterSet /\ raw = SteadyResponse(adapter)
      /\ adapter.ret = "ABORTED" /\ adapter.back = "plain"
  BY DEF LosesOne, Honest, Responses, TestTypeOK
<1>2. adapter.zeroes \in {{"count"}, {"lba"}}
  BY OneRegister
<1>3. Nop(raw) = raw
  BY DEF Nop, Worked
<1>4. /\ raw.ret = "ABORTED" /\ ~raw.csi
      /\ raw.count = IF "count" \in adapter.zeroes THEN "wrong" ELSE "echo"
      /\ raw.lba = IF "lba" \in adapter.zeroes THEN "wrong" ELSE "echo"
  <2>1. raw.ret = "ABORTED" /\ ~raw.csi
    BY <1>1 DEF SteadyResponse
  <2>2. raw.count = IF "count" \in adapter.zeroes THEN "wrong" ELSE "echo"
    BY <1>1 DEF SteadyResponse
  <2>3. raw.lba = IF "lba" \in adapter.zeroes THEN "wrong" ELSE "echo"
    BY <1>1 DEF SteadyResponse
  <2> QED BY <2>1, <2>2, <2>3
<1> QED BY <1>2, <1>3, <1>4

(* An adapter that loses nothing, by where it puts what comes back.        *)
LEMMA NoneLost ==
  ASSUME TestTypeOK, Whole, ~Blocked(TRUE, TRUE), NEW raw \in Responses
  PROVE  /\ adapter.back \in {"plain", "swapped", "shifted", "libata12"}
         /\ adapter.back = "plain" => Nop(raw).count = "echo" /\ Nop(raw).lba = "echo"
         /\ adapter.back = "swapped" => Nop(raw).count = "echo" /\ Nop(raw).lba = "swapped"
         /\ adapter.back = "shifted" => Nop(raw).count = "offset" /\ Nop(raw).lba = "offset"
         /\ adapter.back = "libata12" =>
              /\ Nop(raw).lba = "wrong" /\ Nop(raw).csi
              /\ IF Unaligned THEN Nop(raw).count = "echo" /\ Nop(raw).ret = "OTHER"
                 ELSE Nop(raw).count = "offset"
<1>1. adapter \in AdapterSet /\ raw = SteadyResponse(adapter) /\ adapter.zeroes = {}
      /\ adapter.back \in {"plain", "swapped", "shifted", "libata12"}
  BY DEF Whole, Responses, TestTypeOK, AdapterSet
<1>2. /\ raw.csi = (adapter.back = "libata12") /\ raw.unaligned = (adapter.back = "libata12")
      /\ raw.count = IF adapter.back \in {"shifted", "libata12"} THEN "offset" ELSE "echo"
      /\ raw.lba = IF adapter.back = "libata12" THEN "wrong"
                   ELSE IF adapter.back = "shifted" THEN "offset"
                   ELSE IF adapter.back = "swapped" THEN "swapped" ELSE "echo"
  BY <1>1 DEF SteadyResponse
<1>3. raw \in ResponseSet
  BY Replies
<1>4. Nop(raw) = IF Unaligned /\ adapter.back = "libata12" THEN PickedCount(raw) ELSE raw
  BY <1>2 DEF Nop, Worked, Unaligned
<1>5. /\ PickedCount(raw).count = "echo" /\ PickedCount(raw).ret = "OTHER"
      /\ PickedCount(raw).lba = "wrong" /\ PickedCount(raw).csi = raw.csi
  BY <1>3 DEF PickedCount, ResponseSet
<1> QED BY <1>1, <1>2, <1>4, <1>5

(* What such an adapter loses nothing of, it is not blocked for.           *)
LEMMA WholeOpen == ASSUME Whole, NothingLost PROVE ~Blocked(TRUE, TRUE)
BY DEF NothingLost, Blocked

(* Where its answers match.                                                *)
LEMMA WholeMatches ==
  ASSUME TestTypeOK, Counted, NothingLost, Moved, Whole, pc = "test", NEW raw \in Responses
  PROVE  /\ adapter.back \in {"plain", "swapped", "shifted", "libata12"}
         /\ adapter.back # "libata12" =>
              /\ CountMatch(Nop(raw))
              /\ LbaMatch(Nop(raw)) \/ Nop(raw).lba = "swapped"
         /\ adapter.back = "plain" =>
              CountOffset(Nop(raw)) = "none" /\ ~LbaOffset(Nop(raw))
         /\ adapter.back = "swapped" =>
              CountOffset(Nop(raw)) # "elsewhere" /\ ~LbaOffset(Nop(raw))
         /\ adapter.back = "shifted" =>
              CountOffset(Nop(raw)) = "elsewhere" /\ LbaOffset(Nop(raw))
<1> DEFINE r == Nop(raw)
<1>1. ~Blocked(TRUE, TRUE) /\ Testing
  BY WholeOpen DEF Testing
<1>2. adapter.back \in {"plain", "swapped", "shifted", "libata12"}
  BY <1>1, NoneLost
<1>3. testNum = 0 => countOffset = "none" /\ lbaOffset = FALSE
  BY <1>1 DEF Counted
<1>4. lbaOffset \in BOOLEAN /\ testNum \in Nat
  BY DEF TestTypeOK
<1>5. CASE adapter.back = "plain"
  <2>1. r.count = "echo" /\ r.lba = "echo"
    BY <1>1, <1>5, NoneLost
  <2>2. countOffset = "none" /\ lbaOffset = FALSE
    BY <1>1, <1>5 DEF NothingLost
  <2> HIDE DEF r
  <2>3. CountMatch(r) /\ LbaMatch(r) /\ CountOffset(r) = "none" /\ ~LbaOffset(r)
    BY <2>1, <2>2 DEF CountMatch, LbaMatch, CountOffset, LbaOffset, Discovers
  <2> QED BY <1>5, <2>3 DEF r
<1>6. CASE adapter.back = "swapped"
  <2>1. r.count = "echo" /\ r.lba = "swapped"
    BY <1>1, <1>6, NoneLost
  <2>2. countOffset # "elsewhere" /\ lbaOffset = FALSE
    BY <1>1, <1>6 DEF NothingLost
  <2> HIDE DEF r
  <2>3. CountMatch(r) /\ CountOffset(r) # "elsewhere" /\ ~LbaOffset(r)
    BY <2>1, <2>2 DEF CountMatch, CountOffset, LbaOffset
  <2> QED BY <1>6, <2>1, <2>3 DEF r
<1>7. CASE adapter.back = "shifted"
  <2>1. r.count = "offset" /\ r.lba = "offset"
    BY <1>1, <1>7, NoneLost
  <2>2. testNum > 0 => countOffset = "elsewhere" /\ lbaOffset = TRUE
    BY <1>1, <1>7 DEF NothingLost
  <2> HIDE DEF r
  <2>3. CountOffset(r) = "elsewhere" /\ LbaOffset(r)
    BY <1>3, <1>4, <2>1, <2>2 DEF CountOffset, LbaOffset, Discovers
  <2>4. CountMatch(r) /\ LbaMatch(r)
    BY <2>1, <2>3 DEF CountMatch, LbaMatch
  <2> QED BY <1>7, <2>3, <2>4 DEF r
<1> QED BY <1>2, <1>5, <1>6, <1>7

(* Behind the libata that moves the count, the first NOP finds it, and     *)
(* sets the workaround; later ones find it where they look or not.         *)
LEMMA MovedMatches ==
  ASSUME TestTypeOK, Counted, NothingLost, Moved, Whole, pc = "test", NEW raw \in Responses,
         adapter.back = "libata12"
  PROVE  /\ ~LbaMatch(Nop(raw)) /\ BrokenLba(Nop(raw)) /\ Nop(raw).csi
         /\ Nop(raw).lba # "swapped"
         /\ LbaOffset(Nop(raw)) = lbaOffset
         /\ testNum = 0 =>
              /\ CountMatch(Nop(raw)) /\ Bonus(Nop(raw)) <= 20
              /\ CountOffset(Nop(raw)) = IF Unaligned THEN "register" ELSE "elsewhere"
              /\ Unaligned => Bonus(Nop(raw)) <= 5
         /\ testNum > 0 =>
              /\ CountOffset(Nop(raw)) = countOffset
              /\ CountMatch(Nop(raw)) <=> countOffset = "register"
              /\ Bonus(Nop(raw)) = IF countOffset = "register" THEN -10 ELSE -7
<1> DEFINE r == Nop(raw)
<1>1. ~Blocked(TRUE, TRUE) /\ Testing
  BY WholeOpen DEF Testing
<1>2. /\ r.lba = "wrong" /\ r.csi
      /\ IF Unaligned THEN r.count = "echo" /\ r.ret = "OTHER" ELSE r.count = "offset"
  BY <1>1, NoneLost
<1>3. testNum = 0 => countOffset = "none" /\ lbaOffset = FALSE
  BY <1>1 DEF Counted
<1>4. lbaOffset \in BOOLEAN /\ testNum \in Nat
  BY DEF TestTypeOK
<1>5. testNum > 0 => Unaligned /\ countOffset \in {"register", "elsewhere"}
  BY <1>1 DEF Moved, TestTypeOK
<1> HIDE DEF r
<1>6. ~LbaMatch(r) /\ BrokenLba(r) /\ LbaOffset(r) = lbaOffset
  BY <1>2, <1>4 DEF LbaMatch, BrokenLba, LbaOffset
<1>7. ASSUME testNum = 0
      PROVE  /\ CountMatch(r) /\ Bonus(r) <= 20
             /\ CountOffset(r) = IF Unaligned THEN "register" ELSE "elsewhere"
             /\ Unaligned => Bonus(r) <= 5
  <2>1. Discovers(r)
    BY <1>2, <1>7 DEF Discovers
  <2>2. CountOffset(r) = IF Unaligned THEN "register" ELSE "elsewhere"
    BY <1>2, <2>1 DEF CountOffset
  <2>3. CountMatch(r)
    BY <1>2, <2>2 DEF CountMatch
  <2>4. Bonus(r) = (IF r.ret = "ABORTED" THEN 5 ELSE -10) + 15 + 0
    BY <1>6, <2>1, <2>2, <2>3 DEF Bonus
  <2> QED BY <1>2, <2>2, <2>3, <2>4
<1>8. ASSUME testNum > 0
      PROVE  /\ CountOffset(r) = countOffset
             /\ CountMatch(r) <=> countOffset = "register"
             /\ Bonus(r) = IF countOffset = "register" THEN -10 ELSE -7
  <2>1. ~Discovers(r) /\ r.count = "echo" /\ r.ret = "OTHER"
    BY <1>2, <1>4, <1>5, <1>8 DEF Discovers
  <2>2. CountOffset(r) = countOffset
    BY <2>1 DEF CountOffset
  <2>3. CountMatch(r) <=> countOffset = "register"
    BY <1>5, <1>8, <2>1, <2>2 DEF CountMatch
  <2>4. Bonus(r) = -10 + 0 + (IF CountMatch(r) THEN 0 ELSE 3)
    BY <1>6, <2>1 DEF Bonus
  <2> QED BY <2>2, <2>3, <2>4
<1> QED BY <1>2, <1>6, <1>7, <1>8 DEF r

-----------------------------------------------------------------------------
(* The steps.                                                              *)

(* Before the first discovery nothing is known and nothing was sent.       *)
LEMMA GuardInitInv == GuardInit => GuardInv
<1> SUFFICES ASSUME GuardInit PROVE GuardInv
  OBVIOUS
<1>1. TestTypeOK
  <2>1. adapter \in AdapterSet
    BY NopAssumption DEF GuardInit, InitTest
  <2>2. /\ nopSupported \in BOOLEAN /\ pc = "done" /\ testNum = 0 /\ successfulMatches = 0
        /\ brokenCountResponses = 0 /\ brokenLBAResponses = 0 /\ swappedLBAResponses = 0
        /\ confidenceScore = 0
    BY DEF GuardInit, InitTest
  <2>3. /\ countOffset = "none" /\ lbaOffset = FALSE /\ nonDataTest = "NONE"
        /\ nonDataCountBroken = FALSE /\ nonDataLBABroken = FALSE /\ fixedSenseHack = "NONE"
    BY DEF GuardInit, InitTest
  <2>4. /\ testNum \in 0..NOP_MAX_TESTS /\ successfulMatches \in 0..NOP_MAX_TESTS
        /\ brokenCountResponses \in 0..NOP_MAX_TESTS /\ brokenLBAResponses \in 0..NOP_MAX_TESTS
        /\ swappedLBAResponses \in 0..NOP_MAX_TESTS /\ confidenceScore \in -60..130
    BY <2>2 DEF NOP_MAX_TESTS
  <2> QED BY <2>1, <2>2, <2>3, <2>4 DEF TestTypeOK
<1>2. Counted /\ CountKept /\ NothingLost /\ Moved
  BY DEF GuardInit, InitTest, Counted, CountKept, NothingLost, Moved, Testing
<1>3. FirstTest /\ Carried
  BY DEF GuardInit, InitTest, FirstTest, Carried, Testing
<1> QED BY <1>1, <1>2, <1>3 DEF GuardInv

(* A discovery begins with the verdict of the last one.                    *)
LEMMA DiscoverInv == ASSUME GuardInv, Discover PROVE GuardInv'
<1>1. /\ pc = "done" /\ pc' = "test" /\ testNum' = 0
      /\ successfulMatches' = 0 /\ brokenCountResponses' = 0
      /\ brokenLBAResponses' = 0 /\ swappedLBAResponses' = 0
      /\ confidenceScore' = IF nopSupported THEN 20 ELSE 0
      /\ countOffset' = "none" /\ lbaOffset' = FALSE
      /\ UNCHANGED <<adapter, nopSupported, nonDataTest, nonDataCountBroken,
                     nonDataLBABroken, fixedSenseHack>>
      /\ sent' = {} /\ got' = {} /\ outcome' = "none"
      /\ discoveries' = IF discoveries < 2 THEN discoveries + 1 ELSE 2
  BY DEF Discover, BeginTest, drive, verdict
<1>2. TestTypeOK'
  <2>1. confidenceScore' \in -60..130
    BY <1>1
  <2>2. testNum' \in 0..NOP_MAX_TESTS
    BY <1>1 DEF NOP_MAX_TESTS
  <2> QED BY <1>1, <2>1, <2>2 DEF GuardInv, TestTypeOK
<1>3. Counted'
  BY <1>1 DEF GuardInv, TestTypeOK, Counted, Testing, NOP_MAX_TESTS
<1>4. CountKept'
  <2> SUFFICES ASSUME LosesCount PROVE CountKept'
    BY <1>1 DEF CountKept, LosesCount, Honest
  <2>1. CountGuarded \/ nonDataTest = "NONE"
    BY <1>1 DEF GuardInv, CountKept
  <2>2. CountGuarded' = CountGuarded
    BY <1>1 DEF CountGuarded
  <2>3. ~nopSupported /\ confidenceScore' = 0
    BY <1>1 DEF LosesCount
  <2>4. /\ 5 * testNum' <= confidenceScore' /\ confidenceScore' <= 8 * testNum'
        /\ confidenceScore' = 0 - 7 * testNum'
    <3>1. testNum' = 0 /\ confidenceScore' = 0
      BY <1>1, <2>3
    <3> QED BY <3>1
  <2>5. brokenCountResponses' = testNum' /\ countOffset' = "none" /\ ~lbaOffset'
    BY <1>1
  <2>6. CountGuarded' \/ nonDataTest' = "NONE"
    BY <1>1, <2>1, <2>2
  <2>7. pc' = "test"
    BY <1>1
  <2> QED BY <2>4, <2>5, <2>6, <2>7 DEF CountKept
<1>5. NothingLost' /\ Moved'
  BY <1>1 DEF GuardInv, TestTypeOK, NothingLost, Moved, Whole, Unaligned, Testing
<1>6. FirstTest'
  <2>1. discoveries \in 0..2 /\ (discoveries' < 2 => discoveries = 0)
    BY <1>1 DEF GuardInv, Carried
  <2> SUFFICES ASSUME LosesOne', discoveries = 0, discoveries' = 1 PROVE FirstTest'
    BY <1>1, <2>1 DEF FirstTest
  <2>2. LosesOne /\ fixedSenseHack = "NONE"
    BY <1>1 DEF GuardInv, FirstTest, LosesOne, Honest
  <2>3. nonDataTest = "NONE" /\ ~nonDataCountBroken /\ ~nonDataLBABroken
    BY <1>1, <2>2 DEF GuardInv, FirstTest
  <2>4. confidenceScore' >= 0
    BY <1>1
  <2> QED BY <1>1, <2>2, <2>3, <2>4 DEF FirstTest, Testing
<1>7. Carried'
  BY <1>1 DEF GuardInv, Carried
<1> QED BY <1>2, <1>3, <1>4, <1>5, <1>6, <1>7 DEF GuardInv

(* A command is sent through the guard.                                    *)
LEMMA NonDataInv ==
  ASSUME GuardInv, NEW regs \in SUBSET {"count", "lba"}, NonData(regs)
  PROVE  GuardInv'
<1>1. /\ pc = "done" /\ discoveries > 0 /\ sent' = regs
      /\ UNCHANGED <<adapter, nopSupported, pc, testNum, counters, confidenceScore, offsets,
                     nonDataTest, nonDataCountBroken, nonDataLBABroken, fixedSenseHack,
                     discoveries>>
      /\ IF Blocked("count" \in regs, "lba" \in regs)
         THEN outcome' = "blocked" /\ got' = {}
         ELSE outcome' = "executed" /\ got' = regs \ adapter.zeroes
  BY DEF NonData, testVars, drive, verdict
<1>2. TestTypeOK' /\ Counted' /\ CountKept' /\ NothingLost' /\ Moved'
  BY <1>1 DEF GuardInv, TestTypeOK, Counted, CountKept, LosesCount, Honest, CountGuarded, NothingLost,
         Moved, Whole, Unaligned, Testing, counters, offsets
<1>3. FirstTest'
  BY <1>1 DEF GuardInv, FirstTest, LosesOne, Honest, Testing
<1>4. Carried'
  <2>1. \A c, l : Blocked(c, l)' = Blocked(c, l)
    BY <1>1 DEF Blocked
  <2> QED BY <1>1, <2>1 DEF GuardInv, Carried
<1> QED BY <1>2, <1>3, <1>4 DEF GuardInv

(* What a step of the test leaves alone.                                   *)
LEMMA RunCarries ==
  ASSUME Carried, UNCHANGED guarded, pc # "done"
  PROVE  Carried' /\ outcome = "none" /\ discoveries' = discoveries
BY DEF Carried, guarded

(* The test ends at a consistent answer.                                   *)
LEMMA ExitInv == ASSUME GuardInv, EarlyExit, UNCHANGED guarded PROVE GuardInv'
<1>1. PICK raw \in Responses : Test(Nop(raw)) /\ Exits(Nop(raw))
  BY DEF EarlyExit
<1> DEFINE r == Nop(raw)
<1>2. /\ pc = "test" /\ pc' = "done" /\ testNum' = testNum /\ nopSupported
      /\ nonDataCountBroken' = FALSE /\ nonDataLBABroken' = FALSE
      /\ fixedSenseHack' = "ANY_SENSE_ALLOWED" /\ nonDataTest' = "ALLOW_ALL"
      /\ adapter' = adapter /\ nopSupported' = nopSupported
      /\ CountMatch(r) = LbaMatch(r) /\ testNum \in 0..5
      /\ brokenCountResponses' = brokenCountResponses + One(~CountMatch(r))
      /\ brokenLBAResponses' = brokenLBAResponses + One(BrokenLba(r))
      /\ countOffset' = CountOffset(r) /\ lbaOffset' = LbaOffset(r)
  BY <1>1, Replies, TestAdds DEF GuardInv, EarlyExit, AllowAll, Test, Exits, Consistent
<1>3. TestTypeOK'
  <2>1. TestTypeOK /\ Counted /\ r \in ResponseSet
    BY <1>1, Replies DEF GuardInv
  <2> HIDE DEF r
  <2>2. /\ successfulMatches' \in 0..(testNum + 1) /\ brokenCountResponses' \in 0..(testNum + 1)
        /\ brokenLBAResponses' \in 0..(testNum + 1) /\ swappedLBAResponses' \in 0..(testNum + 1)
        /\ adapter' \in AdapterSet /\ nopSupported' \in BOOLEAN
        /\ confidenceScore' \in Int /\ confidenceScore' >= -10 * (testNum + 1)
        /\ confidenceScore' <= 20 + 10 * (testNum + 1) + 15
    BY <1>1, <2>1, TestTypes DEF r
  <2>3. countOffset' \in {"none", "register", "elsewhere"} /\ lbaOffset' \in BOOLEAN
    BY <1>1, <2>1, TestAdds DEF r
  <2>4. /\ testNum' \in 0..NOP_MAX_TESTS /\ successfulMatches' \in 0..NOP_MAX_TESTS
        /\ brokenCountResponses' \in 0..NOP_MAX_TESTS /\ brokenLBAResponses' \in 0..NOP_MAX_TESTS
        /\ swappedLBAResponses' \in 0..NOP_MAX_TESTS /\ confidenceScore' \in -60..130
    BY <1>2, <2>2 DEF NOP_MAX_TESTS
  <2> QED BY <1>2, <2>2, <2>3, <2>4 DEF TestTypeOK
<1>4. Counted'
  BY <1>2 DEF Counted, Testing
<1>5. CountKept' /\ Moved'
  BY <1>2 DEF CountKept, LosesCount, Moved, Testing
<1>6. NothingLost'
  <2> SUFFICES ASSUME Whole PROVE NothingLost'
    BY <1>2 DEF NothingLost, Whole
  <2>1. adapter.back # "libata12" => brokenCountResponses = 0 /\ brokenLBAResponses = 0
    BY DEF GuardInv, NothingLost
  <2>2. adapter.back # "libata12" => CountMatch(r) /\ ~BrokenLba(r)
    BY <1>2, WholeMatches DEF GuardInv, BrokenLba
  <2> QED BY <1>2, <2>1, <2>2 DEF NothingLost, One, Testing
<1>7. FirstTest'
  <2> SUFFICES ASSUME LosesOne, discoveries < 2 PROVE FALSE
    BY <1>2, RunCarries DEF GuardInv, FirstTest, LosesOne, Honest
  <2>1. /\ discoveries # 0 /\ fixedSenseHack = "NONE" /\ nonDataTest = "NONE" /\ ~lbaOffset
        /\ adapter.zeroes = {"lba"} => countOffset # "elsewhere"
    BY <1>2 DEF GuardInv, FirstTest, Testing
  <2>2. ~Blocked(TRUE, TRUE)
    BY <2>1 DEF Blocked
  <2>3. CountMatch(r) # LbaMatch(r)
    BY <2>1, <2>2, OneLost DEF GuardInv, CountMatch, LbaMatch, CountOffset, LbaOffset
  <2> QED BY <1>2, <2>3
<1> QED BY <1>2, <1>3, <1>4, <1>5, <1>6, <1>7, RunCarries DEF GuardInv

(* The facts of a NOP that the test goes on after.                         *)
Goes(r) ==
  /\ r \in ResponseSet /\ pc = "test" /\ Testing /\ ~Exits(r)
  /\ adapter' = adapter /\ nopSupported' = nopSupported
  /\ countOffset' = CountOffset(r) /\ lbaOffset' = LbaOffset(r)
  /\ confidenceScore' = confidenceScore + Bonus(r) /\ confidenceScore \in Int
  /\ Bonus(r) \in Int
  /\ successfulMatches' = successfulMatches + One(Consistent(r))
  /\ brokenCountResponses' = brokenCountResponses + One(~CountMatch(r))
  /\ brokenLBAResponses' = brokenLBAResponses + One(BrokenLba(r))
  /\ swappedLBAResponses' = swappedLBAResponses + One(~LbaMatch(r) /\ r.lba = "swapped")
  /\ fixedSenseHack' = IF LooksLikeLibata(r) THEN "UNALIGNED_WRITE_BUG" ELSE fixedSenseHack
  /\ testNum \in 0..5 /\ testNum' = testNum + 1
  /\ pc' = IF testNum' = 6 THEN "decide" ELSE "test"
  /\ Testing'
  /\ UNCHANGED <<nonDataTest, nonDataCountBroken, nonDataLBABroken>>

LEMMA NextTestGoes == ASSUME GuardInv, NextTest PROVE \E raw \in Responses : Goes(Nop(raw))
<1>1. PICK raw \in Responses :
        LET r == Nop(raw)
        IN  /\ Test(r)
            /\ ~Exits(r)
            /\ fixedSenseHack' = IF LooksLikeLibata(r) THEN "UNALIGNED_WRITE_BUG"
                                 ELSE fixedSenseHack
  BY DEF NextTest
<1> DEFINE r == Nop(raw)
<1>2. r \in ResponseSet /\ TestTypeOK /\ Counted
  BY Replies DEF GuardInv
<1>3. Test(r) /\ ~Exits(r)
  BY <1>1
<1>4. fixedSenseHack' = IF LooksLikeLibata(r) THEN "UNALIGNED_WRITE_BUG" ELSE fixedSenseHack
  BY <1>1
<1> HIDE DEF r
<1>5. testNum \in 0..5 /\ adapter' = adapter /\ nopSupported' = nopSupported
      /\ Bonus(r) \in Int /\ confidenceScore \in Int
  BY <1>2, <1>3, TestAdds DEF TestTypeOK
<1>6. /\ testNum' = testNum + 1 /\ pc' = IF testNum' = 6 THEN "decide" ELSE "test"
      /\ UNCHANGED <<nonDataTest, nonDataCountBroken, nonDataLBABroken>>
  BY DEF NextTest, Tested, NOP_MAX_TESTS
<1>7. Testing' /\ Testing /\ pc = "test"
  BY <1>3, <1>6 DEF Testing, Test
<1>8. Goes(r)
  BY <1>2, <1>3, <1>4, <1>5, <1>6, <1>7 DEF Goes, Test
<1> QED BY <1>8 DEF r

(* The types and the counters after it.                                    *)
LEMMA NextTestCounted ==
  ASSUME GuardInv, NextTest PROVE TestTypeOK' /\ Counted'
<1>1. PICK raw \in Responses : Goes(Nop(raw)) /\ Test(Nop(raw))
  <2>1. PICK raw \in Responses : Goes(Nop(raw))
    BY NextTestGoes
  <2>2. Test(Nop(raw))
    BY <2>1 DEF Goes, Test, drive
  <2> QED BY <2>1, <2>2
<1> DEFINE r == Nop(raw)
<1>2. Goes(r) /\ Test(r) /\ TestTypeOK /\ Counted
  BY <1>1 DEF GuardInv
<1> HIDE DEF r
<1>3. /\ adapter' \in AdapterSet /\ nopSupported' \in BOOLEAN
      /\ successfulMatches' \in 0..(testNum + 1)
      /\ brokenCountResponses' \in 0..(testNum + 1)
      /\ brokenLBAResponses' \in 0..(testNum + 1)
      /\ swappedLBAResponses' \in 0..(testNum + 1)
      /\ confidenceScore' \in Int /\ confidenceScore' >= -10 * (testNum + 1)
      /\ confidenceScore' <= 20 + 10 * (testNum + 1) + 15
      /\ countOffset' \in {"none", "register", "elsewhere"} /\ lbaOffset' \in BOOLEAN
  BY <1>2, TestTypes, TestAdds DEF Goes
<1>4. testNum \in 0..5 /\ testNum' = testNum + 1
      /\ pc' = IF testNum' = 6 THEN "decide" ELSE "test"
  BY <1>2 DEF Goes
<1>5. TestTypeOK'
  <2>1. /\ testNum' \in 0..6 /\ successfulMatches' \in 0..6 /\ brokenCountResponses' \in 0..6
        /\ brokenLBAResponses' \in 0..6 /\ swappedLBAResponses' \in 0..6
        /\ confidenceScore' \in -60..130
    BY <1>3, <1>4
  <2>2. fixedSenseHack' \in {"NONE", "ANY_SENSE_ALLOWED", "UNALIGNED_WRITE_BUG",
                             "SWAPPED_LBA_BYTE_ORDER"}
        /\ UNCHANGED <<nonDataTest, nonDataCountBroken, nonDataLBABroken>>
    BY <1>2 DEF Goes, TestTypeOK
  <2> QED BY <1>2, <1>3, <1>4, <2>1, <2>2 DEF TestTypeOK, NOP_MAX_TESTS
<1>6. Counted'
  <2>1. testNum' > 0 /\ (pc' = "test" => testNum' < 6) /\ (pc' = "decide" => testNum' = 6)
        /\ pc' # "verify"
    BY <1>4
  <2>2. /\ successfulMatches' <= testNum' /\ brokenCountResponses' <= testNum'
        /\ brokenLBAResponses' <= testNum' /\ swappedLBAResponses' <= testNum'
        /\ confidenceScore' >= -10 * testNum' /\ confidenceScore' <= 20 + 10 * testNum' + 15
    BY <1>3, <1>4
  <2> QED BY <2>1, <2>2 DEF Counted, NOP_MAX_TESTS
<1> QED BY <1>5, <1>6

(* The count stays lost.                                                   *)
LEMMA NextTestCountKept == ASSUME GuardInv, NextTest PROVE CountKept'
<1>1. PICK raw \in Responses : Goes(Nop(raw))
  BY NextTestGoes
<1> DEFINE r == Nop(raw)
<1>2. SUFFICES ASSUME LosesCount PROVE CountKept'
  BY <1>1 DEF CountKept, LosesCount, Honest, Goes
<1>3. /\ r.count = "wrong" /\ (~Blocked(TRUE, TRUE) => r.ret = "ABORTED")
      /\ Blocked(TRUE, TRUE) => r.ret = "OTHER" /\ r.lba = "wrong"
  <2>1. TestTypeOK /\ NothingBack.ret = "OTHER" /\ NothingBack.lba = "wrong"
    BY DEF GuardInv, NothingBack
  <2> QED BY <1>2, <2>1, CountLost
<1>4. Goes(r)
  BY <1>1
<1> HIDE DEF r
<1>5. /\ brokenCountResponses = testNum /\ countOffset = "none" /\ lbaOffset = FALSE
      /\ \/ /\ nonDataTest = "NONE"
            /\ 5 * testNum <= confidenceScore /\ confidenceScore <= 8 * testNum
         \/ CountGuarded /\ confidenceScore = 0 - 7 * testNum
  <2>1. Testing /\ CountKept /\ lbaOffset \in BOOLEAN
    BY <1>4 DEF GuardInv, TestTypeOK, Goes
  <2> QED BY <1>2, <2>1 DEF CountKept
<1>6. CountOffset(r) = "none" /\ LbaOffset(r) = FALSE /\ ~CountMatch(r)
  BY <1>3, <1>5 DEF CountOffset, LbaOffset, CountMatch
<1>7. brokenCountResponses' = testNum' /\ countOffset' = "none" /\ ~lbaOffset'
  BY <1>4, <1>5, <1>6 DEF Goes, One
<1>8. Bonus(r) = (IF r.ret = "ABORTED" THEN 5 ELSE -10) + 0 + (IF LbaMatch(r) THEN 0 ELSE 3)
  BY <1>6 DEF Bonus
<1>9. nonDataTest' = nonDataTest /\ CountGuarded' = CountGuarded /\ testNum' = testNum + 1
      /\ confidenceScore' = confidenceScore + Bonus(r) /\ testNum \in Int
      /\ confidenceScore \in Int
  BY <1>4 DEF Goes, CountGuarded
<1>10. CASE nonDataTest = "NONE" /\ 5 * testNum <= confidenceScore
            /\ confidenceScore <= 8 * testNum
  <2>1. Bonus(r) \in {5, 8}
    BY <1>3, <1>8, <1>10 DEF Blocked
  <2>2. 5 * testNum' <= confidenceScore' /\ confidenceScore' <= 8 * testNum'
    BY <1>9, <1>10, <2>1
  <2> QED BY <1>4, <1>7, <1>9, <1>10, <2>2 DEF CountKept, Goes
<1>11. CASE CountGuarded /\ confidenceScore = 0 - 7 * testNum
  <2>1. Blocked(TRUE, TRUE)
    BY <1>11 DEF Blocked, CountGuarded
  <2>2. ~LbaMatch(r) /\ r.ret = "OTHER"
    BY <1>3, <1>6, <2>1 DEF LbaMatch
  <2>3. Bonus(r) = -7
    BY <1>8, <2>2
  <2>4. confidenceScore' = 0 - 7 * testNum'
    BY <1>9, <1>11, <2>3
  <2> QED BY <1>4, <1>7, <1>9, <1>11, <2>4 DEF CountKept, Goes
<1> QED BY <1>5, <1>10, <1>11

(* What nothing was lost of is still not found broken.                     *)
LEMMA NextTestNothingLost == ASSUME GuardInv, NextTest PROVE NothingLost' /\ Moved'
<1>1. PICK raw \in Responses : Goes(Nop(raw))
  BY NextTestGoes
<1> DEFINE r == Nop(raw)
<1>2. SUFFICES ASSUME Whole PROVE NothingLost' /\ Moved'
  BY <1>1 DEF NothingLost, Moved, Whole, Goes
<1>3. TestTypeOK /\ Counted /\ NothingLost /\ Moved /\ pc = "test" /\ Goes(r)
  BY <1>1 DEF GuardInv, Goes
<1>4. Unaligned => Unaligned'
  BY <1>3 DEF Goes, Unaligned
<1>5. CASE adapter.back # "libata12"
  <2>1. /\ CountMatch(r) /\ ~BrokenLba(r)
        /\ adapter.back = "plain" => CountOffset(r) = "none" /\ ~LbaOffset(r)
        /\ adapter.back = "swapped" => CountOffset(r) # "elsewhere" /\ ~LbaOffset(r)
        /\ adapter.back = "shifted" => CountOffset(r) = "elsewhere" /\ LbaOffset(r)
    BY <1>2, <1>3, <1>5, WholeMatches DEF BrokenLba
  <2> HIDE DEF r
  <2>2. brokenCountResponses' = 0 /\ brokenLBAResponses' = 0
    BY <1>2, <1>3, <1>5, <2>1 DEF Goes, One, NothingLost
  <2>3. adapter' = adapter /\ countOffset' = CountOffset(r) /\ lbaOffset' = LbaOffset(r)
        /\ UNCHANGED <<nonDataTest, nonDataCountBroken, nonDataLBABroken>>
    BY <1>3 DEF Goes
  <2> QED BY <1>2, <1>3, <1>5, <2>1, <2>2, <2>3 DEF NothingLost, Moved
<1>6. CASE adapter.back = "libata12"
  <2>1. /\ ~LbaMatch(r) /\ BrokenLba(r) /\ r.csi /\ r.lba # "swapped"
        /\ LbaOffset(r) = lbaOffset
        /\ testNum = 0 =>
             /\ CountMatch(r) /\ Bonus(r) <= 20
             /\ CountOffset(r) = IF Unaligned THEN "register" ELSE "elsewhere"
             /\ Unaligned => Bonus(r) <= 5
        /\ testNum > 0 =>
             /\ CountOffset(r) = countOffset
             /\ CountMatch(r) <=> countOffset = "register"
             /\ Bonus(r) = IF countOffset = "register" THEN -10 ELSE -7
    BY <1>2, <1>3, <1>6, MovedMatches
  <2> HIDE DEF r
  <2>2. /\ adapter' = adapter /\ nopSupported' = nopSupported
        /\ countOffset' = CountOffset(r) /\ lbaOffset' = lbaOffset
        /\ confidenceScore' = confidenceScore + Bonus(r)
        /\ confidenceScore \in Int /\ Bonus(r) \in Int
        /\ testNum \in 0..5 /\ testNum' = testNum + 1 /\ Testing /\ pc' # "verify"
        /\ brokenCountResponses' = brokenCountResponses + One(~CountMatch(r))
        /\ brokenLBAResponses' = brokenLBAResponses + 1
        /\ UNCHANGED <<nonDataTest, nonDataCountBroken, nonDataLBABroken>>
    BY <1>3, <2>1 DEF Goes, One
  <2> DEFINE Scores == /\ confidenceScore' = confidenceScore + Bonus(r)
                       /\ confidenceScore \in Int /\ Bonus(r) \in Int
                       /\ testNum \in 0..5 /\ testNum' = testNum + 1
  <2>7. Scores
    BY <2>2
  <2>3. NothingLost'
    BY <1>2, <1>3, <1>4, <1>6, <2>2 DEF NothingLost, Whole
  <2>4. CASE testNum = 0
    <3>1. Unaligned'
      BY <1>3, <2>1, <2>4 DEF Goes, LooksLikeLibata, Consistent, Unaligned
    <3>2. /\ countOffset = "none" /\ lbaOffset = FALSE /\ (~nopSupported => confidenceScore = 0)
          /\ brokenCountResponses = 0 /\ brokenLBAResponses = 0 /\ confidenceScore <= 20
      <4>1. /\ Testing /\ brokenCountResponses \in 0..6 /\ brokenLBAResponses \in 0..6
            /\ lbaOffset \in BOOLEAN
        BY <1>3, <2>2 DEF TestTypeOK, NOP_MAX_TESTS
      <4>2. /\ brokenCountResponses <= 0 /\ brokenLBAResponses <= 0
            /\ confidenceScore <= 20 + 10 * 0 + 0
        BY <1>3, <2>4, <4>1 DEF Counted
      <4> QED BY <1>3, <2>2, <2>4, <4>1, <4>2 DEF Counted
    <3>3. brokenCountResponses' = 0 /\ brokenLBAResponses' = 1 /\ testNum' = 1
      BY <2>1, <2>2, <2>4, <3>2 DEF One
    <3>4. CASE Unaligned
      <4>1. countOffset' = "register" /\ Bonus(r) <= 5
        BY <2>1, <2>2, <2>4, <3>4
      <4>2. confidenceScore' \in Int /\ confidenceScore' <= 25
        BY <2>7, <3>2, <4>1
      <4>3. confidenceScore' <= 35 - 10 * testNum'
        BY <3>3, <4>2
      <4> QED BY <2>3, <3>1, <3>3, <4>1, <4>3 DEF Moved
    <3>5. CASE ~Unaligned
      <4>1. countOffset' = "elsewhere" /\ ~lbaOffset'
        BY <2>1, <2>2, <2>4, <3>2, <3>5
      <4>2. ~nopSupported' => confidenceScore' <= 27 - 7 * testNum'
        <5>1. Bonus(r) <= 20 /\ (~nopSupported' => confidenceScore = 0)
          BY <2>1, <2>2, <2>4, <3>2
        <5>2. confidenceScore' \in Int /\ (~nopSupported' => confidenceScore' <= 20)
          BY <2>7, <5>1
        <5> QED BY <3>3, <5>2
      <4> QED BY <2>3, <3>1, <3>3, <4>1, <4>2 DEF Moved
    <3> QED BY <3>4, <3>5
  <2>5. CASE testNum > 0
    <3>1. /\ Unaligned /\ countOffset # "none"
          /\ brokenLBAResponses = testNum /\ brokenCountResponses < testNum
          /\ brokenCountResponses \in 0..6
          /\ \/ countOffset = "register" /\ confidenceScore <= 35 - 10 * testNum
             \/ /\ countOffset = "elsewhere" /\ ~lbaOffset
                /\ nopSupported => testNum = 1
                /\ ~nopSupported => confidenceScore <= 27 - 7 * testNum
      BY <1>2, <1>3, <1>6, <2>2, <2>5 DEF Moved, TestTypeOK, NOP_MAX_TESTS
    <3>2. Unaligned' /\ brokenLBAResponses' = testNum' /\ brokenCountResponses' < testNum'
      BY <1>4, <2>2, <3>1 DEF One
    <3>3. CASE countOffset = "register" /\ confidenceScore <= 35 - 10 * testNum
      <4>1. confidenceScore' <= 35 - 10 * testNum'
        <5>1. Bonus(r) = -10
          BY <2>1, <2>5, <3>3
        <5> QED BY <2>7, <3>3, <5>1
      <4>2. countOffset' = "register"
        BY <2>1, <2>2, <2>5, <3>3
      <4> QED BY <2>3, <3>2, <4>1, <4>2 DEF Moved
    <3>4. CASE /\ countOffset = "elsewhere" /\ ~lbaOffset
               /\ ~nopSupported => confidenceScore <= 27 - 7 * testNum
      <4>1. ~CountMatch(r)
        BY <2>1, <2>5, <3>4
      <4>2. ~nopSupported
        <5>1. Consistent(r)
          BY <2>1, <4>1 DEF Consistent, CountMatch, LbaMatch
        <5>2. ~Exits(r)
          BY <1>3 DEF Goes
        <5> QED BY <5>1, <5>2 DEF Exits
      <4>3. confidenceScore' <= 27 - 7 * testNum'
        <5>1. Bonus(r) = -7
          BY <2>1, <2>5, <3>4
        <5> QED BY <2>7, <3>4, <4>2, <5>1
      <4>4. countOffset' = "elsewhere" /\ ~lbaOffset' /\ ~nopSupported'
        BY <2>1, <2>2, <2>5, <3>4, <4>2
      <4> QED BY <2>3, <3>2, <4>3, <4>4 DEF Moved
    <3> QED BY <3>1, <3>3, <3>4
  <2>6. testNum = 0 \/ testNum > 0
    BY <2>2
  <2> QED BY <2>3, <2>4, <2>5, <2>6
<1> QED BY <1>5, <1>6

(* The first test finds the register that is lost, and no other.           *)
LEMMA NextTestFirst == ASSUME GuardInv, NextTest, UNCHANGED guarded PROVE FirstTest'
<1>1. PICK raw \in Responses : Goes(Nop(raw))
  BY NextTestGoes
<1> DEFINE r == Nop(raw)
<1>2. Goes(r) /\ discoveries' = discoveries /\ adapter' = adapter
      /\ UNCHANGED <<nonDataTest, nonDataCountBroken, nonDataLBABroken>>
  BY <1>1 DEF Goes, guarded
<1>3. SUFFICES ASSUME LosesOne, discoveries < 2 PROVE FirstTest'
  BY <1>2 DEF FirstTest, LosesOne, Honest
<1>4. /\ discoveries # 0 /\ fixedSenseHack = "NONE" /\ nonDataTest = "NONE"
      /\ ~nonDataCountBroken /\ ~nonDataLBABroken
      /\ successfulMatches = 0 /\ confidenceScore >= 5 * testNum /\ ~lbaOffset
      /\ adapter.zeroes = {"count"} =>
           countOffset = "none" /\ brokenCountResponses = testNum
      /\ adapter.zeroes = {"lba"} =>
           /\ countOffset # "elsewhere"
           /\ brokenCountResponses = 0 /\ swappedLBAResponses = 0
           /\ brokenLBAResponses = testNum
  BY <1>2, <1>3 DEF GuardInv, FirstTest, Goes
<1>5. ~Blocked(TRUE, TRUE)
  BY <1>4 DEF Blocked
<1>6. /\ r.ret = "ABORTED" /\ ~r.csi
      /\ \/ adapter.zeroes = {"count"} /\ r.count = "wrong" /\ r.lba = "echo"
         \/ adapter.zeroes = {"lba"} /\ r.count = "echo" /\ r.lba = "wrong"
  BY <1>3, <1>4, <1>5, OneLost DEF GuardInv
<1> HIDE DEF r
<1>7. lbaOffset = FALSE
  BY <1>4 DEF GuardInv, TestTypeOK
<1>8. LbaOffset(r) = FALSE /\ CountOffset(r) # "elsewhere"
      /\ (adapter.zeroes = {"count"} => CountOffset(r) = "none")
  BY <1>4, <1>6, <1>7 DEF LbaOffset, CountOffset
<1>9. IF adapter.zeroes = {"count"} THEN ~CountMatch(r) /\ LbaMatch(r)
      ELSE CountMatch(r) /\ ~LbaMatch(r) /\ BrokenLba(r)
  BY <1>6, <1>8 DEF CountMatch, LbaMatch, BrokenLba
<1>10. Bonus(r) >= 5 /\ Bonus(r) \in Int
  <2>1. Bonus(r) = 5 + (IF Discovers(r) /\ CountOffset(r) # "none" THEN 15 ELSE 0) + 0
    BY <1>6, <1>9 DEF Bonus
  <2> QED BY <2>1
<1>11. /\ confidenceScore' >= 5 * testNum' /\ testNum' = testNum + 1 /\ testNum \in 0..5
  BY <1>2, <1>4, <1>10 DEF Goes
<1>12. successfulMatches' = 0 /\ fixedSenseHack' = "NONE"
  BY <1>2, <1>4, <1>6, <1>9 DEF Goes, Consistent, One, LooksLikeLibata
<1>13. countOffset' = CountOffset(r) /\ ~lbaOffset' /\ pc' \in {"test", "decide"}
  BY <1>2, <1>8 DEF Goes
<1>14. adapter.zeroes = {"count"} => brokenCountResponses' = testNum'
  BY <1>2, <1>4, <1>9, <1>11 DEF Goes, One
<1>15. ASSUME adapter.zeroes = {"lba"}
       PROVE  brokenCountResponses' = 0 /\ swappedLBAResponses' = 0
              /\ brokenLBAResponses' = testNum'
  <2>1. adapter.zeroes # {"count"} /\ r.lba # "swapped"
    BY <1>6, <1>15
  <2> QED BY <1>2, <1>4, <1>9, <1>11, <1>15, <2>1 DEF Goes, One
<1> QED BY <1>2, <1>4, <1>8, <1>11, <1>12, <1>13, <1>14, <1>15 DEF FirstTest

(* One more NOP keeps the invariant.                                       *)
LEMMA NextTestInv == ASSUME GuardInv, NextTest, UNCHANGED guarded PROVE GuardInv'
<1>1. Carried'
  BY RunCarries, NextTestGoes DEF GuardInv, Goes
<1> QED BY <1>1, NextTestCounted, NextTestCountKept, NextTestNothingLost, NextTestFirst DEF GuardInv

(* What the counters decide, of the adapters that the properties are       *)
(* about.                                                                  *)
LEMMA Decisions ==
  ASSUME GuardInv, pc = "decide"
  PROVE  /\ LosesCount => \/ Decision = "count"
                          \/ Decision = "inconclusive" /\ CountGuarded
         /\ Whole => IF adapter.back = "libata12" THEN Decision = "misaligned"
                     ELSE Decision \in {"pass", "swapped", "inconclusive"}
         /\ LosesOne /\ discoveries < 2 =>
              /\ discoveries # 0 /\ fixedSenseHack = "NONE"
              /\ ~nonDataCountBroken /\ ~nonDataLBABroken
              /\ \/ adapter.zeroes = {"count"} /\ Decision = "count"
                 \/ adapter.zeroes = {"lba"} /\ Decision = "lba"
<1>1. /\ testNum = 6 /\ Testing /\ confidenceScore \in Int
      /\ successfulMatches \in 0..6 /\ brokenCountResponses \in 0..6
      /\ brokenLBAResponses \in 0..6 /\ swappedLBAResponses \in 0..6
  BY DEF GuardInv, Counted, Testing, TestTypeOK, NOP_MAX_TESTS
<1>2. ASSUME LosesCount
      PROVE  Decision = "count" \/ (Decision = "inconclusive" /\ CountGuarded)
  <2>1. /\ brokenCountResponses = 6 /\ countOffset = "none"
        /\ \/ 30 <= confidenceScore /\ confidenceScore <= 48
           \/ CountGuarded /\ confidenceScore = -42
    <3>1. /\ brokenCountResponses = testNum /\ countOffset = "none"
          /\ \/ 5 * testNum <= confidenceScore /\ confidenceScore <= 8 * testNum
             \/ CountGuarded /\ confidenceScore = 0 - 7 * testNum
      BY <1>1, <1>2 DEF GuardInv, CountKept
    <3>2. 5 * testNum = 30 /\ 8 * testNum = 48 /\ 0 - 7 * testNum = -42
      BY <1>1
    <3> QED BY <1>1, <3>1, <3>2
  <2>2. CASE 30 <= confidenceScore /\ confidenceScore <= 48
    BY <1>1, <2>1, <2>2 DEF Decision, All, NOP_MAX_TESTS
  <2>3. CASE CountGuarded /\ confidenceScore = -42
    BY <1>1, <2>1, <2>3 DEF Decision, All, NOP_MAX_TESTS
  <2> QED BY <2>1, <2>2, <2>3
<1>3. ASSUME Whole, adapter.back # "libata12"
      PROVE  Decision \in {"pass", "swapped", "inconclusive"}
  <2>1. brokenCountResponses = 0 /\ brokenLBAResponses = 0
    BY <1>3 DEF GuardInv, NothingLost
  <2> QED BY <2>1 DEF Decision, All, NOP_MAX_TESTS
<1>4. ASSUME Whole, adapter.back = "libata12" PROVE Decision = "misaligned"
  <2>1. /\ countOffset # "none" /\ brokenLBAResponses = 6 /\ brokenCountResponses < 6
        /\ confidenceScore < 0
    <3>1. /\ countOffset # "none" /\ brokenLBAResponses = testNum
          /\ brokenCountResponses < testNum
          /\ \/ confidenceScore <= 35 - 10 * testNum
             \/ /\ nopSupported => testNum = 1
                /\ ~nopSupported => confidenceScore <= 27 - 7 * testNum
      BY <1>1, <1>4 DEF GuardInv, Moved
    <3>2. confidenceScore <= 35 - 60 \/ confidenceScore <= 27 - 42
      BY <1>1, <3>1
    <3> QED BY <1>1, <3>1, <3>2
  <2> QED BY <1>1, <2>1 DEF Decision, All, NOP_MAX_TESTS
<1>5. ASSUME LosesOne, discoveries < 2
      PROVE  /\ discoveries # 0 /\ fixedSenseHack = "NONE"
             /\ ~nonDataCountBroken /\ ~nonDataLBABroken
             /\ \/ adapter.zeroes = {"count"} /\ Decision = "count"
                \/ adapter.zeroes = {"lba"} /\ Decision = "lba"
  <2>1. /\ discoveries # 0 /\ fixedSenseHack = "NONE"
        /\ ~nonDataCountBroken /\ ~nonDataLBABroken
        /\ successfulMatches = 0 /\ confidenceScore >= 5 * testNum
        /\ adapter.zeroes = {"count"} => brokenCountResponses = testNum
        /\ adapter.zeroes = {"lba"} =>
             /\ brokenCountResponses = 0 /\ swappedLBAResponses = 0
             /\ brokenLBAResponses = testNum
    BY <1>1, <1>5 DEF GuardInv, FirstTest
  <2>2. confidenceScore >= 20
    BY <1>1, <2>1
  <2>3. adapter.zeroes \in {{"count"}, {"lba"}}
    BY <1>5, OneRegister DEF GuardInv
  <2>4. CASE adapter.zeroes = {"count"}
    BY <1>1, <2>1, <2>2, <2>4 DEF Decision, All, NOP_MAX_TESTS
  <2>5. CASE adapter.zeroes = {"lba"}
    BY <1>1, <2>1, <2>2, <2>5 DEF Decision, All, NOP_MAX_TESTS
  <2> QED BY <2>1, <2>3, <2>4, <2>5
<1> QED BY <1>2, <1>3, <1>4, <1>5

(* What the seven decisions store.                                         *)
Stored(d) ==
  /\ Decided(d) /\ VerifyNext
  /\ d = "pass" => AllowAll
  /\ d = "count" => /\ nonDataCountBroken' /\ nonDataTest' = "COUNT_ZERO_ONLY"
                    /\ fixedSenseHack' = fixedSenseHack
  /\ d = "swapped" => /\ ~nonDataLBABroken' /\ nonDataCountBroken' = nonDataCountBroken
                      /\ nonDataTest' = "ALLOW_ALL"
  /\ d = "lba" => /\ nonDataLBABroken' /\ nonDataCountBroken' = nonDataCountBroken
                  /\ nonDataTest' = "LBA_ZERO_ONLY" /\ fixedSenseHack' = fixedSenseHack
  /\ d = "misaligned" => /\ ~nonDataCountBroken' /\ nonDataTest' = "ALLOW_ALL"
                         /\ fixedSenseHack' = "UNALIGNED_WRITE_BUG"
  /\ d = "inconclusive" =>
       /\ nonDataTest' = "INDETERMINATE"
       /\ UNCHANGED <<nonDataCountBroken, nonDataLBABroken, fixedSenseHack>>
  /\ /\ nonDataTest' \in {"NONE", "INDETERMINATE", "ALLOW_ALL",
                          "COUNT_ZERO_ONLY", "LBA_ZERO_ONLY"}
     /\ nonDataCountBroken' \in BOOLEAN /\ nonDataLBABroken' \in BOOLEAN
     /\ fixedSenseHack' \in {"NONE", "ANY_SENSE_ALLOWED", "UNALIGNED_WRITE_BUG",
                             "SWAPPED_LBA_BYTE_ORDER"}

Decides == \/ DecidePass \/ DecideCount \/ DecideSwapped \/ DecideLba
           \/ DecideMisaligned \/ DecideFallback \/ DecideInconclusive

LEMMA DecidesStores == ASSUME TestTypeOK, Decides PROVE \E d : Stored(d)
<1>1. CASE DecidePass
  BY <1>1 DEF DecidePass, AllowAll, Stored
<1>2. CASE DecideCount
  BY <1>2 DEF DecideCount, Stored, TestTypeOK
<1>3. CASE DecideSwapped
  BY <1>3 DEF DecideSwapped, Stored, TestTypeOK
<1>4. CASE DecideLba
  BY <1>4 DEF DecideLba, Stored, TestTypeOK
<1>5. CASE DecideMisaligned
  BY <1>5 DEF DecideMisaligned, Stored
<1>6. CASE DecideFallback
  BY <1>6 DEF DecideFallback, Stored, TestTypeOK
<1>7. CASE DecideInconclusive
  BY <1>7 DEF DecideInconclusive, Stored, TestTypeOK
<1> QED BY <1>1, <1>2, <1>3, <1>4, <1>5, <1>6, <1>7 DEF Decides

(* A decision keeps the invariant.                                         *)
LEMMA DecideInv == ASSUME GuardInv, Decides, UNCHANGED guarded PROVE GuardInv'
<1>1. PICK d : Stored(d)
  BY DecidesStores DEF GuardInv
<1>2. /\ pc = "decide" /\ Decision = d
      /\ UNCHANGED <<adapter, nopSupported, testNum, successfulMatches, brokenCountResponses,
                     brokenLBAResponses, swappedLBAResponses, confidenceScore, countOffset,
                     lbaOffset>>
      /\ pc' = IF fixedSenseHack' = "UNALIGNED_WRITE_BUG" THEN "verify" ELSE "done"
  BY <1>1 DEF Stored, Decided, VerifyNext, drive, counters, offsets
<1>3. discoveries' = discoveries /\ Carried'
  BY <1>2, RunCarries DEF GuardInv, guarded
<1>4. TestTypeOK'
  BY <1>1, <1>2 DEF GuardInv, TestTypeOK, Stored
<1>5. Counted'
  <2>1. testNum = 6 /\ confidenceScore \in Int
        /\ confidenceScore <= 20 + 10 * testNum + (IF testNum = 0 THEN 0 ELSE 15)
    BY <1>2 DEF GuardInv, Counted, TestTypeOK, Testing, NOP_MAX_TESTS
  <2>2. confidenceScore' <= 95
    BY <1>2, <2>1
  <2> QED BY <1>2, <2>2 DEF Counted, Testing
<1>6. ~Testing' /\ Moved'
  BY <1>2 DEF Testing, Moved
<1>7. CountKept'
  <2> SUFFICES ASSUME LosesCount PROVE CountGuarded'
    BY <1>2, <1>6 DEF CountKept, LosesCount, Honest
  <2>1. d = "count" \/ (d = "inconclusive" /\ CountGuarded)
    BY <1>2, Decisions
  <2>2. CASE d = "count"
    BY <1>1, <2>2 DEF Stored, CountGuarded
  <2>3. CASE d = "inconclusive" /\ CountGuarded
    BY <1>1, <2>3 DEF Stored, CountGuarded
  <2> QED BY <2>1, <2>2, <2>3
<1>8. NothingLost'
  <2> SUFFICES ASSUME Whole PROVE NothingLost'
    BY <1>2 DEF NothingLost, Whole
  <2>1. /\ ~nonDataCountBroken
        /\ nonDataLBABroken => adapter.back = "libata12"
        /\ adapter.back # "libata12" => brokenCountResponses = 0 /\ brokenLBAResponses = 0
    BY DEF GuardInv, NothingLost
  <2>2. CASE adapter.back = "libata12"
    <3>1. /\ ~nonDataCountBroken' /\ nonDataTest' = "ALLOW_ALL"
          /\ fixedSenseHack' = "UNALIGNED_WRITE_BUG"
      BY <1>1, <1>2, <2>2, Decisions DEF Stored
    <3> QED BY <1>2, <1>6, <2>2, <3>1 DEF NothingLost, Unaligned
  <2>3. CASE adapter.back # "libata12"
    <3>1. d \in {"pass", "swapped", "inconclusive"}
      BY <1>2, <2>3, Decisions
    <3>2. ~nonDataCountBroken' /\ ~nonDataLBABroken'
      BY <1>1, <2>1, <2>3, <3>1 DEF Stored, AllowAll
    <3> QED BY <1>2, <1>6, <2>1, <2>3, <3>2 DEF NothingLost
  <2> QED BY <2>2, <2>3
<1>9. FirstTest'
  <2> SUFFICES ASSUME LosesOne, discoveries < 2 PROVE FirstTest'
    BY <1>2, <1>3 DEF FirstTest, LosesOne, Honest
  <2>1. /\ discoveries # 0 /\ fixedSenseHack = "NONE"
        /\ ~nonDataCountBroken /\ ~nonDataLBABroken
        /\ \/ adapter.zeroes = {"count"} /\ d = "count"
           \/ adapter.zeroes = {"lba"} /\ d = "lba"
    BY <1>2, Decisions
  <2>2. fixedSenseHack' = "NONE" /\ pc' = "done"
    BY <1>1, <1>2, <2>1 DEF Stored
  <2>3. CASE adapter.zeroes = {"count"} /\ d = "count"
    BY <1>1, <1>2, <1>3, <1>6, <2>1, <2>2, <2>3 DEF Stored, FirstTest
  <2>4. CASE adapter.zeroes = {"lba"} /\ d = "lba"
    BY <1>1, <1>2, <1>3, <1>6, <2>1, <2>2, <2>4 DEF Stored, FirstTest
  <2> QED BY <2>1, <2>3, <2>4
<1> QED BY <1>3, <1>4, <1>5, <1>6, <1>7, <1>8, <1>9 DEF GuardInv

(* The verification keeps the invariant: what it upgrades is a verdict     *)
(* that nothing was decided, and of a register that every test lost.       *)
LEMMA VerifyInv == ASSUME GuardInv, Verify, UNCHANGED guarded PROVE GuardInv'
<1>1. PICK raw \in Responses :
        LET r == Nop(raw)
            score == confidenceScore
                       + (IF r.ret \in {"SUCCESS", "ABORTED"} THEN Boost(r) ELSE 0)
            upgrade == /\ r.ret \in {"SUCCESS", "ABORTED"} /\ score >= 50
                       /\ nonDataTest = "INDETERMINATE"
            count == upgrade /\ All(brokenCountResponses) /\ r.count = "echo"
            lba == upgrade /\ ~count /\ All(brokenLBAResponses) /\ r.lba = "echo"
        IN  /\ confidenceScore' = score
            /\ nonDataCountBroken' = (nonDataCountBroken \/ count)
            /\ nonDataLBABroken' = (nonDataLBABroken \/ lba)
            /\ nonDataTest' = CASE count -> "COUNT_ZERO_ONLY"
                                [] lba   -> "LBA_ZERO_ONLY"
                                [] OTHER -> nonDataTest
  BY DEF Verify
<1> DEFINE r == Nop(raw)
           score == confidenceScore
                      + (IF r.ret \in {"SUCCESS", "ABORTED"} THEN Boost(r) ELSE 0)
           upgrade == /\ r.ret \in {"SUCCESS", "ABORTED"} /\ score >= 50
                      /\ nonDataTest = "INDETERMINATE"
           count == upgrade /\ All(brokenCountResponses) /\ r.count = "echo"
           lba == upgrade /\ ~count /\ All(brokenLBAResponses) /\ r.lba = "echo"
<1>2. /\ confidenceScore' = score
      /\ nonDataCountBroken' = (nonDataCountBroken \/ count)
      /\ nonDataLBABroken' = (nonDataLBABroken \/ lba)
      /\ nonDataTest' = CASE count -> "COUNT_ZERO_ONLY"
                          [] lba   -> "LBA_ZERO_ONLY"
                          [] OTHER -> nonDataTest
  BY <1>1
<1>3. /\ pc = "verify" /\ pc' = "done" /\ discoveries' = discoveries
      /\ UNCHANGED <<adapter, nopSupported, testNum, successfulMatches, brokenCountResponses,
                     brokenLBAResponses, swappedLBAResponses, countOffset, lbaOffset,
                     fixedSenseHack>>
  BY DEF Verify, drive, counters, offsets, guarded
<1>4. /\ upgrade => nonDataTest = "INDETERMINATE" /\ r.ret \in {"SUCCESS", "ABORTED"}
      /\ count => upgrade /\ brokenCountResponses = 6
      /\ lba => upgrade /\ ~count /\ brokenLBAResponses = 6
  BY DEF All, NOP_MAX_TESTS
<1>5. confidenceScore' \in -60..130
  <2>1. Boost(r) \in {0, 15, 35}
    BY DEF Boost
  <2>2. confidenceScore \in -60..95
    BY <1>3 DEF GuardInv, TestTypeOK, Counted
  <2> HIDE DEF r
  <2> QED BY <1>2, <2>1, <2>2
<1> HIDE DEF upgrade, count, lba, score
<1>6. TestTypeOK'
  <2>1. nonDataTest' \in {nonDataTest, "COUNT_ZERO_ONLY", "LBA_ZERO_ONLY"}
    BY <1>2, <1>4
  <2>2. nonDataCountBroken' \in BOOLEAN /\ nonDataLBABroken' \in BOOLEAN
    BY <1>2
  <2> QED BY <1>3, <1>5, <2>1, <2>2 DEF GuardInv, TestTypeOK
<1>7. ~Testing' /\ Counted' /\ Moved'
  BY <1>3 DEF Counted, Moved, Testing
<1>8. ~upgrade => UNCHANGED <<nonDataTest, nonDataCountBroken, nonDataLBABroken>>
  BY <1>2, <1>4 DEF GuardInv, TestTypeOK
<1>9. CountKept'
  <2> SUFFICES ASSUME LosesCount PROVE CountGuarded'
    BY <1>3, <1>7 DEF CountKept, LosesCount, Honest
  <2>1. CountGuarded
    BY <1>3 DEF GuardInv, CountKept
  <2>2. Blocked(TRUE, TRUE)
    BY <2>1 DEF CountGuarded, Blocked
  <2>3. r.ret = "OTHER"
    BY <2>2 DEF Nop, NothingBack
  <2>4. ~upgrade
    BY <1>4, <2>3
  <2> QED BY <1>8, <2>1, <2>4 DEF CountGuarded
<1>10. NothingLost'
  <2> SUFFICES ASSUME Whole PROVE NothingLost'
    BY <1>3 DEF NothingLost, Whole
  <2>1. ~count /\ ~lba
    BY <1>3, <1>4 DEF GuardInv, NothingLost
  <2>2. UNCHANGED <<nonDataTest, nonDataCountBroken, nonDataLBABroken>>
    BY <1>2, <2>1 DEF GuardInv, TestTypeOK
  <2> QED BY <1>3, <1>7, <2>2 DEF GuardInv, NothingLost, Unaligned
<1>11. FirstTest'
  BY <1>3 DEF GuardInv, FirstTest, LosesOne, Honest
<1>12. Carried'
  BY <1>3, RunCarries DEF GuardInv
<1> QED BY <1>6, <1>7, <1>9, <1>10, <1>11, <1>12 DEF GuardInv

(* Every step keeps the invariant.                                         *)
LEMMA GuardNextInv == ASSUME GuardInv, [GuardNext]_allVars PROVE GuardInv'
<1>1. CASE Discover
  BY <1>1, DiscoverInv
<1>2. CASE Run /\ UNCHANGED guarded
  <2>1. EarlyExit \/ NextTest \/ Decides \/ Verify
    BY <1>2 DEF Run, Decides
  <2> QED BY <1>2, <2>1, ExitInv, NextTestInv, DecideInv, VerifyInv
<1>3. CASE \E regs \in SUBSET {"count", "lba"} : NonData(regs)
  BY <1>3, NonDataInv
<1>4. CASE UNCHANGED allVars
  <2>1. UNCHANGED <<adapter, nopSupported, pc, testNum, successfulMatches,
                    brokenCountResponses, brokenLBAResponses, swappedLBAResponses,
                    confidenceScore, countOffset, lbaOffset, nonDataTest, nonDataCountBroken,
                    nonDataLBABroken, fixedSenseHack, sent, got, outcome, discoveries>>
    BY <1>4 DEF allVars, testVars, guarded, drive, counters, offsets, verdict
  <2>2. TestTypeOK' /\ Counted' /\ CountKept'
    BY <2>1 DEF GuardInv, TestTypeOK, Counted, CountKept, LosesCount, Honest, CountGuarded, Testing
  <2>3. NothingLost' /\ Moved'
    BY <2>1 DEF GuardInv, NothingLost, Moved, Whole, Unaligned, Testing
  <2>4. FirstTest' /\ Carried'
    BY <2>1 DEF GuardInv, FirstTest, LosesOne, Honest, Carried, Blocked, Testing
  <2> QED BY <2>2, <2>3, <2>4 DEF GuardInv
<1> QED BY <1>1, <1>2, <1>3, <1>4 DEF GuardNext

-----------------------------------------------------------------------------
(* The theorems.                                                           *)

(* The invariant holds in every behaviour.                                 *)
THEOREM GuardInvariance == GuardSpec => []GuardInv
BY GuardInitInv, GuardNextInv, PTL DEF GuardSpec

(* The counters, the score and the verdict keep their types.               *)
THEOREM TestTypeCorrect == GuardSpec => []TestTypeOK
<1>1. GuardInv => TestTypeOK
  BY DEF GuardInv
<1> QED BY <1>1, GuardInvariance, PTL

(* Behind an honest adapter that loses one register, the first discovery   *)
(* leaves a guard behind which no altered command is executed              *)
(* (test_Passthrough_Register_Response_NonData,                            *)
(* send_SAT_Passthrough_Command).                                          *)
THEOREM FirstProtects == GuardSpec => []FirstTestProtects
<1>1. GuardInv => FirstTestProtects
  <2> SUFFICES ASSUME GuardInv, LosesOne, discoveries = 1, outcome = "executed" PROVE got = sent
    BY DEF FirstTestProtects, LosesOne, Altered
  <2>1. /\ pc = "done" /\ sent \subseteq {"count", "lba"} /\ got = sent \ adapter.zeroes
        /\ ~Blocked("count" \in sent, "lba" \in sent)
    BY DEF GuardInv, Carried
  <2>2. /\ nonDataTest \in {"COUNT_ZERO_ONLY", "LBA_ZERO_ONLY"}
        /\ adapter.zeroes = {"count"} => nonDataCountBroken
        /\ adapter.zeroes = {"lba"} => ~nonDataCountBroken /\ nonDataLBABroken
    BY <2>1 DEF GuardInv, FirstTest
  <2>3. adapter.zeroes \in {{"count"}, {"lba"}}
    BY OneRegister DEF GuardInv
  <2>4. sent \cap adapter.zeroes = {}
    BY <2>1, <2>2, <2>3 DEF Blocked
  <2> QED BY <2>1, <2>4
<1> QED BY <1>1, GuardInvariance, PTL

(* After any number of discoveries the guard lets no command through       *)
(* without its count, and blocks none for an adapter that loses nothing on *)
(* the way, unless its answers come in the form of libata's sense data     *)
(* that holds the registers nowhere (CountUnreadable).                     *)
THEOREM GuardExact == GuardSpec => []GuardIsExact
<1>1. GuardInv => GuardIsExact
  <2> SUFFICES ASSUME GuardInv PROVE GuardIsExact
    OBVIOUS
  <2>1. ASSUME Honest, ~nopSupported, outcome = "executed", "count" \in sent
        PROVE  "count" \in got
    <3>1. /\ pc = "done" /\ discoveries > 0 /\ got = sent \ adapter.zeroes
          /\ ~Blocked("count" \in sent, "lba" \in sent)
      BY <2>1 DEF GuardInv, Carried
    <3>2. CASE "count" \in adapter.zeroes
      <4>1. CountGuarded
        BY <2>1, <3>1, <3>2 DEF GuardInv, CountKept, LosesCount
      <4> QED BY <2>1, <3>1, <4>1 DEF CountGuarded, Blocked
    <3> QED BY <2>1, <3>1, <3>2
  <2>2. ASSUME Whole, outcome = "blocked" PROVE FALSE
    <3>1. Blocked("count" \in sent, "lba" \in sent)
      BY <2>2 DEF GuardInv, Carried
    <3> QED BY <2>2, <3>1 DEF GuardInv, NothingLost, Blocked
  <2> QED BY <2>1, <2>2 DEF GuardIsExact, Whole, CountUnreadable
<1> QED BY <1>1, GuardInvariance, PTL

(* A register is only found broken when every one of the six tests lost    *)
(* it, by whichever of the decisions and upgrades.                         *)
THEOREM BrokenUnanimously == GuardSpec => BrokenOnUnanimity
<1> DEFINE Unanimous == /\ nonDataCountBroken' /\ ~nonDataCountBroken
                             => brokenCountResponses' = NOP_MAX_TESTS
                        /\ nonDataLBABroken' /\ ~nonDataLBABroken
                             => brokenLBAResponses' = NOP_MAX_TESTS
<1>1. ASSUME [GuardNext]_allVars PROVE [Unanimous]_testVars
  <2>1. CASE \/ UNCHANGED allVars \/ Discover \/ EarlyExit \/ NextTest
             \/ \E regs \in SUBSET {"count", "lba"} : NonData(regs)
    <3>1. \/ ~nonDataCountBroken' /\ ~nonDataLBABroken'
          \/ UNCHANGED <<nonDataCountBroken, nonDataLBABroken>>
      BY <2>1 DEF allVars, testVars, verdict, Discover, BeginTest, EarlyExit, AllowAll, NextTest, NonData
    <3> QED BY <3>1
  <2>2. CASE DecidePass \/ DecideSwapped \/ DecideInconclusive
    BY <2>2 DEF DecidePass, AllowAll, DecideSwapped, DecideInconclusive
  <2>3. CASE DecideCount
    <3>1. brokenCountResponses = NOP_MAX_TESTS
      BY <2>3 DEF DecideCount, Decided, Decision, All
    <3>2. brokenCountResponses' = brokenCountResponses /\ nonDataLBABroken' = nonDataLBABroken
      BY <2>3 DEF DecideCount, Decided, counters
    <3> QED BY <3>1, <3>2
  <2>4. CASE DecideLba \/ DecideMisaligned \/ DecideFallback
    <3>1. Decision \in {"lba", "misaligned", "fallback"}
          /\ brokenLBAResponses' = brokenLBAResponses
      BY <2>4 DEF DecideLba, DecideMisaligned, DecideFallback, Decided, counters
    <3>2. brokenLBAResponses = NOP_MAX_TESTS
      BY <3>1 DEF Decision, All
    <3>3. nonDataCountBroken' = nonDataCountBroken \/ ~nonDataCountBroken'
      BY <2>4 DEF DecideLba, DecideMisaligned, DecideFallback
    <3> QED BY <3>1, <3>2, <3>3
  <2>5. CASE Verify
    <3>1. /\ nonDataCountBroken' => nonDataCountBroken \/ brokenCountResponses = NOP_MAX_TESTS
          /\ nonDataLBABroken' => nonDataLBABroken \/ brokenLBAResponses = NOP_MAX_TESTS
      BY <2>5 DEF Verify, All
    <3>2. UNCHANGED <<brokenCountResponses, brokenLBAResponses>>
      BY <2>5 DEF Verify, counters
    <3> QED BY <3>1, <3>2
  <2> QED BY <1>1, <2>1, <2>2, <2>3, <2>4, <2>5 DEF GuardNext, Run
<1> QED BY <1>1, PTL DEF GuardSpec, BrokenOnUnanimity
=============================================================================
