-------------------------- MODULE LbaCommandsProofs --------------------------
(***************************************************************************)
(* Proofs about LbaCommands for drives of any size and any set of forms,   *)
(* any calls and any number of them and of faults.                         *)
(*                                                                         *)
(* The inductive invariant, Inv, adds to the two promises which calls a    *)
(* step serves (Serves), what the form tried says of the forms tried       *)
(* before it (Tried), what the forms learned say of the drive (Learnt),    *)
(* and what the steps before the last one leave to it (Halfway).  From     *)
(* Tried and Learnt: within reach, no form that is taken cuts an address   *)
(* or a count (WholeAddress).                                              *)
(***************************************************************************)
EXTENDS LbaCommands, TLAPS

CallOK ==
  /\ call.n > 0 \/ call.op \in {"flush", "writeSame"}
  /\ NoData => call.v = 0

(* Which calls a step serves.                                              *)
Serves ==
  /\ step # "idle" => ret = "none"
  /\ step = "fua" => call.op \in {"read", "write"} /\ Fua /\ Scsi
  /\ step = "preverify" => call.op = "read"
  /\ step = "read" => call.op \in {"read", "compare"} \/ (call.op = "verify" /\ Nvme)
  /\ step \in {"write", "postverify"} => call.op = "write"
  /\ step = "verify" => call.op = "verify"
  /\ step = "compare" => call.op = "compare" /\ ~Ata
  /\ step = "sync" => call.op = "flush"
  /\ step = "same" => call.op = "writeSame" /\ ~Nvme

(* The steps of Transfer.                                                  *)
Moving == {"preverify", "read", "write", "postverify", "verify"}

(* A form is only tried, while searching, when the drive was found not to  *)
(* take the one above it.                                                  *)
Tried ==
  /\ Nvme => form = Undetermined
  /\ Ata => form \in {Undetermined, Pio}
  /\ Scsi => form \in Undetermined..Cdb16
  /\ Scsi /\ step = "same" => form \in {Undetermined, Cdb10, Cdb16}
  /\ Scsi /\ step \in Moving /\ form # Undetermined =>
       Probing /\ form # Cdb16 /\ ~Takes(Kind(step), form + 1)

(* A drive that reads or writes in six bytes and not in ten.               *)
SixOnly ==
  \E k \in {"read", "write"} : <<k, Cdb6>> \in drive.forms /\ <<k, Cdb10>> \notin drive.forms

TakesAll16 ==
  /\ drive.ver >= Spc3
  /\ \A k \in {"read", "write", "verify", "same"} : <<k, Cdb16>> \in drive.forms

(* What is learned of a drive is true of it.                               *)
Learnt ==
  Scsi =>
    /\ hacks.rw = Cdb6 => SixOnly
    /\ hacks.fua => "fua" \in drive.has
    /\ Large /\ TakesAll16 =>
         /\ {hacks.rw, hacks.same} \subseteq {Undetermined, Cdb16}
         /\ step # "sync" => form \in {Undetermined, Cdb16}

Written == \A b \in Asked : <<b, call.v>> \in wrote

(* Before the verification after a write the blocks are written; before a  *)
(* read that is to have its blocks on the medium, they were verified.      *)
Halfway ==
  InReach =>
    /\ step = "postverify" => missed \/ (Written /\ \A b \in Asked : data[b] = call.v)
    /\ step = "read" /\ call.op = "read" /\ Fua /\ (Ata \/ (Scsi /\ ~hacks.fua)) =>
         \A b \in Asked : saved[b] = data[b]

Inv == /\ TypeOK /\ CallOK /\ Serves /\ Tried /\ Learnt /\ Halfway
       /\ DoesWhatWasAsked /\ ForcedMeansSaved

-----------------------------------------------------------------------------
(* Forms.                                                                  *)

(* A drive has one of three interfaces.                                    *)
LEMMA Interfaces ==
  ASSUME TypeOK
  PROVE  /\ drive \in Drive /\ (Ata \/ Scsi \/ Nvme)
         /\ ~(Ata /\ Scsi) /\ ~(Ata /\ Nvme) /\ ~(Scsi /\ Nvme)
BY DrivesAssumption DEF TypeOK, Drive, Ata, Scsi, Nvme

(* What form is sent.                                                      *)
LEMMA FormFacts ==
  ASSUME TypeOK, Tried
  PROVE  /\ Nvme => Form = Queue
         /\ Ata => Form \in {Dma, Pio}
         /\ Scsi => Form \in Cdb6..Cdb16 \/ Form = Never
         /\ Scsi /\ Probing => Form \in Cdb6..Cdb16 /\ (form = Undetermined => Form # Cdb6)
         /\ Scsi /\ step \in Moving => Form \in Cdb6..Cdb16
         /\ Scsi /\ step = "same" => Form \in {Cdb10, Cdb16, Never}
<1> USE DEF Undetermined, Cdb6, Cdb10, Cdb12, Cdb16, Dma, Pio, Queue, Never
<1>1. CASE Nvme
  BY <1>1, Interfaces DEF Form, Tried
<1>2. CASE Ata
  BY <1>2, Interfaces DEF Form, Tried
<1>3. CASE Scsi
  <2>1. form \in 0..4 /\ (step = "same" => form \in {0, 2, 4})
    BY <1>3 DEF Tried
  <2>2. \A k : /\ Learned(k) \in {0, 1, 2, 3, 4, -1}
               /\ k \notin {"sync", "same"} => Learned(k) # -1
               /\ k = "same" => Learned(k) \in {0, 2, 4, -1}
    BY DEF Learned, TypeOK, Sizes
  <2>3. \A v : StartSize(v) \in {2, 4}
    BY DEF StartSize
  <2>4. step \in Moving => Kind(step) \notin {"sync", "same"}
    BY DEF Moving, Kind
  <2>5. step = "same" => Kind(step) = "same"
    BY DEF Kind
  <2>6. Form = IF form # 0 THEN form ELSE IF Learned(Kind(step)) # 0
                THEN Learned(Kind(step)) ELSE StartSize(IF step = "same" THEN Spc ELSE Spc3)
    BY <1>3, Interfaces DEF Form
  <2> HIDE DEF Form, Learned, StartSize, Kind, Moving
  <2>7. Probing => Learned(Kind(step)) = 0
    BY DEF Probing
  <2> QED BY <1>3, <2>1, <2>2, <2>3, <2>4, <2>5, <2>6, <2>7, Interfaces
<1> QED BY <1>1, <1>2, <1>3, Interfaces

(* Addresses and counts are numbers in every form.                         *)
LEMMA FieldsAreNumbers ==
  ASSUME NEW f, NEW l \in Nat, NEW n \in Nat
  PROVE  At(f, l) \in Nat /\ For(f, n) \in Nat
<1> USE LimitsAssumption DEF Cdb6, Cdb10, Cdb12, Cdb16, Queue
<1>1. l % Lba6 \in Nat /\ l % Lba10 \in Nat
  OBVIOUS
<1>2. n % Count6 \in Nat /\ n % Count10 \in Nat /\ ((n - 1) % Count10) + 1 \in Nat
  OBVIOUS
<1> QED BY <1>1, <1>2 DEF At, For

(* Numbers that fit are not cut.                                           *)
LEMMA Uncut ==
  ASSUME NEW n \in Nat
  PROVE  /\ n < Count10 => n % Count10 = n
         /\ n < Count16 => n % Count16 = n
         /\ n > 0 /\ n <= Count6 => (IF n % Count6 = 0 THEN Count6 ELSE n % Count6) = n
         /\ n > 0 /\ n <= Count10 => ((n - 1) % Count10) + 1 = n
<1> USE LimitsAssumption
<1>1. n < Count10 => n % Count10 = n
  OBVIOUS
<1>2. n < Count6 => n % Count6 = n
  OBVIOUS
<1>3. Count6 % Count6 = 0
  OBVIOUS
<1>4. ASSUME n > 0, n <= Count10 PROVE (n - 1) % Count10 = n - 1
  <2>1. n - 1 \in Nat /\ n - 1 < Count10
    BY <1>4
  <2> QED BY <2>1
<1>5. n < Count16 => n % Count16 = n
  OBVIOUS
<1> QED BY <1>1, <1>2, <1>3, <1>4, <1>5

(* What is not heard is not heard of NVMe drives only.                     *)
LEMMA GoodFacts ==
  ASSUME TypeOK, NEW a
  PROVE  /\ Good(a) \in BOOLEAN /\ Unheard(a) \in BOOLEAN
         /\ Good(a) => a.status = "ok" \/ Unheard(a)
         /\ a.status = "ok" => Good(a) /\ ~Unheard(a)
         /\ Unheard(a) => Nvme /\ ~Ata /\ ~Scsi
BY Interfaces DEF Good, Unheard, Silent

(* Of a large drive that takes all forms of 16 bytes only these are sent.  *)
LEMMA LargeForm ==
  ASSUME TypeOK, Tried, Learnt, Scsi, Large, TakesAll16, step \in Moving \cup {"same"}
  PROVE  Form = Cdb16 /\ (step # "same" => form = Undetermined)
<1> USE DEF Undetermined, Cdb6, Cdb10, Cdb12, Cdb16, Dma, Pio, Queue, Never
<1>1. form \in {0, 4} /\ hacks.rw \in {0, 4} /\ hacks.same \in {0, 4}
  BY DEF Learnt, Moving
<1>2. step # "same" => form = 0
  BY <1>1 DEF Tried
<1>3. Learned(Kind(step)) \in {0, 4}
  BY <1>1 DEF Learned, Kind, Moving
<1>4. StartSize(Spc3) = 4 /\ StartSize(Spc) = 4
  BY Interfaces DEF StartSize, Short, TakesAll16, Spc, Spc3, Drive
<1>5. Form = 4
  BY <1>1, <1>3, <1>4, Interfaces DEF Form
<1> QED BY <1>2, <1>5

(* Six bytes are used for drives that read or write in no more.            *)
LEMMA SixForm ==
  ASSUME TypeOK, Tried, Learnt, Scsi, step \in Moving, ~NoSixByteForm,
         Takes(Kind(step), Form), Form = Cdb6
  PROVE  SixOnly
<1> USE DEF Undetermined, Cdb6, Cdb10, Cdb12, Cdb16, Dma, Pio, Queue, Never
<1>1. CASE Probing
  <2>1. form = 1
    BY <1>1, FormFacts DEF Form
  <2>2. Kind(step) \in {"read", "write"}
    BY <1>1 DEF NoSixByteForm, Kind, Moving
  <2>3. ~Takes(Kind(step), 2)
    BY <2>1 DEF Tried
  <2> QED BY <2>2, <2>3 DEF Takes, SixOnly
<1>2. CASE ~Probing
  <2>1. form = 0 /\ Learned(Kind(step)) # 0
    BY <1>2 DEF Tried, Probing
  <2>2. Learned(Kind(step)) = 1
    BY <2>1, Interfaces DEF Form
  <2>3. hacks.rw = 1
    BY <2>2 DEF Learned, Kind, Moving
  <2> QED BY <2>3 DEF Learnt
<1> QED BY <1>1, <1>2

(* Within reach, the form in which a command is sent and that the drive    *)
(* takes has all of the address and of the count.                          *)
LEMMA WholeAddress ==
  ASSUME Inv, InReach, step \in Moving, ~NoSixByteForm, Nvme \/ Takes(Kind(step), Form)
  PROVE  At(Form, call.lba) = call.lba /\ For(Form, call.n) = call.n
<1> USE DEF Undetermined, Cdb6, Cdb10, Cdb12, Cdb16, Dma, Pio, Queue, Never
<1>1. TypeOK /\ Tried /\ Learnt /\ call.n \in Nat /\ call.n > 0 /\ call.lba \in Nat
  BY DEF Inv, TypeOK, Call, CallOK, Serves, Moving
<1>2. CASE Nvme
  <2>1. Form = 7 /\ call.n <= Count10
    BY <1>1, <1>2, FormFacts, Interfaces DEF InReach
  <2> QED BY <1>1, <2>1, Uncut DEF At, For
<1>3. CASE Ata
  <2>1. Form \in {5, 6}
    BY <1>1, <1>3, FormFacts
  <2> QED BY <2>1 DEF At, For
<1>4. CASE Scsi /\ Large
  <2>1. TakesAll16
    BY <1>1, <1>4, Interfaces DEF InReach, TakesAll16
  <2>2. Form = 4
    BY <1>1, <1>4, <2>1, LargeForm
  <2> QED BY <2>2 DEF At, For
<1>5. CASE Scsi /\ ~Large
  <2>1. call.n < Count10 /\ (SixOnly => Tiny /\ call.n <= Count6)
    BY <1>1, <1>5, Interfaces DEF InReach, SixOnly
  <2>2. Form \in 1..4 /\ (Form = 1 => SixOnly)
    BY <1>1, <1>5, FormFacts, SixForm
  <2>3. At(Form, call.lba) = call.lba
    BY <1>5, <2>1, <2>2 DEF At
  <2>4. For(Form, call.n) = call.n
    BY <1>1, <2>1, <2>2, Uncut DEF For
  <2> QED BY <2>3, <2>4
<1> QED BY <1>1, <1>2, <1>3, <1>4, <1>5, Interfaces

(* The same for WRITE SAME, also where the count is zero.                  *)
LEMMA WholeSame ==
  ASSUME Inv, InReach, step = "same"
  PROVE  At(Form, call.lba) = call.lba /\ For(Form, Number) = call.n
<1> USE DEF Undetermined, Cdb6, Cdb10, Cdb12, Cdb16, Dma, Pio, Queue, Never
<1>1. /\ TypeOK /\ Tried /\ Learnt /\ call.n \in Nat /\ call.lba \in Nat /\ ~Nvme
      /\ call.op = "writeSame"
  BY DEF Inv, TypeOK, Call, Serves
<1>2. CASE Ata
  <2>1. Form \in {5, 6} /\ Number = call.n
    BY <1>1, <1>2, FormFacts, Interfaces DEF Number
  <2> QED BY <2>1 DEF At, For
<1>3. CASE Scsi
  <2>1. Form \in {2, 4, -1}
    BY <1>1, <1>3, FormFacts
  <2>2. CASE Large
    <3>1. TakesAll16
      BY <1>1, <1>3, <2>2, Interfaces DEF InReach, TakesAll16
    <3>2. Form = 4
      BY <1>1, <1>3, <2>2, <3>1, LargeForm
    <3>3. Number = call.n
      BY <1>1, <1>3, <2>2, Uncut, Interfaces DEF Number, InReach
    <3> QED BY <3>2, <3>3 DEF At, For
  <2>3. CASE ~Large
    <3>1. call.n < Count10
      BY <1>1, <1>3, <2>3, Interfaces DEF InReach
    <3>2. Number = call.n
      BY <1>1, <3>1, Uncut, LimitsAssumption DEF Number
    <3> QED BY <1>1, <2>1, <2>3, <3>1, <3>2, Uncut DEF At, For
  <2> QED BY <2>2, <2>3
<1> QED BY <1>1, <1>2, <1>3, Interfaces

-----------------------------------------------------------------------------
(* What a command does to the drive.                                       *)

(* A command on the blocks of S, answered or not: a read or a verification *)
(* changes no contents, a write none but those of S.                       *)
Touched(do, S, v, fua, ok) ==
  /\ MediumOK'
  /\ do # "write" =>
       /\ data' = data /\ bad' = bad /\ wrote' = wrote
       /\ \A b \in Blocks : saved'[b] \in {saved[b], data[b]}
       /\ ok => S \cap bad = {} /\ (do = "verify" \/ fua => \A b \in S : saved'[b] = data[b])
  /\ do = "write" =>
       /\ wrote \subseteq wrote' /\ wrote' \subseteq wrote \cup (S \X {v})
       /\ ok => /\ S \X {v} \subseteq wrote'
                /\ \A b \in S : data'[b] = v /\ (fua => saved'[b] = v)

(* What a drive that took a command did.                                   *)
LEMMA ExecuteTouches ==
  ASSUME MediumOK, NEW do \in {"read", "verify", "write"}, NEW l \in Nat, NEW n \in Int,
         NEW v \in Values, NEW f, NEW a \in Answers, Execute(do, l, n, v, f, a)
  PROVE  /\ Touched(do, Span(l, n), v, f, a.status = "ok")
         /\ a.status = "ok" => n > 0 /\ l + n <= Last + 1
<1> DEFINE S == Span(l, a.done)
<1>1. /\ Answer(do, l, n, a) /\ a.done \in 0..(Last + 1) /\ Last \in Nat
      /\ cached' = cached /\ regs' \in BOOLEAN
  BY MediumAssumption DEF Execute, Noted, Answers
<1>2. /\ data' = IF do = "write"
                 THEN [b \in Blocks |-> IF b \in S THEN v ELSE data[b]] ELSE data
      /\ saved' = [b \in Blocks |->
                     IF b \in S /\ (do = "verify" \/ f \/ (do = "write" /\ ~cached))
                     THEN data'[b] ELSE saved[b]]
      /\ bad' = IF do = "write" THEN bad \ S ELSE bad
      /\ wrote' = IF do = "write" THEN wrote \cup (S \X {v}) ELSE wrote
  BY DEF Execute
<1>3. faults' \in 0..MaxFaults
  BY <1>1, MediumAssumption DEF Execute, Answer, Noted, MediumOK
<1>4. a.status = "ok" =>
        a.done = n /\ n > 0 /\ l + n <= Last + 1 /\ (do # "write" => Span(l, n) \cap bad = {})
  BY <1>1 DEF Answer, Fits, Reads
<1>5. do = "write" => S \subseteq Span(l, n)
  <2> SUFFICES ASSUME do = "write", NEW b \in S PROVE b \in Span(l, n)
    OBVIOUS
  <2>1. b \in Int /\ b >= l /\ b < l + a.done
    BY <1>1 DEF Span, Blocks
  <2>2. a.done <= n
    BY <1>1, <2>1 DEF Answer, Fits
  <2> QED BY <1>1, <2>1, <2>2 DEF Span
<1>6. S \subseteq Blocks /\ Span(l, n) \subseteq Blocks
  BY DEF Span
<1>7. MediumOK'
  <2>1. data' \in [Blocks -> Values]
    BY <1>2 DEF MediumOK
  <2>2. saved' \in [Blocks -> Values]
    BY <1>2, <2>1 DEF MediumOK
  <2>3. bad' \in SUBSET Blocks /\ wrote' \in SUBSET (Blocks \X (Values \cup {Uncorrectable}))
    BY <1>2, <1>6 DEF MediumOK
  <2> QED BY <1>1, <1>3, <2>1, <2>2, <2>3 DEF MediumOK
<1>8. do # "write" =>
        /\ data' = data /\ bad' = bad /\ wrote' = wrote
        /\ \A b \in Blocks : saved'[b] \in {saved[b], data[b]}
  BY <1>2
<1>9. ASSUME do # "write", a.status = "ok"
      PROVE  /\ Span(l, n) \cap bad = {}
             /\ do = "verify" \/ f => \A b \in Span(l, n) : saved'[b] = data[b]
  BY <1>2, <1>4, <1>6, <1>9
<1>10. do = "write" => wrote \subseteq wrote' /\ wrote' \subseteq wrote \cup (Span(l, n) \X {v})
  BY <1>2, <1>5
<1>11. ASSUME do = "write", a.status = "ok"
       PROVE  /\ Span(l, n) \X {v} \subseteq wrote'
              /\ \A b \in Span(l, n) : data'[b] = v /\ (f => saved'[b] = v)
  <2>1. S = Span(l, n)
    BY <1>4, <1>11
  <2> QED BY <1>2, <1>6, <1>11, <2>1
<1> HIDE DEF S
<1> QED BY <1>4, <1>7, <1>8, <1>9, <1>10, <1>11 DEF Touched

(* A drive that was asked for nothing, or refused, did nothing.            *)
LEMMA NothingTouched ==
  ASSUME MediumOK, UNCHANGED medium, NEW do, NEW S, NEW v, NEW f, NEW ok, ok => S = {}
  PROVE  Touched(do, S, v, f, ok)
<1>1. MediumOK'
  BY DEF medium, MediumOK
<1>2. data' = data /\ bad' = bad /\ wrote' = wrote /\ saved' = saved
  BY DEF medium
<1> QED BY <1>1, <1>2 DEF Touched

(* A command of Transfer and its answer.                                   *)
Answered(a, s) ==
  \/ Refused(Kind(step), Form, a, s)
  \/ Sent(Kind(step), Form, For(Form, call.n), WithFua, call.v, a, s)

LEMMA TransferTouches ==
  ASSUME Inv, step \in Moving, NEW a \in Answers, NEW s, Answered(a, s)
  PROVE  /\ Touched(Kind(step), Span(At(Form, call.lba), For(Form, call.n)), call.v, WithFua,
                    a.status = "ok")
         /\ ~Takes(Kind(step), Form) => UNCHANGED medium /\ a.status # "ok"
         /\ s = "opcode" => ~Takes(Kind(step), Form)
<1> DEFINE S == Span(At(Form, call.lba), For(Form, call.n))
<1>1. /\ Kind(step) \in {"read", "verify", "write"} /\ MediumOK /\ call.v \in Values
      /\ At(Form, call.lba) \in Nat /\ For(Form, call.n) \in Nat
  BY FieldsAreNumbers DEF Kind, Moving, Inv, TypeOK, Call
<1>2. CASE Refused(Kind(step), Form, a, s)
  <2>1. UNCHANGED medium /\ a.status # "ok" /\ ~Takes(Kind(step), Form)
    BY <1>2 DEF Refused
  <2> QED BY <1>1, <2>1, NothingTouched
<1>3. CASE Sent(Kind(step), Form, For(Form, call.n), WithFua, call.v, a, s)
  <2>1. Takes(Kind(step), Form) /\ s # "opcode"
    BY <1>3 DEF Sent, Sense
  <2>2. CASE For(Form, call.n) = 0
    <3>1. UNCHANGED medium
      BY <1>3, <2>2 DEF Sent
    <3>2. S = {}
      BY <1>1, <2>2, MediumAssumption DEF Span, Blocks
    <3> QED BY <1>1, <2>1, <3>1, <3>2, NothingTouched
  <2>3. CASE For(Form, call.n) # 0
    <3>1. Execute(Kind(step), At(Form, call.lba), For(Form, call.n), call.v, WithFua, a)
      BY <1>3, <2>3 DEF Sent
    <3> QED BY <1>1, <2>1, <3>1, ExecuteTouches
  <2> QED BY <2>2, <2>3
<1> QED BY <1>2, <1>3 DEF Answered

(* Within reach these are the blocks the call is for.                      *)
LEMMA TransferAsked ==
  ASSUME Inv, InReach, step \in Moving, ~NoSixByteForm,
         NEW a \in Answers, NEW s, Answered(a, s)
  PROVE  /\ Touched(Kind(step), Asked, call.v, WithFua, a.status = "ok")
         /\ Good(a) => At(Form, call.lba) = call.lba /\ For(Form, call.n) = call.n
<1>1. Asked = Span(call.lba, call.n)
  BY DEF Inv, Serves, Moving, Asked
<1>2. CASE Takes(Kind(step), Form)
  BY <1>1, <1>2, WholeAddress, TransferTouches
<1>3. CASE ~Takes(Kind(step), Form)
  <2>1. UNCHANGED medium /\ a.status # "ok" /\ MediumOK
    BY <1>3, TransferTouches DEF Inv, TypeOK
  <2>2. Touched(Kind(step), Asked, call.v, WithFua, a.status = "ok")
    BY <2>1, NothingTouched
  <2>3. Good(a) => Nvme
    BY <2>1, GoodFacts DEF Inv
  <2> QED BY <2>2, <2>3, WholeAddress
<1> QED BY <1>2, <1>3

-----------------------------------------------------------------------------
(* Transfer.                                                               *)

HackSet == [rw: (Sizes \cup {Cdb6}) \ {Never}, same: Sizes \ {Cdb12}, sync: Sizes \ {Cdb12},
            zeroes: BOOLEAN, noCompare: BOOLEAN, fua: BOOLEAN, fuaValid: BOOLEAN,
            dma: BOOLEAN]

(* The step with one of its outcomes: another form is tried, or not.       *)
Again(s) ==
  /\ NextForm(Form, s) # Undetermined /\ form' = NextForm(Form, s)
  /\ UNCHANGED <<step, ret, hacks, missed>>

Ended(a) ==
  /\ hacks' = Noticed(Kind(step), Form, Good(a))
  /\ missed' = (missed \/ (step = "write" /\ ~Good(a)) \/ Unheard(a))
  /\ Continue(Good(a), Matches(For(Form, call.n), a))

Moved(a, s) ==
  /\ step \in Moving /\ ~NoSixByteForm
  /\ a \in Answers /\ s \in {"none", "opcode", "field", "other"} /\ Answered(a, s)
  /\ sense' = s
  /\ got' = IF Kind(step) = "read" THEN <<At(Form, call.lba), For(Form, call.n)>> ELSE got
  /\ UNCHANGED <<drive, calls, call>>
  /\ (~Good(a) /\ Again(s)) \/ Ended(a)

LEMMA TransferMoves == ASSUME Transfer PROVE \E a, s : Moved(a, s)
<1>1. PICK o \in Outcomes : Moved(o[1], o[2])
  BY DEF Transfer, Moved, Moving, Answered, Again, Ended, Outcomes
<1> QED BY <1>1

(* What follows a command that ends the search.                            *)
LEMMA ContinueFacts ==
  ASSUME step \in Moving, NEW ok \in BOOLEAN, NEW equal \in BOOLEAN, Continue(ok, equal)
  PROVE  /\ form' = Undetermined
         /\ \/ step = "preverify" /\ ok /\ step' = "read" /\ ret' = ret
            \/ step = "write" /\ VerifiesAfter(ok) /\ step' = "postverify" /\ ret' = ret
            \/ /\ step' = "idle" /\ ret' \in {"success", "failure"}
               /\ ret' = "success" =>
                    /\ ok /\ step # "preverify"
                    /\ step = "write" => ~VerifiesAfter(ok)
                    /\ step = "read" /\ call.op = "compare" => equal
<1>1. CASE step = "preverify"
  BY <1>1 DEF Continue, GoTo, Return
<1>2. CASE step = "write" /\ VerifiesAfter(ok)
  BY <1>2 DEF Continue, GoTo, Return
<1>3. CASE step = "read" /\ call.op = "compare"
  BY <1>3 DEF Continue, GoTo, Return
<1>4. CASE /\ step # "preverify" /\ ~(step = "write" /\ VerifiesAfter(ok))
           /\ ~(step = "read" /\ call.op = "compare")
  BY <1>4 DEF Continue, GoTo, Return
<1> QED BY <1>1, <1>2, <1>3, <1>4

(* What is learned from it.                                                *)
LEMMA NoticedFacts ==
  ASSUME TypeOK, Tried, step \in Moving, ~NoSixByteForm, NEW ok \in BOOLEAN,
         hacks' = Noticed(Kind(step), Form, ok)
  PROVE  /\ hacks' \in HackSet
         /\ hacks'.same = hacks.same /\ hacks'.sync = hacks.sync
         /\ hacks'.zeroes = hacks.zeroes /\ hacks'.fua = hacks.fua
         /\ hacks'.rw = (IF Probing /\ ok THEN Form ELSE hacks.rw)
         /\ hacks'.dma = (hacks.dma /\ ~(Ata /\ ok /\ form = Pio))
<1> DEFINE h == IF Probing /\ ok THEN [hacks EXCEPT !.rw = Form] ELSE hacks
<1>1. hacks \in HackSet
  BY DEF TypeOK, HackSet
<1>2. Kind(step) # "sync"
  BY DEF Kind, Moving
<1>3. Probing => Form \in (Sizes \cup {Cdb6}) \ {Never}
  <2>1. Probing => Form \in Cdb6..Cdb16
    BY FormFacts DEF Probing
  <2> QED BY <2>1 DEF Sizes, Cdb6, Cdb10, Cdb12, Cdb16, Never, Undetermined
<1>4. h \in HackSet
  BY <1>1, <1>3 DEF HackSet
<1>5. /\ h.same = hacks.same /\ h.sync = hacks.sync /\ h.zeroes = hacks.zeroes
      /\ h.fua = hacks.fua /\ h.dma = hacks.dma
      /\ h.rw = (IF Probing /\ ok THEN Form ELSE hacks.rw)
  BY <1>1 DEF HackSet
<1>6. hacks' = [h EXCEPT !.dma = @ /\ ~(Ata /\ ok /\ form = Pio),
                         !.noCompare = @ \/ (step = "read" /\ call.op = "compare" /\ Scsi
                                      /\ "usb" \notin drive.has /\ drive.ver >= Scsi2)]
  BY <1>2 DEF Noticed, NotedSize
<1> HIDE DEF h
<1> QED BY <1>4, <1>5, <1>6 DEF HackSet

(* The forms after it.                                                     *)
LEMMA TransferForms ==
  ASSUME Inv, NEW a, NEW s, Moved(a, s)
  PROVE  Tried' /\ Learnt' /\ hacks' \in HackSet
<1> USE DEF Undetermined, Cdb6, Cdb10, Cdb12, Cdb16, Dma, Pio, Queue, Never
<1>1. /\ TypeOK /\ Tried /\ Learnt /\ step \in Moving /\ ~NoSixByteForm
      /\ drive' = drive /\ call' = call /\ a \in Answers /\ Answered(a, s)
      /\ hacks \in HackSet
  BY DEF Moved, Inv, TypeOK, HackSet
<1>2. CASE Again(s)
  <2>1. /\ form' = NextForm(Form, s) /\ form' # 0
        /\ hacks' = hacks /\ step' = step
    BY <1>2 DEF Again
  <2>2. /\ Nvme' = Nvme /\ Ata' = Ata /\ Scsi' = Scsi /\ Large' = Large
        /\ Probing' = Probing /\ TakesAll16' = TakesAll16 /\ SixOnly' = SixOnly
        /\ Kind(step)' = Kind(step)
    BY <1>1, <2>1 DEF Nvme, Ata, Scsi, Large, Probing, Learned, TakesAll16, SixOnly, Kind
  <2>3. CASE Ata
    <3>1. form' = 6
      BY <2>1, <2>3 DEF NextForm
    <3>2. ~Scsi' /\ ~Nvme'
      BY <1>1, <2>2, <2>3, Interfaces
    <3>3. Tried' /\ Learnt'
      BY <3>1, <3>2 DEF Tried, Learnt
    <3> QED BY <1>1, <2>1, <3>3
  <2>4. CASE ~Ata
    <3>1. Probing /\ s = "opcode" /\ form' = Form - 1 /\ Scsi
      BY <2>1, <2>4 DEF NextForm, Probing
    <3>2. Form \in 1..4 /\ ~Takes(Kind(step), Form)
      BY <1>1, <3>1, FormFacts, TransferTouches
    <3>3. ~Takes(Kind(step), form + 1)'
      <4>1. form' + 1 = Form
        BY <3>1, <3>2
      <4> QED BY <1>1, <2>2, <3>2, <4>1 DEF Takes
    <3>4. Tried'
      BY <1>1, <2>1, <2>2, <2>4, <3>1, <3>2, <3>3, Interfaces DEF Tried, Moving
    <3>5. ~(Large /\ TakesAll16)
      <4> SUFFICES ASSUME Large, TakesAll16 PROVE FALSE
        OBVIOUS
      <4>1. Form = 4
        BY <1>1, <3>1, LargeForm
      <4>2. Takes(Kind(step), 4)
        BY <1>1 DEF Takes, TakesAll16, Kind, Moving
      <4> QED BY <3>2, <4>1, <4>2
    <3>6. Learnt'
      BY <1>1, <2>1, <2>2, <3>5 DEF Learnt
    <3> QED BY <1>1, <2>1, <3>4, <3>6
  <2> QED BY <2>3, <2>4
<1>3. CASE Ended(a)
  <2> DEFINE ok == Good(a)
  <2>0. ok \in BOOLEAN /\ Matches(For(Form, call.n), a) \in BOOLEAN
    BY <1>1, GoodFacts DEF Matches
  <2>1. /\ form' = 0 /\ step' \in {"idle", "read", "postverify"}
        /\ hacks' = Noticed(Kind(step), Form, ok)
    BY <1>1, <1>3, <2>0, ContinueFacts DEF Ended
  <2>2. /\ hacks' \in HackSet /\ hacks'.same = hacks.same /\ hacks'.fua = hacks.fua
        /\ hacks'.rw = (IF Probing /\ ok THEN Form ELSE hacks.rw)
    BY <1>1, <2>0, <2>1, NoticedFacts
  <2>3. Tried'
    BY <1>1, <2>1 DEF Tried
  <2>4. ok /\ Scsi => Takes(Kind(step), Form)
    BY <1>1, TransferTouches, GoodFacts
  <2>5. Learnt'
    <3> SUFFICES ASSUME Scsi PROVE Learnt'
      BY <1>1 DEF Learnt, Scsi
    <3>1. hacks'.rw = 1 => SixOnly
      BY <1>1, <2>2, <2>4, SixForm DEF Learnt
    <3>2. Large /\ TakesAll16 => hacks'.rw \in {0, 4}
      BY <1>1, <2>2, LargeForm DEF Learnt
    <3> QED BY <1>1, <2>1, <2>2, <3>1, <3>2 DEF Learnt, SixOnly, Large, TakesAll16, Scsi
  <2> QED BY <2>2, <2>3, <2>5
<1> QED BY <1>2, <1>3 DEF Moved

(* The types and the calls a step serves.                                  *)
LEMMA TransferServes ==
  ASSUME Inv, NEW a, NEW s, Moved(a, s)
  PROVE  TypeOK' /\ CallOK' /\ Serves'
<1>1. /\ TypeOK /\ Tried /\ Serves /\ CallOK /\ step \in Moving
      /\ UNCHANGED <<drive, calls, call>> /\ a \in Answers /\ Answered(a, s)
      /\ sense' \in {"none", "opcode", "field", "other"}
  BY DEF Moved, Inv
<1>2. MediumOK'
  BY <1>1, TransferTouches DEF Touched
<1>3. got' \in Nat \X Nat
  BY FieldsAreNumbers DEF Inv, TypeOK, Call, Moved
<1>4. hacks' \in HackSet /\ Tried'
  BY TransferForms
<1>5. /\ step' \in Moving \cup {"idle"} /\ missed' \in BOOLEAN
      /\ ret' \in {"none", "success", "failure"} /\ Serves'
  <2>1. CASE Again(s)
    <3>1. step' = step /\ ret' = ret /\ missed' = missed /\ ret = "none"
      BY <1>1, <2>1 DEF Again, Serves, Moving
    <3> QED BY <1>1, <3>1 DEF Serves, TypeOK, Moving, Ata, Nvme, Scsi, Fua
  <2>2. CASE Ended(a)
    <3>1. /\ missed' \in BOOLEAN /\ Continue(Good(a), Matches(For(Form, call.n), a))
          /\ ret = "none" /\ Good(a) \in BOOLEAN /\ Matches(For(Form, call.n), a) \in BOOLEAN
      BY <1>1, <2>2, GoodFacts DEF Ended, TypeOK, Serves, Moving, Matches
    <3>2. \/ step = "preverify" /\ step' = "read" /\ ret' = ret
          \/ step = "write" /\ step' = "postverify" /\ ret' = ret
          \/ step' = "idle" /\ ret' \in {"success", "failure"}
      BY <1>1, <3>1, ContinueFacts
    <3> QED BY <1>1, <3>1, <3>2 DEF Serves, Moving
  <2> QED BY <2>1, <2>2 DEF Moved
<1>6. form' \in {Undetermined, Pio} \cup (Cdb6..Cdb16)
  BY <1>1, <1>4, Interfaces DEF Tried, Ata, Scsi, Nvme, Undetermined, Cdb6, Cdb16, Pio
<1>7. TypeOK'
  BY <1>1, <1>2, <1>3, <1>4, <1>5, <1>6 DEF TypeOK, HackSet, Moving
<1>8. CallOK'
  BY <1>1 DEF CallOK, NoData
<1> QED BY <1>5, <1>7, <1>8

(* What does not change during a call.                                     *)
LEMMA SameCall ==
  ASSUME UNCHANGED <<drive, call>>
  PROVE  /\ Asked' = Asked /\ InReach' = InReach /\ Fua' = Fua /\ NoData' = NoData
         /\ Ata' = Ata /\ Scsi' = Scsi /\ Nvme' = Nvme /\ AtaFua' = AtaFua
BY DEF Asked, InReach, Fua, NoData, Ata, Scsi, Nvme, AtaFua, Large, Tiny

(* What the steps before leave to those after.                             *)
LEMMA TransferHalfway ==
  ASSUME Inv, NEW a, NEW s, Moved(a, s)
  PROVE  Halfway'
<1> SUFFICES ASSUME InReach' PROVE Halfway'
  BY DEF Halfway
<1> DEFINE ok == a.status = "ok"
<1>1. /\ UNCHANGED <<drive, call>> /\ step \in Moving /\ a \in Answers /\ Answered(a, s)
      /\ ~NoSixByteForm
  BY DEF Moved
<1>2. /\ InReach /\ Asked' = Asked /\ Fua' = Fua /\ Ata' = Ata /\ Scsi' = Scsi
      /\ Asked \subseteq Blocks
  BY <1>1, SameCall DEF Asked, Span
<1>3. Touched(Kind(step), Asked, call.v, WithFua, ok)
  BY <1>1, <1>2, TransferAsked
<1>4. Halfway
  BY DEF Inv
<1>5. CASE Again(s)
  <2>1. step' = step /\ hacks' = hacks /\ missed' = missed
    BY <1>5 DEF Again
  <2>2. step \in {"read", "postverify"} => Kind(step) # "write"
    BY DEF Kind
  <2>3. step = "postverify" =>
          missed' \/ (Written' /\ \A b \in Asked : data'[b] = call.v)
    BY <1>1, <1>2, <1>3, <1>4, <2>1, <2>2 DEF Halfway, Touched, Written
  <2>4. ASSUME step = "read", call.op = "read", Fua, Ata \/ (Scsi /\ ~hacks.fua)
        PROVE  \A b \in Asked : saved'[b] = data'[b]
    BY <1>2, <1>3, <1>4, <2>2, <2>4 DEF Halfway, Touched
  <2> QED BY <1>1, <1>2, <2>1, <2>3, <2>4 DEF Halfway
<1>6. CASE Ended(a)
  <2>0. TypeOK /\ Good(a) \in BOOLEAN /\ Matches(For(Form, call.n), a) \in BOOLEAN
    BY GoodFacts DEF Inv, Matches
  <2>1. /\ missed' = (missed \/ (step = "write" /\ ~Good(a)) \/ Unheard(a))
        /\ \/ step = "preverify" /\ Good(a) /\ step' = "read"
           \/ step = "write" /\ step' = "postverify"
           \/ step' = "idle"
    BY <1>1, <1>6, <2>0, ContinueFacts DEF Ended
  <2>2. step = "preverify" /\ ok => \A b \in Asked : saved'[b] = data'[b]
    BY <1>3 DEF Touched, Kind
  <2>3. step = "write" /\ ok => Written' /\ \A b \in Asked : data'[b] = call.v
    BY <1>1, <1>2, <1>3 DEF Touched, Kind, Written
  <2>4. (Good(a) => ok \/ Unheard(a)) /\ (Unheard(a) => ~Ata /\ ~Scsi)
    BY <2>0, GoodFacts
  <2> QED BY <1>1, <1>2, <2>1, <2>2, <2>3, <2>4 DEF Halfway
<1> QED BY <1>5, <1>6 DEF Moved

(* When a call has ended with success in a step of Transfer.               *)
LEMMA TransferSucceeds ==
  ASSUME Inv, NEW a, NEW s, Moved(a, s), step' = "idle", ret' = "success"
  PROVE  /\ Ended(a) /\ Good(a) /\ step # "preverify"
         /\ step = "write" => ~VerifiesAfter(TRUE)
         /\ step = "read" /\ call.op = "compare" => Matches(For(Form, call.n), a)
         /\ a.status = "ok" => missed' = missed
         /\ a.status # "ok" => missed'
<1>1. step \in Moving /\ Ended(a) /\ TypeOK
  BY DEF Moved, Again, Moving, Inv
<1>2. /\ Continue(Good(a), Matches(For(Form, call.n), a)) /\ ret = "none"
      /\ missed' = (missed \/ (step = "write" /\ ~Good(a)) \/ Unheard(a))
      /\ Good(a) \in BOOLEAN /\ Matches(For(Form, call.n), a) \in BOOLEAN
  BY <1>1, GoodFacts DEF Ended, Inv, Serves, Moving, Matches
<1>3. /\ Good(a) /\ step # "preverify"
      /\ step = "write" => ~VerifiesAfter(Good(a))
      /\ step = "read" /\ call.op = "compare" => Matches(For(Form, call.n), a)
  BY <1>1, <1>2, ContinueFacts
<1>4. Good(a) = TRUE
  BY <1>2, <1>3
<1> QED BY <1>1, <1>2, <1>3, <1>4, GoodFacts DEF Inv, TypeOK

(* Only what was asked for is done, and a success is true.                 *)
LEMMA TransferDoes ==
  ASSUME Inv, NEW a, NEW s, Moved(a, s)
  PROVE  DoesWhatWasAsked'
<1> SUFFICES ASSUME InReach' PROVE DoesWhatWasAsked'
  BY DEF DoesWhatWasAsked
<1> DEFINE ok == a.status = "ok"
<1>1. /\ UNCHANGED <<drive, call>> /\ step \in Moving /\ a \in Answers /\ Answered(a, s)
      /\ ~NoSixByteForm
  BY DEF Moved
<1>2. InReach /\ Asked' = Asked /\ call.op \notin {"writeSame", "flush"}
  BY <1>1, SameCall DEF Inv, Serves, Moving
<1>3. /\ Touched(Kind(step), Asked, call.v, WithFua, ok)
      /\ Good(a) => At(Form, call.lba) = call.lba /\ For(Form, call.n) = call.n
  BY <1>1, <1>2, TransferAsked
<1>4. \A w \in wrote' : w[1] \in Asked /\ w[2] = call.v
  <2>1. \A w \in wrote : w[1] \in Asked /\ w[2] = call.v
    BY <1>2 DEF Inv, DoesWhatWasAsked, PatternLost
  <2> QED BY <1>3, <2>1 DEF Touched
<1>5. ASSUME step' = "idle", ret' = "success"
      PROVE  /\ call.op = "read" => got' = <<call.lba, call.n>>
             /\ call.op = "write" => missed' \/ \A b \in Asked : <<b, call.v>> \in wrote'
             /\ call.op = "verify" => missed' \/ Asked \cap bad' = {}
             /\ call.op = "compare" => missed' \/ \A b \in Asked : data'[b] = call.v
  <2>1. /\ Good(a) /\ step # "preverify" /\ (ok => missed' = missed) /\ (~ok => missed')
        /\ step = "read" /\ call.op = "compare" => Matches(For(Form, call.n), a)
    BY <1>5, TransferSucceeds
  <2>2. call.op = "read" => got' = <<call.lba, call.n>>
    BY <1>1, <1>3, <2>1 DEF Moved, Inv, Serves, Moving, Kind
  <2>3. call.op = "write" => missed' \/ \A b \in Asked : <<b, call.v>> \in wrote'
    <3>1. CASE step = "write"
      BY <1>3, <2>1, <3>1 DEF Touched, Kind
    <3>2. CASE step = "postverify"
      BY <1>2, <1>3, <2>1, <3>2 DEF Touched, Kind, Inv, Halfway, Written
    <3> QED BY <1>1, <2>1, <3>1, <3>2 DEF Inv, Serves, Moving
  <2>4. call.op = "verify" => missed' \/ Asked \cap bad' = {}
    BY <1>1, <1>3, <2>1 DEF Touched, Kind, Inv, Serves, Moving
  <2>5. call.op = "compare" => missed' \/ \A b \in Asked : data'[b] = call.v
    <3> SUFFICES ASSUME call.op = "compare", ok PROVE \A b \in Asked : data'[b] = call.v
      BY <2>1
    <3>1. step = "read"
      BY <1>1 DEF Inv, Serves, Moving
    <3>2. Matches(call.n, a) /\ At(Form, call.lba) = call.lba /\ Asked = Span(call.lba, call.n)
      BY <1>3, <2>1, <3>1 DEF Asked
    <3> QED BY <1>3, <3>1, <3>2 DEF Matches, Touched, Kind
  <2> QED BY <2>2, <2>3, <2>4, <2>5
<1> QED BY <1>1, <1>2, <1>4, <1>5 DEF DoesWhatWasAsked, Succeeded

(* Where FUA is asked for, it is used, or a verification goes with it.     *)
LEMMA FuaUsed ==
  ASSUME Inv, step \in {"read", "write"}, ~NoSixByteForm, Takes(Kind(step), Form), Fua
  PROVE  /\ Nvme => WithFua
         /\ Scsi /\ hacks.fua => WithFua
         /\ Ata /\ step = "write" /\ AtaFua =>
              WithFua \/ (Form = Pio /\ "multiple" \notin drive.has)
<1>1. TypeOK /\ Tried /\ Learnt /\ drive \in Drives
  BY DEF Inv, TypeOK
<1>2. Nvme => WithFua
  BY <1>1, Interfaces DEF WithFua
<1>3. ASSUME Scsi, hacks.fua PROVE WithFua
  <2>1. {"read", "write"} \X {Cdb10} \subseteq drive.forms
    BY <1>1, <1>3, DrivesAssumption DEF Learnt, Scsi
  <2>2. ~SixOnly
    BY <2>1 DEF SixOnly
  <2>3. Form # Cdb6
    BY <1>1, <1>3, <2>2, SixForm DEF Moving
  <2> QED BY <1>1, <1>3, <2>3, Interfaces DEF WithFua
<1>4. ASSUME Ata, step = "write", AtaFua
      PROVE  WithFua \/ (Form = Pio /\ "multiple" \notin drive.has)
  <2>1. Form \in {Dma, Pio} /\ ~Scsi /\ ~Nvme
    BY <1>1, <1>4, FormFacts, Interfaces
  <2>2. WithFua = (step = "write" /\ AtaFua /\ (Form = Dma \/ "multiple" \in drive.has))
    BY <1>4, <2>1 DEF WithFua
  <2> QED BY <1>4, <2>1, <2>2
<1> QED BY <1>2, <1>3, <1>4

(* What was to be saved is.                                                *)
LEMMA TransferForced ==
  ASSUME Inv, NEW a, NEW s, Moved(a, s)
  PROVE  ForcedMeansSaved'
<1> DEFINE ok == a.status = "ok"
<1>1. /\ UNCHANGED <<drive, call>> /\ step \in Moving /\ a \in Answers /\ Answered(a, s)
      /\ ~NoSixByteForm /\ TypeOK /\ Tried
  BY DEF Moved, Inv
<1>2. /\ Asked' = Asked /\ InReach' = InReach /\ Fua' = Fua
      /\ call.op # "flush" /\ Asked \subseteq Blocks
  BY <1>1, SameCall DEF Inv, Serves, Moving, Asked, Span
<1> SUFFICES ASSUME InReach, Fua, step' = "idle", ret' = "success"
             PROVE  /\ call.op = "write" => missed' \/ PioWithoutFua'
                                             \/ \A b \in Asked : saved'[b] = call.v
                    /\ call.op = "read" => missed' \/ \A b \in Asked : saved'[b] = data'[b]
  BY <1>1, <1>2 DEF ForcedMeansSaved, Succeeded
<1>0. CASE ~ok
  BY <1>0, TransferSucceeds
<1> SUFFICES ASSUME ok
             PROVE  /\ call.op = "write" => missed' \/ PioWithoutFua'
                                             \/ \A b \in Asked : saved'[b] = call.v
                    /\ call.op = "read" => \A b \in Asked : saved'[b] = data'[b]
  BY <1>0
<1>3. /\ ok /\ step # "preverify" /\ missed' = missed /\ Ended(a) /\ Good(a) = TRUE
      /\ step = "write" => ~VerifiesAfter(TRUE)
  BY <1>1, TransferSucceeds, GoodFacts
<1>4. Touched(Kind(step), Asked, call.v, WithFua, ok) /\ Takes(Kind(step), Form)
  BY <1>1, <1>3, TransferAsked, TransferTouches
<1>5. Halfway /\ Serves
  BY DEF Inv
<1>6. CASE step = "write"
  <2>1. call.op = "write" /\ Kind(step) = "write"
    BY <1>5, <1>6 DEF Serves, Kind
  <2>2. (Scsi => hacks.fua) /\ (Ata => AtaFua)
    BY <1>1, <1>3, <1>6, Interfaces DEF VerifiesAfter
  <2>3. CASE WithFua
    BY <1>3, <1>4, <2>1, <2>3 DEF Touched
  <2>4. CASE ~WithFua
    <3>1. Ata /\ AtaFua /\ Form = Pio /\ "multiple" \notin drive.has
      BY <1>1, <1>4, <1>6, <2>2, <2>4, FuaUsed, Interfaces
    <3>2. ~hacks'.dma
      <4>1. hacks'.dma = (hacks.dma /\ ~(Ata /\ ok /\ form = Pio))
        BY <1>1, <1>3, NoticedFacts DEF Ended
      <4>2. form = Pio \/ ~hacks.dma
        BY <1>1, <2>1, <3>1, Interfaces DEF Form, Tried, Undetermined, Dma, Pio, Queue
      <4> QED BY <1>3, <3>1, <4>1, <4>2
    <3>3. PioWithoutFua'
      BY <1>1, <3>1, <3>2, SameCall DEF PioWithoutFua
    <3> QED BY <2>1, <3>3
  <2> QED BY <2>3, <2>4
<1>7. CASE step = "postverify"
  BY <1>2, <1>3, <1>4, <1>5, <1>7 DEF Touched, Kind, Halfway, Serves
<1>8. CASE step = "read" /\ call.op = "read"
  <2>1. /\ data' = data /\ \A b \in Asked : saved'[b] \in {saved[b], data[b]}
        /\ WithFua => \A b \in Asked : saved'[b] = data[b]
    BY <1>2, <1>3, <1>4, <1>8 DEF Touched, Kind
  <2>2. CASE WithFua
    BY <1>8, <2>1, <2>2
  <2>3. CASE ~WithFua
    <3>1. Ata \/ (Scsi /\ ~hacks.fua)
      BY <1>1, <1>4, <1>8, <2>3, FuaUsed, Interfaces
    <3> QED BY <1>5, <1>8, <2>1, <3>1 DEF Halfway
  <2> QED BY <2>2, <2>3
<1>9. CASE call.op \notin {"read", "write"}
  BY <1>9
<1> QED BY <1>1, <1>3, <1>5, <1>6, <1>7, <1>8, <1>9 DEF Serves, Moving

LEMMA TransferInv == ASSUME Inv, Transfer PROVE Inv'
BY TransferMoves, TransferServes, TransferForms, TransferHalfway, TransferDoes, TransferForced
   DEF Inv

-----------------------------------------------------------------------------
(* The other actions.                                                      *)

(* The call before the first one, and the types of the hacks.              *)
LEMMA InitInv == ASSUME Init PROVE Inv
<1>1. data \in [Blocks -> Values] /\ saved \in [Blocks -> Values] /\ bad \in SUBSET Blocks
  BY MediaAssumption DEF Init
<1>2. /\ cached \in BOOLEAN /\ regs \in BOOLEAN /\ faults = 0 /\ wrote = {}
      /\ drive \in Drives /\ hacks = Unknown /\ sense = "none" /\ calls = 0
      /\ step = "idle" /\ form = Undetermined /\ ret = "none" /\ missed \in BOOLEAN
      /\ call = [op |-> "flush", lba |-> 0, n |-> 0, v |-> 0, flags |-> {}]
      /\ got = <<0, 0>>
  BY DEF Init
<1>3. MediumOK
  <2>1. faults \in 0..MaxFaults
    BY <1>2, MediumAssumption
  <2>2. wrote \in SUBSET (Blocks \X (Values \cup {Uncorrectable}))
    BY <1>2
  <2> QED BY <1>1, <1>2, <2>1, <2>2 DEF MediumOK
<1>4. call \in Call /\ got \in Nat \X Nat
  BY <1>2, MediumAssumption DEF Call, Ops
<1>5. hacks \in HackSet
  BY <1>2 DEF HackSet, Unknown, Sizes, Undetermined, Cdb6, Cdb10, Cdb12, Cdb16, Never
<1>6. TypeOK
  <2>1. calls \in 0..MaxCalls
    BY <1>2, LimitsAssumption
  <2> QED BY <1>2, <1>3, <1>4, <1>5, <2>1 DEF TypeOK, HackSet
<1>7. CallOK /\ Serves
  BY <1>2 DEF CallOK, Serves, NoData
<1>8. Tried
  BY <1>2 DEF Tried, Moving, Undetermined, Cdb6, Cdb10, Cdb12, Cdb16, Pio
<1>9. Learnt
  BY <1>2 DEF Learnt, Unknown, Undetermined, Cdb6, Cdb16
<1>10. Halfway /\ DoesWhatWasAsked /\ ForcedMeansSaved
  BY <1>2 DEF Halfway, DoesWhatWasAsked, ForcedMeansSaved, Succeeded
<1> QED BY <1>6, <1>7, <1>8, <1>9, <1>10 DEF Inv

(* The first step of a call.                                               *)
LEMMA FirstStepFacts ==
  ASSUME TypeOK, NEW c \in Call
  PROVE  LET s == FirstStep(c) IN
         /\ s \in {"refused", "fua", "preverify", "read", "write", "verify", "compare", "sync",
                   "same"}
         /\ s = "fua" => c.op \in {"read", "write"} /\ "fua" \in c.flags /\ Scsi
         /\ s = "preverify" => c.op = "read"
         /\ s = "read" => c.op \in {"read", "compare"} \/ (c.op = "verify" /\ Nvme)
         /\ s = "read" /\ c.op = "read" /\ "fua" \in c.flags => ~Scsi /\ ~Ata
         /\ s = "write" => c.op = "write"
         /\ s = "verify" => c.op = "verify"
         /\ s = "compare" => c.op = "compare" /\ ~Ata
         /\ s = "sync" => c.op = "flush"
         /\ s = "same" => c.op = "writeSame" /\ ~Nvme
<1>1. c.op \in Ops
  BY DEF Call
<1>2. CASE c.op = "read"
  BY <1>2 DEF FirstStep
<1>3. CASE c.op = "write"
  BY <1>3 DEF FirstStep
<1>4. CASE c.op = "verify"
  BY <1>4 DEF FirstStep
<1>5. CASE c.op = "compare"
  BY <1>5, Interfaces DEF FirstStep
<1>6. CASE c.op = "flush"
  BY <1>6 DEF FirstStep
<1>7. CASE c.op = "writeSame"
  BY <1>7 DEF FirstStep
<1> QED BY <1>1, <1>2, <1>3, <1>4, <1>5, <1>6, <1>7 DEF Ops

LEMMA BeginInv == ASSUME Inv, NEW c \in Calls, Begin(c) PROVE Inv'
<1> DEFINE s == FirstStep(c)
<1>1. TypeOK /\ Tried /\ Learnt /\ c \in Call /\ c.n \in Nat
      /\ (c.n > 0 \/ c.op \in {"flush", "writeSame"}) /\ ("noData" \in c.flags => c.v = 0)
  BY CallsAssumption DEF Inv, Call
<1>2. /\ calls' = calls + 1 /\ calls < MaxCalls /\ call' = c
      /\ step' = IF s = "refused" THEN "idle" ELSE s
      /\ ret' = IF s = "refused" THEN "notSent" ELSE "none"
      /\ form' = Undetermined /\ wrote' = {} /\ got' = <<0, 0>> /\ missed' = FALSE
      /\ UNCHANGED <<cached, data, saved, bad, regs, faults, drive, hacks, sense>>
  BY DEF Begin
<1>3. Ata' = Ata /\ Scsi' = Scsi /\ Nvme' = Nvme /\ (Fua' <=> "fua" \in c.flags)
  BY <1>2 DEF Ata, Scsi, Nvme, Fua
<1>4. Serves'
  BY <1>1, <1>2, <1>3, FirstStepFacts DEF Serves
<1>5. TypeOK'
  <2>1. MediumOK' /\ calls' \in 0..MaxCalls
    BY <1>1, <1>2, LimitsAssumption DEF TypeOK, MediumOK
  <2> QED BY <1>1, <1>2, <2>1, FirstStepFacts DEF TypeOK
<1>6. CallOK'
  BY <1>1, <1>2 DEF CallOK, NoData
<1>7. Tried'
  BY <1>2 DEF Tried, Undetermined, Cdb10, Cdb16, Pio
<1>8. Learnt'
  BY <1>1, <1>2, <1>3 DEF Learnt, SixOnly, Large, TakesAll16
<1>9. Halfway'
  BY <1>1, <1>2, <1>3, FirstStepFacts DEF Halfway
<1>10. DoesWhatWasAsked' /\ ForcedMeansSaved'
  BY <1>2 DEF DoesWhatWasAsked, ForcedMeansSaved, Succeeded
<1> QED BY <1>4, <1>5, <1>6, <1>7, <1>8, <1>9, <1>10 DEF Inv

LEMMA LearnFuaInv == ASSUME Inv, NEW works \in BOOLEAN, LearnFua(works) PROVE Inv'
<1>1. /\ TypeOK /\ Learnt /\ Serves /\ CallOK /\ hacks \in HackSet
      /\ step = "fua" /\ Scsi /\ Fua /\ ~Ata /\ ~Nvme /\ ret = "none"
      /\ call.op \in {"read", "write"}
      /\ UNCHANGED <<cached, data, saved, bad, regs, wrote, drive, calls, call, got, missed>>
  BY Interfaces DEF Inv, TypeOK, HackSet, Serves, LearnFua
<1>2. PICK fua \in BOOLEAN :
        /\ fua => "fua" \in drive.has
        /\ hacks' = [hacks EXCEPT !.fua = fua, !.fuaValid = TRUE]
        /\ GoTo(IF call.op = "write" THEN "write" ELSE IF fua THEN "read" ELSE "preverify")
  <2> DEFINE asks == ~hacks.fuaValid /\ drive.ver >= Scsi2
             fua == IF asks THEN works /\ "fua" \in drive.has ELSE hacks.fua
  <2>1. fua \in BOOLEAN /\ (fua => "fua" \in drive.has)
    BY <1>1 DEF HackSet, Learnt
  <2>2. /\ hacks' = [hacks EXCEPT !.fua = fua, !.fuaValid = TRUE]
        /\ GoTo(IF call.op = "write" THEN "write" ELSE IF fua THEN "read" ELSE "preverify")
    BY DEF LearnFua
  <2> HIDE DEF fua
  <2> QED BY <2>1, <2>2
<1>3. /\ hacks' \in HackSet /\ hacks'.rw = hacks.rw /\ hacks'.same = hacks.same
      /\ hacks'.fua = fua
  BY <1>1, <1>2 DEF HackSet
<1>4. /\ form' = Undetermined /\ ret' = ret
      /\ step' = IF call.op = "write" THEN "write" ELSE IF fua THEN "read" ELSE "preverify"
  BY <1>2 DEF GoTo
<1>5. MediumOK' /\ sense' \in {"none", "opcode", "field", "other"}
  <2>1. faults' \in 0..MaxFaults
    BY <1>1, MediumAssumption DEF LearnFua, TypeOK, MediumOK
  <2> QED BY <1>1, <2>1 DEF LearnFua, TypeOK, MediumOK
<1>6. TypeOK'
  BY <1>1, <1>3, <1>4, <1>5 DEF TypeOK, HackSet
<1>7. CallOK' /\ Serves'
  BY <1>1, <1>4 DEF CallOK, NoData, Serves, Moving
<1>8. Tried'
  BY <1>4 DEF Tried, Undetermined, Cdb10, Cdb16, Pio
<1>9. Learnt'
  BY <1>1, <1>2, <1>3, <1>4 DEF Learnt, SixOnly, Large, TakesAll16, Scsi
<1>10. Halfway'
  <2>1. step' # "postverify" /\ (step' = "read" => hacks'.fua)
    BY <1>3, <1>4
  <2>2. ~Ata'
    BY <1>1 DEF Ata
  <2> QED BY <2>1, <2>2 DEF Halfway
<1>11. DoesWhatWasAsked' /\ ForcedMeansSaved'
  <2>1. step' # "idle" /\ Asked' = Asked /\ InReach' = InReach /\ call.op # "writeSame"
    BY <1>1, <1>4, SameCall
  <2>2. ~PatternLost /\ ~PatternLost'
    BY <1>1, <2>1 DEF PatternLost
  <2>3. DoesWhatWasAsked'
    BY <1>1, <2>1, <2>2 DEF Inv, DoesWhatWasAsked, Succeeded
  <2> QED BY <2>1, <2>3 DEF ForcedMeansSaved, Succeeded
<1> QED BY <1>6, <1>7, <1>8, <1>9, <1>10, <1>11 DEF Inv

LEMMA GiveUpInv == ASSUME Inv, GiveUp PROVE Inv'
<1>1. /\ TypeOK /\ Learnt /\ CallOK /\ hacks \in HackSet /\ step \in Moving \cup {"sync"}
      /\ form' = Undetermined /\ step' = "idle" /\ ret' = "notSent"
      /\ UNCHANGED <<cached, data, saved, bad, regs, faults, wrote, drive, calls, call, got,
                     missed, sense>>
      /\ hacks' \in {hacks, [hacks EXCEPT !.sync = Never]}
      /\ call.op # "writeSame"
  BY DEF Inv, TypeOK, HackSet, GiveUp, Return, medium, Moving, Serves
<1>2. /\ hacks' \in HackSet /\ hacks'.rw = hacks.rw /\ hacks'.same = hacks.same
      /\ hacks'.fua = hacks.fua
  BY <1>1 DEF HackSet, Sizes, Never, Cdb12
<1>3. TypeOK'
  BY <1>1, <1>2 DEF TypeOK, HackSet, MediumOK
<1>4. CallOK' /\ Serves'
  BY <1>1 DEF CallOK, NoData, Serves
<1>5. Tried'
  BY <1>1 DEF Tried, Moving, Undetermined, Cdb10, Cdb16, Pio
<1>6. Learnt'
  BY <1>1, <1>2 DEF Learnt, SixOnly, Large, TakesAll16, Scsi
<1>7. Halfway' /\ ForcedMeansSaved'
  BY <1>1 DEF Halfway, ForcedMeansSaved, Succeeded
<1>8. DoesWhatWasAsked'
  <2>1. Asked' = Asked /\ InReach' = InReach /\ ~PatternLost
    BY <1>1, SameCall DEF PatternLost
  <2> QED BY <1>1, <2>1 DEF Inv, DoesWhatWasAsked, Succeeded
<1> QED BY <1>3, <1>4, <1>5, <1>6, <1>7, <1>8 DEF Inv

LEMMA FlushInv == ASSUME Inv, Flush PROVE Inv'
<1> USE DEF Undetermined, Cdb6, Cdb10, Cdb12, Cdb16, Dma, Pio, Queue, Never
<1>1. /\ TypeOK /\ Tried /\ Learnt /\ CallOK /\ hacks \in HackSet
      /\ step = "sync" /\ call.op = "flush" /\ ret = "none" /\ ~NoSixByteForm
      /\ Kind(step) = "sync" /\ UNCHANGED <<drive, calls, call, got>>
  BY DEF Inv, TypeOK, HackSet, Flush, Serves, Kind
<1>2. PICK a \in Answers, s \in {"none", "opcode", "field", "other"} :
        /\ \/ Refused("sync", Form, a, s)
           \/ Takes("sync", Form) /\ FlushAll(a) /\ s = Sense(a)
        /\ sense' = s
        /\ missed' = Unheard(a)
        /\ IF ~Good(a) /\ NextForm(Form, s) # 0
           THEN form' = NextForm(Form, s) /\ UNCHANGED <<step, ret, hacks>>
           ELSE /\ hacks' = IF Probing /\ Good(a) THEN NotedSize("sync", Form) ELSE hacks
                /\ Return(IF Good(a) THEN "success" ELSE "failure")
  BY <1>1 DEF Flush, Outcomes
<1>3. /\ MediumOK' /\ data' = data /\ bad' = bad /\ wrote' = wrote
      /\ a.status = "ok" => saved' = data
  <2>1. CASE Refused("sync", Form, a, s)
    BY <1>1, <2>1 DEF Refused, medium, MediumOK, TypeOK
  <2>2. CASE FlushAll(a)
    <3>1. faults' \in 0..MaxFaults /\ regs' \in BOOLEAN /\ cached' = cached
      BY <1>1, <2>2, MediumAssumption DEF FlushAll, Noted, MediumOK, TypeOK
    <3> QED BY <1>1, <2>2, <3>1 DEF FlushAll, MediumOK, TypeOK
  <2> QED BY <1>2, <2>1, <2>2
<1>4. /\ hacks' \in HackSet /\ hacks'.rw = hacks.rw /\ hacks'.same = hacks.same
      /\ hacks'.fua = hacks.fua
  <2>1. CASE hacks' = hacks
    BY <1>1, <2>1
  <2>2. CASE hacks' = NotedSize("sync", Form) /\ Probing
    <3>1. Form \in 2..4
      BY <1>1, <2>2, FormFacts DEF Probing, NoSixByteForm
    <3> QED BY <1>1, <2>2, <3>1 DEF NotedSize, HackSet, Sizes
  <2> QED BY <1>2, <2>1, <2>2
<1>5. \/ /\ form' = 0 /\ step' = "idle" /\ ret' \in {"success", "failure"}
         /\ ret' = "success" => a.status = "ok" \/ missed'
      \/ /\ form' = NextForm(Form, s) /\ form' # 0 /\ step' = "sync" /\ ret' = "none"
  BY <1>1, <1>2, GoodFacts DEF Return
<1>6. /\ form' \in {0, 6} \cup (1..4)
      /\ Ata => form' \in {0, 6}
      /\ Nvme => form' = 0
      /\ Scsi => form' \in 0..4
  <2>1. CASE form' = 0
    BY <2>1
  <2>2. CASE form' = NextForm(Form, s) /\ form' # 0
    BY <1>1, <2>2, FormFacts, Interfaces DEF NextForm, Probing
  <2> QED BY <1>5, <2>1, <2>2
<1>7. TypeOK'
  BY <1>1, <1>2, <1>3, <1>4, <1>5, <1>6, GoodFacts DEF TypeOK, HackSet
<1>8. CallOK' /\ Serves'
  BY <1>1, <1>5 DEF CallOK, NoData, Serves
<1>9. Tried'
  BY <1>1, <1>5, <1>6 DEF Tried, Moving, Ata, Nvme, Scsi
<1>10. Learnt'
  BY <1>1, <1>4, <1>5 DEF Learnt, SixOnly, Large, TakesAll16, Scsi
<1>11. Halfway'
  BY <1>5 DEF Halfway
<1>12. DoesWhatWasAsked'
  <2>1. Asked' = Asked /\ InReach' = InReach /\ ~PatternLost
    BY <1>1, SameCall DEF PatternLost
  <2> QED BY <1>1, <1>3, <2>1 DEF Inv, DoesWhatWasAsked, Succeeded
<1>13. ForcedMeansSaved'
  BY <1>1, <1>3, <1>5 DEF ForcedMeansSaved, Succeeded
<1> QED BY <1>7, <1>8, <1>9, <1>10, <1>11, <1>12, <1>13 DEF Inv

LEMMA CompareInv == ASSUME Inv, Compare PROVE Inv'
<1> DEFINE f == IF Nvme THEN Queue ELSE IF Short THEN Cdb10 ELSE Cdb16
           n == For(f, call.n)
           equal == \A b \in Span(At(f, call.lba), n) : data[b] = call.v
           dropped(a) == Unheard(a) \/ (Silent /\ a.status = "ok" /\ ~equal)
<1>1. /\ TypeOK /\ Tried /\ Learnt /\ CallOK /\ call.lba \in Nat /\ call.n \in Nat
      /\ step = "compare" /\ call.op = "compare" /\ ret = "none" /\ ~Ata
      /\ UNCHANGED <<drive, hacks, calls, call, got>> /\ Number = call.n
  BY DEF Inv, TypeOK, Call, Compare, Serves, Number
<1>2. PICK a \in Answers, s \in {"none", "opcode", "field", "other"} :
        /\ \/ a.status = "refused" /\ UNCHANGED medium
           \/ Execute("read", At(f, call.lba), n, 0, FALSE, a)
        /\ sense' = s
        /\ IF Scsi /\ s \in {"opcode", "field"} THEN GoTo("read")
           ELSE Return(IF (a.status = "ok" /\ equal) \/ dropped(a) THEN "success" ELSE "failure")
        /\ missed' = dropped(a)
  <2>1. PICK o \in Outcomes :
        /\ \/ o[1].status = "refused" /\ UNCHANGED medium
           \/ Execute("read", At(f, call.lba), n, 0, FALSE, o[1])
        /\ sense' = o[2]
        /\ IF Scsi /\ o[2] \in {"opcode", "field"} THEN GoTo("read")
           ELSE Return(IF (o[1].status = "ok" /\ equal) \/ dropped(o[1])
                       THEN "success" ELSE "failure")
        /\ missed' = dropped(o[1])
    BY DEF Compare
  <2> QED BY <2>1 DEF Outcomes
<1>3. At(f, call.lba) \in Nat /\ n \in Nat
  BY <1>1, FieldsAreNumbers
<1> HIDE DEF n, f, equal
<1>4. MediumOK' /\ data' = data /\ bad' = bad /\ wrote' = wrote
  <2>1. CASE a.status = "refused" /\ UNCHANGED medium
    BY <1>1, <2>1 DEF medium, MediumOK, TypeOK
  <2>2. CASE Execute("read", At(f, call.lba), n, 0, FALSE, a)
    <3>1. Touched("read", Span(At(f, call.lba), n), 0, FALSE, a.status = "ok")
      <4>1. MediumOK /\ 0 \in Values /\ n \in Int
        BY <1>1, <1>3, MediumAssumption DEF TypeOK
      <4> QED BY <1>3, <2>2, <4>1, ExecuteTouches
    <3> QED BY <3>1 DEF Touched
  <2> QED BY <1>2, <2>1, <2>2
<1>5. /\ form' = Undetermined
      /\ \/ step' = "read" /\ ret' = "none"
         \/ step' = "idle" /\ ret' \in {"success", "failure"} /\ (ret' = "success" => equal \/ missed')
  BY <1>1, <1>2 DEF GoTo, Return
<1>6. TypeOK' /\ CallOK' /\ Serves'
  BY <1>1, <1>2, <1>4, <1>5 DEF Silent, Unheard, TypeOK, CallOK, NoData, Serves
<1>7. Tried'
  BY <1>1, <1>5 DEF Tried, Undetermined, Cdb10, Cdb16, Pio
<1>8. Learnt'
  BY <1>1, <1>5 DEF Learnt, SixOnly, Large, TakesAll16, Scsi
<1>9. Halfway' /\ ForcedMeansSaved'
  BY <1>1, <1>5 DEF Halfway, ForcedMeansSaved, Succeeded
<1>10. DoesWhatWasAsked'
  <2> SUFFICES ASSUME InReach' PROVE DoesWhatWasAsked'
    BY DEF DoesWhatWasAsked
  <2>1. InReach /\ Asked' = Asked /\ Asked = Span(call.lba, call.n) /\ ~PatternLost
    BY <1>1, SameCall DEF Asked, PatternLost
  <2>2. At(f, call.lba) = call.lba /\ n = call.n
    <3> USE DEF f, n, Cdb6, Cdb10, Cdb12, Cdb16, Queue
    <3>1. CASE Nvme
      <4>1. call.n > 0 /\ call.n <= Count10
        BY <1>1, <2>1, <3>1, Interfaces DEF InReach, CallOK
      <4> QED BY <1>1, <3>1, <4>1, Uncut DEF At, For
    <3>2. CASE ~Nvme
      BY <1>1, <3>2, Uncut DEF At, For, Short
    <3> QED BY <3>1, <3>2
  <2>3. step' = "idle" /\ ret' = "success" => missed' \/ \A b \in Asked : data'[b] = call.v
    BY <1>4, <1>5, <2>1, <2>2 DEF equal
  <2>4. \A w \in wrote' : w[1] \in Asked /\ w[2] = call.v
    BY <1>4, <2>1 DEF Inv, DoesWhatWasAsked
  <2> QED BY <1>1, <2>1, <2>3, <2>4 DEF DoesWhatWasAsked, Succeeded
<1> QED BY <1>6, <1>7, <1>8, <1>9, <1>10 DEF Inv

(* WRITE SAME, after a command: what is learned, and the next form.        *)
LEMMA SameAfterFacts ==
  ASSUME TypeOK, Tried, step = "same", NEW ok \in BOOLEAN,
         NEW s \in {"none", "opcode", "field", "other"}, SameAfter(Form, ok, s)
  PROVE  /\ hacks' \in HackSet /\ hacks'.rw = hacks.rw /\ hacks'.fua = hacks.fua
         /\ hacks.zeroes => hacks'.zeroes
         /\ hacks'.same \in {hacks.same, Form} \/ (s = "opcode" /\ Form = Cdb10)
         /\ \/ /\ form' = Undetermined /\ step' = "idle"
               /\ ret' = IF ok THEN "success" ELSE "failure"
            \/ /\ step' = step /\ ret' = ret /\ Scsi /\ Form \in {Cdb10, Cdb16}
               /\ form' = Form \/ (form' = Cdb10 /\ s = "opcode")
<1> USE DEF Undetermined, Cdb6, Cdb10, Cdb12, Cdb16, Dma, Pio, Queue, Never
<1> DEFINE probing == Scsi /\ hacks.same = Undetermined
           opcode == probing /\ s = "opcode"
           field == probing /\ s = "field" /\ NoData /\ ~hacks.zeroes
           again == (opcode /\ Form = Cdb16) \/ field
<1>1. hacks \in HackSet
  BY DEF TypeOK, HackSet
<1>2. probing => Form \in {2, 4}
  <2>1. probing => Probing
    BY DEF Probing, Kind, Learned
  <2> QED BY <2>1, FormFacts
<1>3. hacks' = IF probing /\ ok
               THEN [hacks EXCEPT !.same = Form, !.zeroes = @ \/ Form = Cdb10]
               ELSE IF opcode /\ Form = Cdb10 THEN [hacks EXCEPT !.same = Never]
               ELSE IF field THEN WantsData(hacks) ELSE hacks
  BY DEF SameAfter
<1>4. IF again
      THEN form' = (IF opcode THEN Cdb10 ELSE Form) /\ UNCHANGED <<step, ret>>
      ELSE Return(IF ok THEN "success" ELSE "failure")
  BY DEF SameAfter
<1>5. /\ hacks' \in HackSet /\ hacks'.rw = hacks.rw /\ hacks'.fua = hacks.fua
      /\ hacks.zeroes => hacks'.zeroes
      /\ hacks'.same \in {hacks.same, Form} \/ (s = "opcode" /\ Form = 2)
  <2>1. CASE probing /\ ok
    <3> DEFINE z == hacks.zeroes \/ Form = Cdb10
    <3>1. hacks' = [hacks EXCEPT !.same = Form, !.zeroes = z]
      BY <1>3, <2>1
    <3>2. z \in BOOLEAN /\ (hacks.zeroes => z) /\ Form \in Sizes \ {Cdb12}
      BY <1>2, <2>1 DEF Sizes
    <3> HIDE DEF z
    <3> QED BY <1>1, <3>1, <3>2 DEF HackSet
  <2>2. CASE ~(probing /\ ok) /\ opcode /\ Form = Cdb10
    <3>1. hacks' = [hacks EXCEPT !.same = Never]
      BY <1>3, <2>2
    <3> QED BY <1>1, <2>2, <3>1 DEF HackSet, Sizes
  <2>3. CASE ~(probing /\ ok) /\ ~(opcode /\ Form = Cdb10) /\ field
    <3>1. hacks' = [hacks EXCEPT !.zeroes = TRUE]
      BY <1>3, <2>3 DEF WantsData
    <3> QED BY <1>1, <3>1 DEF HackSet
  <2>4. CASE ~(probing /\ ok) /\ ~(opcode /\ Form = Cdb10) /\ ~field
    <3>1. hacks' = hacks
      BY <1>3, <2>4
    <3> QED BY <1>1, <3>1
  <2> QED BY <2>1, <2>2, <2>3, <2>4
<1>6. CASE again
  BY <1>2, <1>4, <1>5, <1>6
<1>7. CASE ~again
  BY <1>4, <1>5, <1>7 DEF Return
<1> QED BY <1>6, <1>7

LEMMA WriteSameInv == ASSUME Inv, WriteSame PROVE Inv'
<1> USE DEF Undetermined, Cdb6, Cdb10, Cdb12, Cdb16, Dma, Pio, Queue, Never
<1> DEFINE f == Form
           n == ToTheEnd(f, For(f, Number))
           S == Span(At(f, call.lba), n)
<1>1. /\ TypeOK /\ Tried /\ Learnt /\ CallOK /\ step = "same" /\ call.op = "writeSame"
      /\ ~Nvme /\ ret = "none" /\ UNCHANGED <<drive, calls, call, got, missed>>
      /\ call.lba \in Nat /\ call.n \in Nat /\ call.v \in Values
  BY DEF Inv, TypeOK, Call, WriteSame, Serves
<1>2. PICK a \in Answers, s \in {"none", "opcode", "field", "other"} :
        /\ \/ /\ a.status = "refused" /\ UNCHANGED medium
              /\ s = "opcode" => ~Takes("same", f)
           \/ Execute("write", At(f, call.lba), n, Pattern(f), FALSE, a) /\ s # "opcode"
        /\ sense' = s
        /\ SameAfter(f, a.status = "ok", s)
  <2>1. PICK o \in Outcomes :
        /\ \/ /\ o[1].status = "refused" /\ UNCHANGED medium
              /\ o[2] = "opcode" => ~Takes("same", f)
           \/ Execute("write", At(f, call.lba), n, Pattern(f), FALSE, o[1])
                /\ o[2] = Sense(o[1])
        /\ sense' = o[2]
        /\ SameAfter(f, o[1].status = "ok", o[2])
    BY DEF WriteSame, Refused
  <2> QED BY <2>1 DEF Outcomes, Sense
<1>3. At(f, call.lba) \in Nat /\ n \in Int /\ Pattern(f) \in Values
  <2>0. Number \in Nat
    BY <1>1, LimitsAssumption DEF Number
  <2>1. At(f, call.lba) \in Nat /\ For(f, Number) \in Nat
    BY <1>1, <2>0, FieldsAreNumbers
  <2> QED BY <1>1, <2>1, MediumAssumption, LimitsAssumption DEF ToTheEnd, Pattern
<1> DEFINE ok == a.status = "ok"
<1>4. /\ hacks' \in HackSet /\ hacks'.rw = hacks.rw /\ hacks'.fua = hacks.fua
      /\ hacks.zeroes => hacks'.zeroes
      /\ hacks'.same \in {hacks.same, f} \/ (s = "opcode" /\ f = 2)
      /\ \/ form' = 0 /\ step' = "idle" /\ ret' = IF ok THEN "success" ELSE "failure"
         \/ /\ step' = step /\ ret' = ret /\ Scsi /\ f \in {2, 4}
            /\ form' = f \/ (form' = 2 /\ s = "opcode")
  BY <1>1, <1>2, SameAfterFacts
<1>5. Touched("write", S, Pattern(f), FALSE, ok)
  <2>1. MediumOK
    BY <1>1 DEF TypeOK
  <2>2. CASE a.status = "refused" /\ UNCHANGED medium
    BY <2>1, <2>2, NothingTouched
  <2>3. CASE Execute("write", At(f, call.lba), n, Pattern(f), FALSE, a)
    <3> HIDE DEF n, f
    <3> QED BY <1>3, <2>1, <2>3, ExecuteTouches
  <2> QED BY <1>2, <2>2, <2>3
<1>6. s = "opcode" => ~Takes("same", f)
  BY <1>2
<1> HIDE DEF f, n, S, ok
<1>7. TypeOK'
  <2>1. form' \in {0, 2, 4} /\ step' \in {"idle", "same"}
        /\ ret' \in {"none", "success", "failure"}
    BY <1>1, <1>4
  <2>2. MediumOK'
    BY <1>5 DEF Touched
  <2> QED BY <1>1, <1>2, <1>4, <2>1, <2>2 DEF TypeOK, HackSet
<1>8. CallOK' /\ Serves'
  BY <1>1, <1>4 DEF CallOK, NoData, Serves, Nvme
<1>9. Tried'
  <2>1. Scsi' = Scsi /\ Ata' = Ata /\ Nvme' = Nvme
    BY <1>1, SameCall
  <2>2. step' \notin Moving /\ (form' = 0 \/ (Scsi /\ form' \in {2, 4}))
    BY <1>1, <1>4 DEF Moving
  <2> QED BY <1>1, <2>1, <2>2, Interfaces DEF Tried
<1>10. Learnt'
  <2>1. Scsi /\ Large /\ TakesAll16 => f = 4 /\ s # "opcode"
    <3> SUFFICES ASSUME Scsi, Large, TakesAll16 PROVE f = 4 /\ s # "opcode"
      OBVIOUS
    <3>1. f = 4
      BY <1>1, LargeForm DEF f
    <3>2. Takes("same", 4)
      BY DEF Takes, TakesAll16
    <3> QED BY <1>6, <3>1, <3>2
  <2> QED BY <1>1, <1>4, <2>1 DEF Learnt, SixOnly, Large, TakesAll16, Scsi
<1>11. Halfway' /\ ForcedMeansSaved'
  BY <1>1, <1>4 DEF Halfway, ForcedMeansSaved, Succeeded
<1>12. DoesWhatWasAsked'
  <2> SUFFICES ASSUME InReach' PROVE DoesWhatWasAsked'
    BY DEF DoesWhatWasAsked
  <2>1. InReach /\ Asked' = Asked
    BY <1>1, SameCall
  <2>2. S \subseteq Asked /\ \A b \in Asked \ S : Past256(b)
    <3>1. At(f, call.lba) = call.lba /\ For(f, Number) = call.n
      BY <1>1, <2>1, WholeSame DEF f
    <3>2. CASE call.n = 0
      <4>1. Asked = {b \in Blocks : b >= call.lba}
        BY <1>1, <3>2 DEF Asked
      <4>2. CASE LegacySame
        <5>1. S = Span(call.lba, Count6)
          BY <3>1, <3>2, <4>2 DEF S, n, ToTheEnd
        <5> QED BY <1>1, <3>2, <4>1, <4>2, <5>1, LimitsAssumption DEF Span, Past256, Blocks
      <4>3. CASE ~LegacySame
        <5>1. S = Span(call.lba, Last + 1 - call.lba)
          BY <3>1, <3>2, <4>3 DEF S, n, ToTheEnd
        <5>2. \A b \in Blocks : b < call.lba + (Last + 1 - call.lba)
          BY <1>1, MediumAssumption DEF Blocks
        <5> QED BY <4>1, <5>1, <5>2 DEF Span
      <4> QED BY <4>2, <4>3
    <3>3. CASE call.n # 0
      BY <3>1, <3>3 DEF S, n, ToTheEnd, Asked
    <3> QED BY <3>2, <3>3
  <2>3. PatternLost => PatternLost'
    BY <1>1, <1>4 DEF PatternLost, Scsi, NoData
  <2>4. Pattern(f) = call.v \/ PatternLost
    <3>1. CASE NoData
      BY <1>1, <3>1 DEF Pattern, CallOK
    <3>2. CASE ~NoData
      BY <1>1, <3>2 DEF Pattern, ZeroBlock, PatternLost
    <3> QED BY <3>1, <3>2
  <2>5. ASSUME NEW w \in wrote' PROVE w[1] \in Asked /\ (w[2] = call.v \/ PatternLost')
    <3>1. w \in wrote \/ w \in S \X {Pattern(f)}
      BY <1>5 DEF Touched
    <3>2. w \in wrote => w[1] \in Asked /\ (w[2] = call.v \/ PatternLost)
      BY <2>1 DEF Inv, DoesWhatWasAsked
    <3> QED BY <2>2, <2>3, <2>4, <3>1, <3>2
  <2>6. step' = "idle" /\ ret' = "success" =>
          PatternLost' \/ \A b \in Asked : <<b, call.v>> \in wrote' \/ Past256(b)'
    <3> SUFFICES ASSUME step' = "idle", ret' = "success", ~PatternLost'
                 PROVE  \A b \in Asked : <<b, call.v>> \in wrote' \/ Past256(b)'
      OBVIOUS
    <3>1. ok
      BY <1>1, <1>4
    <3>2. Pattern(f) = call.v
      BY <2>3, <2>4
    <3>3. \A b : Past256(b)' = Past256(b)
      BY <1>1, <2>1 DEF Past256, LegacySame, Ata
    <3> QED BY <1>5, <2>2, <3>1, <3>2, <3>3 DEF Touched
  <2> QED BY <1>1, <2>1, <2>5, <2>6 DEF DoesWhatWasAsked, Succeeded
<1> QED BY <1>7, <1>8, <1>9, <1>10, <1>11, <1>12 DEF Inv

(* Every step keeps the invariant.                                         *)
LEMMA NextInv == ASSUME Inv, [Next]_vars PROVE Inv'
<1>1. CASE \E works \in BOOLEAN : LearnFua(works)
  BY <1>1, LearnFuaInv
<1>2. CASE Transfer
  BY <1>2, TransferInv
<1>3. CASE Flush
  BY <1>3, FlushInv
<1>4. CASE Compare
  BY <1>4, CompareInv
<1>5. CASE WriteSame
  BY <1>5, WriteSameInv
<1>6. CASE GiveUp
  BY <1>6, GiveUpInv
<1>7. CASE \E c \in Calls : Begin(c)
  BY <1>7, BeginInv
<1>8. CASE UNCHANGED vars
  <2>1. UNCHANGED <<cached, data, saved, bad, regs, faults, wrote, drive, hacks, calls, call,
                    got, missed, sense, step, form, ret>>
    BY <1>8 DEF vars, medium, session
  <2>2. /\ Asked' = Asked /\ InReach' = InReach /\ Fua' = Fua /\ NoData' = NoData
        /\ Ata' = Ata /\ Scsi' = Scsi /\ Nvme' = Nvme /\ AtaFua' = AtaFua
    BY <2>1, SameCall
  <2>3. TypeOK' /\ CallOK' /\ Serves'
    BY <2>1, <2>2 DEF Inv, TypeOK, MediumOK, CallOK, Serves
  <2>4. Tried'
    BY <2>1, <2>2 DEF Inv, Tried, Probing, Learned, Kind, Takes
  <2>5. Learnt'
    BY <2>1, <2>2 DEF Inv, Learnt, SixOnly, Large, TakesAll16
  <2>6. Halfway'
    BY <2>1, <2>2 DEF Inv, Halfway, Written
  <2>7. DoesWhatWasAsked'
    BY <2>1, <2>2 DEF Inv, DoesWhatWasAsked, PatternLost, Succeeded, Past256, LegacySame
  <2>8. ForcedMeansSaved'
    BY <2>1, <2>2 DEF Inv, ForcedMeansSaved, PioWithoutFua, Succeeded
  <2> QED BY <2>3, <2>4, <2>5, <2>6, <2>7, <2>8 DEF Inv
<1> QED BY <1>1, <1>2, <1>3, <1>4, <1>5, <1>6, <1>7, <1>8 DEF Next, GoOn

-----------------------------------------------------------------------------
(* The theorems.                                                           *)

(* The invariant holds in every behaviour.                                 *)
THEOREM Invariance == Spec => []Inv
<1>1. Init => Inv
  BY InitInv
<1>2. Inv /\ [Next]_vars => Inv'
  BY NextInv
<1> QED BY <1>1, <1>2, PTL DEF Spec

(* Every variable keeps its type; what is learned of a drive is one of the *)
(* forms the code has (cmds.c).                                            *)
THEOREM TypeCorrect == Spec => []TypeOK
<1>1. Inv => TypeOK
  BY DEF Inv
<1> QED BY <1>1, Invariance, PTL

(* Whatever was learned from earlier calls, a later one acts on its blocks *)
(* and no others, and its success is true, within reach of the forms that  *)
(* may be learned (determine_scsi_read_write_cmd and those it serves; of   *)
(* WRITE SAME, with a count of no more than 32 bits), but for the cases    *)
(* the property names: a pattern replaced by zeros, a failed write hidden  *)
(* by its verification, a failure an NVMe pass-through drops, and what an  *)
(* ATA WRITE SAME without a count leaves out.                              *)
THEOREM WhatWasAsked == Spec => []DoesWhatWasAsked
<1>1. Inv => DoesWhatWasAsked
  BY DEF Inv
<1> QED BY <1>1, Invariance, PTL

(* A read or write with FUA that succeeds has its blocks on the medium, by *)
(* the FUA bit or by the verification in its place; a flush all of them    *)
(* (read_LBA, write_LBA, flush_Cache); but for a hidden or dropped failure *)
(* and for PIO writes without FUA.                                         *)
THEOREM ForcedSaved == Spec => []ForcedMeansSaved
<1>1. Inv => ForcedMeansSaved
  BY DEF Inv
<1> QED BY <1>1, Invariance, PTL
=============================================================================
