----------------------- MODULE FirmwareActivateProofs -----------------------
(***************************************************************************)
(* Proofs about FirmwareActivate, for every number of calls and images.    *)
(*                                                                         *)
(* The inductive invariant says what the call under way has done so far:   *)
(* before each commit no image was taken and no reset sent (Fresh), the    *)
(* second commit is one on reset after the drive ran out of time (Second), *)
(* a reset follows a commit that was taken, or whose refusal nobody heard  *)
(* of, and SUCCESS is promised before the reset only where the drive waits *)
(* for one (BeforeReset).                                                  *)
(***************************************************************************)
EXTENDS FirmwareActivate, TLAPS

(* Only firmware_Download_Command takes options; the commit action of a    *)
(* WRITE BUFFER command is chosen by what the drive can do.                *)
OptionsInv ==
  /\ call.op # "activate" => ~call.noReset /\ ~call.force
  /\ call.op \in {"write05", "write0F"} =>
       call.action \in {"immediate", "replaceOnReset"}
  /\ pc = "image" => call.op \in {"download", "write05", "write0E"}

Fresh == pc \in {"image", "commit", "again"} => accepted = {} /\ sent = {}

Second ==
  pc = "again" =>
    /\ call.op = "activate" /\ call.action \in OnReset
    /\ ~call.force /\ ~reset.issue

(* The image taken into the slot, and what the drive needs to run it.      *)
Pending ==
  /\ accepted # {} /\ accepted \subseteq {drive.slot} \X {"commit", "again"}
  /\ drive.needs # "nothing"

BeforeReset ==
  pc = "reset" =>
    /\ sent = {} /\ ~call.noReset
    /\ accepted # {} \/ call.badSlot \/ misread
    /\ ret \in {"success", "failure"}
    /\ ret = "success" => Pending \/ Unheard

Inv ==
  /\ TypeOK
  /\ OptionsInv /\ Fresh /\ Second /\ BeforeReset
  /\ ResetIsWarranted /\ AcceptedOnce /\ SuccessMeansRunning /\ PowerCycleActivates

-----------------------------------------------------------------------------
(* The invariant holds before the first call.                              *)
LEMMA InitInv == Init => Inv
<1> SUFFICES ASSUME Init PROVE Inv
  OBVIOUS
<1>1. drive \in Drive /\ images \in Images /\ calls \in 0..MaxCalls
  BY BoundsAssumption DEF Init, Drive, Images
<1>2. call \in Call /\ device \in Device /\ ret \in Results
  BY DEF Init, Call, Ops, Actions, OnReset, Results
<1>3. TypeOK
  BY <1>1, <1>2 DEF Init, TypeOK
<1> QED BY <1>3 DEF Init, Inv, OptionsInv, Fresh, Second, BeforeReset,
           ResetIsWarranted, AcceptedOnce, SuccessMeansRunning, PowerCycleActivates

(* A new call forgets what the last one did, and keeps the invariant.      *)
LEMMA BeginInv == ASSUME Inv, NEW c \in Call, Begin(c) PROVE Inv'
<1>1. TypeOK'
  <2>1. calls' \in 0..MaxCalls
    BY BoundsAssumption DEF Inv, TypeOK, Begin
  <2>2. pc' \in {"idle", "image", "commit", "again", "reset"} /\ ret' \in Results
    BY DEF Begin, Results
  <2>3. reset' \in [issue: BOOLEAN, subsystem: BOOLEAN] /\ call' \in Call
    BY DEF Begin
  <2> QED BY <2>1, <2>2, <2>3 DEF Inv, TypeOK, Begin
<1>2. OptionsInv'
  BY DEF Inv, TypeOK, Begin, OptionsInv, ChosenAction, Call, Ops
<1> QED BY <1>1, <1>2 DEF Inv, Begin, Fresh, Second, BeforeReset, ResetIsWarranted,
           AcceptedOnce, SuccessMeansRunning, PowerCycleActivates

(* Downloading an image keeps the invariant: nothing was committed yet.    *)
LEMMA SendImageInv ==
  ASSUME Inv, NEW s \in Statuses, NEW h \in Heard, SendImage(s, h) PROVE Inv'
<1>1. images' \in Images /\ drive' \in Drive
  BY BoundsAssumption DEF Inv, TypeOK, SendImage, Images, Drive
<1>2. device' \in Device /\ gone' \in BOOLEAN /\ misread' \in BOOLEAN
  BY DEF Inv, TypeOK, SendImage, Hear, Heard, Device
<1>3. /\ pc' \in {"idle", "commit"} /\ ret' \in Results
      /\ accepted' = {} /\ sent' = {} /\ call' = call
      /\ pc' = "idle" => ret' = "failure" \/ (ret' = "success" /\ call.op # "write05")
  BY DEF Inv, TypeOK, SendImage, Return, Results, Fresh
<1>4. TypeOK'
  BY <1>1, <1>2, <1>3 DEF Inv, TypeOK, SendImage
<1>5. pc' = "idle" /\ ret' = "success" => call.op \in {"download", "write0E"}
  BY DEF Inv, OptionsInv, SendImage, Return
<1> QED BY <1>3, <1>4, <1>5 DEF Inv, OptionsInv, Fresh, Second, BeforeReset,
           ResetIsWarranted, AcceptedOnce, SuccessMeansRunning, PowerCycleActivates

-----------------------------------------------------------------------------
(* The commit.                                                             *)

(* The image of a commit is one of the downloaded images, or none.         *)
LEMMA ImageType == ASSUME TypeOK, NEW a PROVE Image(a) \in Images
  BY DEF TypeOK, Drive, Image

(* The drive is well formed after a commit.                                *)
LEMMA CommittedType ==
  ASSUME TypeOK, NEW a, NEW s PROVE Committed(a, s) \in Drive
<1>1. drive.needs \in {"nothing", "controller", "conventional", "subsystem"}
      /\ drive.staged \in Images /\ drive.running \in Images
  BY DEF TypeOK, Drive
<1>2. Needs(a, s) \in {"nothing", "controller", "conventional", "subsystem"}
  BY <1>1 DEF Needs
<1>3. 0 \in Images
  BY BoundsAssumption DEF Images
<1> QED BY <1>1, <1>2, <1>3, ImageType DEF Committed, Drive

(* The images taken in a call are all the one in the slot.                 *)
IsTheSlot(taken, slot) ==
  /\ taken # {} /\ taken \subseteq {slot} \X {"commit", "again"}
  /\ \A x \in taken : x[1] = slot

(* One image taken by one commit is in the slot.                           *)
LEMMA OneTaken ==
  ASSUME NEW slot, NEW p \in {"commit", "again"} PROVE IsTheSlot({<<slot, p>>}, slot)
  BY DEF IsTheSlot

(* What the library may hear of an answer.                                 *)
LEMMA HearsFacts ==
  ASSUME NEW s \in Statuses, NEW h \in Heard, Hear(s, h)
  PROVE  /\ ~h.ok => h.status = "failed" \/ gone'
         /\ h.ok => (h.status = s /\ s # "failed") \/ (h.status = "ok" /\ misread')
         /\ h.status \in {"ok", "failed"} \/ (h.status = s /\ h.ok)
<1>1. h \in {NoStatus, Lost, Exact("failed"), Exact(s)}
  BY DEF Hear, Hears
<1>2. CASE h = Exact(s)
  BY <1>2 DEF Exact
<1>3. CASE h # Exact(s)
  <2>1. /\ ~h.ok => gone'
        /\ h.ok => misread'
    BY <1>3 DEF Hear
  <2>2. h.status \in {"ok", "failed"} /\ (h.ok => h.status = "ok")
    <3>1. CASE h = NoStatus
      BY <3>1 DEF NoStatus, Exact
    <3>2. CASE h = Lost
      BY <3>2 DEF Lost
    <3>3. CASE h = Exact("failed")
      BY <3>3 DEF Exact
    <3> QED BY <1>1, <1>3, <3>1, <3>2, <3>3
  <2> QED BY <2>1, <2>2
<1> QED BY <1>2, <1>3

(* What is known after a commit that is the first to be taken: it says     *)
(* which image is in the slot, and what its status stands for.             *)
LEMMA CommitFacts ==
  ASSUME TypeOK, accepted = {}, pc \in {"commit", "again"},
         NEW s \in Statuses, NEW h \in Heard, CommitSent(s, h)
  PROVE  /\ device' \in Device /\ drive' \in Drive
         /\ gone' \in BOOLEAN /\ misread' \in BOOLEAN
         /\ accepted' \subseteq (Images \X {"commit", "again"})
         /\ AcceptedOnce'
         /\ device'.status = h.status
         /\ h.ok => ~call.badSlot
         /\ ~call.badSlot =>
              /\ ~h.ok => h.status = "failed" \/ gone'
              /\ h.ok => (h.status = s /\ s # "failed") \/ (h.status = "ok" /\ misread')
              /\ h.status \in {"ok", "failed"} \/ (h.status = s /\ h.ok)
         /\ ~call.badSlot /\ s = "maxTime" => call.action = "immediate"
         /\ ~call.badSlot /\ s \in Asks => call.action # "replace"
         /\ call.badSlot \/ s \notin {"ok"} \cup Asks => accepted' = {}
         /\ ~call.badSlot /\ s \in {"ok"} \cup Asks =>
              /\ IsTheSlot(accepted', drive'.slot)
              /\ drive'.needs = Needs(call.action, s)
              /\ call.action = "immediate" /\ s = "ok" => drive'.running = drive'.slot
<1>1. CASE call.badSlot
  BY <1>1 DEF CommitSent, TypeOK, AcceptedOnce
<1>2. CASE ~call.badSlot
  <2>1. Hear(s, h)
    BY <1>2 DEF CommitSent
  <2>2. device' \in Device /\ device'.status = h.status
    BY <2>1 DEF Hear, TypeOK, Device, Heard
  <2>3. drive' \in Drive
    BY <1>2, CommittedType DEF CommitSent, TypeOK
  <2>4. gone' \in BOOLEAN /\ misread' \in BOOLEAN
    BY <2>1 DEF Hear, TypeOK, Heard
  <2>5. /\ s = "maxTime" => call.action = "immediate"
        /\ s \in Asks => call.action # "replace"
    BY <1>2 DEF CommitSent, Answers, Takes, Asks
  <2>6. CASE Takes(call.action, s)
    <3>1. drive' = Committed(call.action, s) /\ accepted' = {<<Image(call.action), pc>>}
      BY <1>2, <2>6 DEF CommitSent
    <3>2. drive'.slot = Image(call.action) /\ drive'.needs = Needs(call.action, s)
          /\ (call.action = "immediate" /\ s = "ok" => drive'.running = Image(call.action))
      BY <3>1 DEF Committed
    <3>3. accepted' \subseteq (Images \X {"commit", "again"}) /\ AcceptedOnce'
      BY <3>1, ImageType DEF AcceptedOnce
    <3>4. IsTheSlot(accepted', drive'.slot)
      BY <3>1, <3>2, OneTaken
    <3>5. s \in {"ok"} \cup Asks
      BY <2>6 DEF Takes
    <3> QED BY <1>2, <2>1, <2>2, <2>3, <2>4, <2>5, <3>2, <3>3, <3>4, <3>5, HearsFacts
  <2>7. CASE ~Takes(call.action, s)
    <3>1. accepted' = {} /\ s \notin {"ok"} \cup Asks
      BY <1>2, <2>7 DEF CommitSent, Answers, Asks
    <3> QED BY <1>2, <2>1, <2>2, <2>3, <2>4, <2>5, <3>1, HearsFacts DEF AcceptedOnce
  <2> QED BY <2>6, <2>7
<1> QED BY <1>1, <1>2 DEF TypeOK, Call

(* A reset that is asked for makes the drive need one.                     *)
LEMMA AsksNeed ==
  ASSUME NEW a, NEW s, a # "replace", s \in Asks \/ a \in OnReset
  PROVE  Needs(a, s) \in {"controller", "conventional", "subsystem"}
  BY DEF Needs, Asks, OnReset

(* The end of a call to firmware_Download_Command, after its last commit.  *)
LEMMA FinishInv ==
  ASSUME Inv, pc \in {"commit", "again"}, call.op = "activate",
         NEW s \in Statuses, NEW h \in Heard, CommitSent(s, h),
         NEW r \in [issue: BOOLEAN, subsystem: BOOLEAN],
         h.status \in Asks => r.issue,
         r.issue => h.status \in Asks \/ (h.ok /\ call.action \in OnReset),
         ~call.badSlot /\ h.status = "maxTime" => call.force,
         Finish(r, call.action, h.ok),
         reset' = r, UNCHANGED <<call, calls, images, sent>>
  PROVE  Inv'
<1>1. accepted = {} /\ sent = {} /\ call \in Call
  BY DEF Inv, Fresh, TypeOK
<1> DEFINE taken == ~call.badSlot /\ s \in {"ok"} \cup Asks
<1>2. /\ device' \in Device /\ drive' \in Drive
      /\ gone' \in BOOLEAN /\ misread' \in BOOLEAN
      /\ accepted' \subseteq (Images \X {"commit", "again"})
      /\ AcceptedOnce'
      /\ device'.status = h.status
      /\ h.ok => ~call.badSlot
      /\ ~call.badSlot =>
           /\ ~h.ok => h.status = "failed" \/ gone'
           /\ h.ok => (h.status = s /\ s # "failed") \/ (h.status = "ok" /\ misread')
           /\ h.status \in {"ok", "failed"} \/ (h.status = s /\ h.ok)
      /\ ~call.badSlot /\ s = "maxTime" => call.action = "immediate"
      /\ ~call.badSlot /\ s \in Asks => call.action # "replace"
      /\ ~taken => accepted' = {}
      /\ taken => /\ IsTheSlot(accepted', drive'.slot)
                  /\ drive'.needs = Needs(call.action, s)
                  /\ call.action = "immediate" /\ s = "ok" => drive'.running = drive'.slot
  BY <1>1, CommitFacts DEF Inv
<1>3. taken /\ (s \in Asks \/ call.action \in OnReset) => Pending'
  <2> SUFFICES ASSUME taken, s \in Asks \/ call.action \in OnReset PROVE Pending'
    OBVIOUS
  <2>1. call.action # "replace"
    BY <1>2 DEF OnReset
  <2>2. Needs(call.action, s) # "nothing"
    BY <2>1, AsksNeed
  <2> QED BY <1>2, <2>2 DEF Pending, IsTheSlot
<1>4. /\ s \in Asks \cup {"ok", "maxTime", "failed"}
      /\ call.action \in {"replace", "immediate"} \cup OnReset
  BY <1>1 DEF Statuses, Call, Actions
<1>5. /\ pc' \in {"idle", "reset"} /\ ret' \in {"success", "failure", "powerCycle"}
      /\ ret' = "success" => h.ok
  BY DEF Finish, Return
<1>6. TypeOK'
  BY <1>2, <1>5 DEF Inv, TypeOK, Results
<1>7. ~call.badSlot /\ h.ok /\ call.action \in OnReset =>
        taken \/ (misread' /\ accepted' = {})
  BY <1>2, <1>4 DEF OnReset
<1>8. CASE MayReset(r)
  <2>1. pc' = "reset" /\ ~call.noReset /\ ret' \in {"success", "failure"} /\ r.issue
    BY <1>8 DEF Finish, MayReset
  <2>2. h.status \in Asks /\ ~call.badSlot => taken /\ s \in Asks
    BY <1>2 DEF Asks
  <2>3. accepted' # {} \/ call.badSlot \/ misread'
    BY <1>2, <1>7, <2>1, <2>2 DEF IsTheSlot
  <2>4. ret' = "success" => Pending' \/ Unheard'
    BY <1>2, <1>3, <1>5, <1>7, <2>1, <2>2 DEF Unheard
  <2>5. BeforeReset'
    BY <1>1, <2>1, <2>3, <2>4 DEF BeforeReset
  <2> QED BY <1>1, <1>2, <1>6, <2>1, <2>5 DEF Inv, OptionsInv, Fresh, Second,
             ResetIsWarranted, SuccessMeansRunning, PowerCycleActivates
<1>9. CASE ~MayReset(r)
  <2>1. /\ pc' = "idle"
        /\ ret' = "powerCycle" <=> call.action # "immediate"
    BY <1>9 DEF Finish, Return, NeedsPowerCycle
  <2>2. PowerCycleActivates'
    <3> SUFFICES ASSUME call.action \in OnReset, h.status # "failed", ~gone', ~call.badSlot,
                        ~(misread' /\ accepted' = {})
                 PROVE  Pending'
      BY <1>2, <1>4, <2>1 DEF PowerCycleActivates, Pending
    <3> QED BY <1>2, <1>3, <1>7
  <2>3. SuccessMeansRunning'
    <3> SUFFICES ASSUME h.ok, call.action = "immediate", ~misread'
                 PROVE  SuccessMeansRunning'
      BY <1>2, <1>5, <2>1 DEF SuccessMeansRunning, Unheard
    <3>1. ~call.badSlot /\ h.status = s /\ s # "failed"
      BY <1>2
    <3>2. CASE s = "ok"
      BY <1>2, <3>1, <3>2 DEF SuccessMeansRunning, IsTheSlot
    <3>3. CASE s \in Asks
      <4>1. r.issue /\ call.noReset
        BY <1>9, <3>1, <3>3 DEF MayReset
      <4> QED BY <1>2, <3>1, <3>3, <4>1 DEF SuccessMeansRunning, Forbidden
    <3>4. CASE s = "maxTime"
      BY <1>2, <3>1, <3>4 DEF SuccessMeansRunning, Unretried
    <3> QED BY <1>4, <3>1, <3>2, <3>3, <3>4
  <2> QED BY <1>1, <1>2, <1>6, <2>1, <2>2, <2>3 DEF Inv, OptionsInv, Fresh, Second,
             BeforeReset, ResetIsWarranted
<1> QED BY <1>8, <1>9

(* The first commit of firmware_Download_Command keeps the invariant: it   *)
(* is the last of the call, or the drive took nothing from it.             *)
LEMMA ActivateInv ==
  ASSUME Inv, NEW s \in Statuses, NEW h \in Heard, Activate(s, h)
  PROVE  Inv'
<1> DEFINE r == Issue(h.status, h.ok /\ call.action \in OnReset /\ ~call.noReset)
<1>1. /\ pc = "commit" /\ call.op = "activate" /\ CommitSent(s, h)
      /\ reset' = r /\ UNCHANGED <<calls, images, sent>>
      /\ accepted = {} /\ sent = {} /\ call \in Call /\ h.ok \in BOOLEAN
  BY DEF Activate, Inv, Fresh, TypeOK, Heard
<1>2. /\ r \in [issue: BOOLEAN, subsystem: BOOLEAN]
      /\ r.issue <=> h.status \in Asks \/ (h.ok /\ call.action \in OnReset /\ ~call.noReset)
  BY DEF Issue, Asks
<1>3. CASE TriesAgain(h.status)
  <2>1. h.status = "maxTime" /\ ~call.force /\ h.status \notin {"ok"} \cup Asks
    BY <1>3 DEF TriesAgain, Asks
  <2>2. /\ pc' = "again" /\ UNCHANGED ret
        /\ call' = [call EXCEPT !.action = RetryAction] /\ RetryAction \in OnReset
    BY <1>3 DEF Activate, RetryAction, OnReset
  <2>3. /\ device' \in Device /\ drive' \in Drive
        /\ gone' \in BOOLEAN /\ misread' \in BOOLEAN /\ accepted' = {}
        /\ h.ok => call.action = "immediate"
    BY <1>1, <2>1, CommitFacts DEF Inv, Asks
  <2>4. ~r.issue
    BY <1>2, <2>1, <2>3 DEF OnReset
  <2>5. call' \in Call /\ call'.op = "activate" /\ call'.force = call.force
        /\ call'.action \in OnReset
    BY <1>1, <2>2 DEF Call, Actions, OnReset
  <2>6. TypeOK'
    BY <1>1, <1>2, <2>2, <2>3, <2>5 DEF Inv, TypeOK
  <2> QED BY <1>1, <2>1, <2>2, <2>3, <2>4, <2>5, <2>6 DEF Inv, OptionsInv, Fresh, Second,
             BeforeReset, ResetIsWarranted, AcceptedOnce, SuccessMeansRunning,
             PowerCycleActivates
<1>4. CASE ~TriesAgain(h.status)
  <2>1. Finish(r, call.action, h.ok) /\ UNCHANGED call
    BY <1>4 DEF Activate
  <2>2. h.status = "maxTime" => call.force
    BY <1>4 DEF TriesAgain
  <2> QED BY <1>1, <1>2, <2>1, <2>2, FinishInv
<1> QED BY <1>3, <1>4

(* The second commit keeps the invariant.                                  *)
LEMMA ActivateAgainInv ==
  ASSUME Inv, NEW s \in Statuses, NEW h \in Heard, ActivateAgain(s, h)
  PROVE  Inv'
<1> DEFINE r == [Issue(h.status, reset.issue) EXCEPT !.subsystem = @ \/ reset.subsystem]
<1>1. /\ pc = "again" /\ CommitSent(s, h)
      /\ Finish(Issue(h.status, reset.issue), call.action, h.ok)
      /\ reset' = r /\ UNCHANGED <<call, calls, images, sent>>
      /\ accepted = {} /\ call.action \in OnReset /\ ~reset.issue
  BY DEF ActivateAgain, Inv, Fresh, Second
<1>2. /\ r \in [issue: BOOLEAN, subsystem: BOOLEAN]
      /\ r.issue <=> h.status \in Asks
      /\ r.issue = Issue(h.status, reset.issue).issue
  BY <1>1 DEF Issue, Asks
<1>3. Finish(r, call.action, h.ok)
  BY <1>1, <1>2 DEF Finish, MayReset
<1>4. ~call.badSlot => h.status # "maxTime"
  BY <1>1, CommitFacts DEF Inv, OnReset
<1>5. call.op = "activate"
  BY <1>1 DEF Inv, Second
<1> HIDE DEF r
<1> QED BY <1>1, <1>2, <1>3, <1>4, <1>5, FinishInv

-----------------------------------------------------------------------------
(* The commit of a translated WRITE BUFFER command keeps the invariant.    *)
LEMMA WriteBufferInv ==
  ASSUME Inv, NEW s \in Statuses, NEW h \in Heard, WriteBuffer(s, h)
  PROVE  Inv'
<1> DEFINE r == Issue(h.status, call.action = "replaceOnReset")
           taken == ~call.badSlot /\ s \in {"ok"} \cup Asks
<1>1. /\ pc = "commit" /\ CommitSent(s, h) /\ UNCHANGED <<call, calls, images, sent>>
      /\ accepted = {} /\ sent = {} /\ ~call.noReset /\ call.op # "activate"
      /\ call.action \in {"immediate", "replaceOnReset"}
  BY DEF WriteBuffer, Inv, Fresh, OptionsInv
<1>2. /\ device' \in Device /\ drive' \in Drive
      /\ gone' \in BOOLEAN /\ misread' \in BOOLEAN
      /\ accepted' \subseteq (Images \X {"commit", "again"})
      /\ AcceptedOnce'
      /\ device'.status = h.status
      /\ h.ok => ~call.badSlot
      /\ h.ok => (h.status = s /\ s # "failed") \/ (h.status = "ok" /\ misread')
      /\ ~call.badSlot /\ s = "maxTime" => call.action = "immediate"
      /\ ~taken => accepted' = {}
      /\ taken => /\ IsTheSlot(accepted', drive'.slot)
                  /\ drive'.needs = Needs(call.action, s)
                  /\ call.action = "immediate" /\ s = "ok" => drive'.running = drive'.slot
  BY <1>1, CommitFacts DEF Inv
<1>3. /\ r \in [issue: BOOLEAN, subsystem: BOOLEAN]
      /\ r.issue <=> h.status \in Asks \/ call.action = "replaceOnReset"
  BY DEF Issue, Asks
<1>4. s \in Asks \cup {"ok", "maxTime", "failed"}
  BY DEF Statuses
<1>5. CASE h.ok /\ r.issue
  <2>1. reset' = r /\ pc' = "reset" /\ ret' = "success"
    BY <1>5 DEF WriteBuffer
  <2>2. taken \/ (misread' /\ accepted' = {})
    BY <1>2, <1>3, <1>4, <1>5 DEF Asks
  <2>3. taken => s \in Asks \/ call.action = "replaceOnReset"
    BY <1>2, <1>3, <1>5 DEF Asks
  <2>4. taken => Pending' /\ accepted' # {}
    <3> SUFFICES ASSUME taken PROVE Pending' /\ accepted' # {}
      OBVIOUS
    <3>1. Needs(call.action, s) \in {"controller", "conventional", "subsystem"}
      BY <1>1, <2>3, AsksNeed DEF OnReset
    <3> QED BY <1>1, <1>2, <3>1 DEF Pending, IsTheSlot
  <2>5. TypeOK'
    BY <1>1, <1>2, <1>3, <2>1 DEF Inv, TypeOK, Results
  <2>6. BeforeReset'
    BY <1>1, <2>1, <2>2, <2>4 DEF BeforeReset, Unheard
  <2> QED BY <1>1, <1>2, <2>1, <2>5, <2>6 DEF Inv, OptionsInv, Fresh, Second,
             ResetIsWarranted, SuccessMeansRunning, PowerCycleActivates
<1>6. CASE ~(h.ok /\ r.issue)
  <2>1. pc' = "idle" /\ ret' = (IF h.ok THEN "success" ELSE "failure") /\ UNCHANGED reset
    BY <1>6 DEF WriteBuffer, Return
  <2>2. TypeOK'
    BY <1>1, <1>2, <2>1 DEF Inv, TypeOK, Results
  <2>3. SuccessMeansRunning'
    <3> SUFFICES ASSUME h.ok, ~Unheard' PROVE SuccessMeansRunning'
      BY <2>1 DEF SuccessMeansRunning
    <3>1. call.action = "immediate" /\ h.status \notin Asks /\ ~call.badSlot
      BY <1>1, <1>2, <1>3, <1>6
    <3>2. ~misread'
      BY <1>1, <3>1 DEF Unheard
    <3>3. h.status = s /\ s \in {"ok", "maxTime"}
      BY <1>2, <1>4, <3>1, <3>2
    <3>4. CASE s = "ok"
      BY <1>1, <1>2, <3>1, <3>4 DEF SuccessMeansRunning, IsTheSlot
    <3>5. CASE s = "maxTime"
      BY <1>1, <1>2, <3>3, <3>5 DEF SuccessMeansRunning, Unretried
    <3> QED BY <3>3, <3>4, <3>5
  <2> QED BY <1>1, <1>2, <2>1, <2>2, <2>3 DEF Inv, OptionsInv, Fresh, Second, BeforeReset,
             ResetIsWarranted, PowerCycleActivates
<1> QED BY <1>5, <1>6

(* The drive is well formed after a reset.                                 *)
LEMMA AfterResetType ==
  ASSUME TypeOK, NEW seen PROVE AfterReset(seen) \in Drive
<1>1. drive \in Drive /\ drive.slot \in Images /\ 0 \in Images
  BY BoundsAssumption DEF TypeOK, Drive, Images
<1>2. [drive EXCEPT !.staged = 0] \in Drive
  BY <1>1 DEF Drive
<1>3. [drive EXCEPT !.staged = 0, !.needs = "nothing", !.running = drive.slot] \in Drive
  BY <1>1 DEF Drive
<1> QED BY <1>1, <1>2, <1>3 DEF AfterReset

(* The reset keeps the invariant: it runs what is pending, or fails, or is *)
(* not the one that the drive waits for.                                   *)
LEMMA ResetInv ==
  ASSUME Inv, NEW seen \in {"none", "controller", "subsystem"}, Reset(seen) PROVE Inv'
<1> DEFINE asked == IF reset.subsystem THEN "subsystem" ELSE "controller"
<1>1. /\ pc = "reset" /\ pc' = "idle" /\ drive' = AfterReset(seen)
      /\ sent' = {[asked |-> asked, seen |-> seen]}
      /\ UNCHANGED <<device, call, reset, ret, calls, images, accepted, gone, misread>>
      /\ ~call.noReset /\ (accepted # {} \/ call.badSlot \/ misread)
      /\ ret \in {"success", "failure"} /\ (ret = "success" => Pending \/ Unheard)
  BY DEF Reset, Inv, BeforeReset
<1>2. TypeOK'
  BY <1>1, AfterResetType DEF Inv, TypeOK, Resets
<1>3. SuccessMeansRunning'
  <2> SUFFICES ASSUME ret = "success", ~Unheard PROVE SuccessMeansRunning'
    BY <1>1 DEF SuccessMeansRunning, Unheard
  <2>1. /\ accepted # {} /\ \A x \in accepted : x[1] = drive.slot
        /\ drive.needs \in {"controller", "conventional", "subsystem"}
    BY <1>1 DEF Pending, Inv, TypeOK, Drive
  <2>2. CASE seen = "none"
    BY <1>1, <2>2 DEF SuccessMeansRunning, Failed
  <2>3. CASE seen # "none" /\ (drive.needs = "controller" \/ drive.needs = seen)
    <3>1. drive'.running = drive.slot
      BY <1>1, <2>3 DEF AfterReset, Inv, TypeOK, Drive
    <3> QED BY <1>1, <2>1, <3>1 DEF SuccessMeansRunning
  <2>4. CASE seen # "none" /\ ~(drive.needs = "controller" \/ drive.needs = seen)
    <3>1. drive'.needs = drive.needs
      BY <1>1, <2>4 DEF AfterReset, Inv, TypeOK, Drive
    <3> QED BY <1>1, <2>1, <2>4, <3>1 DEF SuccessMeansRunning
  <2> QED BY <2>2, <2>3, <2>4
<1> QED BY <1>1, <1>2, <1>3 DEF Inv, OptionsInv, Fresh, Second, BeforeReset,
           ResetIsWarranted, AcceptedOnce, PowerCycleActivates

(* A power cycle between calls keeps the invariant.                        *)
LEMMA PowerCycleInv == ASSUME Inv, PowerCycle PROVE Inv'
<1>1. drive' \in Drive
  <2>1. drive \in Drive /\ drive.slot \in Images /\ 0 \in Images
    BY BoundsAssumption DEF Inv, TypeOK, Drive, Images
  <2>2. \A x \in Images :
          [drive EXCEPT !.staged = 0, !.needs = "nothing", !.running = x] \in Drive
    BY <2>1 DEF Drive
  <2>3. drive.running \in Images
    BY <2>1 DEF Drive
  <2> DEFINE x == IF drive.running # drive.slot /\ drive.needs # "nothing"
                  THEN drive.slot ELSE drive.running
  <2>4. drive' = [drive EXCEPT !.staged = 0, !.needs = "nothing", !.running = x]
    BY <2>1 DEF PowerCycle, PowerCycled, Drive
  <2> QED BY <2>1, <2>2, <2>3, <2>4
<1>2. TypeOK'
  BY <1>1 DEF Inv, TypeOK, PowerCycle, history, Results
<1> QED BY <1>2 DEF Inv, PowerCycle, history, OptionsInv, Fresh, Second, BeforeReset,
           ResetIsWarranted, AcceptedOnce, SuccessMeansRunning, PowerCycleActivates

-----------------------------------------------------------------------------
(* Every step keeps the invariant.                                         *)
LEMMA NextInv == ASSUME Inv, [Next]_vars PROVE Inv'
<1>1. CASE UNCHANGED vars
  BY <1>1 DEF vars, history, Inv, TypeOK, OptionsInv, Fresh, Second, BeforeReset, Pending,
     ResetIsWarranted, AcceptedOnce, SuccessMeansRunning, PowerCycleActivates,
     Failed, Unretried, Forbidden, Unheard
<1>2. CASE Next
  BY <1>2, BeginInv, SendImageInv, ActivateInv, ActivateAgainInv, WriteBufferInv,
     ResetInv, PowerCycleInv DEF Next
<1> QED BY <1>1, <1>2

(* The invariant holds in every state, whatever the bounds are.            *)
THEOREM Invariant == Spec => []Inv
<1>1. Init => Inv
  BY InitInv
<1>2. Inv /\ [Next]_vars => Inv'
  BY NextInv
<1> QED BY <1>1, <1>2, PTL DEF Spec

(* Every variable keeps its type.                                          *)
THEOREM TypeCorrect == Spec => []TypeOK
<1>1. Inv => TypeOK
  BY DEF Inv
<1> QED BY <1>1, Invariant, PTL

(* Whatever the drive answers and whatever is lost, no call sends a reset  *)
(* that its caller forbids, or before the drive took an image in that call *)
(* (a slot out of range and a refusal nobody heard of apart).              *)
THEOREM ResetWarranted == Spec => []ResetIsWarranted
<1>1. Inv => ResetIsWarranted
  BY DEF Inv
<1> QED BY <1>1, Invariant, PTL

(* The second commit never makes the drive take an image twice.            *)
THEOREM TakenOnce == Spec => []AcceptedOnce
<1>1. Inv => AcceptedOnce
  BY DEF Inv
<1> QED BY <1>1, Invariant, PTL

(* A successful activation runs the image it committed, for any number of  *)
(* calls before it, unless one of the named causes stands in the way.      *)
THEOREM SuccessRuns == Spec => []SuccessMeansRunning
<1>1. Inv => SuccessMeansRunning
  BY DEF Inv
<1> QED BY <1>1, Invariant, PTL

(* Where a power cycle is reported to be required, one activates the image *)
(* that the call committed (the named causes apart).                       *)
THEOREM PowerCycleSuffices == Spec => []PowerCycleActivates
<1>1. Inv => PowerCycleActivates
  BY DEF Inv
<1> QED BY <1>1, Invariant, PTL
=============================================================================
