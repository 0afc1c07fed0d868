-------------------------- MODULE FirmwareActivate --------------------------
(***************************************************************************)
(* Updating the firmware of an NVMe drive: firmware_Download_Command and   *)
(* firmware_Download_Activate (cmds.c), the same through the translated    *)
(* WRITE BUFFER command (sntl_helper.c), and the resets that activate a    *)
(* committed image (nvme_cmds.c, sg_helper.c, the USB bridges' helpers).   *)
(*                                                                         *)
(* The drive is the environment: it keeps a downloaded image, a slot, the  *)
(* running image, and what it still needs to run the one in the slot.  It  *)
(* may refuse, ask for a reset of one of three kinds, or find that it      *)
(* cannot activate in the allowed time.  What the library hears of its     *)
(* answer depends on the pass-through: the Linux one drops every status.   *)
(* A command or a reset may be lost, and the drive may be power cycled     *)
(* between calls.  The images are numbered as they are downloaded, 0 is    *)
(* none.                                                                   *)
(***************************************************************************)
EXTENDS Naturals

CONSTANTS MaxImages,  (* bound: images downloaded                          *)
          MaxCalls    (* bound: calls made                                 *)

ASSUME BoundsAssumption == MaxImages \in Nat /\ MaxCalls \in Nat

Images == 0..MaxImages

(* nvmeFWCommitAction.                                                     *)
OnReset == {"replaceOnReset", "onReset"}
Actions == {"replace", "immediate"} \cup OnReset

(* What lastNVMeStatus says of a command; "ok" is also a cleared status,   *)
(* "failed" any that nothing is done about.                                *)
Asks == {"asksReset", "asksConventional", "asksSubsystem"}
Statuses == {"ok", "maxTime", "failed"} \cup Asks

(* What the library is given of a command: lastNVMeStatus and whether the  *)
(* result is SUCCESS.                                                      *)
Heard == [status: Statuses, ok: BOOLEAN]

Ops == {"activate", "download", "write05", "write0E", "write0F"}
Results == {"success", "failure", "powerCycle", "none"}

VARIABLES
  device,   (* tDevice: frmw allows activation without reset; the kind of  *)
            (* NVMe pass-through; lastNVMeStatus                           *)
  drive,    (* the drive: downloaded image, slot, running image, and what  *)
            (* it needs to run the image in the slot                       *)
  pc,       (* the next command or reset of the call                       *)
  call,     (* the parameters of the call, and its commit action           *)
  reset,    (* locals issueReset and subsystem                             *)
  ret,      (* what the call returned, "none" while it is under way        *)
  calls,    (* calls made so far                                           *)
  images,   (* images downloaded so far                                    *)
  accepted, (* history: images the drive took into its slot in this call   *)
  sent,     (* history: resets sent in this call, and what the drive saw   *)
  gone,     (* history: an answer of this call was lost                    *)
  misread   (* history: an answer of this call was taken for SUCCESS, and  *)
            (* its status dropped                                          *)

history == <<accepted, sent, gone, misread>>
vars == <<device, drive, pc, call, reset, ret, calls, images, history>>

Device == [immediate: BOOLEAN, path: {"system", "bridge", "basic"}, status: Statuses]
Drive == [staged: Images, slot: Images, running: Images,
          needs: {"nothing", "controller", "conventional", "subsystem"}]
Call == [op: Ops, existing: BOOLEAN, force: BOOLEAN, noReset: BOOLEAN,
         badSlot: BOOLEAN, action: Actions]
Resets == [asked: {"controller", "subsystem"},
           seen: {"none", "controller", "subsystem"}]

-----------------------------------------------------------------------------
(* The drive.                                                              *)

(* The image a commit action is about.                                     *)
Image(a) ==
  CASE a \in {"replace", "replaceOnReset"} -> drive.staged
    [] a = "onReset" -> drive.slot
    [] OTHER -> IF drive.staged # 0 THEN drive.staged ELSE drive.slot

Needs(a, s) ==
  CASE a = "replace" -> drive.needs
    [] s = "asksSubsystem" -> "subsystem"
    [] s = "asksConventional" -> "conventional"
    [] s = "asksReset" \/ a \in OnReset -> "controller"
    [] OTHER -> "nothing"

Committed(a, s) ==
  [staged |-> IF a = "onReset" THEN drive.staged ELSE 0, slot |-> Image(a),
   running |-> IF a = "immediate" /\ s = "ok" THEN Image(a) ELSE drive.running,
   needs |-> Needs(a, s)]

(* The drive refuses, runs out of time, or takes the image.                *)
Takes(a, s) == s \in {"ok"} \cup Asks /\ Image(a) # 0
Answers(a, s) ==
  \/ s = "failed"
  \/ s = "maxTime" /\ a = "immediate" /\ Image(a) # 0
  \/ Takes(a, s) /\ (s \in Asks => a # "replace")

(* A power cycle runs the image in the slot if that was to be activated; a *)
(* downloaded one is lost.                                                 *)
PowerCycled ==
  [drive EXCEPT !.staged = 0, !.needs = "nothing",
                !.running = IF @ # drive.slot /\ drive.needs # "nothing"
                            THEN drive.slot ELSE @]

AfterReset(seen) ==
  IF seen = "none" THEN drive
  ELSE IF drive.needs = "controller" \/ drive.needs = seen
       THEN [drive EXCEPT !.staged = 0, !.needs = "nothing", !.running = drive.slot]
       ELSE [drive EXCEPT !.staged = 0]

(* Which reset of the drive the library's two resets come to: the driver   *)
(* is asked for a controller reset by both, the bridges have resets of     *)
(* their own, and the basic pass-throughs have none.                       *)
Seen(asked) ==
  CASE device.path = "system" -> {"controller"}
    [] device.path = "bridge" -> {"controller", "subsystem"}
    [] OTHER -> {"none"}

-----------------------------------------------------------------------------
Init ==
  /\ device \in {d \in Device : d.status = "ok"}
  /\ drive = [staged |-> 0, slot |-> 0, running |-> 0, needs |-> "nothing"]
  /\ pc = "idle"
  /\ call = [op |-> "download", existing |-> FALSE, force |-> FALSE,
             noReset |-> FALSE, badSlot |-> FALSE, action |-> "replace"]
  /\ reset = [issue |-> FALSE, subsystem |-> FALSE]
  /\ ret = "none"
  /\ calls = 0
  /\ images = 0
  /\ accepted = {}
  /\ sent = {}
  /\ gone = FALSE
  /\ misread = FALSE

(* The commit action where the caller does not force one.                  *)
ChosenAction(op, existing) ==
  CASE device.immediate -> "immediate"
    [] op = "activate" /\ existing -> "onReset"
    [] OTHER -> "replaceOnReset"

(* Calls: firmware_Download_Command with DL_FW_ACTIVATE or DL_FW_DEFERRED, *)
(* WRITE BUFFER with mode 05h, 0Eh or 0Fh.  Only the first takes options,  *)
(* and only it and mode 05h a slot, which may be out of range.             *)
Begin(c) ==
  /\ pc = "idle"
  /\ calls < MaxCalls
  /\ calls' = calls + 1
  /\ c.op # "activate" => ~c.existing /\ ~c.force /\ ~c.noReset
  /\ c.op \notin {"activate", "write05"} => ~c.badSlot
  /\ ~c.force => c.action = ChosenAction(c.op, c.existing)
  /\ call' = c
  /\ pc' = IF c.op \in {"activate", "write0F"} THEN "commit" ELSE "image"
  /\ reset' = [issue |-> FALSE, subsystem |-> FALSE]
  /\ ret' = "none"
  /\ accepted' = {}
  /\ sent' = {}
  /\ gone' = FALSE
  /\ misread' = FALSE
  /\ UNCHANGED <<device, drive, images>>

(* What the library makes of an answer.  The status table has SUCCESS for  *)
(* the resets asked for and for the violation of the maximum time.  A      *)
(* pass-through that gives no status, only that the command went through,  *)
(* clears lastNVMeStatus: send_NVMe_IO on Linux does so for every answer   *)
(* of the drive (its ioctl returns the status, and only a negative result  *)
(* is looked at), a bridge where the completion cannot be read.  So does a *)
(* command that is lost, and an ioctl that fails puts -1 in its place.     *)
Exact(s) == [status |-> s, ok |-> s # "failed"]
NoStatus == Exact("ok")
Lost == [status |-> "ok", ok |-> FALSE]
Hears(s) ==
  IF device.path = "system" THEN {NoStatus, Lost, Exact("failed")}
                            ELSE {NoStatus, Lost, Exact(s)}
Hear(s, h) ==
  /\ h \in Hears(s)
  /\ device' = [device EXCEPT !.status = h.status]
  /\ gone' = (gone \/ (h # Exact(s) /\ ~h.ok))
  /\ misread' = (misread \/ (h # Exact(s) /\ h.ok))

Return(r) == pc' = "idle" /\ ret' = r

(* nvme_Firmware_Image_Dl; mode 05h commits the image next.                *)
SendImage(s, h) ==
  /\ pc = "image"
  /\ images < MaxImages
  /\ s \in {"ok", "failed"}
  /\ IF s = "ok" THEN /\ images' = images + 1
                      /\ drive' = [drive EXCEPT !.staged = images + 1]
                 ELSE UNCHANGED <<images, drive>>
  /\ Hear(s, h)
  /\ IF h.ok /\ call.op = "write05"
     THEN pc' = "commit" /\ UNCHANGED ret
     ELSE Return(IF h.ok THEN "success" ELSE "failure")
  /\ UNCHANGED <<call, reset, calls, accepted, sent>>

(* nvme_Firmware_Commit: a slot above 7 is refused before anything is      *)
(* sent, with lastNVMeStatus as an earlier command left it.                *)
CommitSent(s, h) ==
  \/ /\ call.badSlot
     /\ s = "failed" /\ h = [status |-> device.status, ok |-> FALSE]
     /\ UNCHANGED <<device, drive, accepted, gone, misread>>
  \/ /\ ~call.badSlot
     /\ Answers(call.action, s)
     /\ Hear(s, h)
     /\ drive' = IF Takes(call.action, s) THEN Committed(call.action, s) ELSE drive
     /\ accepted' = IF Takes(call.action, s)
                    THEN accepted \cup {<<Image(call.action), pc>>} ELSE accepted

(* The reset asked for by a status.                                        *)
Issue(s, already) ==
  [issue |-> already \/ s \in Asks, subsystem |-> s = "asksSubsystem"]

(* A reset is sent, or a power cycle is what is left to do.  Mutant: the   *)
(* caller's wish to have no reset is forgotten after all.                  *)
MayResetAlways(r) == r.issue
MayReset(r) == r.issue /\ ~call.noReset

(* Mutant: also where the drive needs none.                                *)
NeedsPowerCycleAlways(a) == TRUE
NeedsPowerCycle(a) == a # "immediate"

Finish(r, a, ok) ==
  IF MayReset(r)
  THEN /\ pc' = "reset" /\ ret' = (IF ok THEN "success" ELSE "failure")
  ELSE Return(IF NeedsPowerCycle(a) THEN "powerCycle"
              ELSE IF ok THEN "success" ELSE "failure")

(* The refused immediate activation is tried again on reset.  Mutants: it  *)
(* is tried again as it was; a commit that asks for a reset is tried again *)
(* as well.                                                                *)
RetryActionSame == call.action
RetryAction == IF call.existing THEN "onReset" ELSE "replaceOnReset"

TriesAgainAlways(s) == ~call.force /\ s # "ok" /\ s # "failed"
TriesAgain(s) == ~call.force /\ s = "maxTime"

(* nvme_Firmware_Download_Command, DL_FW_ACTIVATE.                         *)
Activate(s, h) ==
  /\ pc = "commit" /\ call.op = "activate"
  /\ CommitSent(s, h)
  /\ LET r == Issue(h.status, h.ok /\ call.action \in OnReset /\ ~call.noReset)
     IN /\ reset' = r
        /\ IF TriesAgain(h.status)
           THEN /\ pc' = "again"
                /\ call' = [call EXCEPT !.action = RetryAction]
                /\ UNCHANGED ret
           ELSE /\ Finish(r, call.action, h.ok)
                /\ UNCHANGED call
  /\ UNCHANGED <<calls, images, sent>>

(* The second commit.                                                      *)
ActivateAgain(s, h) ==
  /\ pc = "again"
  /\ CommitSent(s, h)
  /\ LET r == Issue(h.status, reset.issue) IN
       /\ reset' = [r EXCEPT !.subsystem = @ \/ reset.subsystem]
       /\ Finish(r, call.action, h.ok)
  /\ UNCHANGED <<call, calls, images, sent>>

(* sntl_Translate_SCSI_Write_Buffer_Command: one commit, and a reset       *)
(* unless the image was activated at once.                                 *)
WriteBuffer(s, h) ==
  /\ pc = "commit" /\ call.op \in {"write05", "write0F"}
  /\ CommitSent(s, h)
  /\ LET r == Issue(h.status, call.action = "replaceOnReset")
     IN IF h.ok /\ r.issue
        THEN reset' = r /\ pc' = "reset" /\ ret' = "success"
        ELSE Return(IF h.ok THEN "success" ELSE "failure") /\ UNCHANGED reset
  /\ UNCHANGED <<call, calls, images, sent>>

(* nvme_Reset or nvme_Subsystem_Reset; its result is not looked at.        *)
Reset(seen) ==
  /\ pc = "reset"
  /\ LET asked == IF reset.subsystem THEN "subsystem" ELSE "controller" IN
       /\ seen \in Seen(asked) \cup {"none"}
       /\ sent' = sent \cup {[asked |-> asked, seen |-> seen]}
  /\ drive' = AfterReset(seen)
  /\ pc' = "idle"
  /\ UNCHANGED <<device, call, reset, ret, calls, images, accepted, gone, misread>>

(* Between calls, the drive is power cycled.                               *)
PowerCycle ==
  /\ pc = "idle"
  /\ drive' = PowerCycled
  /\ ret' = "none"
  /\ drive' # drive
  /\ UNCHANGED <<device, pc, call, reset, calls, images, history>>

Next ==
  \/ \E c \in Call : Begin(c)
  \/ \E s \in Statuses, h \in Heard :
       \/ SendImage(s, h)
       \/ Activate(s, h)
       \/ ActivateAgain(s, h)
       \/ WriteBuffer(s, h)
  \/ \E seen \in {"none", "controller", "subsystem"} : Reset(seen)
  \/ PowerCycle

Spec == Init /\ [][Next]_vars

-----------------------------------------------------------------------------
(* Properties.                                                             *)

TypeOK ==
  /\ device \in Device
  /\ drive \in Drive
  /\ pc \in {"idle", "image", "commit", "again", "reset"}
  /\ call \in Call
  /\ reset \in [issue: BOOLEAN, subsystem: BOOLEAN]
  /\ ret \in Results
  /\ calls \in 0..MaxCalls
  /\ images \in Images
  /\ accepted \subseteq (Images \X {"commit", "again"})
  /\ sent \subseteq Resets
  /\ gone \in BOOLEAN /\ misread \in BOOLEAN

(* A drive is only reset by a call that allows it, after the drive took an *)
(* image in that call, and not because of what another command left in     *)
(* lastNVMeStatus.  The exceptions: a call with a slot out of range sends  *)
(* no commit, and goes by the status of the command before it; and a       *)
(* pass-through that drops the status makes a refusal a success.           *)
ResetIsWarranted ==
  sent # {} =>
    /\ ~call.noReset
    /\ accepted # {} \/ call.badSlot \/ misread

(* The drive takes an image at most once for a call: the second commit is  *)
(* only sent when it has not taken the first.                              *)
AcceptedOnce == \A x, y \in accepted : x = y

(* SUCCESS from an activation means the drive runs the image it took.      *)
(* What stands in the way: a pass-through that drops the status, so that   *)
(* nobody hears of a refusal, or of the reset that an activation without   *)
(* one turns out to need; a reset that failed, or was not there to be      *)
(* sent; a subsystem or conventional reset that the library had no means   *)
(* to cause; a violation of the maximum time that is reported as a success *)
(* where it is not retried (a forced action, WRITE BUFFER); and an         *)
(* activation without reset that turns out to need one the caller forbids. *)
Failed == \E r \in sent : r.seen = "none"
Unretried == device.status = "maxTime" /\ (call.force \/ call.op # "activate")
Forbidden == call.noReset /\ call.action = "immediate" /\ device.status \in Asks
Unheard == misread /\ (accepted = {} \/ call.action = "immediate")
SuccessMeansRunning ==
  pc = "idle" /\ ret = "success" /\ call.op \notin {"download", "write0E"} =>
    \/ accepted # {} /\ \A x \in accepted : drive.running = x[1]
    \/ Failed
    \/ drive.needs \in {"subsystem", "conventional"} /\ sent # {}
    \/ Unretried \/ Forbidden \/ Unheard

(* POWER_CYCLE_REQUIRED means that a power cycle is what the drive needs   *)
(* to run the image it took: it has it in its slot, to be activated.  The  *)
(* exceptions: the commit failed, its answer was lost or its refusal not   *)
(* heard, which is then hidden by this result; or the caller forced a      *)
(* replace without activation.                                             *)
PowerCycleActivates ==
  pc = "idle" /\ ret = "powerCycle" =>
    \/ accepted # {} /\ drive.needs # "nothing" /\ accepted \subseteq {drive.slot} \X {"commit", "again"}
    \/ device.status = "failed" \/ gone \/ (misread /\ accepted = {}) \/ call.badSlot
    \/ call.action = "replace"
=============================================================================
