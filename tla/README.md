# A formal model of opensea-transport

opensea-transport sends ATA, SCSI and NVMe commands to storage devices through
whatever stands between the host and the drive: operating system drivers, SAT
translators in HBAs and USB bridges, RAID drivers. Most of its logic is about
translators that do not do what the standards say. The library finds out what
works, command by command, keeps what it learned in the device structure
(`tDevice.drive_info.passThroughHacks`), and changes how it sends the next
command. This directory models that logic in TLA+, checks it with TLC and
proves part of it with TLAPS.

Paths below are relative to the repository root (`src/` holds the C files,
`include/` the headers); a number after a file name is a line of it.

1. [The system](#1-the-system)
2. [Modules](#2-modules)
3. [The pass-through engine](#3-the-pass-through-engine)
4. [The register test and its guard](#4-the-register-test-and-its-guard)
5. [The identify ladder](#5-the-identify-ladder)
6. [DMA forms and SMART command transport](#6-dma-forms-and-smart-command-transport)
7. [Firmware activation](#7-firmware-activation)
8. [Block commands of the software translators](#8-block-commands-of-the-software-translators)
9. [Block operations for any drive](#9-block-operations-for-any-drive)
10. [NVMe commands through a USB bridge](#10-nvme-commands-through-a-usb-bridge)
11. [Handles, locks and exclusive access on Linux](#11-handles-locks-and-exclusive-access-on-linux)
12. [The device scan on Linux](#12-the-device-scan-on-linux)
13. [What the checks show: runs and bounds](#13-what-the-checks-show-runs-and-bounds)
14. [What is proved](#14-what-is-proved)
15. [What the code does otherwise than it says](#15-what-the-code-does-otherwise-than-it-says)
16. [What is not modelled](#16-what-is-not-modelled)
17. [Plan](#17-plan)

## 1. The system

| Component | State it keeps | Operations | What is hard |
|---|---|---|---|
| SAT pass-through engine (`sat_helper.c`) | hacks of the device: check condition bit, return response request, fixed format trust; DMA mode | `send_SAT_Passthrough_Command` and its follow-up commands | five ways to get the return registers, each may fail; what one command learns changes the next; recursion |
| Register test (`ata_helper.c`) | `nonDataTest`, `nonDataCountBroken`, `nonDataLBABroken`, `fixedSenseHack` | six NOPs, a verdict, a verification; the pre-execution check reads the verdict | unsteady adapters, repeated discovery, overlapping thresholds |
| Identify ladder (`ata_helper.c`, ID table in `common_public.c`) | pass-through type and hacks | `initial_Identify_Device` | termination, order of attempts, stale sense data |
| DMA fallback wrappers and SCT (`ata_helper.c`) | per-feature DMA flags, some of them static | `send_ATA_*_Cmd`, `send_ATA_SCT_*` | commands sent twice; flags learned from the wrong command or device; an SCT command waiting in the drive for its data |
| SCSI engine and hack learning (`scsi_cmds.c`, `scsi_helper.c`) | SCSI hacks, attempt counters | `scsi_Send_Cdb_Int`, `fill_In_Device_Info` | limits, learned refusals |
| Software translators (`sat_helper.c`, `sntl_helper.c`) | what is known of the drive, the registers and sense data of the last command | `translate_SCSI_Command`, `sntl_Translate_SCSI_Command` | one SCSI command becomes several; each can fail half way; counts of different widths; loops over ranges |
| NVMe firmware (`nvme_cmds.c`, `cmds.c`) | last NVMe status | download, commit, retry and reset ladder | results of several steps merged into one; stale status |
| Block operations (`cmds.c`) | the form each command takes, FUA support, DMA mode | `read_LBA`, `write_LBA`, `verify_LBA`, `compare_LBA`, `flush_Cache`, `write_Same` | what one call learns is used for another that needs more |
| USB NVMe bridges (`jmicron_`, `asmedia_`, `realtek_nvme_helper.c`) | the payload and the completion, in the bridge | `nvme_Cmd`, `nvme_Reset` in several SCSI commands each | steps of several clients interleave; a call breaks off between the steps |
| Device scan (`sg_helper.c`, `ciss_helper.c`, `raid_scan_helper.c`) | the RAID handle list, the application's list | `get_Device_Count`, `get_Device_List` | removal while walking; devices that come and go; several results folded into one |
| Linux handle (`sg_helper.c`, `posix_common_lowlevel.c`, `nix_mounts.c`) | descriptors, `secondHandleOpened`, `lockCount`, open flags | open, lock, unlock, exclusive access, rescan, close | other processes |
| Legacy pass-throughs, CSMI and Intel RST, other operating systems | little | CDB layouts, ioctls | I/O |

How they interact:

- A caller's ATA command goes through `ata_Passthrough_Command` (`ata_cmds.c`
  36), which selects the pass-through by `passthroughType`. The SAT engine
  builds a CDB and hands it to `scsi_Send_Cdb_Int`; the answer is sense data.
  From it, or from commands the engine sends itself (return response request,
  results log), come the return registers (`rtfr`), and from those the result.
- Discovery (`fill_In_ATA_Drive_Info`) calls the identify ladder, which uses
  the engine, and then the register test, whose NOPs go through the same engine
  and the same pre-execution check they are meant to set up.
- A caller's SCSI command for a drive that takes none is given by `send_IO`
  to one of the two software translators, which send ATA commands (through the
  same engine where the adapter is a SAT one) or NVMe commands. NVMe commands go to
  the operating system, or through a USB bridge as several SCSI commands.
- `get_Device_List` opens every handle (`get_Device`, with discovery) and
  follows those of RAID controllers to the drives behind them.
- All of these communicate by the hacks in the `tDevice`. There are no threads
  and no locks inside the library: one `tDevice` belongs to one thread. What
  is concurrent is the drive, with its several openers: two processes meet in
  the kernel's open and lock calls.

So the hazards of this library are of four kinds: knowledge that is stale or
wrong when the next command uses it; long sequences of commands, each legal,
that reach a contradictory state; multi-step operations one step of which
fails; and other processes between the system calls. `PROJECT.json` lists them
line by line with the properties that cover them.

What makes each component correct:

| Component | Correct means |
|---|---|
| Engine | the drive executes a command at most once per call; success is only reported for what the drive completed; registers that are returned belong to this command; learned hacks do not contradict each other; every call returns |
| Register test | a register is called broken only if every test lost it; afterwards no altered command reaches the drive, and no command is refused that would have got through whole |
| Identify ladder | it ends; it finds the form a working bridge takes; it never sends what the drive takes for BLANK; it does not unlearn what is known |
| Handle | one owner of the lock; what is taken is given back; the flags tell the truth about the descriptors; exclusive is exclusive |
| DMA forms and SCT | nothing is executed twice without need; DMA is given up for cause and for good; the data of an operation reaches its own command |
| Firmware activation | one commit is taken per call; a device is reset only if that commit asked for it; success means the image runs |
| Block commands and operations | nothing but the blocks asked for changes; success means written, verified, durable; every command ends |
| USB NVMe bridges | what a call has the bridge run is its own command; success, timeouts and resets are reported as they were |
| Device scan | no device twice, none lost, nothing past the end of the list, no dangling entry; the result is true of the list |
| SCSI learning (planned) | limits are never exceeded; a refusal is learned only from a refusal |

## 2. Modules

| Module | Models | Extends |
|---|---|---|
| `AtaCommandOnce` | abstract: the promise of the engine about one command | |
| `SatPassthrough` | `send_SAT_Passthrough_Command` and what it learns | instantiates `AtaCommandOnce` |
| `NopTest` | `test_Passthrough_Register_Response_NonData` | |
| `NonDataGuard` | the test composed with the engine's pre-execution check and later commands | `NopTest` |
| `SatIdentify` | `initial_Identify_Device`, `get_Identify_Data` | |
| `DmaFallback` | the ATA commands with a DMA and a PIO form, the SCT operations | |
| `FirmwareActivate` | firmware download and activation on NVMe | |
| `DriveMedium` | the blocks of a drive, its cache, its answers | |
| `SatlBlock` | the block commands of the SCSI to ATA translator | `DriveMedium` |
| `SntlBlock` | the block commands of the SCSI to NVMe translator | `SatlBlock` |
| `BlockCommands` | both translators as `send_IO` chooses between them; the properties | `SntlBlock` |
| `LbaCommands` | the block operations of `cmds.c` on SCSI, ATA and NVMe drives | `DriveMedium` |
| `UsbNvmeBridge` | `nvme_Cmd` and resets over JMicron, ASMedia, Realtek bridges, several clients | |
| `HandleLock` | open, lock, unlock, exclusive access, rescan, close for several processes | |
| `RaidHandleList` | the linked list of handles that lead to RAID devices | |
| `DeviceScan` | `get_Device_Count`, `get_Device_List`, the CISS scan | `RaidHandleList` |
| `MC...` | adapters, drives, systems, commands for TLC | the module of that name |
| `...Proofs` | the theorems of section 14, for `SatPassthrough`, `SatIdentify`, `FirmwareActivate`, `BlockCommands`, `LbaCommands` and `UsbNvmeBridge` | the module of that name |
| `LinuxProofs` | the theorems about the two models of the Linux layer | `HandleLock`, `DeviceScan` |
| `AtaHelperProofs` | the theorems about the two models of `ata_helper.c` | `DmaFallback`, `NonDataGuard` |

Conventions. Names are those of the code. A variable that the code does not
have is history, marked so where it is declared; no guard of the code's actions
reads one. A definition commented "Mutant" is not part of the specification: it is a
plausible mistake in the definition after it, used to see that the properties
notice. Every definition that stands for code is mapped to its lines in
`PROJECT.json`. Where no run checks `TypeOK` it is proved instead (section 14).

## 3. The pass-through engine

`SatPassthrough` is one device behind one bridge. `Issue` begins a call with a
command of `Commands`; the actions of `Engine` are the phases of
`send_SAT_Passthrough_Command` in the order of the code:

| `pc` | Actions | Code (`sat_helper.c`) |
|---|---|---|
| build | `Build` | the CDB and the check condition bit (`build_SAT_CDB`) |
| guard | `Block` or `Send`, `SendRefused`, `SendLost` | the pre-execution check, then the command |
| extract | eight `Extract...` actions, one per source of registers | libata workaround, descriptor, fixed format with and without request, results log, vendor bytes, made up from the sense key |
| learn | `LearnEmpty` | registers that came back empty |
| request | `NoRequest`, `RequestSucceeds`, `RequestFails` | the return response request |
| evaluate | `Evaluate` | dropping empty registers, the status of the drive |
| finish | `Finish`, `RetryAsDma` | timeout, DMA mode, the recursive call |

The bridge is the environment: how it treats the check condition bit (five
ways), how it reports an error without it (four), what its fixed format sense
says about the extended registers, whether the results log, the return response
request and UDMA work. `BridgeSet` has every combination. The drive may end
any command well, with an abort, with another error or with a fault; the
operating system may lose any command, with and without the drive having
executed it, at once or beyond its timeout.

Registers are abstracted to what the code looks at (which of the status and
error bits, whether the extended halves are zero, a value or the FFh
placeholder) plus a history component `of`: which command they belong to. CDB
layout is left out; the two facts about it that matter (the check condition bit,
the protocol) are variables.

Properties:

- `SuccessIsTruthfulUnlessDropped`: SUCCESS is only reported for a command the
  drive completed without error. The exception is named in the property and is
  described in section 15.
- `RegistersAreThisCommands`: a caller who asked for registers and is told
  SUCCESS has those of this command, the extended ones included, not made up, not
  an earlier command's. The named exception (`LogUnread`) is in section 15.
- `NoRequestPingPong`: the learned hacks never say both that no registers can
  be had and that they can be requested.
- `DmaSwitchIsJustified` (action property): a device is moved to DMA mode for good only
  if its bridge refuses UDMA.
- `ImplementsOnce` (refinement): the engine implements `AtaCommandOnce`.
- `CallsReturn` (liveness): every call returns.

Fairness. `WF_vars(Engine)`: once a call has begun its next step is taken. The
code runs straight on; the only thing it waits for is a command it sent, and
the operating system ends every command, by its timeout if by nothing else.
`Issue` has no fairness: callers need not send anything.

## 4. The register test and its guard

`NopTest` is the function that finds out whether an adapter keeps the sector
count and LBA of non-data commands: six NOPs, each with its own values, which the drive must
abort and echo. Counters of matches, losses and swaps, a confidence score,
offsets, an early exit after a NOP, the decisions, the upgrades after them
and the verification with a further NOP are all there, with the numbers of the
code. What an adapter does with a register is abstracted to where a value comes
back: in its place, elsewhere in the result, or nowhere. The adapter is either
steady (a fixed way of zeroing, swapping or shifting) or answers each NOP as it
likes (`Noise`).

`NonDataGuard` composes it with the reason it exists: afterwards callers send
non-data commands, through the pre-execution check that reads the verdict
(`sat_helper.c` 1229-1291) and through the same adapter. The device may be
discovered again (`fill_Drive_Info_Data`), and then the NOPs themselves pass
the check.

- `BrokenOnUnanimity` (action property): for any adapter, a register is
  called broken only if all six tests lost it.
- `FirstTestProtects`: after one discovery no altered command reaches the
  drive, for an adapter that loses one register.
- `GuardIsExact`: the guard blocks what it has to and nothing else. Without NOP
  support reported, no command reaches the drive without its count, however
  answers are garbled and after any number of discoveries; and an adapter that
  loses nothing on the way to the drive has no command blocked, with its answers
  in place, swapped, shifted or as libata's unaligned write with the count at
  another offset. The named exception (`CountUnreadable`): where libata's sense data
  hold the registers nowhere the test looks, the count of an adapter that lost
  nothing is declared broken (2506) and commands with one are blocked.
- `ProtectionLasts`: what the code says and does not do (section 15).

## 5. The identify ladder

`SatIdentify` is `initial_Identify_Device`: send IDENTIFY, look at the sense
data of a refusal, change one hack, try again. `Discover` is the entry with its
protection of optical drives; `Identify` and `IdentifyPacket` are the one or
two commands of `get_Identify_Data`; `DropCheckCondition`, `LeaveA1`,
`TurnToTpsiu` and `TurnToJMicron` are the rungs, whose guards are the nested
conditions of the code; `GiveUp` and `Found` are what the callers
(`check_SAT_Compliance_And_Set_Drive_Type`, `fill_In_ATA_Drive_Info`) make of
the result.

A bridge has a fixed answer for each form of the command: opcode A1h or 85h,
with and without TPSIU, or the JMicron opcode. Commands may be lost or come
back damaged. The sense data the ladder looks at may be stale, in three ways
the code has: a pass-through type for which nothing is sent leaves the old
one; TEST UNIT READY after a failure overwrites it; and so do commands between discoveries.

- The bound of `attempts` in `TypeOK`: the `do`/`while` loop ends after at
  most five tries, whatever comes back.
- `OpticalNotSentA1`: A1h is BLANK to an optical drive that gets it as a
  packet. A drive known to take packets never gets it, in any discovery, unless
  the bridge is known.
- `WorkingBridgeFound` (action property): the ladder gives up on no bridge
  that takes the 16 byte CDB with TPSIU and says of the other forms what SAT
  requires, and on no JMicron bridge its hacks point at. Proved too, so that the
  exceptions it names (a command lost or damaged, the identify command of the other
  kind of drive, a type that sends nothing) are all there are.
- `ReportedHacksKept` (action property): of a bridge known by its IDs only the
  pass-through type ever changes. It is proved, not run.

## 6. DMA forms and SMART command transport

`DmaFallback` models the commands of `ata_helper.c` that have a DMA and a PIO form (logs, SMART
logs, microcode, trusted send and receive, buffers, streams) and the SCT
operations made of log commands. A call is one step, or for most SCT operations two
(`command`, `transfer`); a step is a command in one form and, for some
refusals, again in the other.

| Action | Code (`ata_helper.c`) |
|---|---|
| `Begin` | the entry of a `send_ATA_..._Cmd`; logs on a drive without general purpose logging are refused at once |
| `Dma` | the DMA form, and `is_..._invalid_field` on `lastCommandSenseData` after it (`FallsBack`): the flag is switched off and the PIO form follows |
| `Pio` | the PIO form; if it fails after the DMA form, the flag is switched on again (`Restores`) |
| `Step`, `GoesOn` | the end of a step; whether an SCT operation goes on with its data |

Where the flag is kept is `Place`: with the device, or (`Static`) in a static
variable of the function and so for all devices at once. The drive is the
environment: which forms its bridge passes on, which logs it has, and, for SCT,
which command it is waiting to get or give the data of (`pending`). A fault
loses a command, loses its answer, or has a follow-up request for registers
refused, whose sense data the check then takes for the command's own.

- `TwiceOnlyForRegisters`: a step is executed twice by the drive only where the
  caller wants registers, an answer was lost and the follow-up refused. A
  trusted send, a microcode segment, an SCT transfer never is.
- `DmaOffForCauseAndGood`: a flag is only off for a family that some device
  cannot do in DMA form (or for a misread follow-up), and what a drive showed
  once is not forgotten.
- `DataFeedsOwnCommand`: the data of an SCT operation reaches the command of the
  same call, but for WRITE SAME, which does not look whether its command failed.
- `SuccessMeansTaken`: success means every step was executed in this call, with
  the same exception.

No liveness: the code here is a straight line of at most four commands.

## 7. Firmware activation

`FirmwareActivate` is one NVMe drive and one caller, who downloads images and has
them activated: `firmware_Download_Command` and
`firmware_Download_Activate` (`cmds.c`), or WRITE BUFFER through the SNTL translator.

| Action | Code |
|---|---|
| `Begin`, `ChosenAction` | parameters and the choice of the commit action, `cmds.c` 391-455 and 592-650 |
| `SendImage` | the download, `nvme_cmds.c` 659-692 |
| `Activate`, `CommitSent` | the commit and what its status asks for, `cmds.c` 368-490, `nvme_cmds.c` 695-726 |
| `ActivateAgain` | the second commit after a refused immediate activation, `cmds.c` 490-519 |
| `WriteBuffer` | the same in one commit, `sntl_helper.c` 6765-6844 |
| `Reset` | `nvme_Reset`, `nvme_Subsystem_Reset` as the system or the bridge carries them out |

The drive is the environment: it keeps an image it has received, one in its slot, the
one it runs, and what it needs to run the one in the slot. It may refuse, ask for
one of three resets, or find the maximum activation time too short. Answers and
resets may be lost, and power may be cycled between calls. What the drive says and
what the library hears of it are two things (`Hear`, the record `h` of the actions):
the Linux pass-through takes only a negative result of the ioctl for a failure, and the status
with which a drive refuses is positive (`sg_helper.c` 3319). So on that path a refusal
is heard as a success without a status (`misread`); over a USB bridge it is heard as it is.

- `ResetIsWarranted`: no reset without a commit of this call that was taken, and
  none the caller forbade. Two exceptions: a call with a slot out of range goes by the
  status of an earlier command, and a refusal that was misread is followed by the
  reset a commit would have needed.
- `AcceptedOnce`: one image is taken per call, though there are two commits.
- `SuccessMeansRunning`, `PowerCycleActivates`: what the two results promise,
  each with the exceptions the code makes named in the property (`Failed`,
  `Unretried`, `Forbidden`, `Unheard`, and subsystem resets without the means).

## 8. Block commands of the software translators

`DriveMedium` is a drive: what reads return, what is on the medium beneath the
cache, which blocks cannot be read. ATA and NVMe commands are its operators
(`Execute`, `Spoil`, `FlushAll`, `Trim`), with every way they can end.
`SatlBlock` translates one SCSI command into a sequence of them, one action per
ATA command; `SntlBlock` does it for NVMe, with one command each. `BlockCommands` puts the
two together: a drive is one or the other. A command has only the flags its CDB has a
field for (`FlagsOf`), and `Physical` is the blocks of the drive that share a physical
block, none for an address beyond the drive.

| Actions | SCSI command | Code (`sat_helper.c`) |
|---|---|---|
| `Identify`, `Start` | any | `translate_SCSI_Command` |
| `Read`, `Preverify` | READ | `satl_Read_Command` |
| `Write`, `AfterWrite` | WRITE, WRITE AND VERIFY | `satl_Write_Command`; FUA by command, by a verification after it, by a cache that is off |
| `Verify`, `Buffer`, `Compare` | VERIFY, without byte check, with BYTCHK 01b (data for every block) and 11b (one block of data for all) | `satl_Read_Verify_Command` |
| `Same`, `SequentialWrite` | WRITE SAME, FORMAT UNIT | SCT, ZERO EXT, or chunk by chunk |
| `Certify`, `Rewrite`, `Reverify` | FORMAT UNIT with certification | 6347-6448 |
| `WriteLong` | WRITE LONG | `translate_SCSI_Write_Long` |
| `Flush` | SYNCHRONIZE CACHE | FLUSH CACHE if the drive is known to have it |
| `Descriptor`, `EntryOf`, `SendTrim` | UNMAP | 12464-12685 |

`SntlBlock` has `NvmeStart` and, per command, `NvmeRead`, `NvmeWrite`,
`NvmeVerify`, `NvmeCompare`, `NvmeWriteUncorrectable`, `NvmeFlush`, and for UNMAP
`NvmeUnmap`, `NvmeDescriptor`, `NvmeEntry`, `NvmeSendRanges` (`sntl_helper.c`).

Two static variables tell the translators whether the identify data was read
(`infoAvailable`): `known` may be false while they say it was, because another
device's was.

- `OnlyAskedBlocks`: no command changes a block it is not about, or writes
  anything but its own data, whatever fails half way. UNMAP is excepted
  (section 15).
- `SuccessMeansWritten`: a write reported as done was done, but for blocks whose
  failure a later command of the same translation hides (`missed`), blocks for which none is
  sent (`Unsent`), and blocks whose failure nobody heard of: an NVMe drive on Linux,
  whose refusals are dropped (section 7; `silent` among a drive's features).
- `VerifiedMeansReadable`: what was verified could be read, and compared equal; of
  a VERIFY with BYTCHK 11b only the first block (`Compared`), for the code compares no other.
- `DurableWhenTold`: after success, a write with FUA is on the medium, and all is after
  SYNCHRONIZE CACHE.
- `CommandsReturn` (liveness): every command but UNMAP and certification ends.

Fairness: `WF_vars(Translate \/ TranslateNvme)`. A translation runs straight on, and every ATA or
NVMe command returns, if by nothing else then by its timeout.

## 9. Block operations for any drive

`read_LBA`, `write_LBA`, `verify_LBA`, `compare_LBA`, `flush_Cache` and
`write_Same` (`cmds.c`) find out by trying which form of a command a drive takes:
SCSI commands of 16, 12, 10 or 6 bytes, ATA commands in DMA or PIO. `LbaCommands`
is a drive and a caller who makes several such calls; its medium is
`DriveMedium` again. What a call learns is kept in `hacks`
(`passThroughHacks.scsiHacks`, `dpoFUA`, `dmaMode`) and decides the form of later ones,
whose address and count may need more bits than that form has (`At`, `For`).

| Action | Code (`cmds.c`) |
|---|---|
| `Begin` | the entry: `read_LBA` and the others, parameter checks, what is refused at once |
| `LearnFua` | `get_SCSI_DPO_FUA_Support` |
| `Transfer` | one read, write or verification in one form, also the verifications before a read and after a write without FUA; what success and sense data teach (`determine_scsi_read_write_cmd`, `ata_Read`, `ata_Write`, `nvme_Verify_LBA`) |
| `GiveUp` | the search arrives at six bytes for a command that has no such form |
| `Flush` | SYNCHRONIZE CACHE, FLUSH CACHE |
| `Compare` | `scsi_Compare`, `nvme_Compare`, and the change to reading |
| `WriteSame` | `scsi_Write_Same_Cmd`, `determine_scsi_write_same_cmd`, `ata_Write_Same_Cmd` |

- `DoesWhatWasAsked`: whatever an earlier call taught, a later one acts on its blocks
  and no others, with its data, and its success is true. The exceptions are named:
  address or count do not fit the form learned (`InReach`; of a WRITE SAME in 16 bytes, a
  count of 32 bits, to which the code cuts its 64: `Number`, `Count16`), a pattern replaced by
  zeros (`PatternLost`), a failed write hidden by the verification after it, or
  dropped by the pass-through of an NVMe drive (`missed`), and the blocks past 256 of a WRITE SAME
  without a count, which goes to the end of the drive but for an ATA drive
  without SCT (`LegacySame`, `Past256`).
- `ForcedMeansSaved`: success of a read or write with FUA means the blocks are saved,
  by the FUA bit or by the verification in its place, and of a flush that all are; but
  for `PioWithoutFua`.
- `CallsEnd` (liveness): trying form after form ends, for every drive. What could go
  on for ever is WRITE SAME, which tries the same form again after an invalid field.

Fairness: `WF_vars(GoOn)`. A call runs straight on, every command returns. `Begin` has none.

## 10. NVMe commands through a USB bridge

A bridge takes an NVMe command as three SCSI commands: a payload, the data
with which the bridge runs the payload, and a request for the completion. The
bridge has one payload and one completion for whoever uses it.
`UsbNvmeBridge` has several clients, each with a `tDevice`; each SCSI command is a
step, so those of several clients interleave anywhere.

| Action | Code |
|---|---|
| `BeginCommand`, `BeginReset` | `nvme_Cmd`, `nvme_Reset`, `nvme_Subsystem_Reset` (`nvme_cmds.c`) |
| `SendPayload`, `SendData`, `FetchCompletion` | `send_JM_NVMe_Cmd`, `send_ASM_NVMe_Cmd`, `send_Realtek_NVMe_Cmd` |
| `SendBasic` | the pass-throughs of the older bridges with one SCSI command and no completion |
| `Shutdown`, `Restart`, `Relink` | `jm_nvme_Reset`, `asm_nvme_Reset`, their subsystem forms |
| `Final` | `set_NVMe_Last_Completion` and `did_NVMe_Command_Timeout` at the end of `nvme_Cmd` |

Any SCSI command may be refused, lost before or after it reached the bridge, or
take too long. The bridge may or may not keep a completion that was read.

- `RunsOwnCommand`: the payload of a call that broke off is never run by a later
  call; only a client who came in between can have another one's payload run. It
  is run with the opcode asked for, but for I/O commands on JMicron (section 15).
- `SuccessMeansRun`: success means the command ran and ran well, with the four
  exceptions the property names; a timeout of the data phase is never reported as
  success.
- `ResetTellsTheTruth`: success means the drive restarted; "not supported" means it was left running.

## 11. Handles, locks and exclusive access on Linux

`HandleLock` has a set of processes, each with a `tDevice` for the same drive: an sg
descriptor and, for disks, an sd descriptor opened on demand. The kernel is the
environment: which file is open how, who holds the record lock of each file and
of which kind (open file description lock, or process lock where the kernel
has no other; the code tries the second when the first is refused). A step is
one system call, so the calls of two processes interleave anywhere between. A
process may die in any call, an open may fail for reasons of its own.

| Call | Actions | Code (`sg_helper.c`) |
|---|---|---|
| open | `Open`, `OpenSucceeds`, `OpenFails` | `get_Lin_Device`, `posix_Get_Device_Handle` with its retry without O_EXCL |
| lock | `Nest` or `Lock`, `SetLock` | `os_Lock_Device`, `lock_unlock_handle` with its fallback to F_SETLK |
| unlock | `Unnest` or `Unlock`, `ClearLock` | `os_Unlock_Device`, `lock_unlock_handle` |
| exclusive | `GetExclusive`, `CloseForExclusive`, `ReopenSucceeds`, `ReopenFails`, `CloseSecond` | `os_Get_Exclusive` |
| rescan | `Rescan`, `SecondSucceeds`, `SecondFails` | `os_Update_File_System_Cache`, `open_fd2` |
| close | `Close`, `CloseFile` | `close_Device` |
| | `Die` | the end of a process |

- `OneOwner`: two processes are never both told they hold the lock. A process whose
  `os_Get_Exclusive` was refused since is not counted: it lost its lock, and was told FAILURE.
- `HandleLockGivenBack`: a lock of the first kind is held only while somebody is
  counted. One direction only: exclusive access drops the lock and keeps the count (3840).
  Nor is it said of locks of the second kind: such a lock may stay until the device is closed (section 15).
- `CloseGivesBack`: a closed device holds no file and no lock.
- `ExclusiveIsAlone`: a handle flagged exclusive is the only one on the drive.
- `SecondHandleTruthful`: `secondHandleOpened` says whether there is a
  descriptor in `fd2`. It is proved as part of `NothingKept`, not run.

No fairness and no liveness: a process may stop anywhere, and nothing in the
code waits for another.

## 12. The device scan on Linux

`DeviceScan` is an application that asks `get_Device_Count`, allocates a list of
some length, and calls `get_Device_List`. Both walk the handles of `/dev`, note
those that lead to a RAID controller in the RAID handle list
(`RaidHandleList`: a heap of nodes and its pointers), and walk that list in
`ciss_helper.c` for the drives behind each controller. Devices and drives come and go (`Change`) between
any two steps. `Reach`, what the list's beginning leads to, is the smallest set that
`NextClosed` holds of; `scandir` gives its names in order, `InOrder`.

| Actions | Code |
|---|---|
| `CountScan`, `CountHandle`, `CountNvme`, `CountCiss`, `CountDone` | `get_Device_Count` (`sg_helper.c` 2786-2909), `get_CISS_RAID_Device_Count` (`ciss_helper.c` 1346-1416) |
| `Allocate` | the application |
| `ListScan`, `OpenHandle`, `HandlesDone`, `ScanResult` | `get_Device_List` (`sg_helper.c` 2987-3215) |
| `Ciss`, `Lun`, `CissDone` | `get_CISS_RAID_Device_List` (`ciss_helper.c` 1453-1582) |

- `RaidListWhole`: the memory allocated is exactly what the list's beginning
  reaches, and no pointer dangles, though entries are freed while the list is walked.
- `NothingPastTheList`: the list is filled with no more than it can hold. It does
  not hold (run `device_list_overrun`).
- `PastTheListOneController`: where the list is overrun, it is by the drives of
  one controller.
- `ListedOnce`: nothing that works is listed twice, though each volume of a
  controller leads to the same drives.
- `AllListed`: an application that allocates what was counted is given all that
  answers, if nothing changed. Two exceptions: `get_Device_List` tries
  MAX_DEVICES_TO_SCAN handles (2048; the constant `MaxDevicesToScan`, in `MoreHandles`) while
  `get_Device_Count` counts them all, and a system without sg handles.
- `ResultIsTrue`: the result, made from four counters and that of a second scan,
  is true of the list. Two exceptions: FAILURE with disks that work, if drives were
  looked for behind controllers and none works; PERMISSION_DENIED in a system without a handle.

## 13. What the checks show: runs and bounds

| Run | Module, configuration | Expect | Shows |
|---|---|---|---|
| `sat_passthrough` | `MCSatPassthrough`, `SatPassthrough.cfg` | pass | five kinds of commands in any sequence, bridges of each format and refusal, five sets of hacks: truthful results and registers, consistent hacks, refinement of `AtaCommandOnce`; every call returns |
| `nondata_guard` | `MCNonDataGuard`, `NonDataGuard.cfg` | pass | 60 steady adapters and one that answers as it likes, any number of discoveries and non-data commands |
| `sat_identify` | `MCSatIdentify`, `SatIdentify.cfg` | pass | bridges that refuse each form of IDENTIFY in their own way, any number of discoveries |
| `dma_fallback` | `MCDmaFallback`, `DmaFallback.cfg` | pass | two drives of six kinds, four calls, two faults |
| `firmware_activate` | `FirmwareActivate`, `FirmwareActivate.cfg` | pass | four calls, two images, every answer, power cycles |
| `block_commands` | `MCBlockCommands`, `BlockCommands.cfg` | pass | each block command in its forms and at its limits, on five kinds of ATA and three of NVMe drive, one of them with a pass-through that drops failures |
| `lba_commands` | `MCLbaCommands`, `LbaCommands.cfg` | pass | two block operations in a row on thirteen drives of three interfaces; every search for a form ends |
| `usb_nvme` | `MCUsbNvmeBridge`, `UsbNvmeBridge.cfg` | pass | two clients of one bridge of each of five kinds, commands and resets |
| `handle_lock` | `MCHandleLock`, `HandleLock.cfg` | pass | two processes on one drive, four kinds of machine, deaths |
| `device_scan` | `MCDeviceScan`, `DeviceScan.cfg` | pass | count, allocation and list on 194 systems, one device or drive coming or going |
| `nondata_protection_lasts` | `MCNonDataGuard`, `NonDataProtectionLasts.cfg` | violation | a second discovery turns the protection off (section 15) |
| `device_list_overrun` | `MCDeviceScan`, `DeviceListOverrun.cfg` | violation | more entries are filled in than the list has room for (section 15) |

Bounds and why they are enough:

- Engine. There is no bound on the number of commands: hacks and registers are
  finite, and TLC explores every sequence. `AllBridges` leaves out
  combinations the engine cannot tell apart (a log nobody points at; extended
  registers in sense data of a format the bridge never uses), bridges that mix
  both formats of sense data, libata's errors from any but a bridge that answers in descriptor format,
  and bridges that take neither UDMA nor the request for
  registers. The five commands are one with extended registers, one whose count is non-zero,
  a NOP, one with UDMA and registers, and one that no CDB can be built for. `AllHacks` holds what the ID table, the register test and
  a fresh device start with; all else is learned. The history counters stop
  at 3 and are shown never to pass 2. `CallsReturn` is what keeps the instance this
  small; the safety properties are proved for all bridges, commands and hacks (section 14).
- Register test. Six NOPs, and the numeric thresholds, are those of the code.
  The number of discoveries is not bounded (the counter stays at two).
  In `AnyNoise` the two marks of fixed format sense come together; an LBA
  elsewhere and a NOP ending in success are left to the steady adapters.
- Identify ladder. Number of discoveries and lost commands unbounded.
  `MCBridges` leaves out bridges that refuse an opcode in one form and a
  field of the same opcode in another. `MCHacks` are the combinations
  the ID table (`set_USB_Passthrough_Hacks_By_PID_and_VID` in
  `common_public.c`) and the systems set.
- DMA forms. Two drives, because static flags are about two; four calls are
  enough for a flag to be learned on one drive, used on the other, and an SCT
  command left waiting to meet another. The six operations are one of each shape: flag per device, static flag, no
  data, data in, data out, data out regardless. Two faults: an answer lost and a follow-up refused.
- Firmware. Two images (an old one and a new one), four calls: a failed one, whose status is left behind,
  a download, an activation, and one after it.
- Block commands. A drive of four blocks with 28-bit commands of two and 48-bit
  ones of four puts every limit of the code inside the drive: counts at, below
  and above each limit, ranges up to and past the end, two chunks, two entries
  of a TRIM buffer that holds one, an offset that wraps. One command per behaviour, from any state of medium, cache and knowledge in `Media`: what one
  command leaves to the next is only that state. One fault, in any of its commands.
- Block operations. Two calls: one that learns and one that uses what was learned.
  Five blocks; the ten-byte forms of a large drive address four (six-byte forms two), so
  that an address cut off is another block of the drive; a ten-byte count reaches three and the
  count of a 16-byte WRITE SAME four, so that a count that is cut is another number of blocks.
  Thirteen drives, each with a set of forms that leads the search a different way. One fault.
- USB bridge. Two clients with two calls between them (one before the other or
  interleaved), two faults.
- Device scan. Two to four units, of which three handles are tried (`MaxDevicesToScan`,
  so that systems of four disks are past it), two drives behind a controller, lists of up to five
  entries (less than, as much as and more than needed), one change at any point.
- Handles. Two processes: every property speaks of at most two, and the proofs
  cover any number. `LockCountMax` = 2 stands for UINT16_MAX, and reaches the
  saturation of the counter; the proofs cover any bound. Processes are
  interchangeable (symmetry; there are no liveness properties in that run).
  So are the devices of `dma_fallback` and the clients of `usb_nvme`.

Deadlock is checked where the number of calls is not bounded: a caller can
always send another command there. `dma_fallback`, `firmware_activate`, `block_commands`,
`lba_commands`, `usb_nvme` and `device_scan` stop when the calls of their bound are made, or the scan is done.

## 14. What is proved

All theorems hold for every value of the constants: any number of devices,
clients, processes and sectors. Where a module caps its calls, faults or
changes, the cap is a constant too, so a theorem holds for each number of them.

| Module | Theorem | States | For every behaviour |
|---|---|---|---|
| `SatPassthroughProofs` | `TypeCorrect` | `TypeOK` | types; a call sends its command at most twice |
| | `NoPingPong` | `NoRequestPingPong` | the request for registers is not turned on again once both ways to get them failed |
| | `SuccessTruthful` | `SuccessIsTruthfulUnlessDropped` | SUCCESS, without a time-out, is only said of a command the drive completed without error; the one exception is a bridge that drops a command |
| | `OwnRegisters` | `RegistersAreThisCommands` | registers a caller of a successful command relies on are those of that command, the extended ones too, but for a results log that could not be read (`LogUnread`) |
| | `DmaSwitch` | `DmaSwitchIsJustified` | the DMA mode changes only on a bridge that refused UDMA, or after a time-out |
| | `Refinement` | `ImplementsOnce` | the engine implements `AtaCommandOnce` |
| `SatIdentifyProofs` | `LadderEnds` | `TypeOK` | at most five attempts |
| | `NeverBlanked` | `OpticalNotSentA1` | no A1h to an optical drive known as one |
| | `KnownStaysKnown` | `ReportedHacksKept` | what the ID table set is kept |
| | `LadderFinds` | `WorkingBridgeFound` | the ladder gives up only where no rung could have worked |
| `AtaHelperProofs` | `TypeCorrect` | `TypeOK` | types |
| | `TwiceForRegisters` | `TwiceOnlyForRegisters` | a command is taken twice only for its registers |
| | `DmaOffJustified` | `DmaOffForCauseAndGood` | DMA is switched off only for a cause, and a family a drive refused as DMA is not sent to it as DMA again |
| | `OwnCommandFed` | `DataFeedsOwnCommand` | the data of an SCT operation goes to its own command |
| | `SuccessTaken` | `SuccessMeansTaken` | SUCCESS means that the drive executed every step |
| | `TestTypeCorrect` | `TestTypeOK` | types of the register test; the score stays in its range |
| | `FirstProtects` | `FirstTestProtects` | after one discovery no altered command gets through an adapter that loses one register |
| | `GuardExact` | `GuardIsExact` | after any number of discoveries the guard blocks what it has to and nothing else |
| | `BrokenUnanimously` | `BrokenOnUnanimity` | a register is found broken only if all six tests lost it |
| `FirmwareActivateProofs` | `TypeCorrect` | `TypeOK` | types |
| | `ResetWarranted` | `ResetIsWarranted` | a drive is only reset by a call that allows it and had an image committed, or did not hear of its refusal |
| | `TakenOnce` | `AcceptedOnce` | the drive takes an image at most once for a call |
| | `SuccessRuns` | `SuccessMeansRunning` | what SUCCESS says of the image |
| | `PowerCycleSuffices` | `PowerCycleActivates` | POWER_CYCLE_REQUIRED is true |
| `BlockCommandsProofs` | `TypeCorrect` | `TypeOK` | types |
| | `NothingElseWritten` | `OnlyAskedBlocks` | whatever fails, no command but UNMAP changes a block outside its own |
| | `WrittenTruly` | `SuccessMeansWritten` | GOOD means written, but for failures hidden or not heard and blocks never sent |
| | `VerifiedTruly` | `VerifiedMeansReadable` | a verification that is good read every block, and compared it, with BYTCHK 11b the first one |
| | `DurableTruly` | `DurableWhenTold` | FUA and SYNCHRONIZE CACHE mean saved, but for failures hidden or not heard |
| `UsbNvmeBridgeProofs` | `TypeCorrect` | `TypeOK` | types |
| | `OwnCommandRuns` | `RunsOwnCommand` | a payload left in the bridge by a call that broke off is not run by a later one |
| | `SuccessRun` | `SuccessMeansRun` | SUCCESS means the drive ran the command without error |
| | `ResetTruth` | `ResetTellsTheTruth` | a reset that reports success restarted the drive |
| `LbaCommandsProofs` | `TypeCorrect` | `TypeOK` | types; no form is learned or tried that the interface does not have |
| | `WhatWasAsked` | `DoesWhatWasAsked` | whatever an earlier call taught, a later one acts on its blocks and no others, with its data, and its success is true, as long as address and count fit the forms learned |
| | `ForcedSaved` | `ForcedMeansSaved` | FUA and a flush mean saved |
| `LinuxProofs` | `TypeCorrect` | `TypeOK` | types; the lock count stays in its range |
| | `MutualExclusion` | `OneOwner` | of the processes told to have the lock, and not told of a refused exclusive access since, one has |
| | `LocksGivenBack` | `HandleLockGivenBack` | a lock of the first kind is held only while somebody is counted |
| | `NothingKept` | `CloseGivesBack` | a closed handle keeps nothing; `SecondHandleTruthful` on the way |
| | `ExclusiveAlone` | `ExclusiveIsAlone` | a device that says its handle is exclusive is alone on the drive |
| | `ListWhole` | `RaidListWhole` | the list of RAID handles loses no memory and has no dangling pointer |
| | `OverrunByOne` | `PastTheListOneController` | where writes pass the end of the list, they are the drives of one controller |
| | `NothingTwice` | `ListedOnce` | no handle and no drive is listed twice |
| | `ResultTrue` | `ResultIsTrue` | what `get_Device_List` returns is true of its list, but for a FAILURE after no drive behind controllers worked, and a system without a handle |
| | `NothingLeftOut` | `AllListed` | a list with room for what was counted has every device and drive that answers, if nothing came or went, there are sg handles, and no more handles than MAX_DEVICES_TO_SCAN |

The last column has few words; the exceptions, and what each property says
exactly, are in the comment before it in its module.

`SecondHandleTruthful` and `ReportedHacksKept` are proved and not run: the proof
covers every value of the constants. The theorems about `TypeOK` take the place of
runs of it in the same way.

### Assumptions

Those on the constants, each with the code it comes from beside it in its module:

- `SatAssumption`: the constants are subsets of their types, and a device not
  known by its IDs does not start with `checkConditionEmpty` or with both halves
  of the ping-pong set (only the ID table sets them beforehand).
- `IdentifyAssumption`: types, and what the ID table can have set when discovery
  starts: no `retryWithJMicronPT` beside the type NONE, and the JMicron type
  only with `hacksSetByReportedID` (`common_public.c` 5690, 5751, 5917, 6961).
- `NopAssumption` (`NopTest`): adapters and answers are of their types.
- `LockCountMaxAssumption`, `NoneAssumption` (`HandleLock`).
- `BoundsAssumption` of `DmaFallback`, `FirmwareActivate` and `UsbNvmeBridge`:
  the caps are natural numbers. `DrivesAssumption`, `OpsAssumption`
  (`DmaFallback`), `CommandsAssumption` (`UsbNvmeBridge`): types of the drives,
  operations and commands.
- `ScanAssumption` (`DeviceScan`): the bounds and `MaxDevicesToScan` are natural numbers, systems are of type `System`, and the owner of
  a volume is a controller of the system. `NodesAssumption` (`RaidHandleList`):
  list entries are finitely many and NULL is none. `MemoryAssumption` (`DeviceScan`),
  which only `NothingLeftOut` uses: there are entries enough for all units, that is,
  the `calloc` of a list entry does not fail. Where it fails, the code leaves the
  controller out of the list and tells nobody (`raid_scan_helper.c` 39-58).
- `MediumAssumption`, `LimitsAssumption`, `DrivesAssumption`, `MediaAssumption`,
  `CallsAssumption` (`DriveMedium`, `SatlBlock`): the limits are positive and in
  the order of the source's, and a call has only the flags its CDB has.
- `LimitsAssumption`, `DrivesAssumption`, `MediaAssumption`, `CallsAssumption`
  (`LbaCommands`): six bytes hold less than ten; an SCSI drive with FUA takes reads
  and writes in ten bytes (those of six have no FUA bit); a call has blocks to act
  on, but for a flush and a WRITE SAME to the end, and one without a pattern
  writes zeros (`cmds.c` 1135).

### Arguments

- `SatPassthroughProofs`. The inductive invariant is `Inv` = `Types`, `Sends`,
  `Verdict`, `Answered` and `NoRequestPingPong`. "At most one execution" is not
  inductive: a call is sent twice if the first was refused, so `Sends` says
  where in the call the counters may stand and that a retry follows
  only a refusal. "Success only if executed" needs `Verdict` and `Answered`: while
  the call runs, a command neither executed nor lost leaves `ret` or the
  registers in a state from which no action reaches SUCCESS. The refinement
  then is one step per action: `Send` maps to the execution, `SendLost` to the
  loss, `Finish` and `Block` to the return, all others to a stutter.
  The three properties of what a returned call says need a second
  invariant, `Truth`, on top of the first: `Completed` (what the bridge did at
  each step of the call), `LostCall` (only a dropping bridge or a time-out loses a
  command), `SuccessSource` and `RegsSource` (where the verdict and the registers
  of the running call came from),
  `Claim` (the same of a returned call) and `Blame` (a DMA switch
  is only tried after the refusal that warrants it).
- `SatIdentifyProofs`. The variant `attempts + Left(hacks)`: each rung spends
  one of four hacks the ladder never restores. The guard `A1Off`: while
  commands are being sent, a drive known to take packets has A1h off or its
  bridge is known; needed because `blanked` only says what happened.
  `LadderFinds` rests on `Climb`: what is known at each rung of the drive
  (`Signed`, `Packet`) and of the hacks already spent (`Turned`, `Told`), and
  `Refusal`, that a rung was left only because the bridge refuses its form; at
  the end of the ladder every form left is one the bridge refuses.
- `AtaHelperProofs` has the two things `ata_helper.c` learns of a device, as two
  specifications side by side. For `DmaFallback`, `Inv` adds to the properties `Counts` (how often the
  running command can have been taken, by the form it is at), `Waiting` (during a call
  the drive waits with this call's command exactly if it executed it) and `Flags` (why each
  flag is off; while the PIO form is tried the one flag of its command is open).
  For `NonDataGuard`, `GuardInv` follows the counters and the score of the test, whose
  thresholds decide: `Counted` bounds them by the number of tests done;
  `CountKept` says of an adapter that loses the count that every test lost it and
  that the score stays between those that decide otherwise, also in a second
  discovery, whose NOPs the guard itself blocks; `NothingLost` and `Moved` say what
  an adapter that loses nothing makes of the counters (libata, which
  moves the count, apart); `FirstTest` is about one lost register in the first discovery,
  and `Carried` about the command sent since.
- `FirmwareActivateProofs`. `OptionsInv` (which activation the requested options
  select), `Fresh` (before the first commit nothing was accepted), `Second` (the
  second commit is one on reset, after the drive ran out of time), and
  `BeforeReset`: a reset follows a commit that was taken, and SUCCESS is
  promised before it only where the image waits in its slot (`Pending`).
- `BlockCommandsProofs`. One action is one ATA or NVMe command, so the invariant
  says what holds between two of them: `Placed` and `Position` (the next chunk
  starts where the last one ended and the last one is shortened to the end of
  the range), `Behind` (what lies behind the position is written, readable or
  saved, as the command wants it), `Accepted` and `Single` (a length that passed
  the checks is sent whole),
  `OnlyAskedBlocks` itself and `Promises` (the three properties of a GOOD status).
- `UsbNvmeBridgeProofs`. `ClientInv(c)` for each client: `Busy` (which phases
  have a command), `OwnPayload` (a client not disturbed since its command
  phase finds its own payload in the bridge), `OwnCompletion` (and in the
  completion phase its own completion), `Opcode` (what the calls of a reset
  send). One step changes one client; `Left(d)` says that it leaves the
  bridge as `d` left it or marks `d` as mixed with another.
- `LbaCommandsProofs`. `Inv` adds to the two promises `Serves` (which calls a step
  is part of), `Tried` (while a form is searched for, the drive was found not to take
  the one above), `Learnt` (what is remembered of a drive is true of it: six bytes
  only if it has no more, FUA only if it has FUA, the largest form if it is
  large and takes all of them), `Halfway` (between two steps of one call: a block was
  written before it is verified, or verified before it is read). `WholeAddress` is
  the crux: within reach, a form that the drive takes cuts neither address nor count;
  it is by cases on the size of the drive, and each case on `Learnt` and `Tried`.
- `LinuxProofs`, `HandleLock`. `Inv` = `TypeOK`, `Alone` and for every process
  `Local(c)`: `HowInv` (which kind of system call comes next), `FilesInv`
  (which descriptors are open at each step), `FlagInv`, `HeldInv` (which lock
  the kernel holds for the process at each step), `GivenBackInv`. The
  properties speak of idle processes; the invariant must say what holds in the
  middle of each call. Every step changes one process, and `Frame` says that
  `Local(d)` of all others survives because a lock changes hands only by way
  of its owner; so each action is proved for one process only.
- `LinuxProofs`, `DeviceScan`. In `ScanInv`, `ListInv` is about the linked list: `Whole` (the cells in
  memory are the list from `begin`, by `Reach`, the smallest set closed under `next`, which
  needs no recursion), `LastOf` (a new cell is
  hung on the end), `NoneTwice`. On top of it `NamesOnce` and `Listed` (a
  node, a volume and a RAID handle enter the device list once), `Exceeds` (the list
  grows past the number found only in the last controller), `HandlesCounted` and
  `DrivesCountedRight` (the counters a result is computed from), `Ends` (what
  the result says of them).
  For `AllListed`, `AllInv` is inductive relative to `ScanInv`. `CountInv`: while
  the devices are counted, every controller found is noted, and the count is at
  least the handles and the drives of the controllers no longer in the list of
  handles. `FillInv`: while the list is filled in, what was dealt with is in
  it, and what is in it is no more than those handles and drives; so where the room
  ends, nothing is left (`RoomForHandles`, `RoomForDrives`). `Ahead` says that the
  walk still comes to every entry that takes requests, though it removes entries.
  The drives of all controllers are not a sum, which would take
  induction, but the cardinality of a set of pairs (`Behind`): one controller more
  has as many pairs more as it has drives (`BehindOne`).

### Only model-checked

- Liveness: `CallsReturn`, `CommandsReturn`, `CallsEnd`. The temporal prover
  knows neither fairness nor ENABLED.

## 15. What the code does otherwise than it says

Two disagreements are runs that find the behaviour in the model:

- `ProtectionLasts` (`ata_helper.c` 2305). The NOPs of a second discovery are blocked by the guard of the
  first; no answer counts as a consistent one, and the protection is turned off.
- `NothingPastTheList` (`ciss_helper.c` 1521). The loop over a controller's drives does not ask
  whether the list has room; `common_public.h` 2593-2596 and `sg_helper.c`
  2919-2922 say as many as fit are filled in.

The others are control flow of the models; where a property is about them it
names them as its exception.

Engine (`sat_helper.c`):

- 1815: the timeout is decided by the duration of the last CDB sent, which may
  be the return response request (1667): a command that ran into its timeout
  then returns SUCCESS (`sat_helper_func.h` 290).
- 1446, 1428-1437, 1792: if the results log cannot be read, the warning about incomplete
  registers is lost, and FFh placeholders are returned as extended registers with
  SUCCESS (compare 356): `LogUnread`, the exception of `RegistersAreThisCommands`.
- 1693: registers from the log or the vendor bytes make the result SUCCESS before
  they are judged; if an earlier command had empty registers they are then
  dropped, and a command the drive aborted returns SUCCESS. The same defence
  drops valid registers of a later command that came with sense data.
- 1257: if count and LBA are both lost, only the count is guarded; the value for
  both is never assigned.
- 1489: a failed request clears `returnResponseInfoSupported` even for a product
  known by its ID (`common_public.h` 1090-1092), and its result is looked at
  only through `ret` (1492). One transient failure disables it for good.
  1398, 1597: the retry with DMA is not reached if the refusal came in fixed
  format. 1281-1291: the early return of a blocked command leaves
  `ptrSenseData` pointing at its own stack buffer and does not free the CDB.

Register test and ladder (`ata_helper.c`):

- 2606: the verification does not expect
  WARN_INCOMPLETE_RTFRS, which the workaround it verifies produces, so it never
  confirms. 2305: the early exit also overwrites a libata workaround; the
  comment at 2076-2078 describes less. An adapter that zeroes the LBA and lets
  NOPs end otherwise than in an abort gets ALLOW_ALL. 2506: an adapter that loses nothing,
  whose answers come back in the form of libata, does have commands blocked (`CountUnreadable`).
- 1929-1932: after invalid field the comment goes on with TPSIU,
  the code leaves A1h first, so a bridge taking only A1h with TPSIU is not
  found; the second half ("if still invalid operation code and USB, try
  TPSIU") does not exist. Turning off `alwaysCheckConditionAvailable` does not
  change the CDB of IDENTIFY, which never has the bit, and loses what was known.
  After a JMicron attempt that failed, the type stays JMicron. A wrong checksum
  counts as a failure of the form.

DMA forms (`ata_helper.c`): the flag is decided by the sense data of the last
command (166), which may be a follow-up's; four flags are static and shared by all
devices (751, 806, 958, 1022); WRITE SAME does not look at the result of its command (512).

Firmware:

- `cmds.c` 538-539: POWER_CYCLE_REQUIRED overwrites the result of a commit that
  failed; a reset the caller forbids after an immediate activation is not
  reported.
- `sg_helper.c` 3319 (also 3274, 3370, 3426): the Linux ioctl returns the drive's NVMe status
  as a positive number, and only a negative one is treated as a failure. The result stays
  SUCCESS, and `set_NVMe_Last_Completion` (`nvme_cmds.c` 92-97) clears the status: a commit
  the drive refused is a success ("SUCCESS = pass, !SUCCESS = something when
  wrong", `include/nvme_helper_func.h` 293), and the drive is reset with the old firmware running. The
  same holds of every other NVMe command (`silent` in sections 8 and 9).
- `nvme_helper.c` 564: the violation of the maximum time has result SUCCESS.
  `nvme_cmds.c` 703: a slot above 7 returns with the status of an earlier command.
  The result of the reset is not looked at.
- `sg_helper.c` 3622: `os_nvme_Subsystem_Reset` announces a subsystem reset
  (3621; `cmds.c` 527) and asks the driver for a controller reset: a drive that
  needs the former keeps its old firmware, and the call succeeds.

Block commands, SAT (`sat_helper.c`):

- UNMAP: the loop of 12592-12593 only ends for ranges longer than an entry;
  entries are written big-endian (12594); the buffer is overrun by one entry;
  a range ending at the last block is refused; `trimBuffer` is allocated twice.
- FORMAT UNIT: the certification loop (6402) has a flag `exitTheLoop` that is
  never reset (6329-6330); certification near the end is refused; the rewrite of
  128 blocks is not shortened.
- WRITE SAME without a count and FORMAT UNIT miss the last block (5335-5336). A
  28-bit write of 65536 blocks writes 256 (2443).
- The result of a write is overwritten by that of the verification after it
  (2471, 5786), and of a chunk by that of a later one (2702). A comparison ignores a failed read
  (2531). VERIFY is given its count in blocks where bytes are expected: a count of
  0, so 65536 or 256 blocks are verified.
- 2551, 5832-5845: VERIFY with BYTCHK 11b compares the one block of data it is given with the
  first block alone ("compare each logical sector to the data sent into this command", 2548).
- 19452: the static `deviceInfoAvailable`: a second device is translated with
  identify data of zeros. The same in `sntl_helper.c` 11105.
- `ata_cmds.c`: the multiple form of a PIO write is built with the operators of a read (not
  modelled).

Block commands, NVMe (`sntl_helper.c`): 7450, the loop of UNMAP makes nothing
less, fills its buffer with one range and runs past its 4096 bytes; entries are
big-endian; `numberOfRanges` has eight bits. VERIFY without byte check sets no
sense data: its result is the return value alone. Read while modelling and not modelled:
MODE SELECT's result is dropped by the dispatcher; a PERSISTENT RESERVE OUT whose NVMe command is lost returns SUCCESS; READ
RESERVATION looks for the holder at bit 2, READ FULL STATUS at bit 0; the
number of registrants is read with its bytes swapped.

Block operations (`cmds.c`):

- 1770-1826, 1981-1983: the form that worked once is used from then on, whatever
  the call ("to issue a correct command without any other issues"). Where a small
  one was enough, the address and count of a later call are cut to its bits.
- 851, 996: once a block of data is known to be needed, the 16-byte WRITE SAME sends a
  block of zeros, also for a caller with a pattern.
- 918: a drive that has only WRITE SAME of 16 bytes and few blocks is asked in ten
  bytes first, and remembered as having none.
- 2076: the verification in place of FUA overwrites the result of a failed write.
  1551: a PIO write of one block per interrupt has no FUA form, and is not verified
  because FUA was to be used.
- NVMe counts above 65536 are cut to 16 bits. 1013, 1019, 1026: the 64-bit count of WRITE SAME is
  cut to the 32 bits of the 16-byte CDB (the TODO at 957; `include/cmds.h` 326-327 says a UINT32 is the most).
- 1085-1108: WRITE SAME with a count of 0 is 256 sectors to an ATA drive without SCT,
  where it goes to the end of any other.

USB bridges:

- `jmicron_nvme_helper.c` 135: the opcode of an I/O command is written into the CDB
  instead of the payload, where it stays 00h (FLUSH).
- `realtek_nvme_helper.c` 242-246: the result of the data phase is dropped where
  there is no completion. A completion of an earlier command is taken for this
  one's. On Linux a command timed out by the host is a pass-through failure,
  so that the completion is asked for while the command may still run.
- JMicron and ASMedia drop the fused bits and the command ID; basic Realtek drops all but
  the opcode and the low byte of dword 10. The data phase of ASMedia has the
  default timeout, not the command's. A refused call is
  measured by the duration of the one before it. A bidirectional command leaves its payload in a JMicron bridge.
- A failed MCU reset leaves the drive of a JMicron bridge shut down; a lost answer to the shutdown is
  reported as not supported, with the drive stopped.

Handles:

- `sg_helper.c` 3908, with 3767-3794: a lock refused as an open file
  description lock and granted a moment later as a process lock is not released by the
  last unlock, which asks for the first kind only and succeeds.
- `posix_common_lowlevel.c` 142: an exclusive open that is only recommended and
  fails twice is reported as SUCCESS with descriptor -1
  (`posix_common_lowlevel.h` 57-58).
- `sg_helper.c` 3890-3893: a refused lock of the first handle does not keep the
  second from being locked, and that lock stays until the close. 3897: the
  count saturates, so 65536 nested requests are undone by 65535. 3838-3866:
  `os_Get_Exclusive` gives up a counted lock while it reopens; two concurrent
  calls can leave one with descriptor -1.

Device scan:

- `sg_helper.c` 3076: handles past MAX_DEVICES_TO_SCAN are not tried, though `get_Device_Count`
  (2803-2893) counted them; the results compare with the count (3184-3203), so that SUCCESS is returned.
- `ciss_helper.c` 278-281: `scandir` of "/dev" cannot find "cciss/c". The handle names
  made for drives know no disks, so that the special case of `sg_helper.c`
  3117-3125 lists only entries that fail. A system without devices returns
  PERMISSION_DENIED (0 of 0 were denied); finding no drive behind any
  controller fails the whole list. `handleFlags |= ~O_EXCL` (1127) sets all other bits.
- `remove_Duplicate_Devices` (`common_public.c`) removes nothing: no code sets the
  flag its test looks at. Its indices (3577, 3581) would be wrong if it did.

## 16. What is not modelled

- Of the engine: Windows on an IDE interface, drives with sense data reporting
  (one more command after an error), the layout of CDBs and registers.
- Of discovery: what `fill_In_ATA_Drive_Info` reads out of the identify data
  beyond the drive type, the pass-throughs other than SAT and JMicron,
  `set_ATA_Passthrough_Type_By_Trial_And_Error` (it has no caller).
- Of the translators: the mode, log and VPD pages, security, zones, reservations
  and sanitize, which convert layouts, and the multiple form of PIO transfers; memory that cannot be allocated.
- Of the block operations: reads and writes given to the operating system (`os_Read` and
  the like), WRITE AND VERIFY, addresses of CHS drives.
- Of the Linux handle: unmounting, `fcntl` failing for reasons other than a
  conflict, the NVMe handle pairs.
- Of the device scan: allocation failures, the check of structure versions,
  systems other than Linux.
- The components listed as not modelled in `PROJECT.json`, each with the
  reason: planned (section 17), or layout and I/O.

## 17. Plan

Built so far: the engine, the register test with its guard, the Linux handle,
the identify ladder; then the DMA forms, firmware activation, the block commands
of both translators, the block operations, the USB bridges, and the device scan.

Next, most important first:

Modules:

| Module | Models | Properties |
|---|---|---|
| `AtaDiscovery` | composes `SatIdentify` and `NopTest` as `fill_In_ATA_Drive_Info`; takes over the runs of both | the register test runs only over a form that was found; its verdict survives a rediscovery |
| `ScsiOpcodeSupport` | learning of operation code support (`scsi_cmds.c` 350-672), where `check_inq_cmddt` always reports support of the CmdDT check (622) | limits; learned only from a refusal |
| `Unmount` | partition unmount and its retry (`nix_mounts.c` 632-829), then composed with `HandleLock` | no erase with a file system mounted |
| `SntlReservations` | PERSISTENT RESERVE IN and OUT on NVMe reservations | the holder reported is the holder |

Runs are few on purpose: each further module either takes over the run of what it
composes, or replaces a run that asks less.
