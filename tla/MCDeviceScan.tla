---------------------------- MODULE MCDeviceScan ----------------------------
(* Systems of up to four units for TLC: every way a disk can answer, and   *)
(* controllers with a volume, alone and two of them.                       *)
EXTENDS DeviceScan

Of(kind, open, ready, speaks, lists, owner, bad) ==
  [kind |-> kind, open |-> open, ready |-> ready, speaks |-> speaks, lists |-> lists,
   owner |-> owner, bad |-> bad]

Disk(open, ready) == Of("disk", open, ready, FALSE, FALSE, 0, {})
Nvme(open) == Of("nvme", open, TRUE, FALSE, FALSE, 0, {})
Controller(open, ready, speaks, lists, bad) ==
  Of("controller", open, ready, speaks, lists, 0, bad)
Volume(c) == Of("volume", "ok", TRUE, FALSE, FALSE, c, {})

Good == Controller("ok", TRUE, TRUE, TRUE, {})
Disks == {Disk("ok", TRUE), Disk("ok", FALSE), Disk("denied", TRUE), Disk("busy", TRUE)}
Ctls == {Good, Controller("ok", TRUE, TRUE, TRUE, {1}), Controller("ok", TRUE, TRUE, TRUE, {1, 2}),
         Controller("ok", FALSE, TRUE, TRUE, {}), Controller("ok", TRUE, FALSE, TRUE, {}),
         Controller("ok", TRUE, TRUE, FALSE, {}), Controller("busy", TRUE, TRUE, TRUE, {})}

MCSystems ==
  [sg: BOOLEAN,
   unit: {<<c, d>> : c \in Ctls, d \in Disks}
         \cup {<<c, Volume(1), Nvme(o)>> : c \in Ctls, o \in {"ok", "denied"}}
         \cup {<<c1, c2>> : c1 \in Ctls, c2 \in Ctls}
         \cup {<<Good, c, Good>> : c \in {Good, Controller("ok", TRUE, FALSE, TRUE, {})}}
         \cup {<<d, Disk("ok", TRUE), d, Disk("ok", TRUE)>> : d \in Disks}]
=============================================================================
