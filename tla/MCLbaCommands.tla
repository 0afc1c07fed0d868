--------------------------- MODULE MCLbaCommands ---------------------------
(* LbaCommands for TLC: thirteen drives of five blocks, more than the addresses of the *)
(* ten-byte forms of a large drive can tell apart.                         *)
EXTENDS LbaCommands

Rw == {"read", "write", "verify"}
AllOf(f) == (Rw \cup {"sync", "same"}) \X {f}

Scsi_(ver, forms, has) == [iface |-> "scsi", ver |-> ver, forms |-> forms, has |-> has]
Ata_(forms, has) == [iface |-> "ata", ver |-> Spc3, forms |-> forms, has |-> has]
Nvme_(has) == [iface |-> "nvme", ver |-> Spc4, forms |-> AllOf(Queue), has |-> has]

PioForms == {"read", "write", "verify", "sync"} \X {Pio}
DmaForms == {"read", "write"} \X {Dma}

MCDrives ==
  {Scsi_(Spc4, AllOf(Cdb16) \cup AllOf(Cdb10), {"large", "fua", "ndob", "compare"}),
   (* no NDOB, FUA or comparison; the cache in ten bytes only               *)
   Scsi_(Spc4, ((AllOf(Cdb16) \cup AllOf(Cdb10)) \ {<<"sync", Cdb16>>})
                 \cup (Rw \X {Cdb12}), {"large"}),
   (* VERIFY in ten bytes only, no cache commands                           *)
   Scsi_(Spc3, ({"read", "write", "same"} \X {Cdb16}) \cup (Rw \X {Cdb10}), {"large"}),
   Scsi_(Spc4, AllOf(Cdb10) \cup AllOf(Cdb16), {"fua", "compare"}),
   Scsi_(Spc, (Rw \X {Cdb12, Cdb16}) \cup {<<"sync", Cdb10>>}, {"large", "usb"}),
   Scsi_(Scsi1, {<<"read", Cdb6>>, <<"write", Cdb6>>, <<"verify", Cdb10>>}, {"tiny"}),
   Ata_(DmaForms \cup PioForms, {"ext", "fua", "sct"}),
   Ata_(PioForms, {"ext", "fua", "multiple"}),
   Ata_(PioForms, {"ext", "fua"}),
   Ata_(PioForms, {"legacy"}),
   Nvme_({"compare", "verify"}),
   Nvme_({}),
   Nvme_({"compare", "verify", "silent"})}

Do(o, p, v, flags) == [op |-> o, lba |-> p[1], n |-> p[2], v |-> v, flags |-> flags]
MCCalls ==
  {Do("read", p, 0, f) : p \in {<<2, 3>>, <<3, 2>>}, f \in {{}, {"fua"}}}
  \cup {Do("write", p, 2, f) : p \in {<<0, 2>>, <<4, 1>>}, f \in {{}, {"fua"}}}
  \cup {Do("verify", p, 0, {}) : p \in {<<1, 2>>, <<3, 2>>}}
  \cup {Do("compare", <<0, 2>>, v, {}) : v \in {0, 1}}
  \cup {Do("writeSame", p, 2, {}) : p \in {<<0, 5>>, <<2, 0>>, <<4, 1>>}}
  \cup {Do("writeSame", p, 0, {"noData"}) : p \in {<<0, 2>>, <<2, 0>>}}
  \cup {Do("flush", <<0, 0>>, 0, {})}

(* Blocks 1 and 2 may still be in the cache only. *)
MCMedia ==
  {[data |-> [b \in Blocks |-> 1],
    saved |-> [b \in Blocks |-> IF b \in {1, 2} THEN 0 ELSE 1],
    bad |-> x] : x \in {{}, {4}}}

=============================================================================
