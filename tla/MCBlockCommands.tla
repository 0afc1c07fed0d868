--------------------------- MODULE MCBlockCommands ---------------------------
(* BlockCommands for TLC: a drive of four blocks, of eight kinds. *)
EXTENDS BlockCommands

MCDrives ==
  {{"ext", "dma", "flush", "trim", "uncor"},
   {"ext", "dma", "sct", "flush", "xl", "trim", "uncor", "phys"},
   {"ext", "zero", "flush"},                     (* PIO only                 *)
   {"dma", "flush"},                             (* 28-bit                   *)
   {},                                           (* 28-bit, PIO, no FLUSH    *)
   {"nvme", "trim", "uncor", "verify"},
   {"nvme"},
   {"nvme", "uncor", "verify", "silent"}}        (* on Linux                 *)

Command(o, lba, n, v, flags) ==
  [op |-> o, lba |-> lba, n |-> n, v |-> v, flags |-> flags, list |-> <<>>]

Places == {<<0, 0>>, <<0, 3>>, <<1, 2>>, <<3, 1>>, <<2, 3>>, <<0, 4>>, <<0, 5>>}

MCCalls ==
  {Command("read", p[1], p[2], 0, f) : p \in Places, f \in {{}, {"fua"}}}
  \cup {Command("write", p[1], p[2], 2, f) : p \in Places, f \in {{}, {"fua"}}}
  \cup {Command("verify", p[1], p[2], v, f) :
          p \in Places, v \in {0, 1}, f \in {{}, {"bytchk"}, {"bytchk", "each"}, {"reserved"}}}
  \cup {Command("writeVerify", p[1], p[2], v, f) :
          p \in Places, v \in {0, 2}, f \in {{}, {"bytchk"}, {"bytchk", "each"}, {"reserved"}}}
  \cup {Command("writeSame", p[1], p[2], 2, f) : p \in Places, f \in {{}, {"ndob"}}}
  \cup {Command("writeLong", 1, n, 0, f) :
          n \in {0, 1}, f \in SUBSET {"corDis", "wrUncor", "pblock"}}
  \cup {Command("writeLong", 4, 0, 0, {"corDis", "wrUncor"})}
  \cup {Command("format", 0, 0, 0, f) :
          f \in {{}, {"pattern"}, {"certify"}, {"pattern", "certify"}}}
  \cup {Command("sync", 0, 0, 0, {})}
  \cup {[Command("unmap", 0, 0, 0, {}) EXCEPT !.list = l] :
          l \in {<<>>, <<<<1, 0>>>>, <<<<1, 1>>>>, <<<<0, 2>>, <<2, 1>>>>,
                 <<<<3, 1>>>>, <<<<1, 0>>, <<0, 3>>>>}}

(* Blocks 1 and 2 may still be in the cache only, or differ from the others. *)
MCMedia ==
  {[data |-> [b \in Blocks |-> IF b \in {1, 2} THEN 2 ELSE 1],
    saved |-> [b \in Blocks |-> 1], bad |-> {}]}
  \cup
  {[data |-> [b \in Blocks |-> 1],
    saved |-> [b \in Blocks |-> IF b \in d THEN 2 ELSE 1],
    bad |-> x] : d \in {{}, {1, 2}}, x \in {{}, {0}, {2}}}

=============================================================================
