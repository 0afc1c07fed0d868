--------------------------- MODULE MCUsbNvmeBridge ---------------------------
(* UsbNvmeBridge for TLC: interchangeable clients, and of each kind of     *)
(* command that the code tells apart one.                                  *)
EXTENDS UsbNvmeBridge, TLC

Symmetry == Permutations(Clients)

Of(set, op, full, fits, patient) ==
  [what |-> "command", set |-> set, op |-> op, full |-> full,
   fits |-> fits, patient |-> patient]

MCCommands ==
  {Of("admin", "in", FALSE, TRUE, FALSE),     (* identify, get log page    *)
   Of("admin", "none", TRUE, TRUE, TRUE),     (* format, given its time    *)
   Of("admin", "both", FALSE, TRUE, FALSE),
   Of("io", "out", TRUE, TRUE, FALSE),
   Of("io", "in", FALSE, FALSE, FALSE)}       (* direction does not fit    *)
=============================================================================
