---------------------------- MODULE MCDmaFallback ----------------------------
(* DmaFallback for TLC: interchangeable devices, each one of six drives. *)
EXTENDS DmaFallback, TLC

Symmetry == Permutations(Devices)

Of(log, mode, dma, oneAtATime) ==
  [log |-> log, mode |-> mode, dma |-> dma, oneAtATime |-> oneAtATime,
   errorLogDma |-> dma = {}]

MCDrives ==
  {Of("gpl", TRUE, {}, FALSE),                      (* refuses all in DMA form *)
   Of("gpl", TRUE, {"log"}, TRUE),
   Of("gpl", TRUE, {"log", "trustedSend"}, FALSE),
   Of("gpl", FALSE, {}, TRUE),                      (* has no DMA mode         *)
   Of("smartOnly", TRUE, {"trustedSend"}, FALSE),
   Of("none", TRUE, {}, TRUE)}
=============================================================================
