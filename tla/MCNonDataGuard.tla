--------------------------- MODULE MCNonDataGuard ---------------------------
(***************************************************************************)
(* Instances of NonDataGuard: every steady adapter, and one that answers   *)
(* each NOP as it likes.                                                   *)
(***************************************************************************)
EXTENDS NonDataGuard

Quiet == {}

Steady == {a \in AdapterSet : a.steady}

Noisy == {[zeroes |-> {}, back |-> "plain", ret |-> "ABORTED", steady |-> FALSE]}

(* An LBA found elsewhere is left out, and a NOP that ends in success,     *)
(* which only the verification tells from another unexpected end.          *)
AnyNoise == {r \in ResponseSet : /\ r.csi = r.unaligned
                                 /\ r.lba # "offset"
                                 /\ r.ret # "SUCCESS"}

AllAdapters == Steady \cup Noisy
=============================================================================
