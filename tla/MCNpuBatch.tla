----------------------------- MODULE MCNpuBatch -----------------------------
(* Small instances of NpuBatch: a device with three cores.                   *)
EXTENDS NpuBatch

MCIrqs == {0, 1, 2}
=============================================================================
