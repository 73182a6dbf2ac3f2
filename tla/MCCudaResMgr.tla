---------------------------- MODULE MCCudaResMgr ----------------------------
(* Two threads and two GPUs, with a stream to spare: a second stream for   *)
(* one GPU would be seen.                                                  *)
EXTENDS CudaResMgr
=============================================================================
