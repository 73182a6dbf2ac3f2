---------------------------- MODULE MCPyNvEncoder ----------------------------
(* The encoder as Python calls it on a small ring: any call at any time, a  *)
(* client that goes on after failures, and the task's refinement of         *)
(* PacketFifo.                                                              *)
EXTENDS PyNvEncoder

Fifo == INSTANCE PacketFifo WITH
  Delay <- OutputDelay,
  sent <- m_iToSend,
  out <- delivered,
  broken <- failures > 0 \/ failedRuns > 0

\* Until the first error the task implements the FIFO: one packet per surface,
\* in order, never more than m_nOutputDelay behind.
ImplementsFifo == Fifo!Spec
=============================================================================
