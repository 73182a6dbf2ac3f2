--------------------------- MODULE TimeoutHandler ---------------------------
(***************************************************************************)
(* TimeoutHandler (TC/src/Utils.cpp): the interrupt callback that makes a  *)
(* blocking call of libavformat give up when too much time has passed      *)
(* since the last Reset.  Time passes in ticks of a millisecond.           *)
(***************************************************************************)
EXTENDS Integers

CONSTANTS
  NotGiven,       \* no "timeout" in the dictionary
  TimeoutOption,  \* the value of "timeout": a number, another text or NotGiven
  DefaultTimeout  \* s_default_timeout

ASSUME TimeoutAssumption == DefaultTimeout \in Nat

VARIABLE elapsed  \* ticks since m_last_time; one more than the timeout stands for more

fromString(val) == IF val \in Nat THEN val ELSE DefaultTimeout
m_timeout == IF TimeoutOption = NotGiven THEN DefaultTimeout ELSE fromString(TimeoutOption)

Reset == elapsed' = 0
IsTimeout == elapsed > m_timeout

TimePasses == elapsed <= m_timeout /\ elapsed' = elapsed + 1
=============================================================================
