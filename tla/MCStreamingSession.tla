------------------------- MODULE MCStreamingSession -------------------------
\* A value signal with its domain signal
EXTENDS StreamingSession

CONSTANTS v, d

MCDomainOf == [s \in {v, d} |-> IF s = v THEN d ELSE NoSignal]
=============================================================================
