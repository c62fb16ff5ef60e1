--------------------------- MODULE MCSerialInput ---------------------------
EXTENDS SerialInput

\* Where the bytes lie in the ring, and what is in the slots that are free, changes
\* nothing: SerialInputProofs shows that the ring is a queue. Nor do the variables of a
\* mode while the modem is not in it: they are written on entering it before they are
\* read. Two states that differ by these only are the same.
Seen == << Contents, mainVars, mode, lineVars, expected, payload, garbled, recentVars,
           quiet, sincePoll,
           IF mode = "ONLINE" THEN <<plusVars, owed, elapsed>> ELSE <<>>,
           IF mode = "CIPSEND" THEN <<raw, endedByCr>> ELSE <<>> >>
=============================================================================
