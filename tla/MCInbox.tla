------------------------------ MODULE MCInbox -------------------------------
EXTENDS Inbox

CONSTANTS c1, c2

\* The second content, when complete, is larger than MaxUpload; half of it has
\* the size of the first.
MCSize == [c \in {c1, c2} |-> IF c = c1 THEN 1 ELSE 2]
=============================================================================
