------------------------------- MODULE MCBoot -------------------------------
EXTENDS Boot

\* 1020 MB of memory from 1 GB on, then the UART and the interrupt controller.
MCBootMap == [s \in 0..511 |-> IF s < 510 THEN 512 + s ELSE IF s = 510 THEN 72 ELSE 64]

=============================================================================
