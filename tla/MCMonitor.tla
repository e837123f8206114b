------------------------------ MODULE MCMonitor ------------------------------
(* Instances of the monitor for TLC: a few threads, and the limits of the    *)
(* readers/writers and of the strict producer/consumer use.                  *)
EXTENDS Monitor, TLC

CONSTANTS r1, r2, r3, w1, w2

limit(r, w) == [c \in {"READER", "WRITER"} |-> IF c = "READER" THEN r ELSE w]
TwoReadersOneWriter == {limit(2, 1), limit(1, 1)}
==============================================================================
