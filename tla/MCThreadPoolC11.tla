--------------------------- MODULE MCThreadPoolC11 ---------------------------
EXTENDS ThreadPoolC11

CONSTANTS t1, t2, t3, t4

\* The owner enqueues t1 and t2; t1, while it runs, enqueues t3 and t4.
MCCaller == [t \in {t1, t2, t3, t4} |-> IF t \in {t1, t2} THEN Owner ELSE t1]
=============================================================================
