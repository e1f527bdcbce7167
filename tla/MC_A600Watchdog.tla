-------------------------- MODULE MC_A600Watchdog --------------------------
EXTENDS A600Watchdog

\* RSTS: cleared, boot partition 1, partition 32, and a status bit outside
\* the partition field.
MCInitRsts == {0, 1, 1024, 4096}
\* RSTC with each WRCFG setting, one with another bit set.
MCInitRstc == {0, 16, 32, 48, 1}
============================================================================
