--------------------------- MODULE MC_A600HoldPen ---------------------------
(* A600HoldPen for the A600's PLATFORM_CORE_COUNT = 4 cores, core 0 being *)
(* A600_PRIMARY_CPU.                                                       *)
EXTENDS A600HoldPen

MCCores == 0 .. 3
=============================================================================
