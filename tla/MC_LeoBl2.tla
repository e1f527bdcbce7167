------------------------------ MODULE MC_LeoBl2 ------------------------------
(* Leo BL2 with a legacy OP-TEE header and with version 2 headers that     *)
(* place the pager and the paged image at the window base, inside the      *)
(* window or outside it, or leave the load address to BL2.                 *)
EXTENDS LeoBl2

MCHeaders ==
  {[kind |-> "legacy"]} \cup
  [kind : {"v2"},
   pager : {INVALID_LOAD_ADDR, 2062, 2063, 2080},
   paged : {ABSENT, INVALID_LOAD_ADDR, 1760, 2080}]

\* LEO_DDR_NS_START (leo_def.h:35): the start of non-secure DDR.
MCNsImageBase == 2080

============================================================================
