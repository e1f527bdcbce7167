------------------------- MODULE MC_A600VcMailbox -------------------------
EXTENDS A600VcMailbox
============================================================================
