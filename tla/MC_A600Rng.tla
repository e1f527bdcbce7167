------------------------------ MODULE MC_A600Rng ------------------------------
EXTENDS A600Rng
============================================================================
