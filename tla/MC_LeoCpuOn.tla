----------------------------- MODULE MC_LeoCpuOn -----------------------------
EXTENDS LeoCpuOn

\* sp_min's entry point lies at the base of BL32 (LEO_BL32_BASE, 0x80E00000).
MCSecEntry == 32992

\* A non-secure entry point just below DDR and one at its base.
MCNsEntries == {LEO_DDR_BASE - 1, LEO_DDR_BASE}
\* The retention state, and one word with each field non-zero: a
\* power-down type, level 1, StateID 1.
MCPowerStates == {0, 65536, 16777216, 1}
\* The four SiP calls and a function ID the handler does not know.
MCSipFids == {LEO_SIP_SVC_CALL_COUNT, LEO_SIP_SVC_UID, LEO_SIP_SVC_VERSION,
              LEO_SMC_BSEC, "OTHER_SIP_FID"}
\* bsec_main returns BSEC_OK or an error.
MCBsecResults == {0, 4}
=============================================================================
