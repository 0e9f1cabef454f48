----------------------------- MODULE MCBlockRun -----------------------------
EXTENDS BlockRun, MCBlockLayout
=============================================================================
