---------------------------- MODULE MCPanelTest -----------------------------
EXTENDS PanelTest

Buffers == 0 .. NBUF - 1
=============================================================================
