---------------------------- MODULE MCPieEncoder ----------------------------
\* PieEncoder with short symbols and commands.
EXTENDS PieEncoder

MCQueryBits == <<1, 0>>

MCRN16s == {<<0>>, <<1>>}
=============================================================================
