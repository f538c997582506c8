---------------------------- MODULE MCBlockFetch ----------------------------
EXTENDS BlockFetch

\* Two batches: the first row, and part of the second.
MCPartition == <<{<<0, 0>>, <<0, 1>>}, {<<1, 0>>, <<2, 1>>}>>
=============================================================================
