------------------------------- MODULE MCGossip -------------------------------
\* Each memory knows only the one before it.
EXTENDS Gossip

Chain == [m \in Memories |-> {m - 1} \cap Memories]
===============================================================================
