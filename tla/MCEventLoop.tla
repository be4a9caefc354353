------------------------------ MODULE MCEventLoop ------------------------------
\* The memory: its journal runs in the dispatcher, its gossip in a worker. The hashes make
\* two descriptors share a chain until the fifth makes the map grow.
EXTENDS EventLoop

Order     == <<"journal", "gossip">>
First     == [t \in {"journal", "gossip"} |-> IF t = "gossip" THEN 1 ELSE 0]
AtInit    == <<"gossip">>
Hashes    == <<1, 2, 3, 6, 4>>
PacketSet == {[size |-> 65538, opcode |-> 1], [size |-> 0, opcode |-> 0],
              [size |-> 0, opcode |-> 2], [size |-> 10240, opcode |-> 0]}
GarbageSet == {[size |-> 0, opcode |-> 0], [size |-> 7, opcode |-> 1], [size |-> 10241, opcode |-> 0]}
================================================================================
