------------------------------- MODULE MCService -------------------------------
EXTENDS Integers, TLC
CONSTANTS Point, Task, Text, Absent, MaxHistory, MaxCalls
VARIABLES store, secured, role, history, priority, call, calls, serial, given
At(ts, val) == [ts |-> ts, val |-> val]
WriteBodies == {<<At(1, 1)>>, <<At(0, 1), At(1, Text)>>, <<At(-2, 1), At(2, 1)>>, <<At(2, 1), At(1, 1)>>}
INSTANCE Service
Symmetry == Permutations(Task) \cup Permutations(Point)
==============================================================================
