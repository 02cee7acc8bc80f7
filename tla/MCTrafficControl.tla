-------------------------- MODULE MCTrafficControl --------------------------
(* Small instances of TrafficControl for TLC: values for the constants that  *)
(* a .cfg cannot write.                                                      *)
EXTENDS TrafficControl

\* Port 1 serves its classes round robin, the others by strict priority.
FirstRoundRobin == [p \in Ports |-> p = 1]

Growing == [c \in Priorities |-> c + 1]

\* A value for port 1, and one for the others.
First(a, b) == [p \in Ports |-> IF p = 1 THEN a ELSE b]

\* Pairs of algorithms, so that every one is met beside another, and a port with
\* private bytes alone; the sizes that keep each instance small.
Pairs ==
    {[alg |-> First("DT", "CS"),  static |-> First(0, 0), sizes |-> First(Sizes, Sizes)],
     [alg |-> First("FAB", "DT"), static |-> First(0, 0), sizes |-> First(Sizes, {1})],
     [alg |-> First("IB", "DT"),  static |-> First(0, 0), sizes |-> First(Sizes, {1})],
     [alg |-> First("ABM", "CS"), static |-> First(0, 0), sizes |-> First({1}, {1})],
     [alg |-> First("CS", "CS"),  static |-> First(3, 0), sizes |-> First({1}, {})]}

\* Device queues: port 1 counts packets, the others count bytes.
PacketsFirst == First("PACKETS", "BYTES")
SmallDevices == First(1, 6)
=============================================================================
