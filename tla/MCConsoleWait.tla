---------------------------- MODULE MCConsoleWait ----------------------------
\* Two clients for TLC, one of them with two threads and a handle of its own.
EXTENDS ConsoleWait

CONSTANTS c1, c2

TwoClients == {c1, c2}
ThreeThreads == {<<c1, 1>>, <<c1, 2>>, <<c2, 1>>}
ThreeHandles == {<<c1, "connect">>, <<c1, "created">>, <<c2, "connect">>}
=============================================================================
