--------------------------- MODULE MCWorkerGateway ---------------------------
EXTENDS WorkerGateway

\* Three requests where the gate is, two where each may get a thread of its own.
TwoOrThree == [thread |-> 2, main_thread_only |-> 3]
=============================================================================
