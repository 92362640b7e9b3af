--------------------------- MODULE MCSpawnRuntime ---------------------------
(***************************************************************************)
(* SpawnRuntime on small programs.  The handle table starts with 64        *)
(* entries in the code; here 1 stands for a table that has to grow and     *)
(* Cardinality(Tasks) for one that never does.                             *)
(***************************************************************************)
EXTENDS SpawnRuntime

\* Only main spawns and waits, and the table grows; or every task may, nested
\* as deep as there are tasks, within the capacity of the table.
SoundPrograms ==
    {[spawners |-> {Main}, waitAllers |-> {Main}, capacity |-> 1, shutdown |-> TRUE],
     [spawners |-> Threads, waitAllers |-> {Main},
      capacity |-> Cardinality(Tasks), shutdown |-> TRUE]}

\* A task spawns, past the capacity, while another thread destroys a handle.
GrowingPrograms ==
    {[spawners |-> Threads, waitAllers |-> {}, capacity |-> 1, shutdown |-> TRUE]}

\* main is compiled before the function that spawns, so no return of main
\* calls __blang_runtime_shutdown.
HelperAfterMain ==
    {[spawners |-> {Main}, waitAllers |-> {}, capacity |-> 1, shutdown |-> FALSE]}
=============================================================================
