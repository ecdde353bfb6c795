-------------------------------- MODULE Sysv --------------------------------
(* The processes that use semaphores (SysvSem) and the variables in shared *)
(* memory that they protect (SysvShm).                                     *)
CONSTANT Process
=============================================================================
