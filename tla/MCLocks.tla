------------------------------ MODULE MCLocks ------------------------------
(* Locks for the processes and tables of MCLocks.cfg and MCLocksCopy.cfg.    *)
EXTENDS Locks
=============================================================================
