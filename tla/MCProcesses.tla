----------------------------- MODULE MCProcesses -----------------------------
(* Processes for the workers of MCProcesses.cfg and MCProcessesCrash.cfg.    *)
EXTENDS Processes
=============================================================================
