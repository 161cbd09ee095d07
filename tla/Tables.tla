-------------------------------- MODULE Tables --------------------------------
(* The managed tables of a project, for the modules that plan with them.     *)

CONSTANTS
    Table,
    None        \* no table, job, declaration or partition
=============================================================================
