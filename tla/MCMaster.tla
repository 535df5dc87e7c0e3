------------------------------ MODULE MCMaster ------------------------------
EXTENDS Master

Workers2 == <<"WorkerProcesses", " ", "=", " ", "2", CR, LF>>
(* nginx.conf as it is written, an item twice, and one that is commented   *)
(* out; without its items, and without the file.                           *)
MCSettings ==
  { [text |-> <<<<"#", "=", "1", LF>>, <<LF>>, <<"[", "Proc", "]", LF>>, Workers2,
                <<"Daemon", " ", "=", "1", " ", LF>>>>, workers |-> 2, daemon |-> TRUE],
    [text |-> <<<<"WorkerProcesses", "=", "3">>, Workers2,
                <<"daemon", "=", " ", "2", LF>>>>, workers |-> 3, daemon |-> FALSE],
    [text |-> <<<<"#", "WorkerProcesses", "=", "2", LF>>, <<"#", " ", "Daemon", "=", "1", LF>>>>,
     workers |-> 1, daemon |-> FALSE],
    [text |-> NoFile, workers |-> 0, daemon |-> FALSE] }

=============================================================================
