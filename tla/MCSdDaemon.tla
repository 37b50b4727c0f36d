----------------------------- MODULE MCSdDaemon -----------------------------
EXTENDS SdDaemon

CONSTANTS AbsentV, MalformedV

MCPids == {1, 2}

(* The service, a child, nobody, what does not fit into a pid_t or into an *)
(* unsigned long, and a text.                                              *)
MCPidValues == {1, 2, 8, 9, AbsentV, MalformedV}

(* Beyond what is passed: none, less than none, more than may be returned, *)
(* and what does not fit into an int.                                      *)
MCFdsValues == {0, -1, 5, 7, 8, AbsentV, MalformedV}

=============================================================================
