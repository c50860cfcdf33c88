------------------------------ MODULE MCMcpService ------------------------------
(* Two calls for two objectives and a run of another surface; a block of    *)
(* the reader is shorter than a line, and torn lines may run together into  *)
(* one that is longer than any line may be.                                 *)
EXTENDS McpService

MCCalls == {"c1", "c2"}
MCOthers == {"cli"}
MCRecords == MCCalls \cup MCOthers
=============================================================================
