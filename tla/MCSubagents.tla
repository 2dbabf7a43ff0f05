------------------------------ MODULE MCSubagents ------------------------------
(* Small instances of Subagents.                                                *)
EXTENDS Subagents
================================================================================
