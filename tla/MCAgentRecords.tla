--------------------------- MODULE MCAgentRecords ---------------------------
(* Small instances of AgentRecords.                                        *)
EXTENDS AgentRecords, TLC

MCCursors == {<<1, 2>>, <<2, 1>>}

\* A step on the way, an end with and without its disposition, the archive.
MCRequests == {<<"awaiting_cleanup", "none">>,
               <<"aborted", "handoff">>, <<"aborted", "none">>, <<"archived", "none">>}

Exchange == Permutations(Caller)
=============================================================================
