------------------------------- MODULE MCAgent -------------------------------
(* Instances of Agent.  The batch instances poll a gauge and the counter   *)
(* of memstats and one gauge of execGopsPoll's first read; the pool        *)
(* instance the counter and one gauge of each of execGopsPoll's reads.     *)
EXTENDS Agent

CONSTANTS Alloc, PollCount, TotalMemory, CPUutilization1

MCBatchIDs      == {Alloc, PollCount, TotalMemory}
MCPoolIDs       == {PollCount, TotalMemory, CPUutilization1}
MCCounterIDs    == {PollCount}
MCMemstatsIDs   == <<Alloc, PollCount>>
MCPollCount     == <<PollCount>>
MCVirtualMemory == <<TotalMemory>>
MCCPU           == <<CPUutilization1>>
MCNoIDs         == << >>
=============================================================================
