----------------------------- MODULE MCWriters -----------------------------
\* The two writers share nothing: each is explored while the other one has
\* not begun, a state in which none of its fair actions is enabled.
EXTENDS LogQueue, PcapFiles

Init == LogInit /\ PcapInit
Next == \/ PcapInit /\ LogNext /\ UNCHANGED pcapVars
        \/ LogInit /\ PcapNext /\ UNCHANGED logVars
Spec == Init /\ [][Next]_<<logVars, pcapVars>> /\ LogFairness /\ PcapFairness

=============================================================================
