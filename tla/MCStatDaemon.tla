---------------------------- MODULE MCStatDaemon ----------------------------
\* One counter of each sort, one worker, three PAPI events.
EXTENDS StatDaemon

MCCounters == {0, 1, 2, 4}
MCCaveSeq == <<2>>
MCTotSeq == <<4>>
MCProbeSeq == <<>>
MCPapiStart == <<"dcm", "dca">>
MCPapiPairs == {<<"dcm", "dca">>, <<"dca", "icm">>}
=============================================================================
