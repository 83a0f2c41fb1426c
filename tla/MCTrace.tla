------------------------------ MODULE MCTrace ------------------------------
\* Instances of Trace: two runs with different limits.
EXTENDS Trace

CONSTANTS r1, r2, t1, t2, h1, h2

MCConfig == {[run |-> r1, max_events |-> 1, categories |-> {"transfer"}],
             [run |-> r2, max_events |-> 2, categories |-> {"transfer"}]}
MCEvent == {[category |-> "transfer"]}

\* Either one handler with two recorders, or two handlers of two requests each with one
\* recorder, of two events as long as three requests are served and of one event for four.
OneHandler == req[h2].served = 0
TwoHandlers ==
    /\ rec[t2].begun = 0 /\ \A x \in Handler : req[x].served <= 2
    /\ rec[t1].begun = 2 => \E x \in Handler : req[x].served < 2

InScope == OneHandler' \/ TwoHandlers'
=============================================================================
