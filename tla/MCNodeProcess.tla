--------------------------- MODULE MCNodeProcess ---------------------------
(* Small instances of a Raft node's process for TLC. *)
EXTENDS NodeProcess

set(on, aimed, drop, range, window, exit) ==
    [Enabled |-> on, Targeted |-> aimed, DropPct |-> drop, DelayMsMin |-> range[1],
     DelayMsMax |-> range[2], Window |-> window, ExitOnLeader |-> exit]

\* Switched on, off or aimed at another node; with and without a window; with a
\* range of delays, and with a minimum above the maximum.
Settings ==
    {set(on, aimed, 50, <<3, 4>>, window, FALSE) : on, aimed, window \in BOOLEAN}
    \union {set(TRUE, TRUE, 0, <<3, 0>>, FALSE, FALSE), set(FALSE, TRUE, 0, <<0, 0>>, FALSE, TRUE)}

\* What a node is started with unless the environment says otherwise.
Defaults == {set(FALSE, TRUE, 0, <<0, 0>>, FALSE, FALSE)}

profile(bad, drop, min, max) ==
    [bad |-> bad, DropPct |-> drop, DelayMsMin |-> min, DelayMsMax |-> max]

\* One like the demonstration's, a fixed delay, a bad one, and none at all.
Profiles == {profile(FALSE, 30, 0, 2), profile(FALSE, 0, 2, 2),
             profile(TRUE, 30, 1, 2), profile(FALSE, 0, 0, 0)}

NoProfile == {profile(FALSE, 0, 0, 0)}
=============================================================================
