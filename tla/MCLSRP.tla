------------------------------- MODULE MCLSRP -------------------------------
(* Instances of LSRP for TLC.                                               *)
EXTENDS LSRP

Line == {{1, 2}, {2, 3}}
Triangle == {{1, 2}, {2, 3}, {1, 3}}
Network(L, w, t, fl, fa, sp, st) ==
    [links |-> L, warm |-> w, timed |-> t, floods |-> fl, faults |-> fa, spare |-> sp, steps |-> st,
     kinds |-> {"break", "crash", "keys"}]

\* A line that starts, with floods in the same millisecond, once with timers at
\* any time and once with floods enough to settle; a line at work in which one
\* thing fails, and one with floods enough to settle after it; a triangle, where
\* copies of a flood meet; and one whose key directories go and come back, so
\* that a site can lose its own Node and then find a link restored.
SmallNetworks == {Network(Line, FALSE, BOOLEAN, 4, 0, 0, {0, 1}),
                  Network(Line, FALSE, {TRUE}, 10, 0, 0, {0, 1}),
                  Network(Line, TRUE, BOOLEAN, 4, 1, 0, {1}),
                  Network(Line, TRUE, {TRUE}, 12, 1, 12, {1}),
                  [Network(Triangle, TRUE, BOOLEAN, 3, 1, 0, {1}) EXCEPT !.kinds = {"break", "crash"}],
                  [Network(Triangle, TRUE, {TRUE}, 3, 3, 0, {1}) EXCEPT !.kinds = {"keys"}]}
=============================================================================
