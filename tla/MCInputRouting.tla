-------------------------- MODULE MCInputRouting --------------------------
(* Two controls.  A handler of one of them wants its press, another its    *)
(* release, and one configuration has handlers of both controls.           *)
EXTENDS InputRouting

CONSTANTS k1, k2

TwoControls == {k1, k2}
FewMatchers == {{<<k1, "press">>}, {<<k1, "release">>},
                {<<k1, "press">>, <<k1, "release">>, <<k2, "press">>}}
=============================================================================
