--------------------------- MODULE MCNodeShutdown ---------------------------
(* Instances of NodeShutdown: who sends RPCs to whom.                      *)
EXTENDS NodeShutdown

CONSTANTS n1, n2, n3

\* Two nodes send RPCs to each other, and a third to one of them.
SomeLinks == {<<n1, n2>>, <<n2, n1>>, <<n3, n2>>}

\* The two have led in turn, and may replicate to each other through pipelines.
SomePipelines == {<<n1, n2>>, <<n2, n1>>}

=============================================================================
