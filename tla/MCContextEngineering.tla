------------------------ MODULE MCContextEngineering ------------------------
(* A result that is shown whole, and one that is cut before its first path *)
(* and has more paths than are kept.                                       *)
EXTENDS ContextEngineering

Text == [reference |-> FALSE, shows |-> <<>>, width |-> 1]
Path(p) == [reference |-> TRUE, shows |-> <<p>>, width |-> 1]

SmallResults == {<<Path("/a"), Text>>, <<Text, Text, Text, Path("/b"), Path("/c"), Path("/d")>>}
=============================================================================
