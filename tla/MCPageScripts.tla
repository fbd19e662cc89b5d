--------------------------- MODULE MCPageScripts ---------------------------
(* PageScripts with two windows, two tabs and a text that is there or not.  *)
EXTENDS PageScripts, TLC

MCContents == {[q \in Query |-> 2], [q \in Query |-> 0]}
=============================================================================
