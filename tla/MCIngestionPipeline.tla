------------------------- MODULE MCIngestionPipeline -------------------------
(* Values of the constants for TLC: two submissions of one content and one  *)
(* of another; two surface forms of one company and one of a second.        *)
EXTENDS IngestionPipeline

MCContentOf(first, again, other) == [r \in {first, again, other} |-> IF r = other THEN 2 ELSE 1]
MCRequests == {"first", "again", "other"}
MCContents == MCContentOf("first", "again", "other")
MCSurfaces == {"Apple Inc.", "Apple", "Intel"}
MCCanonical == [s \in MCSurfaces |-> IF s = "Intel" THEN "intel" ELSE "apple"]
MCRelations == {<<"Apple Inc.", "Apple">>, <<"Apple", "Intel">>}
MCExtractions == {<<>>, <<"Apple">>, <<"Apple Inc.", "Intel", "Apple">>}
=============================================================================
