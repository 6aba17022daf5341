------------------------- MODULE ReadThroughCacheMC -------------------------
(* ReadThroughCache on small sets of cameras and requests. *)
EXTENDS ReadThroughCache

Anything == {{}, {"overlap", "fault"}}
OnlyOverlap == {{"overlap"}}
=============================================================================
