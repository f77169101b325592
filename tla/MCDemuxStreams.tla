--------------------------- MODULE MCDemuxStreams ---------------------------
(* Instances of DemuxStreams: a file, of which a few packets of one stream   *)
(* follow each other, one packet is empty and one has no pts.                *)
EXTENDS DemuxStreams
A(n, p) == [ds |-> "audio", len |-> n, pts |-> p]
V(n, p) == [ds |-> "video", len |-> n, pts |-> p]
MCFile == <<V(1, TRUE), A(2, TRUE), V(2, FALSE), A(1, FALSE), A(0, TRUE),
            V(1, TRUE), A(2, TRUE), V(0, FALSE)>>
=============================================================================
