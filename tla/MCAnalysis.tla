----------------------------- MODULE MCAnalysis -----------------------------
(***************************************************************************)
(* Two slots further apart than slot_lookback, each one FEC set of two     *)
(* data shreds that hold one run, with two and one code shreds; the run of *)
(* the second is a block marker.                                           *)
(***************************************************************************)
EXTENDS Analysis, Packets

CONSTANTS r0, r1, s0

MCCompleteLeaf == {<<r0, 1>>, <<r1, 1>>}

MCMarkerLeaf == {<<r1, 0>>}

MCPacket ==
  (WholeSet(1, 0, r0, s0, MCCompleteLeaf, {})
     \cup WholeSet(3, 0, r1, s0, MCCompleteLeaf, {})) \ {CodePacket(3, 0, 1, r1, s0)}

ASSUME CaptureAssumption == ConsistentCapture /\ SoundCapture

=============================================================================
