---------------------------- MODULE MCHostAudio -----------------------------
(***************************************************************************)
(* The audio layer for TLC: both directions and the three ratios of rates  *)
(* on a desktop, both kinds of AAudio stream, both ringers, with rings and *)
(* buffers of a few frames.                                                *)
(***************************************************************************)
EXTENDS HostAudio

MCDeskKinds == {"playback", "capture"}
MCRatios == {<<1, 1>>, <<2, 3>>, <<3, 2>>}
MCTrackKinds == {"output", "capture"}
MCRingers == {"tone", "buzz"}
=============================================================================
