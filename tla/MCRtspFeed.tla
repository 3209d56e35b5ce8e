---------------------------- MODULE MCRtspFeed ----------------------------
(* Five frames of the camera, any of which may be dropped, in two pieces.    *)
EXTENDS RtspFeed
===========================================================================
