----------------------------- MODULE MCCapture -----------------------------
(* Small instances of Capture.                                               *)
EXTENDS Capture

AllDestinations == {"legacy", "file", "clipboard"}
OneDestination == {"clipboard"}
=============================================================================
