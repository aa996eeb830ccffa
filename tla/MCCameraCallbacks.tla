------------------------ MODULE MCCameraCallbacks ------------------------
(* Small instances of CameraCallbacks. *)
EXTENDS CameraCallbacks
=============================================================================
