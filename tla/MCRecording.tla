---------------------------- MODULE MCRecording -----------------------------
(* Small instances of Recording. *)
EXTENDS Recording, RecordingInputs
=============================================================================
