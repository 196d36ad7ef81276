---------------------- MODULE MC_WaveformHandshake ----------------------
(* Twelve cycles: several transactions one after another, with any number  *)
(* of cycles of waiting for the grant and for the response.                *)
EXTENDS WaveformHandshake
=============================================================================
