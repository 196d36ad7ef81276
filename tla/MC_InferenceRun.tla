------------------------- MODULE MC_InferenceRun -------------------------
(* Two acceptable requests, streams of at most two chunks, one edit of the  *)
(* request and two runs: a run, or one that was killed, and a retry.  The   *)
(* chunks: text with and without a line separator, a malformed figure, and  *)
(* figures of which some two chunks conflict in each way there is.          *)
EXTENDS InferenceRun

CONSTANTS r1, r2
MCRequest == {r1, r2}
MCChunks ==
  {{}, {"separator"}, {"malformed"},
   {"some tokens", "some reasoned"}, {"some tokens", "none reasoned"},
   {"no tokens", "some time"}, {"no time"}}
=============================================================================
