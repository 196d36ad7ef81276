------------------------------ MODULE BusWait ------------------------------
(***************************************************************************)
(* What the waveform adapter promises of one request/grant/response port:  *)
(* "`memory_wait_cycles=N` while an accepted data transaction is pending   *)
(* without `data_rvalid`" (docs/CAUSAL_WAVEFORM_ADAPTER.md:71).  A cycle   *)
(* is waited when, after its own grant and response, a transaction is      *)
(* still unanswered and the cycle brings no response.                      *)
(***************************************************************************)
EXTENDS Naturals

VARIABLES
  cycles,       \* clock cycles so far
  accepted,     \* the last cycle accepted a transaction
  answered,     \* the last cycle brought a response
  outstanding,  \* accepted transactions without a response
  waited        \* waited cycles so far

vars == <<cycles, accepted, answered, outstanding, waited>>

Init ==
  /\ cycles = 0 /\ accepted = FALSE /\ answered = FALSE
  /\ outstanding = 0 /\ waited = 0

Cycle ==
  /\ cycles' = cycles + 1
  /\ accepted' \in BOOLEAN
  /\ answered' \in BOOLEAN /\ (answered' => outstanding > 0)
  /\ outstanding' = outstanding + (IF accepted' THEN 1 ELSE 0) - (IF answered' THEN 1 ELSE 0)
  /\ waited' = IF outstanding' > 0 /\ ~answered' THEN waited + 1 ELSE waited

Spec == Init /\ [][Cycle]_vars
=============================================================================
