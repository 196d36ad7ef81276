------------------------ MODULE WaveformHandshake ------------------------
(***************************************************************************)
(* The waveform adapter on one request/grant/response port: the streaming  *)
(* reader of a VCD (causal_vcd.py: load_vcd_cycle_snapshots) and the       *)
(* second detection of pending transactions after signals that share a VCD *)
(* identifier were restored (causal_hosted.py:                             *)
(* _restore_equivalent_signal_aliases).  The data port and the instruction *)
(* port run the same code on their own signals.                            *)
(*                                                                         *)
(* A VCD lists, per timestamp, the signals that changed; the reader takes  *)
(* a snapshot when the clock is 1 and was not before.  The restoration     *)
(* reads the list of snapshots in order, so both are one pass here.  The   *)
(* waveform itself comes from a simulated design and is external.          *)
(***************************************************************************)
EXTENDS Naturals

CONSTANTS
  Overlap,         \* the port accepts a transaction before the previous one is answered
  MaxOutstanding,  \* unanswered transactions the port allows
  Undefined,       \* a signal the reader has no value for
  MaxCycles        \* bound on the length of the waveform

ASSUME WaveformAssumption ==
  /\ Overlap \in BOOLEAN
  /\ MaxOutstanding \in Nat /\ MaxCycles \in Nat
  /\ Undefined \notin {0, 1}

VARIABLES
  sharedCode,   \* one VCD identifier stands for both req and gnt in this waveform
  wires,        \* the signals of the design
  outstanding,  \* transactions the design has accepted and not answered
  cycles,       \* rising clock edges of the design
  values,       \* the reader's last value of each signal
  snapshots,    \* number of snapshots taken
  pending,      \* data_pending of the restoration
  waited        \* snapshots with data_wait

portVars == <<sharedCode, wires, outstanding, cycles, values, snapshots, pending, waited>>

Alias == {"clock", "req", "gnt", "rvalid"}

----------------------------------------------------------------------------
(* code_to_alias keeps the last alias of a shared identifier, so no change  *)
(* is ever recorded for the first one.                                      *)
Recorded(alias) == ~(sharedCode /\ alias = "req")

(* _restore_equivalent_signal_aliases: every alias of a group takes the     *)
(* first value observed in the group.                                       *)
RestoreNothing(read) == read

Restore(read) ==
  LET observed == IF read["req"] # Undefined THEN read["req"] ELSE read["gnt"]
  IN  IF sharedCode THEN [read EXCEPT !["req"] = observed, !["gnt"] = observed] ELSE read

PendingForgotten(before, signals) ==
  signals["req"] = 1 /\ signals["gnt"] = 1 /\ ~(signals["rvalid"] = 1)

(* The grant sets the flag first and the response then clears it; data_wait *)
(* is the flag that results.                                                *)
Pending(before, signals) ==
  (before \/ (signals["req"] = 1 /\ signals["gnt"] = 1)) /\ ~(signals["rvalid"] = 1)

(* finalize_timestamp for the changes between two states of the design. *)
EveryHighClock(before, after) == after["clock"] = 1
RisingEdge(before, after) == before["clock"] # 1 /\ after["clock"] = 1

Read ==
  /\ values' = [alias \in Alias |->
       IF Recorded(alias) /\ wires'[alias] # wires[alias] THEN wires'[alias] ELSE values[alias]]
  /\ IF RisingEdge(values, values')
     THEN /\ snapshots' = snapshots + 1
          /\ pending' = Pending(pending, Restore(values'))
          /\ waited' = IF pending' THEN waited + 1 ELSE waited
     ELSE UNCHANGED <<snapshots, pending, waited>>
  /\ UNCHANGED sharedCode

----------------------------------------------------------------------------
(* The design: a response answers a transaction accepted in an earlier      *)
(* cycle; req and gnt are one net when they share an identifier.            *)
Cycle(req, gnt, rvalid) ==
  LET accepted == req = 1 /\ gnt = 1
  IN  /\ wires["clock"] = 0 /\ cycles < MaxCycles
      /\ rvalid = 1 => outstanding > 0
      /\ sharedCode => req = gnt
      /\ accepted /\ ~Overlap => outstanding = 0
      /\ outstanding' = outstanding + (IF accepted THEN 1 ELSE 0) - rvalid
      /\ outstanding' <= MaxOutstanding
      /\ wires' = [clock |-> 1, req |-> req, gnt |-> gnt, rvalid |-> rvalid]
      /\ cycles' = cycles + 1
      /\ Read

FallingEdge ==
  /\ wires["clock"] = 1
  /\ wires' = [wires EXCEPT !["clock"] = 0]
  /\ UNCHANGED <<outstanding, cycles>>
  /\ Read

(* A timestamp at which only signals change that the adapter does not select. *)
OtherTimestamp ==
  /\ UNCHANGED <<wires, outstanding, cycles>>
  /\ Read

(* After the initial dump, in reset. *)
PortInit ==
  /\ sharedCode \in BOOLEAN
  /\ wires = [alias \in Alias |-> 0]
  /\ outstanding = 0 /\ cycles = 0
  /\ values = [alias \in Alias |-> IF Recorded(alias) THEN 0 ELSE Undefined]
  /\ snapshots = 0 /\ pending = FALSE /\ waited = 0

PortNext ==
  \/ \E req, gnt, rvalid \in {0, 1} : Cycle(req, gnt, rvalid)
  \/ FallingEdge
  \/ OtherTimestamp

PortSpec == PortInit /\ [][PortNext]_portVars

----------------------------------------------------------------------------
(* Every variable has the shape given above. *)
PortTypeOK ==
  /\ sharedCode \in BOOLEAN
  /\ wires \in [Alias -> {0, 1}]
  /\ outstanding \in 0 .. MaxOutstanding /\ cycles \in 0 .. MaxCycles
  /\ values \in [Alias -> {0, 1, Undefined}]
  /\ snapshots \in 0 .. MaxCycles /\ waited \in 0 .. MaxCycles /\ pending \in BOOLEAN

(* Every rising edge of the design gives one snapshot and nothing else does, *)
(* and the restored signals of the latest are the signals of the design.     *)
SnapshotPerCycle ==
  /\ snapshots = cycles
  /\ Restore(values) = wires

(* A pending flag always stands for a transaction that the design accepted  *)
(* and has not answered: no wait is invented, overlapping or not.           *)
NoInventedWait == pending => outstanding > 0

(* The cycles counted as waited are the ones the documentation promises for *)
(* the grants and responses on the wires, cycle by cycle.                   *)
Promise == INSTANCE BusWait WITH
  accepted <- (wires["req"] = 1 /\ wires["gnt"] = 1),
  answered <- (wires["rvalid"] = 1)
WaitsAsPromised == Promise!Spec

(* docs/CAUSAL_WAVEFORM_ADAPTER.md:71, "while an accepted data transaction  *)
(* is pending without `data_rvalid`": the part of the promise that a port   *)
(* with overlapping transactions puts to the test.                          *)
PendingIsWaited == outstanding > 0 /\ wires["rvalid"] = 0 => pending
=============================================================================
