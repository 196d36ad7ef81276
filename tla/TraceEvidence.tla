------------------------------- MODULE TraceEvidence -------------------------------
(***************************************************************************)
(* What the analyzers say about one simulation of a program: the records   *)
(* of the Ibex tracer, the architectural comparison with an oracle, the    *)
(* timing findings and the control-flow redirects.                         *)
(***************************************************************************)
EXTENDS Naturals, Sequences, FiniteSets

CONSTANTS
    AddressSpace,   \* program counters are taken modulo this (2^32)
    ExpectedCycles  \* cycles an instruction may take, given to both analyzers

ASSUME TraceAssumption == AddressSpace \in Nat \ {0} /\ ExpectedCycles \in Nat

Kinds == {"plain", "branch", "jump", "return"}

(* The signals that speak for a cause, and for an instruction fetch those  *)
(* without which nothing speaks for it.                                    *)
Supports ==
    [MEMORY_WAIT |-> {"memory_wait", "data_req", "data_not_ready", "pipeline_stall"},
     INSTRUCTION_FETCH_WAIT |-> {"instruction_wait", "instruction_grant_wait"},
     BRANCH_RECOVERY |-> {"branch_mispredict", "pipeline_flush", "branch_recovery"},
     PIPELINE_HAZARD |-> {"pipeline_hazard", "hazard_cycles", "pipeline_stall"},
     BUS_CONTENTION |-> {"bus_wait", "bus_not_granted"},
     INTERRUPT_SERVICE |-> {"interrupt"},
     LONG_LATENCY_EXECUTION |-> {"long_instruction", "unit_wait", "unit_busy"},
     CLOCK_DOMAIN_CROSSING |-> {"clock_domain_wait"}]
Signals == UNION {Supports[c] : c \in DOMAIN Supports} \cup {"instr_req"}

(* One retired instruction: what it did, and the signals seen while it was *)
(* being retired.                                                          *)
Retired == [cycle: Nat, pc: 0..(AddressSpace - 1), width: {1, 2}, kind: Kinds,
            effect: Nat, signals: SUBSET Signals]

(* The parser: at least one instruction, cycles strictly increasing.       *)
Parsed(trace) ==
    /\ trace \in Seq(Retired) /\ trace # <<>>
    /\ \A i \in 2..Len(trace) : trace[i - 1].cycle < trace[i].cycle

-----------------------------------------------------------------------------
(* Architectural comparison                                                *)

Event(r) == [pc |-> r.pc, effect |-> r.effect]
Shared(expected, actual) ==
    1..(IF Len(expected) < Len(actual) THEN Len(expected) ELSE Len(actual))

(* The first event that differs, else the first one only one side has.     *)
FirstMismatch(expected, actual) ==
    LET differ == {i \in Shared(expected, actual) :
                      Event(expected[i]) # Event(actual[i])}
    IN IF differ # {} THEN CHOOSE i \in differ : \A j \in differ : i <= j
       ELSE IF Len(expected) # Len(actual)
            THEN Cardinality(Shared(expected, actual)) + 1
            ELSE 0
TraceStatus(expected, actual) ==
    IF FirstMismatch(expected, actual) = 0 THEN "MATCH" ELSE "MISMATCH"

-----------------------------------------------------------------------------
(* Timing and control flow; step i leads from record i to record i + 1     *)

TransitionsOf(trace) == 1..(Len(trace) - 1)
Gap(trace, i) == trace[i + 1].cycle - trace[i].cycle

(* The instruction class of a long instruction is read from its mnemonic,  *)
(* all other signals from the waveform.                                    *)
SampleSignals(trace, i) == trace[i + 1].signals

Causes(signals) == {c \in DOMAIN Supports : Supports[c] \cap signals # {}}

Finding(trace, i) ==
    IF Gap(trace, i) = ExpectedCycles THEN "ON_TIME"
    ELSE IF Gap(trace, i) < ExpectedCycles THEN "FASTER_THAN_EXPECTED"
    ELSE IF Causes(SampleSignals(trace, i)) = {} THEN "UNKNOWN_DELAY"
    ELSE "EXPLAINED_DELAY"

DelaysOf(trace, status) == {i \in TransitionsOf(trace) : Finding(trace, i) = status}
TimingMetrics(trace) ==
    [unknown |-> Cardinality(DelaysOf(trace, "UNKNOWN_DELAY")),
     explained |-> Cardinality(DelaysOf(trace, "EXPLAINED_DELAY"))]

(* The next instruction in memory, wrapping at the end of the space.       *)
SequentialPc(r) == (r.pc + r.width) % AddressSpace

(* Only a recognized control-flow instruction redirects.                   *)
Redirects(trace) ==
    {i \in TransitionsOf(trace) :
        trace[i + 1].pc # SequentialPc(trace[i]) /\ trace[i].kind # "plain"}
DelayedRedirects(trace) ==
    {i \in Redirects(trace) : Gap(trace, i) > ExpectedCycles}
=============================================================================
