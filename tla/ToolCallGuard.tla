--------------------------- MODULE ToolCallGuard ---------------------------
(***************************************************************************)
(* The authorization hook that the CrewAI adapter registers                *)
(* (integrations/crewai.py: register_crewai_guardrail; crewai_core.py:     *)
(* evaluate_crewai_tool_call), among other before-tool-call hooks.         *)
(*                                                                         *)
(* The framework is external: it takes a copy of the registry when a tool  *)
(* is called, runs those hooks in order until one returns False, and runs  *)
(* the tool on the arguments as they then are.  Any hook may change the    *)
(* arguments in place, and so may another thread that holds them; hooks    *)
(* are registered and unregistered by the application.  The hook itself    *)
(* reads the registry once and the arguments three times: for the action   *)
(* envelope, for the request and for the envelope it compares at the end.  *)
(***************************************************************************)
EXTENDS Naturals, Sequences, SequencesExt

CONSTANTS
  Hook,            \* the other before-tool-call hooks
  Guard,           \* the adapter's hook
  Args,            \* tool arguments that have an action envelope
  BadArgs,         \* arguments that have none: canonicalization raises
  Approved,        \* arguments the provider may allow
  FailClosed,      \* CrewAIAdapterConfig.fail_closed
  MaxEdits,        \* bound on the changes another thread makes to the arguments
  MaxCalls         \* bound on tool calls

ASSUME GuardAssumption ==
  /\ Guard \notin Hook
  /\ BadArgs \notin Args
  /\ Approved \subseteq Args
  /\ FailClosed \in BOOLEAN
  /\ MaxEdits \in Nat /\ MaxCalls \in Nat

VARIABLES
  registry,   \* the framework's list of hooks
  step,       \* where the current call is; "idle" when there is none
  queue,      \* hooks of the framework's copy still to run
  guarded,    \* that copy held the adapter's hook
  args,       \* the arguments of the call, shared by everyone
  envelope,   \* the arguments whose digest is in the action envelope
  seen,       \* the arguments in the request to the provider
  allowed,    \* the provider's decision
  outcome,    \* of the last call
  raced,      \* during the call, hooks came or went or another thread changed the arguments
  edits, calls

vars == <<registry, step, queue, guarded, args, envelope, seen, allowed, outcome, raced, edits, calls>>

AnyArgs == Args \cup {BadArgs}

----------------------------------------------------------------------------
(* The hook's answer: None or True lets the framework go on. *)
Allow == step' = "dispatch" /\ UNCHANGED outcome
Block == step' = "idle" /\ outcome' = "blocked"
Error == IF FailClosed THEN Block ELSE Allow

PositionIgnored ==
  /\ step = "position"
  /\ step' = "envelope" /\ UNCHANGED outcome
  /\ UNCHANGED <<registry, queue, guarded, args, envelope, seen, allowed, raced, edits, calls>>

GuardIsLast == IF registry = <<>> THEN FALSE ELSE Last(registry) = Guard

(* _registered_hook: the hook must be the last of the registry as it is now. *)
CheckPosition ==
  /\ step = "position"
  /\ \/ Error                                                     \* get_hooks raises
     \/ GuardIsLast /\ step' = "envelope" /\ UNCHANGED outcome
     \/ ~GuardIsLast /\ Block
  /\ UNCHANGED <<registry, queue, guarded, args, envelope, seen, allowed, raced, edits, calls>>

BuildEnvelope ==
  /\ step = "envelope"
  /\ IF args = BadArgs THEN Error /\ UNCHANGED envelope
     ELSE envelope' = args /\ step' = "request" /\ UNCHANGED outcome
  /\ UNCHANGED <<registry, queue, guarded, args, seen, allowed, raced, edits, calls>>

(* The request carries the envelope and a second copy of the arguments. *)
BuildRequest ==
  /\ step = "request"
  /\ seen' = args
  /\ step' = "evaluate"
  /\ UNCHANGED <<registry, queue, guarded, args, envelope, allowed, outcome, raced, edits, calls>>

(* The provider never allows arguments it does not approve of; it may also  *)
(* raise, or return something that is no decision.                          *)
Evaluate ==
  /\ step = "evaluate"
  /\ \/ \E decision \in IF seen \in Approved THEN BOOLEAN ELSE {FALSE} :
          allowed' = decision /\ step' = "compare" /\ UNCHANGED outcome
     \/ Error /\ UNCHANGED allowed
  /\ UNCHANGED <<registry, queue, guarded, args, envelope, seen, raced, edits, calls>>

LiveArgumentsIgnored ==
  /\ step = "compare"
  /\ IF allowed THEN Allow ELSE Block
  /\ UNCHANGED <<registry, queue, guarded, args, envelope, seen, allowed, raced, edits, calls>>

(* The envelope is built again from the live arguments. *)
CompareEnvelopes ==
  /\ step = "compare"
  /\ \/ args = BadArgs /\ Error
     \/ args # BadArgs /\ (args # envelope \/ ~allowed) /\ Block
     \/ args # BadArgs /\ args = envelope /\ allowed /\ Allow
  /\ UNCHANGED <<registry, queue, guarded, args, envelope, seen, allowed, raced, edits, calls>>

----------------------------------------------------------------------------
(* The framework. *)
StartCall(input) ==
  /\ step = "idle" /\ calls < MaxCalls
  /\ calls' = calls + 1
  /\ args' = input
  /\ queue' = registry /\ guarded' = (Guard \in ToSet(registry))
  /\ step' = "dispatch" /\ outcome' = "none"
  /\ envelope' = BadArgs /\ seen' = BadArgs /\ allowed' = FALSE /\ raced' = FALSE
  /\ UNCHANGED <<registry, edits>>

RunGuard ==
  /\ step = "dispatch" /\ queue # <<>> /\ Head(queue) = Guard
  /\ queue' = Tail(queue)
  /\ step' = "position"
  /\ UNCHANGED <<registry, guarded, args, envelope, seen, allowed, outcome, raced, edits, calls>>

RunHook(input) ==
  /\ step = "dispatch" /\ queue # <<>> /\ Head(queue) \in Hook
  /\ queue' = Tail(queue)
  /\ \/ args' = input /\ Allow
     \/ Block /\ UNCHANGED args
  /\ UNCHANGED <<registry, guarded, envelope, seen, allowed, raced, edits, calls>>

RunTool ==
  /\ step = "dispatch" /\ queue = <<>>
  /\ step' = "idle" /\ outcome' = "executed"
  /\ UNCHANGED <<registry, queue, guarded, args, envelope, seen, allowed, raced, edits, calls>>

(* The application and its threads. *)
Register(hook) ==
  /\ hook \notin ToSet(registry)
  /\ registry' = Append(registry, hook)
  /\ raced' = (raced \/ step # "idle")
  /\ UNCHANGED <<step, queue, guarded, args, envelope, seen, allowed, outcome, edits, calls>>

Unregister(hook) ==
  /\ \E i \in DOMAIN registry :
       registry[i] = hook /\ registry' = RemoveAt(registry, i)
  /\ raced' = (raced \/ step # "idle")
  /\ UNCHANGED <<step, queue, guarded, args, envelope, seen, allowed, outcome, edits, calls>>

EditArgs(input) ==
  /\ step # "idle" /\ edits < MaxEdits
  /\ input # args
  /\ args' = input
  /\ edits' = edits + 1
  /\ raced' = TRUE
  /\ UNCHANGED <<registry, step, queue, guarded, envelope, seen, allowed, outcome, calls>>

Init ==
  /\ registry = <<>> /\ queue = <<>> /\ guarded = FALSE
  /\ step = "idle" /\ outcome = "none"
  /\ args = BadArgs /\ envelope = BadArgs /\ seen = BadArgs
  /\ allowed = FALSE /\ raced = FALSE
  /\ edits = 0 /\ calls = 0

GuardStep == CheckPosition \/ BuildEnvelope \/ BuildRequest \/ Evaluate \/ CompareEnvelopes

Next ==
  \/ GuardStep
  \/ RunGuard \/ RunTool
  \/ \E input \in AnyArgs : StartCall(input) \/ RunHook(input) \/ EditArgs(input)
  \/ \E hook \in Hook \cup {Guard} : Register(hook) \/ Unregister(hook)

Spec == Init /\ [][Next]_vars

----------------------------------------------------------------------------
(* Every variable has the shape given above; an envelope that is past its   *)
(* construction is one of arguments that have one.                          *)
TypeOK ==
  /\ registry \in Seq(Hook \cup {Guard}) /\ IsInjective(registry)
  /\ queue \in Seq(Hook \cup {Guard})
  /\ step \in {"idle", "dispatch", "position", "envelope", "request", "evaluate", "compare"}
  /\ args \in AnyArgs /\ seen \in AnyArgs /\ envelope \in AnyArgs
  /\ step \in {"request", "evaluate", "compare"} => envelope \in Args
  /\ guarded \in BOOLEAN /\ allowed \in BOOLEAN /\ raced \in BOOLEAN
  /\ outcome \in {"none", "blocked", "executed"}
  /\ edits \in 0 .. MaxEdits /\ calls \in 0 .. MaxCalls

(* With an adapter that fails closed, a call that was dispatched to its     *)
(* hook runs the tool only on arguments the provider may allow, whatever    *)
(* the hooks before and after it do to the arguments; unless, during that   *)
(* very call, hooks come or go or another thread changes the arguments.     *)
ExecutedIsApproved ==
  FailClosed /\ outcome = "executed" /\ guarded /\ ~raced => args \in Approved

(* Whatever other threads do while the provider decides, an adapter that    *)
(* fails closed answers "allow" only for the arguments as they are at that  *)
(* moment, and these are approved if the provider was shown the arguments   *)
(* of the envelope.                                                         *)
AllowIsForLiveArguments ==
  [][FailClosed /\ step = "compare" /\ step' = "dispatch" =>
       args = envelope /\ (seen = envelope => args \in Approved)]_vars

(* docs/CREWAI_ACTION_ENVELOPE_ADAPTER.md:65: "If another hook was          *)
(* registered after it, the call is blocked rather than authorizing stale   *)
(* arguments": no hook runs between an allowing answer and the tool.        *)
NoHookAfterAllow ==
  outcome = "executed" /\ allowed /\ edits = 0 => args = envelope
=============================================================================
