------------------------------ MODULE ActionAuthority ------------------------------
(***************************************************************************)
(* The verifiable action chain and the authority of a verdict.  A caller   *)
(* freezes an action envelope, binds a guardrail decision to its           *)
(* identifier, resumes the action later, runs it and links outcome and     *)
(* audit record.  In between, records travel through agents and adapters   *)
(* that may change any part of them; the library, which keeps no state, is *)
(* asked again with what comes back.                                       *)
(*                                                                         *)
(* An identifier is a SHA-256 of canonical JSON: here it is the projection *)
(* that is hashed, so two are equal exactly when their preimages are.      *)
(***************************************************************************)
EXTENDS Naturals, Sequences, FiniteSets, Functions

CONSTANTS
    Contents,       \* values of the five required fields of an envelope
    OffProfile,     \* those outside of the ActionEnvelopeV1 patterns
    Unhashable,     \* those canonical JSON rejects: a float, a huge integer
    Deadlines,      \* authorization deadlines
    Transitions,    \* transitions with a required depth
    RequiredDepth,  \* the depth each of them requires
    AuditLog,       \* the transition a hard block may still be granted
    Refs,           \* content-addressed evidence references
    MaxRefs,        \* evidence references the schema allows
    MaxRefsByBytes, \* evidence references the aggregate size allows
    Payloads,       \* digests of outcome and audit payloads
    BaseDecisions,  \* decisions a guardrail issues
    MaxEdits        \* bound: changes of the records in between

VARIABLES
    phase,      \* how far the chain is
    envelope,   \* the envelope as the agent holds it
    decision,   \* the decision as the agent holds it
    payload,    \* the outcome payload as the agent holds it
    frozen,     \* the envelope that was frozen
    bound,      \* the decision that was bound to it
    executed,   \* the outcome payload that was linked
    audit,      \* the identifier of the audit record
    resumed,    \* the envelopes the action was resumed with
    edits

vars == <<phase, envelope, decision, payload, frozen, bound, executed, audit,
          resumed, edits>>

Absent == "absent"
Null == "null"
Depth == [D0 |-> 0, D1 |-> 1, D2 |-> 2, D3 |-> 3]
Depths == DOMAIN Depth
Contexts == {Absent, "v1", "other"}
Shapes == {"whole", "missing", "unknown"}
Envelope == [context: Contexts, content: Contents, deadline: Deadlines \cup {Absent},
             shape: Shapes]

Verdicts == {"ALLOW", "DEFER", "HARD_BLOCK"}
Ceilings == {Absent, Null, "narrow", "broad"}
Named == {"none", "this", "other"}
Decision == [verdict: Verdicts, depth: Depths \cup {Absent, "unknown"},
             uses: Seq(Transitions \cup {"other"}), refs: Seq(Refs \cup {"malformed"}),
             ceiling: Ceilings, domain: {"inside", "outside"},
             expires: {Absent, "soon", "late"}, label: {"a", "b"},
             action: Named, extra: BOOLEAN]

ASSUME AuthorityAssumption ==
    /\ OffProfile \subseteq Contents /\ Unhashable \subseteq Contents
    /\ Absent \notin Deadlines
    /\ RequiredDepth \in [Transitions -> Depths]
    /\ AuditLog \in Transitions /\ "other" \notin Transitions
    /\ {MaxRefs, MaxRefsByBytes, MaxEdits} \subseteq Nat
    /\ BaseDecisions \subseteq Decision

NoId == <<"refused">>

-----------------------------------------------------------------------------
(* Identifiers                                                             *)

ProjectionWithoutDeadline(e) ==
    IF e.shape # "whole" THEN NoId ELSE <<"action", e.context, e.content>>

(* The context, the required fields and the optional deadline, exactly: a  *)
(* missing or an unknown field is an error.                                *)
ExactProjection(e) ==
    IF e.shape # "whole" THEN NoId
    ELSE <<"action", e.context, e.content, e.deadline>>

(* Canonical JSON has no floats and no integers beyond the safe range.     *)
Hashed(content, projection) == IF content \in Unhashable THEN NoId ELSE projection

EnvelopeV1Valid(e) ==
    e.context = "v1" /\ e.content \notin OffProfile \cup Unhashable /\ e.shape = "whole"

EnvelopeV1Id(e) ==
    IF EnvelopeV1Valid(e) THEN Hashed(e.content, ExactProjection(e)) ELSE NoId

(* An envelope with a context is a V1 one; the others are legacy ones.     *)
ActionId(e) ==
    IF e.context # Absent THEN EnvelopeV1Id(e)
    ELSE Hashed(e.content, ExactProjection(e))

ContinuationMatches(id, e) == id # NoId /\ ActionId(e) = id

(* The GuardrailDecision schema, its only conditional the hard block.      *)
GrantsValid(d) ==
    /\ IsInjective(d.uses) /\ Range(d.uses) \subseteq Transitions
    /\ d.verdict = "HARD_BLOCK" => Range(d.uses) \subseteq {AuditLog}
RefsValid(d) ==
    /\ Len(d.refs) \in 1..MaxRefs
    /\ IsInjective(d.refs) /\ "malformed" \notin Range(d.refs)
DecisionValid(d) ==
    ~d.extra /\ d.depth \in Depths /\ GrantsValid(d) /\ RefsValid(d)

ProjectionWithoutExpiry(id, d) ==
    <<"decision", id, d.verdict, d.depth, Range(d.uses), Range(d.refs), d.ceiling, d.domain>>

ProjectionWithoutDepth(id, d) ==
    <<"decision", id, d.verdict, Range(d.uses), Range(d.refs), d.ceiling, d.domain,
      d.expires>>

(* The bound fields; uses and references are sets.  Label and decision     *)
(* identifier are left out, the action is the one given.                   *)
Projection(id, d) ==
    <<"decision", id, d.verdict, d.depth, Range(d.uses), Range(d.refs), d.ceiling,
      d.domain, d.expires>>

DecisionId(id, d) ==
    IF id # NoId /\ DecisionValid(d) /\ d.ceiling # Absent /\ d.action # "other"
    THEN Projection(id, d) ELSE NoId

ChainRecordId(type, upstream, ref) ==
    IF upstream = NoId THEN NoId ELSE <<type, upstream, ref>>

(* What a verifier recomputes from the records it is given.                *)
AuditOf(e, d, p) ==
    ChainRecordId("audit", ChainRecordId("outcome", DecisionId(ActionId(e), d), p), "log")

-----------------------------------------------------------------------------
(* Authority                                                               *)

(* The depth must suffice and the transition be granted.  Nothing else is  *)
(* looked at: neither the schema nor the verdict nor its expiry.           *)
Reason(d, t) ==
    IF t \notin Transitions THEN "UNKNOWN_TRANSITION"
    ELSE IF d.depth = Absent THEN "MISSING_VERIFIER_DEPTH"
    ELSE IF d.depth \notin Depths THEN "UNKNOWN_VERIFIER_DEPTH"
    ELSE IF Depth[d.depth] < Depth[RequiredDepth[t]] THEN "INSUFFICIENT_VERIFIER_DEPTH"
    ELSE IF t \notin Range(d.uses) THEN "RUNTIME_USE_NOT_GRANTED"
    ELSE "TRANSITION_AUTHORIZED"
Authorizes(d, t) == Reason(d, t) = "TRANSITION_AUTHORIZED"

(* Resource limits come before the schema, and bytes bind before counts.   *)
WithinResources(d) == Len(d.refs) <= MaxRefs /\ Len(d.refs) <= MaxRefsByBytes
ProfileValid(d) == DecisionValid(d) /\ d.ceiling \notin {Absent, Null}

SameSemantics(a, b) ==
    /\ a.verdict = b.verdict /\ Range(a.uses) = Range(b.uses)
    /\ a.ceiling = b.ceiling /\ a.domain = b.domain

Crosswalk(a, b) ==
    IF ~WithinResources(a) \/ ~WithinResources(b) THEN "INVALID_VERDICT_SHAPE"
    ELSE IF ~ProfileValid(a) \/ ~ProfileValid(b) THEN "INVALID_VERDICT_SHAPE"
    ELSE IF Range(a.refs) # Range(b.refs) THEN "EVIDENCE_MISMATCH"
    ELSE IF ~SameSemantics(a, b) THEN "TRANSITION_SEMANTICS_MISMATCH"
    ELSE "TRANSITION_SEMANTICS_PRESERVED"

-----------------------------------------------------------------------------
(* The life of one action                                                  *)

Init ==
    /\ phase = "new"
    /\ envelope \in [context: {Absent, "v1"}, content: Contents,
                     deadline: Deadlines \cup {Absent}, shape: {"whole"}]
    /\ decision \in BaseDecisions
    /\ payload \in Payloads
    /\ frozen = envelope /\ bound = decision /\ executed = payload
    /\ audit = NoId /\ resumed = {} /\ edits = 0

Freeze ==
    /\ phase = "new"
    /\ ActionId(envelope) # NoId
    /\ frozen' = envelope
    /\ phase' = "frozen"
    /\ UNCHANGED <<envelope, decision, payload, bound, executed, audit, resumed, edits>>

Bind ==
    /\ phase = "frozen"
    /\ DecisionId(ActionId(frozen), decision) # NoId
    /\ bound' = decision
    /\ phase' = "bound"
    /\ UNCHANGED <<envelope, decision, payload, frozen, executed, audit, resumed, edits>>

(* The action goes on only with an envelope that matches.                  *)
Resume ==
    /\ phase = "bound"
    /\ ContinuationMatches(ActionId(frozen), envelope)
    /\ resumed' = resumed \cup {envelope}
    /\ phase' = "resumed"
    /\ UNCHANGED <<envelope, decision, payload, frozen, bound, executed, audit, edits>>

(* Outcome and audit record are linked to what was frozen and bound.       *)
Link ==
    /\ phase = "resumed"
    /\ executed' = payload
    /\ audit' = AuditOf(frozen, bound, payload)
    /\ phase' = "linked"
    /\ UNCHANGED <<envelope, decision, payload, frozen, bound, resumed, edits>>

Edit(e, d, p) ==
    /\ phase \in {"frozen", "bound", "linked"}
    /\ edits < MaxEdits
    /\ <<e, d, p>> # <<envelope, decision, payload>>
    /\ envelope' = e /\ decision' = d /\ payload' = p
    /\ edits' = edits + 1
    /\ UNCHANGED <<phase, frozen, bound, executed, audit, resumed>>

(* One part of a record changes.                                           *)
EditedEnvelopes ==
    {[envelope EXCEPT !.context = c] : c \in Contexts}
    \cup {[envelope EXCEPT !.content = c] : c \in Contents}
    \cup {[envelope EXCEPT !.deadline = t] : t \in Deadlines \cup {Absent}}
    \cup {[envelope EXCEPT !.shape = s] : s \in Shapes}

Swapped(s) == [i \in DOMAIN s |-> s[Len(s) + 1 - i]]
EditedDecisions ==
    {[decision EXCEPT !.verdict = v] : v \in Verdicts}
    \cup {[decision EXCEPT !.depth = n] : n \in Depths \cup {Absent, "unknown"}}
    \cup {[decision EXCEPT !.uses = Append(@, t)] : t \in Transitions \cup {"other"}}
    \cup {[decision EXCEPT !.uses = Swapped(@)], [decision EXCEPT !.refs = Swapped(@)]}
    \cup {[decision EXCEPT !.refs = Append(@, r)] : r \in Refs \cup {"malformed"}}
    \cup {[decision EXCEPT !.ceiling = c] : c \in Ceilings}
    \cup {[decision EXCEPT !.domain = "outside"], [decision EXCEPT !.label = "b"],
          [decision EXCEPT !.expires = "late"], [decision EXCEPT !.extra = TRUE]}
    \cup {[decision EXCEPT !.action = a] : a \in Named}

Drift ==
    \/ \E e \in EditedEnvelopes : Edit(e, decision, payload)
    \/ \E d \in EditedDecisions : Edit(envelope, d, payload)
    \/ \E p \in Payloads : Edit(envelope, decision, p)

Next == Freeze \/ Bind \/ Resume \/ Link \/ Drift

Spec == Init /\ [][Next]_vars

-----------------------------------------------------------------------------
TypeOK ==
    /\ phase \in {"new", "frozen", "bound", "resumed", "linked"}
    /\ {envelope, frozen} \cup resumed \subseteq Envelope
    /\ {decision, bound} \subseteq Decision
    /\ {payload, executed} \subseteq Payloads
    /\ edits \in 0..MaxEdits

(* However the envelope wandered between deferral and resume, an action is *)
(* resumed only with exactly the envelope that was frozen: no field added, *)
(* dropped or changed, no deadline moved, no context removed to escape the *)
(* V1 profile.                                                             *)
ResumeReproducesFrozen == \A e \in resumed : e = frozen

(* Records that still lead to the recorded audit identifier are those of   *)
(* the action: the frozen envelope, the executed payload, and a decision   *)
(* that differs at most in what identifiers leave out.                     *)
AuditReachesAction ==
    phase = "linked" /\ AuditOf(envelope, decision, payload) = audit =>
        /\ envelope = frozen /\ payload = executed
        /\ decision.verdict = bound.verdict /\ decision.expires = bound.expires

(* Equal decision identifiers grant equal authority: every transition gets *)
(* the same answer from both decisions, and a crosswalk between them never *)
(* finds a difference, whatever order grants and references came in.       *)
SameIdSameAuthority ==
    phase \in {"bound", "resumed", "linked"}
    /\ DecisionId(ActionId(frozen), decision) = DecisionId(ActionId(frozen), bound) =>
        /\ \A t \in Transitions \cup {"other"} : Reason(decision, t) = Reason(bound, t)
        /\ Crosswalk(decision, bound) \in
              {"TRANSITION_SEMANTICS_PRESERVED", "INVALID_VERDICT_SHAPE"}
        /\ Crosswalk(decision, bound) = Crosswalk(bound, bound)

(* A hard block that has an identifier authorizes nothing but its own log. *)
BoundHardBlockStops ==
    decision.verdict = "HARD_BLOCK" /\ DecisionId(ActionId(frozen), decision) # NoId =>
        \A t \in Transitions : Authorizes(decision, t) => t = AuditLog

(* Verdicts a crosswalk declares compatible authorize the same transitions.*)
CompatibleVerdictsAgree ==
    Crosswalk(decision, bound) = "TRANSITION_SEMANTICS_PRESERVED" =>
        \A t \in Transitions : Authorizes(decision, t) <=> Authorizes(bound, t)

=============================================================================
