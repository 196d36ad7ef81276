------------------------- MODULE ActionAuthorityProofs -------------------------
(* Identifiers and authority for any contents, transitions, references and      *)
(* limits, and for any number of changes of the records in between.             *)
EXTENDS ActionAuthority, FiniteSetTheorems, SequenceTheorems, TLAPS

-----------------------------------------------------------------------------
(* Identifiers                                                                  *)

(* An identifier determines its envelope, and no two kinds are mixed up. *)
LEMMA ActionIdDetermines ==
    ASSUME NEW e \in Envelope, NEW f \in Envelope,
           ActionId(e) # NoId, ActionId(e) = ActionId(f)
    PROVE  e = f
<1>1. ASSUME NEW g \in Envelope, ActionId(g) # NoId
      PROVE  /\ ActionId(g) = <<"action", g.context, g.content, g.deadline>>
             /\ g.shape = "whole"
  <2>1. g.shape = "whole"
    BY <1>1 DEF ActionId, EnvelopeV1Id, EnvelopeV1Valid, Hashed, ExactProjection
  <2>2. CASE g.context # Absent
    BY <1>1, <2>1, <2>2
       DEF ActionId, EnvelopeV1Id, EnvelopeV1Valid, Hashed, ExactProjection
  <2>3. CASE g.context = Absent
    BY <1>1, <2>1, <2>3 DEF ActionId, Hashed, ExactProjection
  <2> QED
    BY <2>1, <2>2, <2>3
<1>2. /\ ActionId(e) = <<"action", e.context, e.content, e.deadline>> /\ e.shape = "whole"
      /\ ActionId(f) = <<"action", f.context, f.content, f.deadline>> /\ f.shape = "whole"
  BY <1>1
<1>3. <<"action", e.context, e.content, e.deadline>> =
          <<"action", f.context, f.content, f.deadline>>
  BY <1>2
<1>4. e.context = f.context /\ e.content = f.content /\ e.deadline = f.deadline
  BY <1>3
<1> QED
  BY <1>2, <1>4 DEF Envelope

(* A decision identifier determines all that it binds. *)
LEMMA ProjectionDetermines ==
    ASSUME NEW i, NEW j, NEW d \in Decision, NEW e \in Decision,
           Projection(i, d) = Projection(j, e)
    PROVE  /\ i = j /\ d.verdict = e.verdict /\ d.depth = e.depth
           /\ Range(d.uses) = Range(e.uses) /\ Range(d.refs) = Range(e.refs)
           /\ d.ceiling = e.ceiling /\ d.domain = e.domain /\ d.expires = e.expires
BY DEF Projection

LEMMA ProjectionIsAnIdentifier ==
    ASSUME NEW i, NEW d PROVE Projection(i, d) # NoId
BY DEF Projection, NoId

(* A decision that has an identifier satisfies its schema. *)
LEMMA IdentifiedIsValid ==
    ASSUME NEW i, NEW d, DecisionId(i, d) # NoId
    PROVE  i # NoId /\ DecisionValid(d) /\ DecisionId(i, d) = Projection(i, d)
BY DEF DecisionId

(* Sequences without repetition and with the same elements are equally long. *)
LEMMA SameElementsSameLength ==
    ASSUME NEW S, NEW s \in Seq(S), NEW t \in Seq(S),
           IsInjective(s), IsInjective(t), Range(s) = Range(t)
    PROVE  Len(s) = Len(t)
<1>1. ASSUME NEW u \in Seq(S), IsInjective(u)
      PROVE  Cardinality(Range(u)) = Len(u)
  <2>1. DOMAIN u = 1..Len(u) /\ Len(u) \in Nat
    BY LenProperties
  <2>2. u \in [1..Len(u) -> Range(u)] /\ IsInjective(u)
    BY <1>1, <2>1, LenProperties DEF Range
  <2>3. \A x \in Range(u) : \E k \in 1..Len(u) : u[k] = x
    BY <2>1 DEF Range
  <2>4. u \in Bijection(1..Len(u), Range(u))
    BY <2>2, <2>3 DEF Bijection, Injection, Surjection
  <2>5. ExistsBijection(1..Len(u), Range(u))
    BY <2>4 DEF ExistsBijection
  <2> QED
    BY <2>1, <2>5, FS_CountingElements
<1> QED
  BY <1>1

-----------------------------------------------------------------------------
(* The life of one action                                                       *)

(* What the chain holds on to at every stage. *)
ChainInv ==
    /\ resumed \subseteq {frozen}
    /\ phase \in {"new", "frozen", "bound"} => resumed = {}
    /\ phase # "new" => ActionId(frozen) # NoId
    /\ phase \in {"bound", "resumed", "linked"} => DecisionId(ActionId(frozen), bound) # NoId
    /\ phase = "linked" => audit = AuditOf(frozen, bound, executed)
IInv == TypeOK /\ ChainInv

(* Sequences of grants and references stay sequences under the changes of a     *)
(* drift.                                                                       *)
LEMMA SwappedKeeps ==
    ASSUME NEW S, NEW s \in Seq(S) PROVE Swapped(s) \in Seq(S)
<1>1. DOMAIN s = 1..Len(s) /\ Len(s) \in Nat
  BY LenProperties
<1>2. \A i \in 1..Len(s) : Len(s) + 1 - i \in 1..Len(s)
  BY <1>1
<1>3. \A i \in 1..Len(s) : s[Len(s) + 1 - i] \in S
  BY <1>2, ElementOfSeq
<1>4. Swapped(s) \in [1..Len(s) -> S]
  BY <1>1, <1>3 DEF Swapped
<1> QED
  BY <1>1, <1>4

LEMMA EditedEnvelopesTyped ==
    ASSUME envelope \in Envelope PROVE EditedEnvelopes \subseteq Envelope
BY DEF EditedEnvelopes, Envelope

LEMMA EditedDecisionsTyped ==
    ASSUME decision \in Decision PROVE EditedDecisions \subseteq Decision
<1> DEFINE Uses == Seq(Transitions \cup {"other"})
           References == Seq(Refs \cup {"malformed"})
<1>1. decision.uses \in Uses /\ decision.refs \in References
  BY DEF Decision
<1>2. Swapped(decision.uses) \in Uses /\ Swapped(decision.refs) \in References
  BY <1>1, SwappedKeeps
<1>3. \A t \in Transitions \cup {"other"} : Append(decision.uses, t) \in Uses
  BY <1>1, AppendProperties
<1>4. \A r \in Refs \cup {"malformed"} : Append(decision.refs, r) \in References
  BY <1>1, AppendProperties
<1> HIDE DEF Uses, References
<1>5. Decision = [verdict: Verdicts, depth: Depths \cup {Absent, "unknown"},
                  uses: Uses, refs: References, ceiling: Ceilings,
                  domain: {"inside", "outside"}, expires: {Absent, "soon", "late"},
                  label: {"a", "b"}, action: Named, extra: BOOLEAN]
  BY DEF Decision, Uses, References
<1>6. /\ \A v \in Verdicts : [decision EXCEPT !.verdict = v] \in Decision
      /\ \A n \in Depths \cup {Absent, "unknown"} : [decision EXCEPT !.depth = n] \in Decision
      /\ \A c \in Ceilings : [decision EXCEPT !.ceiling = c] \in Decision
      /\ \A a \in Named : [decision EXCEPT !.action = a] \in Decision
  BY <1>5
<1>7. /\ [decision EXCEPT !.domain = "outside"] \in Decision
      /\ [decision EXCEPT !.label = "b"] \in Decision
      /\ [decision EXCEPT !.expires = "late"] \in Decision
      /\ [decision EXCEPT !.extra = TRUE] \in Decision
  BY <1>5
<1>8. /\ \A u \in Uses : [decision EXCEPT !.uses = u] \in Decision
      /\ \A u \in References : [decision EXCEPT !.refs = u] \in Decision
  BY <1>5
<1>9. /\ \A t \in Transitions \cup {"other"} :
            [decision EXCEPT !.uses = Append(@, t)] \in Decision
      /\ \A r \in Refs \cup {"malformed"} :
            [decision EXCEPT !.refs = Append(@, r)] \in Decision
      /\ [decision EXCEPT !.uses = Swapped(@)] \in Decision
      /\ [decision EXCEPT !.refs = Swapped(@)] \in Decision
  BY <1>2, <1>3, <1>4, <1>8
<1>10. SUFFICES ASSUME NEW d \in EditedDecisions PROVE d \in Decision
  OBVIOUS
<1>11. CASE \/ \E v \in Verdicts : d = [decision EXCEPT !.verdict = v]
            \/ \E n \in Depths \cup {Absent, "unknown"} : d = [decision EXCEPT !.depth = n]
            \/ \E c \in Ceilings : d = [decision EXCEPT !.ceiling = c]
            \/ \E a \in Named : d = [decision EXCEPT !.action = a]
  BY <1>6, <1>11
<1>12. CASE \/ \E t \in Transitions \cup {"other"} :
                   d = [decision EXCEPT !.uses = Append(@, t)]
            \/ \E r \in Refs \cup {"malformed"} :
                   d = [decision EXCEPT !.refs = Append(@, r)]
            \/ d = [decision EXCEPT !.uses = Swapped(@)]
            \/ d = [decision EXCEPT !.refs = Swapped(@)]
  BY <1>9, <1>12
<1>13. CASE \/ d = [decision EXCEPT !.domain = "outside"]
            \/ d = [decision EXCEPT !.label = "b"]
            \/ d = [decision EXCEPT !.expires = "late"]
            \/ d = [decision EXCEPT !.extra = TRUE]
  BY <1>7, <1>13
<1> QED
  BY <1>10, <1>11, <1>12, <1>13, Zenon DEF EditedDecisions

LEMMA Invariance == Spec => []IInv
<1> USE AuthorityAssumption
<1>1. Init => IInv
  <2> SUFFICES ASSUME Init PROVE IInv
    OBVIOUS
  <2>1. envelope \in Envelope
    BY DEF Init, Envelope, Contexts, Shapes
  <2>2. TypeOK
    BY <2>1 DEF Init, TypeOK
  <2> QED
    BY <2>2 DEF Init, IInv, ChainInv
<1>2. IInv /\ [Next]_vars => IInv'
  <2> SUFFICES ASSUME IInv, [Next]_vars PROVE IInv'
    OBVIOUS
  <2> USE DEF IInv, TypeOK, ChainInv
  <2>1. CASE Freeze
    BY <2>1 DEF Freeze
  <2>2. CASE Bind
    BY <2>2 DEF Bind
  <2>3. CASE Resume
    <3>1. envelope = frozen
      BY <2>3, ActionIdDetermines DEF Resume, ContinuationMatches
    <3> QED
      BY <2>3, <3>1 DEF Resume
  <2>4. CASE Link
    BY <2>4 DEF Link
  <2>5. ASSUME NEW e \in Envelope, NEW d \in Decision, NEW p \in Payloads, Edit(e, d, p)
        PROVE  IInv'
    <3>1. edits' \in 0..MaxEdits
      BY <2>5 DEF Edit
    <3> QED
      BY <2>5, <3>1 DEF Edit
  <2>6. CASE Drift
    BY <2>5, <2>6, EditedEnvelopesTyped, EditedDecisionsTyped DEF Drift
  <2>7. CASE UNCHANGED vars
    BY <2>7 DEF vars
  <2> QED
    BY <2>1, <2>2, <2>3, <2>4, <2>6, <2>7 DEF Next
<1> QED
  BY <1>1, <1>2, PTL DEF Spec

-----------------------------------------------------------------------------
(* Every record stays of the shape its schema's fields allow. *)
THEOREM AuthorityTypeCorrect == Spec => []TypeOK
<1>1. IInv => TypeOK
  BY DEF IInv
<1> QED
  BY <1>1, Invariance, PTL

(* An action is resumed with exactly the envelope that was frozen. *)
THEOREM ResumeIsExact == Spec => []ResumeReproducesFrozen
<1>1. IInv => ResumeReproducesFrozen
  BY DEF IInv, ChainInv, ResumeReproducesFrozen
<1> QED
  BY <1>1, Invariance, PTL

(* Records that still lead to the audit identifier are those of the action. *)
THEOREM AuditIsTraceable == Spec => []AuditReachesAction
<1>1. IInv => AuditReachesAction
  <2> SUFFICES ASSUME IInv, phase = "linked",
                      AuditOf(envelope, decision, payload) = audit
               PROVE  /\ envelope = frozen /\ payload = executed
                      /\ decision.verdict = bound.verdict
                      /\ decision.expires = bound.expires
    BY DEF AuditReachesAction
  <2> DEFINE X == DecisionId(ActionId(frozen), bound)
             Y == DecisionId(ActionId(envelope), decision)
  <2>1. X # NoId /\ audit = AuditOf(frozen, bound, executed)
    BY DEF IInv, ChainInv
  <2>2. audit = <<"audit", <<"outcome", X, executed>>, "log">>
    BY <2>1 DEF AuditOf, ChainRecordId, NoId
  <2>3. Y # NoId
    BY <2>2 DEF AuditOf, ChainRecordId, NoId
  <2>4. audit = <<"audit", <<"outcome", Y, payload>>, "log">>
    BY <2>3 DEF AuditOf, ChainRecordId, NoId
  <2>5. X = Y /\ payload = executed
    BY <2>2, <2>4
  <2>6. /\ X = Projection(ActionId(frozen), bound) /\ ActionId(frozen) # NoId
        /\ Y = Projection(ActionId(envelope), decision) /\ ActionId(envelope) # NoId
    BY <2>1, <2>3, IdentifiedIsValid
  <2>7. /\ ActionId(frozen) = ActionId(envelope)
        /\ decision.verdict = bound.verdict /\ decision.expires = bound.expires
    <3>1. decision \in Decision /\ bound \in Decision
      BY DEF IInv, TypeOK
    <3>2. Projection(ActionId(frozen), bound) = Projection(ActionId(envelope), decision)
      BY <2>5, <2>6
    <3> HIDE DEF X, Y
    <3> QED
      BY <3>1, <3>2, ProjectionDetermines
  <2>8. envelope = frozen
    BY <2>6, <2>7, ActionIdDetermines DEF IInv, TypeOK
  <2> QED
    BY <2>5, <2>7, <2>8
<1> QED
  BY <1>1, Invariance, PTL

(* Equal decision identifiers grant equal authority, in whatever order grants   *)
(* and references came.                                                         *)
THEOREM AuthorityIsBound == Spec => []SameIdSameAuthority
<1>1. IInv => SameIdSameAuthority
  <2> SUFFICES ASSUME IInv, phase \in {"bound", "resumed", "linked"},
                      DecisionId(ActionId(frozen), decision) =
                          DecisionId(ActionId(frozen), bound)
               PROVE  /\ \A t \in Transitions \cup {"other"} :
                            Reason(decision, t) = Reason(bound, t)
                      /\ Crosswalk(decision, bound) \in
                            {"TRANSITION_SEMANTICS_PRESERVED", "INVALID_VERDICT_SHAPE"}
                      /\ Crosswalk(decision, bound) = Crosswalk(bound, bound)
    BY DEF SameIdSameAuthority
  <2>1. decision \in Decision /\ bound \in Decision
    BY DEF IInv, TypeOK
  <2>2. DecisionId(ActionId(frozen), bound) # NoId
    BY DEF IInv, ChainInv
  <2>3. /\ DecisionValid(decision) /\ DecisionValid(bound)
        /\ Projection(ActionId(frozen), decision) = Projection(ActionId(frozen), bound)
    BY <2>2, IdentifiedIsValid
  <2>4. /\ decision.verdict = bound.verdict /\ decision.depth = bound.depth
        /\ Range(decision.uses) = Range(bound.uses)
        /\ Range(decision.refs) = Range(bound.refs)
        /\ decision.ceiling = bound.ceiling /\ decision.domain = bound.domain
    BY <2>1, <2>3, ProjectionDetermines
  <2>5. Len(decision.refs) = Len(bound.refs)
    <3>1. decision.refs \in Seq(Refs \cup {"malformed"})
          /\ bound.refs \in Seq(Refs \cup {"malformed"})
      BY <2>1 DEF Decision
    <3>2. IsInjective(decision.refs) /\ IsInjective(bound.refs)
      BY <2>3 DEF DecisionValid, RefsValid
    <3> QED
      BY <2>4, <3>1, <3>2, SameElementsSameLength
  <2>6. \A t \in Transitions \cup {"other"} : Reason(decision, t) = Reason(bound, t)
    BY <2>4 DEF Reason
  <2>7. /\ WithinResources(decision) <=> WithinResources(bound)
        /\ ProfileValid(decision) <=> ProfileValid(bound)
    BY <2>3, <2>4, <2>5 DEF WithinResources, ProfileValid
  <2>8. SameSemantics(decision, bound) /\ SameSemantics(bound, bound)
    BY <2>4 DEF SameSemantics
  <2> QED
    BY <2>4, <2>6, <2>7, <2>8 DEF Crosswalk
<1> QED
  BY <1>1, Invariance, PTL

(* A hard block that has an identifier authorizes nothing but its own log, at   *)
(* every moment and for every decision an agent may hold.                       *)
THEOREM HardBlockHolds == Spec => []BoundHardBlockStops
<1>1. BoundHardBlockStops
  <2> SUFFICES ASSUME decision.verdict = "HARD_BLOCK",
                      DecisionId(ActionId(frozen), decision) # NoId,
                      NEW t \in Transitions, Authorizes(decision, t)
               PROVE  t = AuditLog
    BY DEF BoundHardBlockStops
  <2>1. Range(decision.uses) \subseteq {AuditLog}
    BY IdentifiedIsValid DEF DecisionValid, GrantsValid
  <2>2. t \in Range(decision.uses)
    BY DEF Authorizes, Reason
  <2> QED
    BY <2>1, <2>2
<1> QED
  BY <1>1, PTL
=============================================================================
