-------------------------- MODULE ToolCallGuardProofs --------------------------
(* The adapter's hook among any number of other hooks, for any arguments.       *)
EXTENDS ToolCallGuard, SequenceTheorems, TLAPS

(* What a list keeps when one of its elements is removed. *)
LEMMA RemoveAtKeeps ==
  ASSUME NEW S, NEW s \in Seq(S), IsInjective(s), NEW i \in DOMAIN s
  PROVE  RemoveAt(s, i) \in Seq(S) /\ IsInjective(RemoveAt(s, i))
<1> DEFINE u == SubSeq(s, 1, i - 1)
           v == SubSeq(s, i + 1, Len(s))
           t == RemoveAt(s, i)
<1>1. DOMAIN s = 1..Len(s) /\ Len(s) \in Nat /\ i \in 1..Len(s)
  BY LenProperties
<1>2. \A k \in 1..Len(s) : s[k] \in S
  BY ElementOfSeq
<1>3. u \in Seq(S) /\ Len(u) = i - 1 /\ \A k \in 1..(i - 1) : u[k] = s[k]
  <2>1. /\ u \in Seq(S)
        /\ Len(u) = IF 1 <= i - 1 THEN (i - 1) - 1 + 1 ELSE 0
        /\ \A k \in 1 .. (i - 1) - 1 + 1 : u[k] = s[1 + k - 1]
    <3>1. 1 \in Int /\ i - 1 \in Int /\ \A k \in 1..(i - 1) : s[k] \in S
      BY <1>1, <1>2
    <3> QED
      BY <3>1, SubSeqProperties
  <2>2. \A k \in 1..(i - 1) : u[k] = s[1 + k - 1] /\ 1 + k - 1 = k
    BY <2>1, <1>1
  <2> QED
    BY <2>1, <2>2, <1>1
<1>4. /\ v \in Seq(S) /\ Len(v) = Len(s) - i
      /\ \A k \in 1..(Len(s) - i) : v[k] = s[i + k]
  <2>1. /\ v \in Seq(S)
        /\ Len(v) = IF i + 1 <= Len(s) THEN Len(s) - (i + 1) + 1 ELSE 0
        /\ \A k \in 1 .. Len(s) - (i + 1) + 1 : v[k] = s[(i + 1) + k - 1]
    <3>1. i + 1 \in Int /\ Len(s) \in Int /\ \A k \in (i + 1)..Len(s) : s[k] \in S
      BY <1>1, <1>2
    <3> QED
      BY <3>1, SubSeqProperties
  <2>2. ASSUME NEW k \in 1..(Len(s) - i) PROVE v[k] = s[i + k]
    BY <2>1, <1>1
  <2> QED
    BY <2>1, <2>2, <1>1
<1>5. t = u \o v
  BY DEF RemoveAt
<1> HIDE DEF u, v, t
<1>6. /\ t \in Seq(S) /\ Len(t) = Len(u) + Len(v)
      /\ \A k \in 1..(Len(u) + Len(v)) : t[k] = IF k <= Len(u) THEN u[k] ELSE v[k - Len(u)]
  BY <1>3, <1>4, <1>5, ConcatProperties
<1>7. /\ Len(t) = Len(s) - 1
      /\ \A k \in 1..(Len(s) - 1) : t[k] = IF k < i THEN s[k] ELSE s[k + 1]
  <2>1. Len(u) + Len(v) = Len(s) - 1
    BY <1>1, <1>3, <1>4
  <2>2. ASSUME NEW k \in 1..(Len(s) - 1) PROVE t[k] = IF k < i THEN s[k] ELSE s[k + 1]
    <3>1. t[k] = IF k <= Len(u) THEN u[k] ELSE v[k - Len(u)]
      BY <1>6, <2>1
    <3>2. CASE k < i
      BY <1>1, <1>3, <3>1, <3>2
    <3>3. CASE ~(k < i)
      <4>1. k - Len(u) \in 1..(Len(s) - i) /\ i + (k - Len(u)) = k + 1 /\ ~(k <= Len(u))
        BY <1>1, <1>3, <3>3
      <4> QED
        BY <1>4, <3>1, <3>3, <4>1
    <3> QED
      BY <3>2, <3>3
  <2> QED
    BY <1>6, <2>1, <2>2
<1>8. DOMAIN t = 1..(Len(s) - 1)
  BY <1>6, <1>7, LenProperties
<1>9. \A a, b \in 1..Len(s) : s[a] = s[b] => a = b
  BY <1>1 DEF IsInjective
<1>10. ASSUME NEW a \in DOMAIN t, NEW b \in DOMAIN t, t[a] = t[b] PROVE a = b
  BY <1>1, <1>7, <1>8, <1>9, <1>10
<1>11. IsInjective(t)
  BY <1>10 DEF IsInjective
<1> QED
  BY <1>6, <1>11 DEF t

(* A new element at the end. *)
LEMMA AppendKeeps ==
  ASSUME NEW S, NEW s \in Seq(S), IsInjective(s), NEW e \in S, e \notin ToSet(s)
  PROVE  Append(s, e) \in Seq(S) /\ IsInjective(Append(s, e))
<1> DEFINE t == Append(s, e)
<1>1. DOMAIN s = 1..Len(s) /\ Len(s) \in Nat
  BY LenProperties
<1>2. /\ t \in Seq(S) /\ Len(t) = Len(s) + 1
      /\ \A k \in 1..Len(s) : t[k] = s[k]
      /\ t[Len(s) + 1] = e
  BY AppendProperties
<1> HIDE DEF t
<1>3. DOMAIN t = 1..(Len(s) + 1)
  BY <1>2, LenProperties
<1>4. \A k \in 1..Len(s) : s[k] # e
  BY <1>1 DEF ToSet
<1>5. \A a, b \in 1..Len(s) : s[a] = s[b] => a = b
  BY <1>1 DEF IsInjective
<1>6. ASSUME NEW a \in DOMAIN t, NEW b \in DOMAIN t, t[a] = t[b] PROVE a = b
  BY <1>1, <1>2, <1>3, <1>4, <1>5, <1>6
<1>7. IsInjective(t)
  BY <1>6 DEF IsInjective
<1> QED
  BY <1>2, <1>7 DEF t

----------------------------------------------------------------------------
(* A call that was dispatched to the hook of a closed adapter, and that nobody  *)
(* disturbed.                                                                   *)
Undisturbed == FailClosed /\ guarded /\ ~raced

(* The rest of the framework's copy is the end of the registry, and the hook is *)
(* still in it, has just been taken from it, or was its end.                    *)
QueueInv ==
  Undisturbed /\ step # "idle" =>
    /\ Len(queue) <= Len(registry)
    /\ \A i \in 1..Len(queue) : queue[i] = registry[Len(registry) - Len(queue) + i]
    /\ step = "dispatch" =>
         \/ \E i \in 1..Len(queue) : queue[i] = Guard
         \/ queue = <<>> /\ args \in Approved
    /\ step = "position" =>
         Len(queue) < Len(registry) /\ registry[Len(registry) - Len(queue)] = Guard
    /\ step \in {"envelope", "request", "evaluate", "compare"} => queue = <<>>

(* What the hook has read is what the arguments still are. *)
ReadInv ==
  Undisturbed =>
    /\ step \in {"request", "evaluate", "compare"} => envelope = args
    /\ step \in {"evaluate", "compare"} => seen = args
    /\ step = "compare" /\ allowed => seen \in Approved

OutcomeInv ==
  outcome = "executed" => step = "idle" /\ (Undisturbed => args \in Approved)

(* Every state is typed. *)
THEOREM GuardTypeCorrect == Spec => []TypeOK
<1>1. Init => TypeOK
  <2> SUFFICES ASSUME Init PROVE TypeOK
    OBVIOUS
  <2>1. registry \in Seq(Hook \cup {Guard}) /\ queue \in Seq(Hook \cup {Guard})
    BY EmptySeq DEF Init
  <2>2. IsInjective(registry)
    BY DEF IsInjective, Init
  <2>3. edits \in 0 .. MaxEdits /\ calls \in 0 .. MaxCalls
    BY GuardAssumption DEF Init
  <2> QED
    BY <2>1, <2>2, <2>3 DEF Init, TypeOK, AnyArgs
<1>2. TypeOK /\ [Next]_vars => TypeOK'
  <2> SUFFICES ASSUME TypeOK, [Next]_vars PROVE TypeOK'
    OBVIOUS
  <2> USE GuardAssumption DEF TypeOK, AnyArgs
  <2>1. CASE CheckPosition
    BY <2>1 DEF CheckPosition, Error, Allow, Block
  <2>2. CASE BuildEnvelope
    BY <2>2 DEF BuildEnvelope, Error, Allow, Block
  <2>3. CASE BuildRequest
    BY <2>3 DEF BuildRequest
  <2>4. CASE Evaluate
    BY <2>4 DEF Evaluate, Error, Allow, Block
  <2>5. CASE CompareEnvelopes
    BY <2>5 DEF CompareEnvelopes, Error, Allow, Block
  <2>6. CASE RunGuard
    <3>1. queue' \in Seq(Hook \cup {Guard})
      BY <2>6, HeadTailProperties DEF RunGuard
    <3> QED
      BY <2>6, <3>1 DEF RunGuard
  <2>7. CASE RunTool
    BY <2>7 DEF RunTool
  <2>8. ASSUME NEW input \in AnyArgs, StartCall(input) PROVE TypeOK'
    <3>1. guarded' \in BOOLEAN
      BY <2>8 DEF StartCall
    <3>2. calls' \in 0 .. MaxCalls /\ edits' \in 0 .. MaxEdits
      BY <2>8 DEF StartCall
    <3> QED
      BY <2>8, <3>1, <3>2 DEF StartCall
  <2>9. ASSUME NEW input \in AnyArgs, RunHook(input) PROVE TypeOK'
    <3>1. queue' \in Seq(Hook \cup {Guard})
      BY <2>9, HeadTailProperties DEF RunHook
    <3> QED
      BY <2>9, <3>1 DEF RunHook, Allow, Block
  <2>10. ASSUME NEW input \in AnyArgs, EditArgs(input) PROVE TypeOK'
    BY <2>10 DEF EditArgs
  <2>11. ASSUME NEW hook \in Hook \cup {Guard}, Register(hook) PROVE TypeOK'
    <3>1. registry' \in Seq(Hook \cup {Guard}) /\ IsInjective(registry')
      BY <2>11, AppendKeeps DEF Register
    <3>2. raced' \in BOOLEAN
      BY <2>11 DEF Register
    <3> QED
      BY <2>11, <3>1, <3>2 DEF Register
  <2>12. ASSUME NEW hook \in Hook \cup {Guard}, Unregister(hook) PROVE TypeOK'
    <3>1. registry' \in Seq(Hook \cup {Guard}) /\ IsInjective(registry')
      BY <2>12, RemoveAtKeeps DEF Unregister
    <3>2. raced' \in BOOLEAN
      BY <2>12 DEF Unregister
    <3> QED
      BY <2>12, <3>1, <3>2 DEF Unregister
  <2>13. CASE UNCHANGED vars
    BY <2>13 DEF vars
  <2> QED
    BY <2>1, <2>2, <2>3, <2>4, <2>5, <2>6, <2>7, <2>8, <2>9, <2>10, <2>11, <2>12, <2>13
       DEF Next, GuardStep
<1> QED
  BY <1>1, <1>2, PTL DEF Spec

(* While a call goes through the hook undisturbed, nothing but the hook's own   *)
(* reads lies between the approval and the tool.                                *)
LEMMA GuardedInvariance == Spec => [](QueueInv /\ ReadInv /\ OutcomeInv)
<1> DEFINE Inv == QueueInv /\ ReadInv /\ OutcomeInv
<1> USE DEF QueueInv, ReadInv, OutcomeInv, Undisturbed
<1>1. Init => Inv
  BY DEF Init
<1>2. TypeOK /\ TypeOK' /\ Inv /\ [Next]_vars => Inv'
  <2> SUFFICES ASSUME TypeOK, TypeOK', Inv, [Next]_vars PROVE Inv'
    OBVIOUS
  <2> USE GuardAssumption
  <2>0. /\ DOMAIN registry = 1..Len(registry) /\ Len(registry) \in Nat
        /\ DOMAIN queue = 1..Len(queue) /\ Len(queue) \in Nat
        /\ \A a, b \in 1..Len(registry) : registry[a] = registry[b] => a = b
    <3>1. /\ DOMAIN registry = 1..Len(registry) /\ Len(registry) \in Nat
          /\ DOMAIN queue = 1..Len(queue) /\ Len(queue) \in Nat
      BY LenProperties DEF TypeOK
    <3> QED
      BY <3>1 DEF TypeOK, IsInjective
  <2>1. CASE CheckPosition
    <3>1. CASE GuardIsLast /\ step' = "envelope" /\ UNCHANGED outcome
      <4>1. Undisturbed => queue = <<>>
        <5> SUFFICES ASSUME Undisturbed PROVE queue = <<>>
          OBVIOUS
        <5>1. /\ Len(queue) < Len(registry)
              /\ registry[Len(registry) - Len(queue)] = Guard
          BY <2>1 DEF CheckPosition
        <5>2. registry[Len(registry)] = Guard
          BY <3>1, <5>1, <2>0 DEF GuardIsLast, Last
        <5> DEFINE last == Len(registry)
                   at == Len(registry) - Len(queue)
        <5>3. at = last
          <6>1. at \in 1..Len(registry) /\ last \in 1..Len(registry)
            BY <2>0, <5>1
          <6>2. registry[at] = registry[last]
            BY <5>1, <5>2
          <6> HIDE DEF at, last
          <6> QED
            BY <2>0, <6>1, <6>2
        <5>4. Len(queue) = 0
          BY <2>0, <5>3
        <5> QED
          BY <5>4, EmptySeq DEF TypeOK
      <4> QED
        BY <2>1, <3>1, <4>1 DEF CheckPosition
    <3>2. CASE Block \/ Error
      BY <2>1, <3>2 DEF CheckPosition, Error, Block, Allow
    <3> QED
      BY <2>1, <3>1, <3>2 DEF CheckPosition
  <2>2. CASE BuildEnvelope
    BY <2>2 DEF BuildEnvelope, Error, Block, Allow
  <2>3. CASE BuildRequest
    BY <2>3 DEF BuildRequest
  <2>4. CASE Evaluate
    <3>1. CASE \E decision \in IF seen \in Approved THEN BOOLEAN ELSE {FALSE} :
                 allowed' = decision /\ step' = "compare" /\ UNCHANGED outcome
      <4>1. allowed' => seen \in Approved
        BY <3>1
      <4> QED
        BY <2>4, <3>1, <4>1 DEF Evaluate
    <3>2. CASE Error /\ UNCHANGED allowed
      BY <2>4, <3>2 DEF Evaluate, Error, Block, Allow
    <3> QED
      BY <2>4, <3>1, <3>2 DEF Evaluate
  <2>5. CASE CompareEnvelopes
    <3>1. CASE args = BadArgs /\ Error
      BY <2>5, <3>1 DEF CompareEnvelopes, Error, Block, Allow
    <3>2. CASE Block
      BY <2>5, <3>2 DEF CompareEnvelopes, Block
    <3>3. CASE args = envelope /\ allowed /\ Allow
      <4>1. Undisturbed => queue = <<>> /\ args \in Approved
        BY <2>5, <3>3 DEF CompareEnvelopes
      <4> QED
        BY <2>5, <3>3, <4>1 DEF CompareEnvelopes, Allow
    <3> QED
      BY <2>5, <3>1, <3>2, <3>3 DEF CompareEnvelopes
  <2>6. ASSUME step = "dispatch", queue # <<>>, queue' = Tail(queue)
        PROVE  /\ Len(queue') = Len(queue) - 1 /\ Len(queue) >= 1
               /\ \A i \in 1..Len(queue') : queue'[i] = queue[i + 1]
               /\ Head(queue) = queue[1]
    BY <2>0, <2>6, HeadTailProperties, EmptySeq DEF TypeOK
  <2>7. ASSUME step = "dispatch", queue # <<>>, queue' = Tail(queue), Undisturbed,
               UNCHANGED registry
        PROVE  /\ Len(queue') < Len(registry)
               /\ \A i \in 1..Len(queue') : queue'[i] = registry[Len(registry) - Len(queue') + i]
               /\ registry[Len(registry) - Len(queue')] = Head(queue)
               /\ \E i \in 1..Len(queue) : queue[i] = Guard
    <3>1. /\ Len(queue') = Len(queue) - 1 /\ Len(queue) >= 1
          /\ \A i \in 1..Len(queue') : queue'[i] = queue[i + 1]
          /\ Head(queue) = queue[1]
      BY <2>6, <2>7
    <3>2. /\ Len(queue) <= Len(registry)
          /\ \A i \in 1..Len(queue) : queue[i] = registry[Len(registry) - Len(queue) + i]
      BY <2>7
    <3>3. registry[Len(registry) - Len(queue')] = Head(queue)
      <4>1. Len(registry) - Len(queue') = Len(registry) - Len(queue) + 1
        BY <2>0, <3>1
      <4>2. 1 \in 1..Len(queue)
        BY <2>0, <3>1
      <4> QED
        BY <3>1, <3>2, <4>1, <4>2
    <3>4. ASSUME NEW i \in 1..Len(queue')
          PROVE  queue'[i] = registry[Len(registry) - Len(queue') + i]
      <4>1. i + 1 \in 1..Len(queue)
        BY <2>0, <3>1
      <4>2. queue'[i] = registry[Len(registry) - Len(queue) + (i + 1)]
        BY <3>1, <3>2, <4>1
      <4>3. Len(registry) - Len(queue) + (i + 1) = Len(registry) - Len(queue') + i
        BY <2>0, <3>1
      <4> QED
        BY <4>2, <4>3
    <3>5. Len(queue') < Len(registry)
      BY <2>0, <3>1, <3>2
    <3>6. \E i \in 1..Len(queue) : queue[i] = Guard
      BY <2>7
    <3> QED
      BY <3>3, <3>4, <3>5, <3>6
  <2>8. CASE RunGuard
    <3>1. Undisturbed =>
               /\ Len(queue') < Len(registry)
               /\ \A i \in 1..Len(queue') : queue'[i] = registry[Len(registry) - Len(queue') + i]
               /\ registry[Len(registry) - Len(queue')] = Guard
      BY <2>7, <2>8 DEF RunGuard
    <3>2. step' = "position" /\ UNCHANGED <<registry, guarded, raced, outcome>>
      BY <2>8 DEF RunGuard
    <3>3. step = "dispatch"
      BY <2>8 DEF RunGuard
    <3>4. Undisturbed => Len(queue') <= Len(registry)
      BY <2>0, <3>1, LenProperties DEF TypeOK
    <3>5. registry' = registry /\ step' = "position" /\ (Undisturbed' => Undisturbed)
      BY <3>2
    <3>6. QueueInv'
      BY <3>1, <3>4, <3>5
    <3>7. ReadInv' /\ OutcomeInv'
      BY <3>2, <3>3
    <3> QED
      BY <3>6, <3>7
  <2>9. CASE RunTool
    <3>1. Undisturbed => args \in Approved
      <4> SUFFICES ASSUME Undisturbed PROVE args \in Approved
        OBVIOUS
      <4>1. queue = <<>> /\ Len(queue) = 0
        BY <2>9, EmptySeq DEF RunTool
      <4>2. ~ \E i \in 1..Len(queue) : queue[i] = Guard
        BY <4>1
      <4> QED
        BY <2>9, <4>2 DEF RunTool
    <3> QED
      BY <2>9, <3>1 DEF RunTool
  <2>10. ASSUME NEW input \in AnyArgs, StartCall(input) PROVE Inv'
    <3>1. guarded' => \E i \in 1..Len(registry) : registry[i] = Guard
      BY <2>0, <2>10 DEF StartCall, ToSet
    <3>2. /\ queue' = registry /\ registry' = registry /\ step' = "dispatch"
          /\ outcome' = "none"
      BY <2>10 DEF StartCall
    <3>3. \A i \in 1..Len(registry) : Len(registry) - Len(registry) + i = i
      BY <2>0
    <3>4. Len(registry) <= Len(registry)
      BY <2>0
    <3>5. QueueInv'
      BY <3>1, <3>2, <3>3, <3>4
    <3> QED
      BY <3>2, <3>5
  <2>11. ASSUME NEW input \in AnyArgs, RunHook(input) PROVE Inv'
    <3>1. CASE Block
      BY <2>11, <3>1 DEF RunHook, Block
    <3>2. CASE args' = input /\ Allow
      <4>1. /\ step = "dispatch" /\ queue # <<>> /\ Head(queue) # Guard
            /\ queue' = Tail(queue) /\ UNCHANGED <<registry, guarded, raced>>
            /\ step' = "dispatch" /\ outcome' = outcome
        BY <2>11, <3>2 DEF RunHook, Allow
      <4>2. Undisturbed => \E i \in 1..Len(queue') : queue'[i] = Guard
        <5> SUFFICES ASSUME Undisturbed PROVE \E i \in 1..Len(queue') : queue'[i] = Guard
          OBVIOUS
        <5>1. PICK i \in 1..Len(queue) : queue[i] = Guard
          BY <2>7, <4>1
        <5>2. /\ Len(queue') = Len(queue) - 1
              /\ \A k \in 1..Len(queue') : queue'[k] = queue[k + 1]
              /\ Head(queue) = queue[1]
          BY <2>6, <4>1
        <5>3. i # 1
          BY <4>1, <5>1, <5>2
        <5>4. i - 1 \in 1..Len(queue') /\ (i - 1) + 1 = i
          BY <2>0, <5>2, <5>3
        <5> QED
          BY <5>1, <5>2, <5>4
      <4>3. Undisturbed =>
               /\ Len(queue') < Len(registry)
               /\ \A i \in 1..Len(queue') : queue'[i] = registry[Len(registry) - Len(queue') + i]
        BY <2>7, <4>1
      <4>4. Undisturbed => Len(queue') <= Len(registry)
        BY <2>0, <4>3, LenProperties DEF TypeOK
      <4> QED
        BY <4>1, <4>2, <4>3, <4>4
    <3> QED
      BY <2>11, <3>1, <3>2 DEF RunHook
  <2>12. ASSUME NEW input \in AnyArgs, EditArgs(input) PROVE Inv'
    BY <2>12 DEF EditArgs
  <2>13. ASSUME raced' = (raced \/ step # "idle"),
                UNCHANGED <<step, queue, guarded, args, envelope, seen, allowed, outcome>>
         PROVE  Inv'
    <3>1. CASE step = "idle"
      BY <2>13, <3>1
    <3>2. CASE step # "idle"
      BY <2>13, <3>2
    <3> QED
      BY <3>1, <3>2
  <2>14. ASSUME NEW hook \in Hook \cup {Guard}, Register(hook) \/ Unregister(hook)
         PROVE  Inv'
    BY <2>13, <2>14 DEF Register, Unregister
  <2>15. CASE UNCHANGED vars
    BY <2>15 DEF vars
  <2> QED
    BY <2>1, <2>2, <2>3, <2>4, <2>5, <2>8, <2>9, <2>10, <2>11, <2>12, <2>14, <2>15
       DEF Next, GuardStep
<1> QED
  BY <1>1, <1>2, GuardTypeCorrect, PTL DEF Spec

(* A closed adapter that guarded an undisturbed call ran the tool only on       *)
(* arguments the provider may allow, whatever the hooks around it did.          *)
THEOREM ExecutionSound == Spec => []ExecutedIsApproved
<1>1. OutcomeInv => ExecutedIsApproved
  BY DEF OutcomeInv, Undisturbed, ExecutedIsApproved
<1> QED
  BY <1>1, GuardedInvariance, PTL

(* An allowing answer of a closed adapter is for the live arguments, and they   *)
(* are approved if the provider saw the arguments of the envelope.              *)
THEOREM AllowIsLive == Spec => AllowIsForLiveArguments
<1> DEFINE AllowInv == step = "compare" /\ allowed => seen \in Approved
<1>1. Init => AllowInv
  BY DEF Init
<1>2. TypeOK /\ AllowInv /\ [Next]_vars => AllowInv'
  <2> SUFFICES ASSUME TypeOK, AllowInv, [Next]_vars, step' = "compare", allowed'
               PROVE  seen' \in Approved
    OBVIOUS
  <2>1. CASE Evaluate
    BY <2>1 DEF Evaluate, Error, Allow, Block
  <2>2. CASE step = "compare" /\ UNCHANGED <<allowed, seen>>
    BY <2>2
  <2>3. Evaluate \/ (step = "compare" /\ UNCHANGED <<allowed, seen>>)
    BY DEF Next, GuardStep, CheckPosition, BuildEnvelope, BuildRequest, CompareEnvelopes,
           Error, Allow, Block, RunGuard, RunTool, StartCall, RunHook, EditArgs, Register,
           Unregister, vars
  <2> QED
    BY <2>1, <2>2, <2>3
<1>3. TypeOK /\ AllowInv /\ [Next]_vars =>
        (FailClosed /\ step = "compare" /\ step' = "dispatch" =>
           args = envelope /\ (seen = envelope => args \in Approved))
  <2> SUFFICES ASSUME TypeOK, AllowInv, [Next]_vars, FailClosed,
                      step = "compare", step' = "dispatch"
               PROVE  args = envelope /\ (seen = envelope => args \in Approved)
    OBVIOUS
  <2>1. CompareEnvelopes
    BY DEF Next, GuardStep, CheckPosition, BuildEnvelope, BuildRequest, Evaluate,
           Error, Allow, Block, RunGuard, RunTool, StartCall, RunHook, EditArgs, Register,
           Unregister, vars
  <2>2. args = envelope /\ allowed
    BY <2>1 DEF CompareEnvelopes, Error, Block
  <2> QED
    BY <2>2
<1> QED
  BY <1>1, <1>2, <1>3, GuardTypeCorrect, PTL DEF Spec, AllowIsForLiveArguments
=============================================================================
