------------------------- MODULE ToolExecution_proofs -------------------------
(***************************************************************************)
(* A batch of tool calls, for any calls, handlers and changes of the handlers. *)
(***************************************************************************)
EXTENDS ToolExecution, FiniteSetTheorems, SequenceTheorems, WellFoundedInduction, TLAPS

-----------------------------------------------------------------------------
(* Lists: inserting into the list of handlers and removing from it.        *)

\* A set of positions has a first one.
LEMMA FirstPosition ==
  ASSUME NEW T \in SUBSET Nat, T # {}
  PROVE  \E k \in T : \A j \in T : k <= j
<1>1. PICK k \in T : \A j \in T : ~ (<<j, k>> \in OpToRel(<, Nat))
  BY WFMin, NatLessThanWellFounded
<1>2. \A j \in T : ~(j < k)
  BY <1>1 DEF OpToRel
<1> QED
  BY <1>2

\* The elements of a concatenation, by the lengths of its parts.
LEMMA Joined ==
  ASSUME NEW S, NEW f \in Seq(S), NEW b \in Seq(S), NEW n, NEW m, Len(f) = n, Len(b) = m
  PROVE  /\ f \o b \in Seq(S) /\ Len(f \o b) = n + m
         /\ \A i \in 1..n + m : (f \o b)[i] = IF i <= n THEN f[i] ELSE b[i - n]
BY ConcatProperties

\* What InsertAt returns.
LEMMA InsertAtElements ==
  ASSUME NEW S, NEW l \in Seq(S), NEW k \in 1..Len(l) + 1, NEW e \in S
  PROVE  /\ InsertAt(l, k, e) \in Seq(S) /\ Len(InsertAt(l, k, e)) = Len(l) + 1
         /\ \A i \in 1..Len(l) + 1 :
              InsertAt(l, k, e)[i] = IF i < k THEN l[i] ELSE IF i = k THEN e ELSE l[i - 1]
<1> DEFINE front == SubSeq(l, 1, k - 1)
           back == SubSeq(l, k, Len(l))
<1>0. Len(l) \in Nat /\ k \in Nat
  BY LenProperties
<1>1. /\ front \in Seq(S) /\ Len(front) = k - 1 /\ \A i \in 1..k - 1 : front[i] = l[i]
  BY <1>0, SubSeqProperties, ElementOfSeq
<1>2. /\ back \in Seq(S) /\ Len(back) = Len(l) - k + 1
      /\ \A i \in 1..Len(l) - k + 1 : back[i] = l[k + i - 1]
  BY <1>0, SubSeqProperties, ElementOfSeq
<1>3. <<e>> \in Seq(S) /\ Len(<<e>>) = 1 /\ <<e>>[1] = e
  OBVIOUS
<1> HIDE DEF front, back
<1>4. /\ front \o <<e>> \in Seq(S) /\ Len(front \o <<e>>) = k
      /\ \A i \in 1..k : (front \o <<e>>)[i] = IF i <= k - 1 THEN front[i] ELSE <<e>>[i - (k - 1)]
  <2>1. (k - 1) + 1 = k
    BY <1>0
  <2>2. /\ front \o <<e>> \in Seq(S) /\ Len(front \o <<e>>) = (k - 1) + 1
        /\ \A i \in 1..(k - 1) + 1 : (front \o <<e>>)[i] =
             IF i <= k - 1 THEN front[i] ELSE <<e>>[i - (k - 1)]
    BY <1>1, <1>3, Joined
  <2> QED
    BY <2>1, <2>2
<1>5. \A i \in 1..k : (front \o <<e>>)[i] = IF i < k THEN l[i] ELSE e
  BY <1>0, <1>1, <1>3, <1>4
<1>6. /\ front \o <<e>> \o back \in Seq(S) /\ Len(front \o <<e>> \o back) = Len(l) + 1
      /\ \A i \in 1..Len(l) + 1 : (front \o <<e>> \o back)[i] =
           IF i <= k THEN (front \o <<e>>)[i] ELSE back[i - k]
  <2>1. k + (Len(l) - k + 1) = Len(l) + 1
    BY <1>0
  <2> DEFINE f == front \o <<e>>
  <2> HIDE DEF f
  <2>2. f \in Seq(S) /\ Len(f) = k
    BY <1>4 DEF f
  <2>3. /\ f \o back \in Seq(S) /\ Len(f \o back) = k + (Len(l) - k + 1)
        /\ \A i \in 1..k + (Len(l) - k + 1) : (f \o back)[i] =
             IF i <= k THEN f[i] ELSE back[i - k]
    BY <1>2, <2>2, Joined, SMTT(20)
  <2> QED
    BY <2>1, <2>3 DEF f
<1>7. \A i \in 1..Len(l) + 1 : i > k => back[i - k] = l[i - 1]
  <2> SUFFICES ASSUME NEW i \in 1..Len(l) + 1, i > k PROVE back[i - k] = l[i - 1]
    OBVIOUS
  <2>1. i - k \in 1..Len(l) - k + 1 /\ k + (i - k) - 1 = i - 1
    BY <1>0
  <2> QED
    BY <1>2, <2>1
<1>8. InsertAt(l, k, e) = front \o <<e>> \o back
  BY DEF InsertAt, front, back
<1> DEFINE m == InsertAt(l, k, e)
<1>9. m \in Seq(S) /\ Len(m) = Len(l) + 1
  BY <1>6, <1>8
<1>10. ASSUME NEW i \in 1..Len(l) + 1
       PROVE  m[i] = IF i < k THEN l[i] ELSE IF i = k THEN e ELSE l[i - 1]
  <2>1. m[i] = IF i <= k THEN (front \o <<e>>)[i] ELSE back[i - k]
    BY <1>6, <1>8
  <2> HIDE DEF m
  <2>2. CASE i <= k
    <3>1. i \in 1..k
      BY <1>0, <2>2
    <3>2. m[i] = IF i < k THEN l[i] ELSE e
      BY <1>5, <2>1, <2>2, <3>1
    <3> QED
      BY <1>0, <2>2, <3>2
  <2>3. CASE i > k
    BY <1>0, <1>7, <2>1, <2>3
  <2> QED
    BY <1>0, <2>2, <2>3
<1> QED
  BY <1>9, <1>10

\* What RemoveAt returns.
LEMMA RemoveAtElements ==
  ASSUME NEW S, NEW l \in Seq(S), NEW k \in 1..Len(l)
  PROVE  /\ RemoveAt(l, k) \in Seq(S) /\ Len(RemoveAt(l, k)) = Len(l) - 1
         /\ \A i \in 1..Len(l) - 1 : RemoveAt(l, k)[i] = IF i < k THEN l[i] ELSE l[i + 1]
<1> DEFINE front == SubSeq(l, 1, k - 1)
           back == SubSeq(l, k + 1, Len(l))
<1>0. Len(l) \in Nat /\ k \in Nat
  BY LenProperties
<1>1. /\ front \in Seq(S) /\ Len(front) = k - 1 /\ \A i \in 1..k - 1 : front[i] = l[i]
  BY <1>0, SubSeqProperties, ElementOfSeq
<1>2. /\ back \in Seq(S) /\ Len(back) = Len(l) - k
      /\ \A i \in 1..Len(l) - k : back[i] = l[k + i]
  <2>1. \A i \in k + 1..Len(l) : l[i] \in S
    BY <1>0, ElementOfSeq
  <2>2. /\ back \in Seq(S) /\ Len(back) = IF k + 1 <= Len(l) THEN Len(l) - (k + 1) + 1 ELSE 0
        /\ \A i \in 1..Len(l) - (k + 1) + 1 : back[i] = l[k + 1 + i - 1]
    BY <1>0, <2>1, SubSeqProperties
  <2> QED
    BY <1>0, <2>2
<1> HIDE DEF front, back
<1>3. /\ front \o back \in Seq(S) /\ Len(front \o back) = Len(l) - 1
      /\ \A i \in 1..Len(l) - 1 : (front \o back)[i] =
           IF i <= k - 1 THEN front[i] ELSE back[i - (k - 1)]
  <2>1. (k - 1) + (Len(l) - k) = Len(l) - 1
    BY <1>0
  <2>2. /\ front \o back \in Seq(S) /\ Len(front \o back) = (k - 1) + (Len(l) - k)
        /\ \A i \in 1..(k - 1) + (Len(l) - k) : (front \o back)[i] =
             IF i <= k - 1 THEN front[i] ELSE back[i - (k - 1)]
    <3>1. front \in Seq(S) /\ Len(front) = k - 1
      BY <1>1
    <3>2. back \in Seq(S) /\ Len(back) = Len(l) - k
      BY <1>2
    <3> DEFINE n == k - 1
               m == Len(l) - k
    <3> HIDE DEF n, m
    <3>3. Len(front) = n /\ Len(back) = m
      BY <3>1, <3>2 DEF n, m
    <3>4. /\ front \o back \in Seq(S) /\ Len(front \o back) = n + m
          /\ \A i \in 1..n + m : (front \o back)[i] = IF i <= n THEN front[i] ELSE back[i - n]
      BY <3>1, <3>2, <3>3, Joined
    <3> QED
      BY <3>4 DEF n, m
  <2> QED
    BY <2>1, <2>2
<1>4. \A i \in 1..Len(l) - 1 : ~(i < k) => back[i - (k - 1)] = l[i + 1]
  <2> SUFFICES ASSUME NEW i \in 1..Len(l) - 1, ~(i < k) PROVE back[i - (k - 1)] = l[i + 1]
    OBVIOUS
  <2>1. i - (k - 1) \in 1..Len(l) - k /\ k + (i - (k - 1)) = i + 1
    BY <1>0
  <2> QED
    BY <1>2, <2>1
<1>5. RemoveAt(l, k) = front \o back
  BY DEF RemoveAt, front, back
<1> DEFINE m == RemoveAt(l, k)
<1>6. m \in Seq(S) /\ Len(m) = Len(l) - 1
  BY <1>3, <1>5
<1>7. ASSUME NEW i \in 1..Len(l) - 1
      PROVE  m[i] = IF i < k THEN l[i] ELSE l[i + 1]
  <2>1. m[i] = IF i <= k - 1 THEN front[i] ELSE back[i - (k - 1)]
    BY <1>3, <1>5
  <2> HIDE DEF m
  <2>2. CASE i < k
    BY <1>0, <1>1, <2>1, <2>2
  <2>3. CASE ~(i < k)
    BY <1>0, <1>4, <2>1, <2>3
  <2> QED
    BY <2>2, <2>3
<1> QED
  BY <1>6, <1>7

-----------------------------------------------------------------------------
Phases == {"new", "permit", "hooks", "repermit", "executing", "answered"}

Types ==
  /\ phase \in [Call -> Phases]
  /\ serial \subseteq Call
  /\ input \in [Call -> Input]
  /\ approved \in [Call -> Input \cup {NotApproved}]
  /\ tampered \subseteq Call

\* The gather is over before the first of the other calls begins, and a call that is
\* answered stays so.
GatherFirst ==
  \A c \in serial : phase[c] # "new" => \A d \in Call \ serial : phase[d] = "answered"

\* While the handlers are asked, the input that was permitted is still in place, but for
\* what they have changed inside its nested value.
Permitted(c) ==
  /\ approved[c] # NotApproved
  /\ approved[c][1] = input[c][1]
  /\ c \notin tampered => approved[c] = input[c]

PermittedInPlace ==
  \A c \in Call : phase[c] \in {"hooks", "executing"} => Permitted(c)

IInv == Types /\ GatherFirst /\ UnsafeRunsAlone /\ PermittedInPlace

-----------------------------------------------------------------------------
LEMMA InitIInv == Init => IInv
BY ExecutionAssumption
   DEF Init, IInv, Types, GatherFirst, UnsafeRunsAlone, PermittedInPlace, Phases, Busy, Input,
       Value, Original

\* A call goes on that has begun: it was alone, and stays so.
LEMMA GoesOn ==
  ASSUME IInv, NEW c \in Call, Busy(c), NEW p \in Phases \ {"new"}, To(c, p), serial' = serial
  PROVE  GatherFirst' /\ UnsafeRunsAlone'
BY DEF IInv, Types, GatherFirst, UnsafeRunsAlone, To, Busy, Phases

\* A call begins when it is its turn.
LEMMA Begins ==
  ASSUME IInv, NEW c \in Call, Start(c)
  PROVE  IInv'
<1> USE DEF IInv, Types, Start, To, chainVars
<1>1. Types'
  BY DEF Phases
<1>2. GatherFirst'
  BY DEF GatherFirst, TurnOf
<1>3. UnsafeRunsAlone'
  BY DEF GatherFirst, UnsafeRunsAlone, TurnOf, Busy
<1>4. PermittedInPlace'
  BY DEF PermittedInPlace, Permitted, chainVars
<1> QED
  BY <1>1, <1>2, <1>3, <1>4

\* The first permission check.
LEMMA IsPermitted ==
  ASSUME IInv, NEW c \in Call, Permit(c)
  PROVE  IInv'
<1>1. Busy(c)
  BY DEF Permit, Busy
<1>2. PICK p \in Phases \ {"new"} : To(c, p)
  BY DEF Permit, Conclude, To, Phases
<1>3. serial' = serial
  BY DEF Permit
<1>4. GatherFirst' /\ UnsafeRunsAlone'
  BY <1>1, <1>2, <1>3, GoesOn
<1>5. input' = input
  BY DEF Permit, Conclude, IInv, Types
<1>6. Types'
  BY <1>2, <1>3, <1>5 DEF Permit, IInv, Types, To, chainVars
<1>7. PermittedInPlace'
  BY <1>5 DEF Permit, Conclude, To, IInv, Types, PermittedInPlace, Permitted, chainVars, Input,
              NotApproved
<1> QED
  BY <1>4, <1>6, <1>7 DEF IInv

\* What a handler leaves behind: the input with its nested value changed, or not.
LEMMA Held ==
  ASSUME IInv, NEW c \in Call, phase[c] = "hooks", NEW n \in Value,
         tampered' = IF <<input[c][1], n>> = input[c] THEN tampered ELSE tampered \cup {c}
  PROVE  /\ <<input[c][1], n>> \in Input /\ tampered' \subseteq Call
         /\ approved[c] # NotApproved /\ approved[c][1] = input[c][1]
         /\ c \notin tampered' => approved[c] = <<input[c][1], n>>
         /\ \A d \in Call \ {c} : d \in tampered' <=> d \in tampered
BY DEF IInv, Types, PermittedInPlace, Permitted, Input

\* A handler answers; at the end of the chain a changed input goes back to be permitted.
LEMMA IsAsked ==
  ASSUME IInv, NEW c \in Call, Ask(c)
  PROVE  IInv'
<1>1. Busy(c) /\ phase[c] = "hooks" /\ serial' = serial /\ approved' = approved
  BY DEF Ask, Busy
<1>2. ASSUME NEW n \in Value, phase' = phase, input' = [input EXCEPT ![c] = <<input[c][1], n>>],
             tampered' = IF <<input[c][1], n>> = input[c] THEN tampered ELSE tampered \cup {c}
      PROVE  IInv'
  <2> DEFINE held == <<input[c][1], n>>
  <2>1. /\ held \in Input /\ held[1] = input[c][1] /\ tampered' \subseteq Call
        /\ approved[c] # NotApproved /\ approved[c][1] = input[c][1]
        /\ c \notin tampered' => approved[c] = held
        /\ \A d \in Call \ {c} : d \in tampered' <=> d \in tampered
    BY <1>1, <1>2, Held
  <2> HIDE DEF held
  <2>2. input' = [input EXCEPT ![c] = held]
    BY <1>2 DEF held
  <2>3. Types' /\ PermittedInPlace'
    BY <1>1, <1>2, <2>1, <2>2 DEF IInv, Types, PermittedInPlace, Permitted
  <2> QED
    BY <1>1, <1>2, <2>3 DEF IInv, GatherFirst, UnsafeRunsAlone, Busy
<1>3. CASE To(c, "answered") /\ UNCHANGED <<input, tampered>>
  <2>1. GatherFirst' /\ UnsafeRunsAlone'
    BY <1>1, <1>3, GoesOn DEF Phases
  <2>2. Types' /\ PermittedInPlace'
    BY <1>1, <1>3 DEF IInv, Types, PermittedInPlace, Permitted, To, Phases
  <2> QED
    BY <2>1, <2>2 DEF IInv
<1>4. ASSUME NEW n \in Value, NEW w \in Input, Conclude(c, <<input[c][1], n>>, w),
             tampered' = IF <<input[c][1], n>> = input[c] THEN tampered ELSE tampered \cup {c}
      PROVE  IInv'
  <2>1. PICK p \in Phases \ {"new"} : To(c, p)
    BY <1>4 DEF Conclude, Phases
  <2>2. GatherFirst' /\ UnsafeRunsAlone'
    BY <1>1, <2>1, GoesOn
  <2> DEFINE held == <<input[c][1], n>>
  <2>3. /\ held \in Input /\ held[1] = input[c][1] /\ tampered' \subseteq Call
        /\ approved[c] # NotApproved /\ approved[c][1] = input[c][1]
        /\ c \notin tampered' => approved[c] = held
        /\ \A d \in Call \ {c} : d \in tampered' <=> d \in tampered
    BY <1>1, <1>4, Held
  <2> HIDE DEF held
  <2>4. Conclude(c, held, w)
    BY <1>4 DEF held
  <2>5. Types' /\ PermittedInPlace'
    BY <1>1, <2>3, <2>4
       DEF IInv, Types, PermittedInPlace, Permitted, Conclude, To, Phases
  <2> QED
    BY <2>2, <2>5 DEF IInv
<1> QED
  BY <1>2, <1>3, <1>4 DEF Ask

\* The second permission check.
LEMMA IsRepermitted ==
  ASSUME IInv, NEW c \in Call, Repermit(c)
  PROVE  IInv'
<1>1. Busy(c) /\ serial' = serial /\ \E p \in Phases \ {"new"} : To(c, p)
  BY DEF Repermit, Busy, Phases
<1>2. GatherFirst' /\ UnsafeRunsAlone'
  BY <1>1, GoesOn
<1>3. /\ input[c] \in Input /\ input[c] # NotApproved /\ input' = input
      /\ \A d \in Call \ {c} : approved'[d] = approved[d] /\ (d \in tampered' <=> d \in tampered)
      /\ tampered' \subseteq Call
  BY DEF Repermit, IInv, Types, Input, NotApproved
<1>4. Types'
  BY <1>1, <1>3 DEF Repermit, IInv, Types, To, Phases
<1>5. ASSUME NEW d \in Call, phase'[d] \in {"hooks", "executing"}
      PROVE  Permitted(d)'
  <2>1. CASE d = c
    BY <1>3, <1>5, <2>1 DEF Repermit, IInv, Types, Permitted, To
  <2>2. CASE d # c
    BY <1>3, <1>5, <2>2 DEF Repermit, IInv, Types, PermittedInPlace, Permitted, To
  <2> QED
    BY <2>1, <2>2
<1> QED
  BY <1>2, <1>4, <1>5 DEF IInv, PermittedInPlace

\* The tool runs and the call is answered.
LEMMA IsExecuted ==
  ASSUME IInv, NEW c \in Call, Execute(c)
  PROVE  IInv'
<1>1. GatherFirst' /\ UnsafeRunsAlone'
  BY GoesOn DEF Execute, Busy, Phases
<1>2. Types' /\ PermittedInPlace'
  BY DEF Execute, IInv, Types, PermittedInPlace, Permitted, To, Phases, chainVars
<1> QED
  BY <1>1, <1>2 DEF IInv

\* The handlers may change at any time: calls do not notice.
LEMMA StepIInv == IInv /\ [Next]_vars => IInv'
<1> SUFFICES ASSUME IInv, [Next]_vars
             PROVE  IInv'
  OBVIOUS
<1>1. ASSUME NEW c \in Call, Step(c)
      PROVE  IInv'
  BY <1>1, Begins, IsPermitted, IsAsked, IsRepermitted, IsExecuted DEF Step
<1>2. ASSUME NEW h \in Handler, Register(h) \/ Unregister(h)
      PROVE  IInv'
  BY <1>2 DEF Register, Unregister, IInv, Types, GatherFirst, UnsafeRunsAlone, PermittedInPlace,
                  Permitted, Busy, chainVars
<1>3. CASE UNCHANGED vars
  BY <1>3 DEF vars, IInv, Types, GatherFirst, UnsafeRunsAlone, PermittedInPlace,
                  Permitted, Busy, chainVars
<1> QED
  BY <1>1, <1>2, <1>3 DEF Next

LEMMA Invariance == Spec => []IInv
BY InitIInv, StepIInv, PTL DEF Spec

\* In every batch, of any calls and with any handlers, a call whose tool is not
\* concurrent-safe has the batch to itself (executor.py 46-55).
THEOREM UnsafeAlone == Spec => []UnsafeRunsAlone
<1>1. IInv => UnsafeRunsAlone
  BY DEF IInv
<1> QED
  BY <1>1, Invariance, PTL

\* However the handlers change inputs and the list of handlers changes, what is executed
\* is what the PermissionChecker last allowed, but for changes that handlers made inside
\* a nested value after that check (executor.py 100-126, hooks.py 60, 176).
THEOREM ApprovedOnly == Spec => []ExecutesWhatWasApproved
<1>1. IInv => ExecutesWhatWasApproved
  BY DEF IInv, PermittedInPlace, Permitted, ExecutesWhatWasApproved
<1> QED
  BY <1>1, Invariance, PTL

-----------------------------------------------------------------------------
(* The handlers.                                                           *)

HookTypes ==
  /\ lists \in Seq(Seq(Handler)) /\ lists # <<>>
  /\ phase \in [Call -> Phases]
  /\ chain \in [Call -> Nat] /\ at \in [Call -> Nat]
  /\ asked \in [Call -> Seq(Handler)] /\ steady \in [Call -> SUBSET Handler]

AllInOrder == \A k \in DOMAIN lists : InOrder(lists[k])

\* While a chain goes on, a handler that was there all along has been asked or is ahead
\* of the position of the loop, wherever insertions have moved it.
Ahead(c) ==
  /\ chain[c] \in DOMAIN lists /\ at[c] \in DOMAIN lists[chain[c]]
  /\ \A h \in steady[c] : h \in ToSet(asked[c])
       \/ \E j \in at[c] + 1..Len(lists[chain[c]]) : lists[chain[c]][j] = h

AskedOrAhead == \A c \in Call : phase[c] = "hooks" => Ahead(c)

HInv == HookTypes /\ AllInOrder /\ AskedOrAhead /\ NoHandlerSkipped

\* Inserting a handler keeps the order of priorities, and moves those behind it by one.
LEMMA Inserted ==
  ASSUME NEW l \in Seq(Handler), InOrder(l), NEW h \in Handler
  PROVE  /\ InsertHandler(l, h) \in Seq(Handler)
         /\ Len(InsertHandler(l, h)) = Len(l) + 1
         /\ InOrder(InsertHandler(l, h))
         /\ \E k \in 1..Len(l) + 1 : \A j \in 1..Len(l) :
              InsertHandler(l, h)[IF j < k THEN j ELSE j + 1] = l[j]
<1> DEFINE below == {i \in 1..Len(l) : Priority(l[i]) <= Priority(h)}
           above == {i \in 1..Len(l) + 1 : i = Len(l) + 1 \/ Priority(l[i]) > Priority(h)}
<1>0. Len(l) \in Nat /\ \A g \in Handler : Priority(g) \in {0, 1}
  BY DEF Priority
<1>1. PICK k \in above : \A j \in above : k <= j
  <2>1. above \in SUBSET Nat /\ above # {}
    OBVIOUS
  <2> QED
    BY <2>1, FirstPosition
<1>2. k \in 1..Len(l) + 1 /\ \A j \in 1..Len(l) : Priority(l[j]) <= Priority(h) <=> j < k
  BY <1>0, <1>1 DEF InOrder
<1>3. below = 1..(k - 1)
  BY <1>2
<1>4. InsertHandler(l, h) = InsertAt(l, Cardinality(below) + 1, h)
  BY DEF InsertHandler
<1> HIDE DEF below
<1>5. Cardinality(1..(k - 1)) = k - 1
  BY <1>0, <1>2, FS_Interval
<1>6. InsertHandler(l, h) = InsertAt(l, k, h)
  BY <1>0, <1>2, <1>3, <1>4, <1>5
<1> DEFINE m == InsertHandler(l, h)
<1> HIDE DEF m
<1>7. /\ m \in Seq(Handler) /\ Len(m) = Len(l) + 1
      /\ \A i \in 1..Len(l) + 1 : m[i] = IF i < k THEN l[i] ELSE IF i = k THEN h ELSE l[i - 1]
  <2> DEFINE n == InsertAt(l, k, h)
  <2>1. /\ n \in Seq(Handler) /\ Len(n) = Len(l) + 1
        /\ \A i \in 1..Len(l) + 1 : n[i] = IF i < k THEN l[i] ELSE IF i = k THEN h ELSE l[i - 1]
    BY <1>2, InsertAtElements
  <2>2. m = n
    BY <1>6 DEF m
  <2> QED
    BY <2>1, <2>2
<1>8. \A j \in 1..Len(l) : m[IF j < k THEN j ELSE j + 1] = l[j]
  BY <1>0, <1>2, <1>7
<1>9. \A i \in 1..Len(l) + 1 : i > k => i - 1 \in 1..Len(l) /\ ~(i - 1 < k)
  BY <1>0, <1>2
<1>10. InOrder(m)
  <2> SUFFICES ASSUME NEW i \in 1..Len(l) + 1, NEW j \in 1..Len(l) + 1, i < j
               PROVE  Priority(m[i]) <= Priority(m[j])
    BY <1>7 DEF InOrder
  <2>1. CASE j < k
    <3>1. i \in 1..Len(l) /\ j \in 1..Len(l) /\ m[i] = l[i] /\ m[j] = l[j]
      BY <1>0, <1>2, <1>7, <2>1
    <3> QED
      BY <3>1 DEF InOrder
  <2>2. CASE j = k
    <3>1. i \in 1..Len(l) /\ m[i] = l[i] /\ m[j] = h
      BY <1>0, <1>2, <1>7, <2>2
    <3> QED
      BY <1>2, <2>2, <3>1
  <2>3. CASE j > k /\ i < k
    <3>1. i \in 1..Len(l) /\ m[i] = l[i] /\ m[j] = l[j - 1] /\ j - 1 \in 1..Len(l) /\ ~(j - 1 < k)
      BY <1>0, <1>2, <1>7, <1>9, <2>3
    <3>2. Priority(l[i]) <= Priority(h) /\ ~(Priority(l[j - 1]) <= Priority(h))
      BY <1>2, <2>3, <3>1
    <3>3. {Priority(l[i]), Priority(l[j - 1]), Priority(h)} \subseteq {0, 1}
      BY <1>0, <3>1
    <3> QED
      BY <3>1, <3>2, <3>3
  <2>4. CASE j > k /\ i = k
    <3>1. m[i] = h /\ m[j] = l[j - 1] /\ j - 1 \in 1..Len(l) /\ ~(j - 1 < k)
      BY <1>0, <1>2, <1>7, <1>9, <2>4
    <3>2. ~(Priority(l[j - 1]) <= Priority(h))
      BY <1>2, <3>1
    <3>3. {Priority(l[j - 1]), Priority(h)} \subseteq {0, 1}
      BY <1>0, <3>1
    <3> QED
      BY <3>1, <3>2, <3>3
  <2>5. CASE j > k /\ i > k
    <3>1. i - 1 \in 1..Len(l) /\ j - 1 \in 1..Len(l) /\ i - 1 < j - 1
      BY <1>9, <2>5
    <3> QED
      BY <1>0, <1>2, <1>7, <2>5, <3>1 DEF InOrder
  <2> QED
    BY <1>0, <1>2, <2>1, <2>2, <2>3, <2>4, <2>5
<1> QED
  BY <1>2, <1>7, <1>8, <1>10 DEF m

\* So does taking one out, in a list of its own.
LEMMA Removed ==
  ASSUME NEW l \in Seq(Handler), InOrder(l), NEW k \in 1..Len(l)
  PROVE  RemoveAt(l, k) \in Seq(Handler) /\ InOrder(RemoveAt(l, k))
<1> DEFINE m == RemoveAt(l, k)
<1>1. /\ m \in Seq(Handler) /\ Len(m) = Len(l) - 1 /\ Len(l) \in Nat
      /\ \A i \in 1..Len(l) - 1 : m[i] = IF i < k THEN l[i] ELSE l[i + 1]
  BY RemoveAtElements
<1> HIDE DEF m
<1>2. \A i, j \in 1..Len(l) - 1 : i < j => Priority(m[i]) <= Priority(m[j])
  <2> SUFFICES ASSUME NEW i \in 1..Len(l) - 1, NEW j \in 1..Len(l) - 1, i < j
               PROVE  Priority(m[i]) <= Priority(m[j])
    OBVIOUS
  <2> DEFINE p == IF i < k THEN i ELSE i + 1
             q == IF j < k THEN j ELSE j + 1
  <2>1. p \in 1..Len(l) /\ q \in 1..Len(l) /\ p < q
    BY <1>1
  <2>2. m[i] = l[p] /\ m[j] = l[q]
    BY <1>1
  <2> QED
    BY <2>1, <2>2 DEF InOrder
<1> QED
  BY <1>1, <1>2 DEF InOrder, m

LEMMA InitHInv == Init => HInv
<1> SUFFICES ASSUME Init PROVE HInv
  OBVIOUS
<1>1. PICK hs \in SUBSET Handler : \E l \in SetToSeqs(hs) : InOrder(l) /\ lists = <<l>>
  BY DEF Init
<1>2. PICK l \in SetToSeqs(hs) : InOrder(l) /\ lists = <<l>>
  BY <1>1
<1>3. l \in Seq(Handler)
  <2>1. Cardinality(hs) \in Nat
    BY ExecutionAssumption, FS_Subset, FS_CardinalityType
  <2>2. l \in [1..Cardinality(hs) -> hs]
    BY DEF SetToSeqs
  <2> QED
    BY <2>1, <2>2, LenProperties, SeqDef
<1> QED
  BY <1>2, <1>3
     DEF Init, HInv, HookTypes, Phases, AllInOrder, AskedOrAhead, Ahead, NoHandlerSkipped, ToSet

\* Steps that leave the handlers and the chains alone.
LEMMA ChainsAlone ==
  ASSUME HInv, UNCHANGED <<lists, chain, at, asked, steady>>, NEW c \in Call, NEW p \in Phases, To(c, p),
         p = "hooks" => phase[c] = "hooks",
         p \in {"repermit", "executing"} => phase[c] \in {"repermit", "executing"}
  PROVE  HInv'
BY DEF HInv, HookTypes, AllInOrder, AskedOrAhead, Ahead, NoHandlerSkipped, To

\* The chain begins with the handlers there are.
LEMMA ChainBegins ==
  ASSUME HInv, NEW c \in Call, Permit(c)
  PROVE  HInv'
<1> USE DEF HInv
<1>1. CASE To(c, "answered") /\ UNCHANGED chainVars
  BY <1>1, ChainsAlone DEF Permit, Phases, hookVars, chainVars
<1>2. CASE /\ chain' = [chain EXCEPT ![c] = Len(lists)]
           /\ steady' = [steady EXCEPT ![c] = ToSet(Current)]
           /\ Current = <<>> /\ Conclude(c, input[c], input[c]) /\ UNCHANGED <<at, asked>>
  <2>1. lists' = lists /\ Len(lists) \in Nat /\ ToSet(Current) = {}
    BY <1>2 DEF Permit, hookVars, HookTypes, ToSet
  <2>2. HookTypes'
    BY <1>2, <2>1 DEF HookTypes, Conclude, To, Phases
  <2>3. AllInOrder' /\ AskedOrAhead' /\ NoHandlerSkipped'
    BY <1>2, <2>1 DEF HookTypes, AllInOrder, AskedOrAhead, Ahead, NoHandlerSkipped, Conclude, To, Phases
  <2> QED
    BY <2>2, <2>3
<1>3. CASE /\ chain' = [chain EXCEPT ![c] = Len(lists)]
           /\ steady' = [steady EXCEPT ![c] = ToSet(Current)]
           /\ Current # <<>> /\ To(c, "hooks")
           /\ at' = [at EXCEPT ![c] = 1]
           /\ asked' = [asked EXCEPT ![c] = <<Head(Current)>>]
  <2>1. /\ lists' = lists /\ Len(lists) \in DOMAIN lists /\ Current = lists[Len(lists)]
        /\ Current \in Seq(Handler) /\ InOrder(Current)
    BY DEF Permit, hookVars, HookTypes, AllInOrder, Current, Last
  <2>2. HookTypes'
    BY <1>3, <2>1 DEF HookTypes, To, Phases, ToSet
  <2>3. AllInOrder'
    BY <2>1 DEF AllInOrder
  <2>4. AskedOrAhead'
    <3>1. 1 \in DOMAIN Current /\ Len(Current) \in Nat /\ ToSet(asked'[c]) = {Current[1]}
      BY <1>3, <2>1 DEF HookTypes, ToSet
    <3>2. \A h \in ToSet(Current) :
            h = Current[1] \/ \E j \in 1 + 1..Len(Current) : Current[j] = h
      BY <2>1, <3>1 DEF ToSet
    <3>3. chain'[c] = Len(lists) /\ at'[c] = 1 /\ steady'[c] = ToSet(Current)
      BY <1>3 DEF HookTypes
    <3>4. \A d \in Call \ {c} : /\ chain'[d] = chain[d] /\ at'[d] = at[d] /\ steady'[d] = steady[d]
                               /\ asked'[d] = asked[d] /\ phase'[d] = phase[d]
      BY <1>3 DEF HookTypes, To
    <3>5. Ahead(c)'
      <4>1. lists'[chain'[c]] = Current
        BY <2>1, <3>3
      <4>2. Ahead(c)' <=> /\ chain'[c] \in DOMAIN lists' /\ at'[c] \in DOMAIN Current
                          /\ \A g \in steady'[c] : g \in ToSet(asked'[c])
                               \/ \E j \in at'[c] + 1..Len(Current) : Current[j] = g
        BY <4>1 DEF Ahead
      <4> QED
        BY <2>1, <3>1, <3>2, <3>3, <4>2
    <3>6. ASSUME NEW d \in Call \ {c}, phase'[d] = "hooks"
          PROVE  Ahead(d)'
      <4>1. Ahead(d)
        BY <3>4, <3>6 DEF AskedOrAhead
      <4> QED
        BY <2>1, <3>4, <4>1 DEF Ahead
    <3> QED
      BY <3>5, <3>6 DEF AskedOrAhead
  <2>5. \A h \in ToSet(Current) : ~(Priority(h) < Priority(Head(Current)))
    BY <1>3, <2>1 DEF InOrder, ToSet, Priority
  <2>6. NoHandlerSkipped'
    BY <1>3, <2>1, <2>5 DEF HookTypes, NoHandlerSkipped, To
  <2> QED
    BY <2>2, <2>3, <2>4, <2>6
<1> QED
  BY <1>1, <1>2, <1>3 DEF Permit

\* The next handler is asked, or the end of the list is reached.
LEMMA ChainGoesOn ==
  ASSUME HInv, NEW c \in Call, Ask(c)
  PROVE  HInv'
<1> USE DEF HInv
<1> DEFINE l == lists[chain[c]]
<1>0. /\ phase[c] = "hooks" /\ UNCHANGED <<lists, chain, steady>>
      /\ chain[c] \in DOMAIN lists /\ l \in Seq(Handler) /\ at[c] \in DOMAIN l /\ InOrder(l)
      /\ \A h \in steady[c] : h \in ToSet(asked[c]) \/ \E j \in at[c] + 1..Len(l) : l[j] = h
  BY DEF Ask, hookVars, HookTypes, AllInOrder, AskedOrAhead, Ahead
<1>1. CASE To(c, "answered") /\ UNCHANGED <<at, asked>>
  BY <1>0, <1>1 DEF HookTypes, AllInOrder, AskedOrAhead, Ahead, NoHandlerSkipped, To, Phases
<1>2. CASE /\ at[c] < Len(l) /\ at' = [at EXCEPT ![c] = @ + 1] /\ phase' = phase
           /\ asked' = [asked EXCEPT ![c] = Append(@, l[at[c] + 1])]
  <2>1. /\ asked[c] \in Seq(Handler) /\ l[at[c] + 1] \in Handler
        /\ asked'[c] = Append(asked[c], l[at[c] + 1])
        /\ ToSet(asked'[c]) = ToSet(asked[c]) \cup {l[at[c] + 1]}
    <3>1. asked[c] \in Seq(Handler) /\ l[at[c] + 1] \in Handler
      BY <1>0, <1>2 DEF HookTypes
    <3>2. asked'[c] = Append(asked[c], l[at[c] + 1])
      BY <1>2 DEF HookTypes
    <3>3. ToSet(Append(asked[c], l[at[c] + 1])) = ToSet(asked[c]) \cup {l[at[c] + 1]}
      BY <3>1, AppendProperties DEF ToSet
    <3> QED
      BY <3>1, <3>2, <3>3
  <2>2. HookTypes' /\ AllInOrder'
    BY <1>0, <1>2, <2>1 DEF HookTypes, AllInOrder
  <2>3. AskedOrAhead'
    BY <1>0, <1>2, <2>1, SMTT(20) DEF HookTypes, AskedOrAhead, Ahead
  <2>4. \A h \in steady[c] : Priority(h) < Priority(l[at[c] + 1]) => h \in ToSet(asked[c])
    BY <1>0, <1>2 DEF InOrder, Priority
  <2>5. \A i \in DOMAIN asked'[c], h \in steady[c] :
           Priority(h) < Priority(asked'[c][i]) => \E j \in 1..i : asked'[c][j] = h
    <3> TAKE i \in DOMAIN asked'[c], h \in steady[c]
    <3>1. CASE i \in DOMAIN asked[c]
      BY <2>1, <3>1 DEF NoHandlerSkipped
    <3>2. CASE i = Len(asked[c]) + 1
      BY <2>1, <2>4, <3>2 DEF ToSet
    <3> QED
      BY <2>1, <3>1, <3>2
  <2>6. NoHandlerSkipped'
    <3>1. \A d \in Call \ {c} : asked'[d] = asked[d]
      BY <1>2 DEF HookTypes
    <3> QED
      BY <1>0, <1>2, <2>5, <3>1 DEF NoHandlerSkipped
  <2> QED
    BY <2>2, <2>3, <2>6
<1>3. ASSUME NEW held, NEW w \in Input, ~(at[c] < Len(l)), Conclude(c, held, w),
             UNCHANGED <<at, asked>>
      PROVE  HInv'
  <2>1. \A h \in steady[c] : h \in ToSet(asked[c])
    BY <1>0, <1>3
  <2>2. HookTypes' /\ AllInOrder' /\ AskedOrAhead'
    BY <1>0, <1>3 DEF HookTypes, AllInOrder, AskedOrAhead, Ahead, Conclude, To, Phases
  <2>3. NoHandlerSkipped'
    BY <1>0, <1>3, <2>1 DEF HookTypes, NoHandlerSkipped, Conclude, To
  <2> QED
    BY <2>2, <2>3
<1> QED
  BY <1>1, <1>2, <1>3 DEF Ask

\* A handler is inserted under the feet of the chains that go over the list.
LEMMA HandlerInserted ==
  ASSUME HInv, NEW h \in Handler, Register(h)
  PROVE  HInv'
<1> USE DEF HInv
<1> DEFINE n == Len(lists)
<1>1. /\ n \in DOMAIN lists /\ lists[n] \in Seq(Handler) /\ InOrder(lists[n])
      /\ UNCHANGED <<phase, chain, at, asked, steady>>
      /\ lists' = [lists EXCEPT ![n] = InsertHandler(lists[n], h)]
  BY DEF Register, HookTypes, AllInOrder, chainVars
<1>2. PICK k \in 1..Len(lists[n]) + 1 :
        \A j \in 1..Len(lists[n]) : lists'[n][IF j < k THEN j ELSE j + 1] = lists[n][j]
  <2>1. lists'[n] = InsertHandler(lists[n], h)
    BY <1>1 DEF HookTypes
  <2> QED
    BY <1>1, <2>1, Inserted
<1>3. /\ lists' \in Seq(Seq(Handler)) /\ DOMAIN lists' = DOMAIN lists /\ lists' # <<>>
      /\ lists'[n] \in Seq(Handler) /\ Len(lists'[n]) = Len(lists[n]) + 1 /\ InOrder(lists'[n])
      /\ \A i \in DOMAIN lists \ {n} : lists'[i] = lists[i]
  <2> DEFINE m == InsertHandler(lists[n], h)
  <2>1. m \in Seq(Handler) /\ Len(m) = Len(lists[n]) + 1 /\ InOrder(m)
    BY <1>1, Inserted
  <2>2. lists \in Seq(Seq(Handler)) /\ lists' = [lists EXCEPT ![n] = m]
    BY <1>1 DEF HookTypes
  <2> HIDE DEF m
  <2> QED
    BY <1>1, <2>1, <2>2, ExceptSeq
<1>4. HookTypes' /\ AllInOrder' /\ NoHandlerSkipped'
  BY <1>1, <1>3 DEF HookTypes, AllInOrder, NoHandlerSkipped
<1>5. ASSUME NEW c \in Call, phase[c] = "hooks", chain[c] = n, NEW g \in steady[c],
             NEW j \in at[c] + 1..Len(lists[n]), lists[n][j] = g
      PROVE  \E i \in at[c] + 1..Len(lists'[n]) : lists'[n][i] = g
  <2>1. at[c] \in Nat /\ j \in 1..Len(lists[n])
    BY <1>1, <1>5 DEF HookTypes
  <2>2. (IF j < k THEN j ELSE j + 1) \in at[c] + 1..Len(lists'[n])
    BY <1>3, <2>1
  <2> QED
    BY <1>2, <1>5, <2>1, <2>2
<1>6. AskedOrAhead'
  <2> SUFFICES ASSUME NEW c \in Call, phase[c] = "hooks"
               PROVE  Ahead(c)'
    BY <1>1 DEF AskedOrAhead
  <2>0. Ahead(c)
    BY DEF AskedOrAhead
  <2>1. CASE chain[c] # n
    <3>1. lists'[chain[c]] = lists[chain[c]]
      BY <1>3, <2>0, <2>1 DEF Ahead
    <3> QED
      BY <1>1, <1>3, <2>0, <3>1 DEF Ahead
  <2>2. CASE chain[c] = n
    <3>1. at[c] \in DOMAIN lists'[n]
      BY <1>1, <1>3, <2>0, <2>2 DEF Ahead
    <3>2. ASSUME NEW g \in steady[c]
          PROVE  g \in ToSet(asked[c]) \/ \E j \in at[c] + 1..Len(lists'[n]) : lists'[n][j] = g
      <4>1. CASE g \in ToSet(asked[c])
        BY <4>1
      <4>2. ASSUME NEW j \in at[c] + 1..Len(lists[n]), lists[n][j] = g
            PROVE  \E i \in at[c] + 1..Len(lists'[n]) : lists'[n][i] = g
        BY <1>5, <2>2, <4>2
      <4> QED
        BY <2>0, <2>2, <4>1, <4>2 DEF Ahead
    <3> QED
      BY <1>1, <1>3, <2>2, <3>1, <3>2 DEF Ahead
  <2> QED
    BY <2>1, <2>2
<1> QED
  BY <1>4, <1>6

\* A handler is taken out: chains keep the list they go over.
LEMMA HandlerRemoved ==
  ASSUME HInv, NEW h \in Handler, Unregister(h)
  PROVE  HInv'
<1> USE DEF HInv
<1> DEFINE place == CHOOSE i \in DOMAIN Current : Current[i] = h
           shorter == RemoveAt(Current, place)
<1>1. Current \in Seq(Handler) /\ InOrder(Current)
  BY DEF HookTypes, AllInOrder, Current, Last
<1>2. place \in 1..Len(Current)
  BY <1>1 DEF Unregister, ToSet
<1>3. shorter \in Seq(Handler) /\ InOrder(shorter)
  BY <1>1, <1>2, Removed
<1>4. /\ lists' = Append(lists, shorter) /\ UNCHANGED <<phase, chain, at, asked>>
      /\ steady' = [c \in Call |-> steady[c] \ {h}]
  BY DEF Unregister, Without
<1> HIDE DEF shorter
<1>5. /\ lists' \in Seq(Seq(Handler)) /\ lists' # <<>>
      /\ \A i \in DOMAIN lists : i \in DOMAIN lists' /\ lists'[i] = lists[i]
      /\ \A i \in DOMAIN lists' : i \in DOMAIN lists \/ lists'[i] = shorter
  BY <1>3, <1>4 DEF HookTypes
<1>6. HookTypes' /\ AllInOrder'
  BY <1>3, <1>4, <1>5 DEF HookTypes, AllInOrder
<1>7. AskedOrAhead'
  BY <1>4, <1>5 DEF HookTypes, AskedOrAhead, Ahead
<1>8. NoHandlerSkipped'
  BY <1>4 DEF HookTypes, NoHandlerSkipped
<1> QED
  BY <1>6, <1>7, <1>8

LEMMA StepHInv == HInv /\ [Next]_vars => HInv'
<1> SUFFICES ASSUME HInv, [Next]_vars
             PROVE  HInv'
  OBVIOUS
<1>1. ASSUME NEW c \in Call, Start(c) \/ Repermit(c) \/ Execute(c)
      PROVE  HInv'
  BY <1>1, ChainsAlone DEF Start, Repermit, Execute, Phases, hookVars, chainVars
<1>2. ASSUME NEW c \in Call, Step(c)
      PROVE  HInv'
  BY <1>1, <1>2, ChainBegins, ChainGoesOn DEF Step
<1>3. CASE UNCHANGED vars
  BY <1>3 DEF vars, HInv, HookTypes, AllInOrder, AskedOrAhead, Ahead, NoHandlerSkipped
<1> QED
  BY <1>2, <1>3, HandlerInserted, HandlerRemoved DEF Next

\* With any handlers, registered and unregistered at any time, no handler that is there
\* from the beginning of a chain is stepped over or overtaken by one that comes later in
\* priority (hooks.py 143-156, 196-216).
THEOREM NobodySkipped == Spec => []NoHandlerSkipped
<1>1. HInv => NoHandlerSkipped
  BY DEF HInv
<1> QED
  BY <1>1, InitHInv, StepHInv, PTL DEF Spec
=============================================================================
