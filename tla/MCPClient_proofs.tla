---------------------------- MODULE MCPClient_proofs ----------------------------
(***************************************************************************)
(* The calls of one MCP connection, for any callers and any number of        *)
(* requests, notifications and broken lines.                                *)
(***************************************************************************)
EXTENDS MCPClient, SequenceTheorems, WellFoundedInduction, TLAPS

-----------------------------------------------------------------------------
(* Lists: what is left of the stream when its front is taken off.          *)

\* A set of positions has a first one.
LEMMA FirstPosition ==
  ASSUME NEW T \in SUBSET Nat, T # {}
  PROVE  \E k \in T : \A j \in T : k <= j
<1>1. PICK k \in T : \A j \in T : ~ (<<j, k>> \in OpToRel(<, Nat))
  BY WFMin, NatLessThanWellFounded
<1>2. \A j \in T : ~(j < k)
  BY <1>1 DEF OpToRel
<1> QED
  BY <1>2

\* What is left of a sequence when k of its elements are taken off the front.
LEMMA Rest ==
  ASSUME NEW S, NEW s \in Seq(S), NEW k \in 0..Len(s)
  PROVE  LET r == SubSeq(s, k + 1, Len(s)) IN
         /\ r \in Seq(S) /\ DOMAIN r = 1..Len(s) - k
         /\ \A i \in 1..Len(s) - k : r[i] = s[k + i]
         /\ ToSet(r) = {s[i] : i \in k + 1..Len(s)}
<1> DEFINE r == SubSeq(s, k + 1, Len(s))
<1>0. Len(s) \in Nat /\ k \in Nat
  BY LenProperties
<1>1. \A i \in k + 1..Len(s) : s[i] \in S
  BY <1>0, ElementOfSeq
<1>2. /\ r \in Seq(S) /\ Len(r) = IF k + 1 <= Len(s) THEN Len(s) - (k + 1) + 1 ELSE 0
      /\ \A i \in 1..Len(s) - (k + 1) + 1 : r[i] = s[k + 1 + i - 1]
  BY <1>0, <1>1, SubSeqProperties
<1> HIDE DEF r
<1>3. DOMAIN r = 1..Len(s) - k /\ \A i \in 1..Len(s) - k : r[i] = s[k + i]
  BY <1>0, <1>2, LenProperties
<1>4. \A i \in k + 1..Len(s) : i - k \in 1..Len(s) - k /\ r[i - k] = s[i]
  BY <1>0, <1>3
<1>5. \A i \in 1..Len(s) - k : k + i \in k + 1..Len(s)
  BY <1>0
<1>6. ToSet(r) = {s[i] : i \in k + 1..Len(s)}
  <2>1. ASSUME NEW x \in ToSet(r)
        PROVE  \E i \in k + 1..Len(s) : s[i] = x
    <3>1. PICK i \in 1..Len(s) - k : r[i] = x
      BY <1>3 DEF ToSet
    <3> QED
      BY <1>3, <1>5, <3>1
  <2>2. ASSUME NEW i \in k + 1..Len(s)
        PROVE  s[i] \in ToSet(r)
    BY <1>3, <1>4 DEF ToSet
  <2> QED
    BY <2>1, <2>2
<1> QED
  BY <1>2, <1>3, <1>6 DEF r

-----------------------------------------------------------------------------
CallStates == {"idle", "draining", "parked", "woken"}

Line(n) == {Notification, Broken} \cup 1..n - 1

Types ==
  /\ nextId \in Nat \ {0}
  /\ stdout \in Seq(Line(nextId))
  /\ pending \subseteq 1..nextId - 1 /\ taken \subseteq 1..nextId - 1
  /\ asked \subseteq 1..nextId - 1 /\ answered \subseteq 1..nextId - 1
  /\ call \in [Caller -> CallStates]
  /\ reqId \in [Caller -> 0..nextId - 1] /\ got \in [Caller -> Int]
  /\ \A c \in Caller : Open(c) => reqId[c] > 0

\* The reader wakes only somebody who waits.
WaiterWaits == waiter # None => waiter \in Caller /\ call[waiter] = "parked"

\* A request is answered once.
AnsweredOnce == asked \cap answered = {}

\* What "overlapped" means.
AloneUnlessOverlapped == ~overlapped => \A c, d \in Caller : Open(c) /\ Open(d) => c = d

\* AnswersAccounted, part by part.
NoDoubles == \A i, j \in DOMAIN stdout : i # j /\ stdout[i] > 0 => stdout[i] # stdout[j]

Places ==
  /\ answered = (ToSet(stdout) \ {Notification, Broken}) \cup pending \cup taken
  /\ ToSet(stdout) \cap pending = {} /\ ToSet(stdout) \cap taken = {} /\ pending \cap taken = {}

NotWaitedFor == ~overlapped => \A c \in Caller : Open(c) => reqId[c] \notin pending

IInv ==
  /\ Types /\ WaiterWaits /\ AnsweredOnce /\ AloneUnlessOverlapped
  /\ NoDoubles /\ Places /\ NotWaitedFor /\ OwnAnswer

-----------------------------------------------------------------------------
(* The loop over the stream.                                               *)

\* Where the loop of a caller stops: at the first line that is its answer or broken.
LEMMA Stops ==
  ASSUME Types, NEW id
  PROVE  /\ StopAt(id) \in 0..Len(stdout)
         /\ StopAt(id) > 0 => stdout[StopAt(id)] \in {id, Broken}
         /\ \A i \in 1..(IF StopAt(id) = 0 THEN Len(stdout) ELSE StopAt(id) - 1) :
              stdout[i] \notin {id, Broken}
<1> DEFINE I == {i \in 1..Len(stdout) : stdout[i] \in {id, Broken}}
<1>0. Len(stdout) \in Nat
  BY DEF Types
<1>1. StopAt(id) = IF I = {} THEN 0 ELSE Min(I)
  BY DEF StopAt, SelectInSeq
<1>2. CASE I = {}
  BY <1>0, <1>1, <1>2
<1>3. CASE I # {}
  <2>1. I \in SUBSET Nat
    BY <1>0
  <2>2. PICK k \in I : \A j \in I : k <= j
    BY <1>3, <2>1, FirstPosition
  <2>3. Min(I) \in I /\ \A j \in I : Min(I) <= j
    BY <2>2 DEF Min
  <2> DEFINE at == StopAt(id)
  <2>4. at = Min(I)
    BY <1>1, <1>3
  <2> HIDE DEF at
  <2>5. at \in 1..Len(stdout) /\ stdout[at] \in {id, Broken} /\ \A j \in I : at <= j
    BY <2>3, <2>4
  <2>6. \A i \in 1..at - 1 : stdout[i] \notin {id, Broken}
    BY <1>0, <2>5
  <2> QED
    BY <1>0, <2>5, <2>6 DEF at
<1> QED
  BY <1>2, <1>3

-----------------------------------------------------------------------------
(* The steps.                                                              *)

LEMMA InitIInv == Init => IInv
<1> SUFFICES ASSUME Init PROVE IInv
  OBVIOUS
<1>1. Types /\ WaiterWaits /\ AloneUnlessOverlapped
  BY DEF Init, Types, CallStates, WaiterWaits, AloneUnlessOverlapped, Open
<1>2. AnsweredOnce /\ NoDoubles /\ Places /\ NotWaitedFor /\ OwnAnswer
  BY DEF Init, AnsweredOnce, NoDoubles, Places, NotWaitedFor, OwnAnswer, ToSet, Open
<1> QED
  BY <1>1, <1>2 DEF IInv

\* A call may begin or go on with the request id: it is open then, and unless calls have
\* overlapped it is alone and its answer not in the buffer.
MayRead(c, id) ==
  /\ id \in 1..nextId' - 1 /\ nextId' \in {nextId, nextId + 1}
  /\ reqId' = [reqId EXCEPT ![c] = id]
  /\ UNCHANGED answered
  /\ asked' \subseteq 1..nextId' - 1 /\ asked' \cap answered = {}
  /\ overlapped => overlapped'
  /\ ~overlapped' => id \notin pending /\ \A d \in Caller \ {c} : ~Open(d)

\* The ids that are taken stay taken.
LEMMA Numbers ==
  ASSUME IInv, NEW c \in Caller, NEW id, MayRead(c, id)
  PROVE  /\ id \in Nat \ {0} /\ nextId - 1 \in Nat /\ nextId' - 1 \in Nat /\ nextId' \in Nat \ {0}
         /\ 1..nextId - 1 \subseteq 1..nextId' - 1 /\ Line(nextId) \subseteq Line(nextId')
         /\ Seq(Line(nextId)) \subseteq Seq(Line(nextId'))
         /\ reqId' \in [Caller -> 0..nextId' - 1] /\ reqId'[c] > 0
         /\ \A d \in Caller : Open(d) => reqId'[d] > 0
<1>1. /\ nextId \in Nat \ {0} /\ nextId' \in {nextId, nextId + 1} /\ id \in 1..nextId' - 1
      /\ reqId \in [Caller -> 0..nextId - 1] /\ reqId' = [reqId EXCEPT ![c] = id]
      /\ \A d \in Caller : Open(d) => reqId[d] > 0
  BY DEF IInv, Types, MayRead
<1>2. /\ id \in Nat \ {0} /\ nextId - 1 \in Nat /\ nextId' - 1 \in Nat /\ nextId' \in Nat \ {0}
      /\ 1..nextId - 1 \subseteq 1..nextId' - 1 /\ 0..nextId - 1 \subseteq 0..nextId' - 1
      /\ id \in 0..nextId' - 1
  <2>1. CASE nextId' = nextId
    BY <1>1, <2>1
  <2>2. CASE nextId' = nextId + 1
    BY <1>1, <2>2
  <2> QED
    BY <1>1, <2>1, <2>2
<1>3. Line(nextId) \subseteq Line(nextId')
  BY <1>2 DEF Line
<1>4. reqId' \in [Caller -> 0..nextId' - 1] /\ reqId'[c] > 0
  <2> DEFINE S == 0..nextId' - 1
             R == 0..nextId - 1
  <2>0. reqId \in [Caller -> R] /\ id \in S
    BY <1>1, <1>2
  <2>1. R \subseteq S /\ id \in S /\ reqId \in [Caller -> R] /\ id > 0
    <3>1. R \subseteq S
      BY <1>2
    <3>2. id > 0
      BY <1>2
    <3> HIDE DEF S, R
    <3> QED
      BY <2>0, <3>1, <3>2
  <2> HIDE DEF S, R
  <2>2. reqId' \in [Caller -> S] /\ reqId'[c] = id
    BY <1>1, <2>1
  <2> QED
    BY <2>1, <2>2 DEF S
<1>5. \A d \in Caller : Open(d) => reqId'[d] > 0
  BY <1>1, <1>2
<1>6. Seq(Line(nextId)) \subseteq Seq(Line(nextId'))
  BY <1>3
<1> QED
  BY <1>2, <1>3, <1>4, <1>5, <1>6

\* The loop reads up to its answer or a broken line.
LEMMA Receives ==
  ASSUME IInv, NEW c \in Caller, NEW id, NEW w \in {None, waiter}, MayRead(c, id),
         call[c] # "parked", StopAt(id) > 0, Buffer(StopAt(id) - 1),
         stdout' = SubSeq(stdout, StopAt(id) + 1, Len(stdout)),
         End(c, stdout[StopAt(id)]), waiter' = w
  PROVE  IInv'
<1> USE DEF IInv
<1> DEFINE k == StopAt(id)
           read == {stdout[i] : i \in 1..k - 1}
<1>1. /\ k \in 1..Len(stdout) /\ stdout[k] \in {id, Broken}
      /\ \A i \in 1..k - 1 : stdout[i] \notin {id, Broken}
  BY Stops
<1>2. /\ pending' = pending \cup (read \ {Notification})
      /\ stdout' = SubSeq(stdout, k + 1, Len(stdout)) /\ End(c, stdout[k])
      /\ answered' = answered
  BY DEF Buffer, MayRead
<1> HIDE DEF k
<1>3. /\ stdout' \in Seq(Line(nextId)) /\ DOMAIN stdout' = 1..Len(stdout) - k
      /\ \A i \in 1..Len(stdout) - k : stdout'[i] = stdout[k + i]
      /\ ToSet(stdout') = {stdout[i] : i \in k + 1..Len(stdout)}
  <2>1. k \in 0..Len(stdout) /\ stdout \in Seq(Line(nextId))
    BY <1>1 DEF Types
  <2> QED
    BY <1>2, <2>1, Rest
<1>4. DOMAIN stdout = 1..Len(stdout) /\ Len(stdout) \in Nat /\ k \in Nat
  BY <1>1 DEF Types
<1>5. /\ ToSet(stdout) = read \cup {stdout[k]} \cup ToSet(stdout')
      /\ read \subseteq ToSet(stdout)
  <2>1. ToSet(stdout) = {stdout[i] : i \in 1..Len(stdout)}
    BY <1>4 DEF ToSet
  <2>2. 1..Len(stdout) = 1..k - 1 \cup {k} \cup k + 1..Len(stdout)
    BY <1>1, <1>4
  <2> QED
    BY <1>3, <2>1, <2>2
<1>6. ToSet(stdout) \subseteq Line(nextId) /\ stdout[k] \in Line(nextId)
  BY <1>1, <1>4 DEF Types, ToSet
<1>7. /\ id \in Nat \ {0} /\ nextId - 1 \in Nat /\ nextId' - 1 \in Nat /\ 1..nextId - 1 \subseteq 1..nextId' - 1
      /\ stdout[k] # Broken => id \in 1..nextId - 1
      /\ Line(nextId) \subseteq Line(nextId') /\ nextId' \in Nat \ {0}
  <2>1. stdout[k] = id => id \in 1..nextId - 1
    BY <1>6, Numbers DEF Line, Notification, Broken
  <2> QED
    BY <1>1, <2>1, Numbers
<1>8. read \ {Notification} \subseteq 1..nextId - 1 /\ Broken \notin read /\ id \notin read
  BY <1>1, <1>5, <1>6 DEF Line
<1>9. /\ got' = [got EXCEPT ![c] = stdout[k]] /\ call' = [call EXCEPT ![c] = "idle"]
      /\ taken' = taken \cup ({stdout[k]} \ {Broken})
  BY <1>2 DEF End, Raised, Broken
<1>10. Types'
  <2>1. stdout[k] \in Int /\ {stdout[k]} \ {Broken} \subseteq 1..nextId - 1
    BY <1>1, <1>7 DEF Types, Broken
  <2>2. stdout' \in Seq(Line(nextId'))
    BY <1>3, Numbers
  <2>3. pending' \subseteq 1..nextId' - 1 /\ taken' \subseteq 1..nextId' - 1
    BY <1>2, <1>7, <1>8, <1>9, <2>1 DEF Types
  <2>4. reqId' \in [Caller -> 0..nextId' - 1] /\ \A d \in Caller : Open(d)' => reqId'[d] > 0
    BY <1>9, Numbers DEF Types, Open
  <2>5. call' \in [Caller -> CallStates] /\ got' \in [Caller -> Int]
    BY <1>9, <2>1 DEF Types, CallStates
  <2> QED
    BY <1>7, <2>2, <2>3, <2>4, <2>5 DEF Types, MayRead
<1>11. WaiterWaits' /\ AloneUnlessOverlapped' /\ AnsweredOnce'
  BY <1>9 DEF Types, WaiterWaits, AloneUnlessOverlapped, AnsweredOnce, Open, MayRead
<1>12. NoDoubles'
  <2>1. ASSUME NEW i \in 1..Len(stdout) - k, NEW j \in 1..Len(stdout) - k, i # j, stdout'[i] > 0
        PROVE  stdout'[i] # stdout'[j]
    <3>1. k + i \in DOMAIN stdout /\ k + j \in DOMAIN stdout /\ k + i # k + j
      BY <1>4, <2>1
    <3>2. stdout'[i] = stdout[k + i] /\ stdout'[j] = stdout[k + j]
      BY <1>3
    <3> QED
      BY <2>1, <3>1, <3>2 DEF NoDoubles
  <2> QED
    BY <1>3, <2>1 DEF NoDoubles
<1>13. Places'
  <2>1. read \cap ToSet(stdout') \subseteq {Notification}
    <3>1. \A i \in 1..k - 1, j \in k + 1..Len(stdout) :
             stdout[i] > 0 => stdout[i] # stdout[j]
      BY <1>1, <1>4 DEF NoDoubles
    <3>2. \A i \in 1..k - 1 : stdout[i] = Notification \/ stdout[i] > 0
      <4>1. \A i \in 1..k - 1 : stdout[i] \in read
        OBVIOUS
      <4> HIDE DEF read
      <4> QED
        BY <1>7, <1>8, <4>1 DEF Notification
    <3> QED
      BY <1>3, <3>1, <3>2
  <2>2. stdout[k] # Broken => stdout[k] \notin ToSet(stdout') /\ stdout[k] \notin read
    <3>1. \A j \in k + 1..Len(stdout) : stdout[k] > 0 => stdout[k] # stdout[j]
      BY <1>1, <1>4 DEF NoDoubles
    <3>2. stdout[k] # Broken => stdout[k] = id /\ stdout[k] > 0
      BY <1>1, <1>7
    <3> QED
      BY <1>3, <1>8, <3>1, <3>2
  <2>3. stdout[k] # Notification
    BY <1>1, <1>7 DEF Notification, Broken
  <2>4. Notification \notin pending /\ Notification \notin taken
    BY DEF Types, Notification
  <2> QED
    BY <1>2, <1>5, <1>8, <1>9, <2>1, <2>2, <2>3, <2>4 DEF Places
<1>14. NotWaitedFor'
  BY <1>9 DEF NotWaitedFor, MayRead, Types, Open
<1>15. OwnAnswer'
  BY <1>1, <1>9 DEF Types, OwnAnswer, Raised, Broken, MayRead
<1> QED
  BY <1>10, <1>11, <1>12, <1>13, <1>14, <1>15

\* A call that leaves the stream alone, to drain or because it raises.
LEMMA LeavesAlone ==
  ASSUME IInv, NEW c \in Caller, NEW id, NEW w \in {None, waiter}, MayRead(c, id),
         call[c] # "parked", UNCHANGED <<pending, stdout, taken>>, waiter' = w,
         NEW s \in {"idle", "draining"}, call' = [call EXCEPT ![c] = s],
         NEW g \in {0, Raised}, got' = [got EXCEPT ![c] = g]
  PROVE  IInv'
<1> USE DEF IInv
<1>1. /\ id \in Nat \ {0} /\ nextId' \in Nat \ {0} /\ 1..nextId - 1 \subseteq 1..nextId' - 1
      /\ Line(nextId) \subseteq Line(nextId')
  BY Numbers
<1>2. Types'
  <2>1. stdout' \in Seq(Line(nextId'))
    BY <1>1 DEF Types
  <2>2. reqId' \in [Caller -> 0..nextId' - 1] /\ \A d \in Caller : Open(d)' => reqId'[d] > 0
    BY Numbers DEF Types, Open
  <2>3. call' \in [Caller -> CallStates] /\ got' \in [Caller -> Int]
    BY DEF Types, CallStates, Raised
  <2> QED
    BY <1>1, <2>1, <2>2, <2>3 DEF Types, MayRead
<1>3. WaiterWaits' /\ AloneUnlessOverlapped' /\ AnsweredOnce'
  BY DEF Types, WaiterWaits, AloneUnlessOverlapped, AnsweredOnce, Open, MayRead
<1>4. NoDoubles' /\ Places' /\ NotWaitedFor'
  BY DEF NoDoubles, Places, NotWaitedFor, MayRead, Types, Open
<1>5. OwnAnswer'
  BY DEF Types, OwnAnswer, MayRead
<1> QED
  BY <1>2, <1>3, <1>4, <1>5

\* The loop reads everything there is, and waits or raises.
LEMMA Exhausts ==
  ASSUME IInv, NEW c \in Caller, NEW id, NEW w \in {None, waiter}, MayRead(c, id),
         call[c] # "parked", StopAt(id) = 0, Buffer(Len(stdout)), stdout' = <<>>,
         \/ End(c, Raised) /\ waiter' = w
         \/ /\ call' = [call EXCEPT ![c] = "parked"] /\ waiter' = c
            /\ got' = [got EXCEPT ![c] = 0] /\ UNCHANGED taken
  PROVE  IInv'
<1> USE DEF IInv
<1>1. /\ pending' = pending \cup (ToSet(stdout) \ {Notification})
      /\ ToSet(stdout) \cap {id, Broken} = {} /\ taken' = taken /\ answered' = answered
  <2>1. Len(stdout) \in Nat /\ DOMAIN stdout = 1..Len(stdout)
    BY DEF Types
  <2>2. \A i \in 1..Len(stdout) : stdout[i] \notin {id, Broken}
    BY <2>1, Stops
  <2>3. ToSet(stdout) = {stdout[i] : i \in 1..Len(stdout)}
    BY <2>1 DEF ToSet
  <2> QED
    BY <2>2, <2>3 DEF Buffer, End, Raised, MayRead
<1>2. \E s \in {"idle", "parked"}, g \in {0, Raised} :
        /\ call' = [call EXCEPT ![c] = s] /\ got' = [got EXCEPT ![c] = g]
        /\ waiter' = w \/ (s = "parked" /\ waiter' = c)
  BY DEF End
<1>3. /\ id \in Nat \ {0} /\ nextId' \in Nat \ {0} /\ 1..nextId - 1 \subseteq 1..nextId' - 1
      /\ ToSet(stdout) \ {Notification} \subseteq 1..nextId - 1
  <2>1. ToSet(stdout) \subseteq Line(nextId)
    BY DEF Types, ToSet
  <2> QED
    BY <1>1, <2>1, Numbers DEF Line
<1>4. Types'
  <2>1. stdout' \in Seq(Line(nextId'))
    OBVIOUS
  <2>2. reqId' \in [Caller -> 0..nextId' - 1] /\ \A d \in Caller : Open(d)' => reqId'[d] > 0
    BY <1>2, Numbers DEF Types, Open
  <2>3. call' \in [Caller -> CallStates] /\ got' \in [Caller -> Int]
    BY <1>2 DEF Types, CallStates, Raised
  <2>4. pending' \subseteq 1..nextId' - 1 /\ taken' \subseteq 1..nextId' - 1
    BY <1>1, <1>3 DEF Types
  <2> QED
    BY <1>3, <2>1, <2>2, <2>3, <2>4 DEF Types, MayRead
<1>5. WaiterWaits' /\ AloneUnlessOverlapped' /\ AnsweredOnce'
  BY <1>2, MCPClientAssumption DEF Types, WaiterWaits, AloneUnlessOverlapped, AnsweredOnce, Open, MayRead
<1>6. OwnAnswer'
  BY <1>2 DEF Types, OwnAnswer, MayRead
<1>7. NoDoubles' /\ Places'
  <2>1. ToSet(stdout') = {} /\ DOMAIN stdout' = {}
    BY DEF ToSet
  <2>2. Broken \notin ToSet(stdout)
    BY <1>1
  <2>3. Notification \notin taken
    BY DEF Types, Notification
  <2> QED
    BY <1>1, <2>1, <2>2, <2>3 DEF NoDoubles, Places
<1>8. NotWaitedFor'
  BY <1>1, <1>2 DEF NotWaitedFor, MayRead, Types, Open
<1> QED
  BY <1>4, <1>5, <1>6, <1>7, <1>8

LEMMA Reads ==
  ASSUME IInv, NEW c \in Caller, NEW id, NEW w \in {None, waiter}, MayRead(c, id),
         call[c] # "parked", Read(c, id, w)
  PROVE  IInv'
<1>1. CASE StopAt(id) > 0
  BY <1>1, Receives DEF Read
<1>2. CASE StopAt(id) = 0
  BY <1>2, Exhausts DEF Read
<1>3. StopAt(id) > 0 \/ StopAt(id) = 0
  BY DEF Read
<1> QED
  BY <1>1, <1>2, <1>3

\* A request takes an id that nothing has yet.
LEMMA Sends ==
  ASSUME IInv, NEW c \in Caller, Send(c)
  PROVE  IInv'
<1>1. MayRead(c, nextId) /\ call[c] = "idle"
  <2>1. /\ nextId \in Nat \ {0} /\ nextId' = nextId + 1 /\ nextId \in 1..nextId' - 1
        /\ 1..nextId - 1 \subseteq 1..nextId' - 1 /\ nextId \notin 1..nextId - 1
    BY DEF Send, IInv, Types
  <2>2. asked' \subseteq 1..nextId' - 1 /\ asked' \cap answered = {} /\ nextId \notin pending
    BY <2>1 DEF Send, IInv, Types, AnsweredOnce
  <2> QED
    BY <2>1, <2>2 DEF Send, MayRead, Open
<1>2. CASE Read(c, nextId, waiter)
  BY <1>1, <1>2, Reads
<1>3. CASE /\ UNCHANGED <<pending, stdout, waiter, taken>>
           /\ call' = [call EXCEPT ![c] = "draining"] /\ got' = [got EXCEPT ![c] = 0]
  BY <1>1, <1>3, LeavesAlone
<1>4. CASE End(c, Raised) /\ UNCHANGED <<pending, stdout, waiter>>
  BY <1>1, <1>4, LeavesAlone DEF End
<1> QED
  BY <1>2, <1>3, <1>4 DEF Send

\* A call that is open may go on with its id.
LEMMA MayGoOn ==
  ASSUME IInv, NEW c \in Caller, Open(c),
         UNCHANGED <<nextId, reqId, asked, answered, overlapped>>
  PROVE  MayRead(c, reqId[c])
BY DEF IInv, Types, MayRead, AnsweredOnce, AloneUnlessOverlapped, NotWaitedFor

LEMMA GoesOn ==
  ASSUME IInv, NEW c \in Caller, ClientStep(c)
  PROVE  IInv'
<1>1. Open(c) /\ call[c] # "parked" /\ UNCHANGED <<nextId, reqId, asked, answered, overlapped>>
  BY DEF ClientStep, Drained, Resume, Open
<1>2. MayRead(c, reqId[c])
  BY <1>1, MayGoOn
<1>3. ASSUME NEW w \in {None, waiter}, Read(c, reqId[c], w)
      PROVE  IInv'
  BY <1>1, <1>2, <1>3, Reads
<1>4. CASE End(c, Raised) /\ UNCHANGED <<pending, stdout, waiter>>
  BY <1>1, <1>2, <1>4, LeavesAlone DEF End
<1> QED
  BY <1>3, <1>4 DEF ClientStep, Drained, Resume

LEMMA Abandons ==
  ASSUME IInv, NEW c \in Caller, Abandon(c)
  PROVE  IInv'
<1> USE DEF IInv
<1>1. /\ call' = [call EXCEPT ![c] = "idle"] /\ got' = [got EXCEPT ![c] = Raised]
      /\ UNCHANGED <<nextId, reqId, pending, stdout, asked, answered, overlapped, taken>>
      /\ waiter' = IF call[c] = "draining" THEN waiter ELSE None
  BY DEF Abandon, End, Raised
<1>2. \A d \in Caller : call'[d] # "idle" => Open(d)
  BY <1>1 DEF Types, Open
<1>3. Types' /\ WaiterWaits' /\ AloneUnlessOverlapped' /\ NotWaitedFor'
  BY <1>1, <1>2 DEF Types, CallStates, WaiterWaits, AloneUnlessOverlapped, NotWaitedFor, Open, Raised
<1>4. AnsweredOnce' /\ NoDoubles' /\ Places' /\ OwnAnswer'
  BY <1>1 DEF Types, AnsweredOnce, NoDoubles, Places, OwnAnswer
<1> QED
  BY <1>3, <1>4

\* Whatever wakes the reader, it wakes somebody whose call is open.
LEMMA Wakes ==
  ASSUME IInv, Wake, UNCHANGED <<nextId, pending, reqId, got, taken, overlapped>>
  PROVE  /\ WaiterWaits' /\ AloneUnlessOverlapped' /\ NotWaitedFor' /\ OwnAnswer'
         /\ call' \in [Caller -> CallStates]
         /\ \A c \in Caller : Open(c)' <=> Open(c)
<1> USE DEF IInv, Wake
<1>1. call' \in [Caller -> CallStates] /\ waiter' = None
  BY DEF Types, CallStates
<1>2. \A c \in Caller : call'[c] # "idle" <=> call[c] # "idle"
  BY MCPClientAssumption DEF Types, WaiterWaits
<1> QED
  BY <1>1, <1>2 DEF WaiterWaits, AloneUnlessOverlapped, NotWaitedFor, OwnAnswer, Open

\* A line is fed: an answer that was not given before, a notification or a broken line.
LEMMA Feeds ==
  ASSUME IInv, NEW line, Feed(line),
         \/ /\ line \in asked /\ asked' = asked \ {line} /\ answered' = answered \cup {line}
         \/ line \in {Notification, Broken} /\ UNCHANGED <<asked, answered>>
  PROVE  IInv'
<1> USE DEF IInv, Feed
<1>0. Wake /\ UNCHANGED <<nextId, pending, reqId, got, taken, overlapped>>
  OBVIOUS
<1>1. line \in Line(nextId) /\ stdout' = Append(stdout, line) /\ stdout \in Seq(Line(nextId))
  BY DEF Types, Line
<1>2. /\ Len(stdout) \in Nat /\ DOMAIN stdout = 1..Len(stdout)
      /\ stdout' \in Seq(Line(nextId)) /\ DOMAIN stdout' = 1..Len(stdout) + 1
      /\ \A i \in 1..Len(stdout) : stdout'[i] = stdout[i]
      /\ stdout'[Len(stdout) + 1] = line
  BY <1>1, AppendProperties
<1>3. ToSet(stdout') = ToSet(stdout) \cup {line}
  <2>1. 1..Len(stdout) + 1 = 1..Len(stdout) \cup {Len(stdout) + 1}
    BY <1>2
  <2> QED
    BY <1>2, <2>1 DEF ToSet
<1>4. line \in asked => line \notin ToSet(stdout) /\ line \notin pending /\ line \notin taken
  <2>1. line \in asked => line \notin {Notification, Broken}
    BY DEF Types, Notification, Broken
  <2>2. line \in asked => line \notin answered
    BY DEF AnsweredOnce
  <2> QED
    BY <2>1, <2>2 DEF Places
<1>5. Types'
  BY <1>0, <1>2, Wakes DEF Types
<1>6. AnsweredOnce'
  BY DEF AnsweredOnce
<1>7. NoDoubles'
  <2>1. line > 0 => line \in asked
    BY DEF Notification, Broken
  <2>2. \A i \in 1..Len(stdout) : line > 0 => stdout[i] # line
    BY <1>2, <1>4, <2>1 DEF ToSet
  <2> QED
    BY <1>2, <2>2 DEF NoDoubles
<1>8. Places'
  <2>1. line \in asked => line \notin {Notification, Broken}
    BY DEF Types, Notification, Broken
  <2>2. {Notification, Broken} \cap (pending \cup taken) = {}
    BY DEF Types, Notification, Broken
  <2> QED
    BY <1>0, <1>3, <1>4, <2>1, <2>2 DEF Places
<1> QED
  BY <1>0, <1>5, <1>6, <1>7, <1>8, Wakes

\* Lines that say nothing are fed.
LEMMA FeedsBroken ==
  ASSUME IInv, Wake, NEW n \in 1..2, stdout' = stdout \o [i \in 1..n |-> Broken],
         asked' \subseteq asked,
         UNCHANGED <<nextId, pending, reqId, got, taken, overlapped, answered>>
  PROVE  IInv'
<1> USE DEF IInv
<1> DEFINE b == [i \in 1..n |-> Broken]
<1>1. b \in Seq(Line(nextId)) /\ Len(b) = n
  BY DEF Line
<1>2. stdout \in Seq(Line(nextId)) /\ Len(stdout) \in Nat /\ DOMAIN stdout = 1..Len(stdout)
  BY DEF Types
<1>3. /\ stdout' \in Seq(Line(nextId)) /\ DOMAIN stdout' = 1..Len(stdout) + n
      /\ \A i \in 1..Len(stdout) + n :
           stdout'[i] = IF i <= Len(stdout) THEN stdout[i] ELSE b[i - Len(stdout)]
  <2> HIDE DEF b
  <2>1. stdout' = stdout \o b
    BY DEF b
  <2> QED
    BY <1>1, <1>2, <2>1, ConcatProperties
<1>4. \A i \in Len(stdout) + 1..Len(stdout) + n : stdout'[i] = Broken
  <2>1. \A i \in Len(stdout) + 1..Len(stdout) + n : i - Len(stdout) \in 1..n
    BY <1>2
  <2> QED
    BY <1>2, <1>3, <2>1
<1>5. ToSet(stdout') = ToSet(stdout) \cup {Broken}
  <2>1. 1..Len(stdout) + n = 1..Len(stdout) \cup (Len(stdout) + 1..Len(stdout) + n)
    BY <1>2
  <2>2. Len(stdout) + 1 \in Len(stdout) + 1..Len(stdout) + n
    BY <1>2
  <2> QED
    <3>1. \A i \in 1..Len(stdout) : stdout'[i] = stdout[i]
      BY <1>2, <1>3
    <3>2. ToSet(stdout') = {stdout'[i] : i \in 1..Len(stdout) + n}
      BY <1>3 DEF ToSet
    <3>3. ToSet(stdout) = {stdout[i] : i \in 1..Len(stdout)}
      BY <1>2 DEF ToSet
    <3>4. ToSet(stdout') \subseteq ToSet(stdout) \cup {Broken}
      BY <1>4, <2>1, <3>1, <3>2, <3>3
    <3>5. ToSet(stdout) \subseteq ToSet(stdout')
      BY <2>1, <3>1, <3>2, <3>3
    <3>6. Broken \in ToSet(stdout')
      BY <1>4, <2>1, <2>2, <3>2
    <3> QED
      BY <3>4, <3>5, <3>6
<1>6. Types' /\ AnsweredOnce'
  BY <1>3, Wakes DEF Types, AnsweredOnce
<1>7. NoDoubles'
  BY <1>2, <1>3, <1>4 DEF NoDoubles, Broken
<1>8. Places'
  <2>1. Broken \notin pending /\ Broken \notin taken
    BY DEF Types, Broken
  <2>2. UNCHANGED <<pending, taken, answered>>
    OBVIOUS
  <2>3. /\ ToSet(stdout') \ {Notification, Broken} = ToSet(stdout) \ {Notification, Broken}
        /\ ToSet(stdout') \cap pending = ToSet(stdout) \cap pending
        /\ ToSet(stdout') \cap taken = ToSet(stdout) \cap taken
    BY <1>5, <2>1
  <2> HIDE DEF IInv
  <2>4. Places
    BY DEF IInv
  <2> QED
    BY <2>2, <2>3, <2>4 DEF Places
<1> QED
  BY <1>6, <1>7, <1>8, Wakes

\* The stream ends.
LEMMA Ends ==
  ASSUME IInv, Wake, asked' \in {asked, {}},
         UNCHANGED <<nextId, pending, reqId, got, taken, overlapped, stdout, answered>>
  PROVE  IInv'
<1> USE DEF IInv
<1>1. Types' /\ AnsweredOnce' /\ NoDoubles' /\ Places'
  BY Wakes DEF Types, AnsweredOnce, NoDoubles, Places
<1> QED
  BY <1>1, Wakes

LEMMA StepIInv == IInv /\ [Next]_vars => IInv'
<1> SUFFICES ASSUME IInv, [Next]_vars
             PROVE  IInv'
  OBVIOUS
<1>1. ASSUME NEW c \in Caller, Connect(c) \/ CallTool(c) \/ ClientStep(c) \/ Abandon(c)
      PROVE  IInv'
  BY <1>1, Sends, GoesOn, Abandons DEF Connect, CallTool
<1>2. CASE Close \/ Die
  BY <1>2, Ends DEF Close, Die
<1>3. CASE Disturb
  BY <1>3, Feeds DEF Disturb
<1>4. ASSUME NEW id \in asked, Answer(id) \/ AnswerAtLength(id)
      PROVE  IInv'
  BY <1>4, Feeds, FeedsBroken DEF Answer, AnswerAtLength
<1>5. CASE UNCHANGED vars
  BY <1>5 DEF vars, IInv, Types, WaiterWaits, AnsweredOnce, AloneUnlessOverlapped, NoDoubles,
              Places, NotWaitedFor, OwnAnswer, Open
<1> QED
  BY <1>1, <1>2, <1>3, <1>4, <1>5 DEF Next

LEMMA Invariance == Spec => []IInv
BY InitIInv, StepIInv, PTL DEF Spec

-----------------------------------------------------------------------------
(* The theorems.                                                           *)

\* A call returns the answer to its own request or raises, whatever the other callers,
\* abandoned calls, noise and the death of the server do (client.py 70-92).
THEOREM AnswersAreOwn == Spec => []OwnAnswer
<1>1. IInv => OwnAnswer
  BY DEF IInv
<1> QED
  BY <1>1, Invariance, PTL

\* Every answer is in one place, on the stream, in the buffer or returned, and while
\* calls never overlap nobody waits for one that has been read (client.py 83-92).
THEOREM NoAnswerLost == Spec => []AnswersAccounted
<1>1. IInv => AnswersAccounted
  BY DEF IInv, NoDoubles, Places, NotWaitedFor, AnswersAccounted
<1> QED
  BY <1>1, Invariance, PTL
=============================================================================
