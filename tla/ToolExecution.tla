----------------------------- MODULE ToolExecution -----------------------------
(***************************************************************************)
(* One batch of tool calls in ToolExecutor.execute (tools/executor.py) with   *)
(* the pre_tool_call handlers of the HookManager (hooks.py), while handlers    *)
(* are registered and unregistered.                                          *)
(*                                                                         *)
(* A call is looked up, permitted, shown to the handlers one await at a time,  *)
(* permitted again if they changed its input, and executed. run_pre iterates   *)
(* over the list object it found: register appends to that object and sorts   *)
(* it in place, unregister leaves it alone and installs a new one.            *)
(*                                                                         *)
(* The event holds a shallow, read-only copy of the input: a handler cannot    *)
(* assign to it, but what it changes inside a nested value it changes in the    *)
(* call, too, and in the validated input wherever the tool's model passes such   *)
(* a value on as it is (the extra fields of an MCP tool).                       *)
(***************************************************************************)
EXTENDS Integers, Sequences, SequencesExt, FiniteSets

CONSTANTS Call,        \* the calls of the batch
          Safe,        \* calls of tools with is_concurrent_safe
          Handler,     \* pre_tool_call handlers
          Early,       \* the handlers registered with the lower priority number
          MaxChanges   \* bound: calls of register and unregister

ASSUME ExecutionAssumption ==
  /\ Safe \subseteq Call /\ Early \subseteq Handler /\ IsFiniteSet(Handler)
  /\ MaxChanges \in Nat

Priority(h) == IF h \in Early THEN 0 ELSE 1

\* Inputs of a call: what it holds at the top level, and in a nested value. There is
\* the model's own, and what handlers make of it.
Value == {0, 1}
Input == Value \X Value
Original == <<0, 0>>
NotApproved == <<>>

VARIABLES
  phase,      \* of each call: new, permit, hooks, repermit, executing, answered
  serial,     \* the calls run one after the other (decided when execute begins)
  input,      \* the input the call would be executed with
  approved,   \* the input PermissionChecker.check last allowed
  lists,      \* list objects of handlers; _hooks["pre_tool_call"] is the last one
  chain,      \* per call, which list object run_pre goes over
  at,         \* per call, position in it of the handler that is being awaited
  asked,      \* per call, the handlers consulted, in order
  tampered,   \* history: calls with a nested value changed since it was allowed
  steady,     \* per call, handlers registered all the time since run_pre began
  changes     \* registrations and unregistrations so far

vars == <<phase, serial, input, approved, lists, chain, at, tampered, asked, steady, changes>>
hookVars == <<lists, changes>>
chainVars == <<chain, at, tampered, asked, steady>>

Current == Last(lists)

InOrder(l) == \A i, j \in 1..Len(l) : i < j => Priority(l[i]) <= Priority(l[j])

Init ==
  /\ phase = [c \in Call |-> "new"]
  /\ \E found \in SUBSET Safe : serial = Call \ found
  /\ input = [c \in Call |-> Original]
  /\ approved = [c \in Call |-> NotApproved]
  /\ \E hs \in SUBSET Handler : \E l \in SetToSeqs(hs) : InOrder(l) /\ lists = <<l>>
  /\ chain = [c \in Call |-> 0]
  /\ at = [c \in Call |-> 0]
  /\ tampered = {}
  /\ asked = [c \in Call |-> <<>>]
  /\ steady = [c \in Call |-> {}]
  /\ changes = 0

To(c, p) == phase' = [phase EXCEPT ![c] = p]
Busy(c) == phase[c] \notin {"new", "answered"}

-----------------------------------------------------------------------------
(* The executor.                                                           *)

\* Bug variant: the calls left for later do not wait for the gather.
TurnOfUnordered(c) == \A d \in serial : ~Busy(d)

\* The safe calls run together in one gather, the others one by one after it.
TurnOf(c) ==
  c \in serial => /\ \A d \in Call \ serial : phase[d] = "answered"
                  /\ \A d \in serial : ~Busy(d)

\* _run_one: the tool is looked up (again); it may have gone, and its call is
\* then answered with an error.
Start(c) ==
  /\ phase[c] = "new" /\ TurnOf(c)
  /\ To(c, "permit") \/ To(c, "answered")
  /\ UNCHANGED <<serial, input, approved, hookVars, chainVars>>

\* Bug variant: the input the handlers substituted is executed as it is.
ConcludeTrusting(c, held, w) ==
  /\ To(c, "executing")
  /\ input' = [input EXCEPT ![c] = w]

\* The end of the chain: the call holds one input, the event another. If they differ
\* that of the event is taken over and permitted again; changes inside a value they
\* share are no difference.
Conclude(c, held, w) ==
  /\ To(c, IF w = held THEN "executing" ELSE "repermit")
  /\ input' = [input EXCEPT ![c] = w]

\* Validation and permission: an error or a refusal is the answer. A permitted call
\* goes to the first handler at once.
Permit(c) ==
  /\ phase[c] = "permit"
  /\ \/ /\ approved' = [approved EXCEPT ![c] = input[c]]
        /\ chain' = [chain EXCEPT ![c] = Len(lists)]
        /\ tampered' = tampered \ {c}
        /\ steady' = [steady EXCEPT ![c] = ToSet(Current)]
        /\ IF Current = <<>>
           THEN Conclude(c, input[c], input[c]) /\ UNCHANGED <<at, asked>>
           ELSE /\ To(c, "hooks") /\ UNCHANGED input
                /\ at' = [at EXCEPT ![c] = 1]
                /\ asked' = [asked EXCEPT ![c] = <<Head(Current)>>]
     \/ To(c, "answered") /\ UNCHANGED <<input, approved, chainVars>>
  /\ UNCHANGED <<serial, hookVars>>

\* The handler at position at answers. It allows, returns another input, or raises and
\* is passed over; and it may have changed the nested value of the call in place, to n.
\* The handler that is now at the next position is called, without an await in between;
\* after the last one the event holds some input w, the sum of what they returned. Or
\* it denies, which answers the call and asks nobody else.
Ask(c) ==
  LET l == lists[chain[c]]
  IN  /\ phase[c] = "hooks"
      /\ \/ \E n \in Value :
              LET held == <<input[c][1], n>> IN
              /\ tampered' = IF held = input[c] THEN tampered ELSE tampered \cup {c}
              /\ IF at[c] < Len(l)
                 THEN /\ at' = [at EXCEPT ![c] = @ + 1]
                      /\ asked' = [asked EXCEPT ![c] = Append(@, l[at[c] + 1])]
                      /\ input' = [input EXCEPT ![c] = held]
                      /\ UNCHANGED phase
                 ELSE (\E w \in Input : Conclude(c, held, w)) /\ UNCHANGED <<at, asked>>
         \/ To(c, "answered") /\ UNCHANGED <<input, tampered, at, asked>>
      /\ UNCHANGED <<serial, approved, hookVars, chain, steady>>

\* The second validation and permission.
Repermit(c) ==
  /\ phase[c] = "repermit"
  /\ \/ /\ To(c, "executing") /\ approved' = [approved EXCEPT ![c] = input[c]]
        /\ tampered' = tampered \ {c}
     \/ To(c, "answered") /\ UNCHANGED <<approved, tampered>>
  /\ UNCHANGED <<serial, input, hookVars, chain, at, asked, steady>>

\* tool.execute, truncation and the post handlers, which can only change the text
\* of the answer; an exception in any of them is the answer.
Execute(c) ==
  /\ phase[c] = "executing"
  /\ To(c, "answered")
  /\ UNCHANGED <<serial, input, approved, hookVars, chainVars>>

-----------------------------------------------------------------------------
(* The HookManager.                                                        *)

\* Append and stable sort.
InsertHandler(l, h) ==
  InsertAt(l, Cardinality({i \in 1..Len(l) : Priority(l[i]) <= Priority(h)}) + 1, h)

\* register changes the list object in place, under the feet of a chain in progress.
Register(h) ==
  /\ changes < MaxChanges /\ h \notin ToSet(Current)
  /\ changes' = changes + 1
  /\ lists' = [lists EXCEPT ![Len(lists)] = InsertHandler(@, h)]
  /\ UNCHANGED <<phase, serial, input, approved, chainVars>>

\* Bug variant: the handler is taken out of the list object itself.
WithoutInPlace(h) ==
  [lists EXCEPT ![Len(lists)] = SelectSeq(@, LAMBDA g : g # h)]

\* A new list object without the handler, which is in the list once.
Without(h) ==
  LET place == CHOOSE i \in DOMAIN Current : Current[i] = h
  IN  Append(lists, RemoveAt(Current, place))

Unregister(h) ==
  /\ changes < MaxChanges /\ h \in ToSet(Current)
  /\ changes' = changes + 1
  /\ lists' = Without(h)
  /\ steady' = [c \in Call |-> steady[c] \ {h}]
  /\ UNCHANGED <<phase, serial, input, approved, chain, at, tampered, asked>>

Step(c) == Start(c) \/ Permit(c) \/ Ask(c) \/ Repermit(c) \/ Execute(c)

Next ==
  \/ \E c \in Call : Step(c)
  \/ \E h \in Handler : Register(h) \/ Unregister(h)

Spec == Init /\ [][Next]_vars

-----------------------------------------------------------------------------
(* Properties.                                                             *)

\* A call of a tool that is not concurrent-safe has the batch to itself
\* (executor.py 46-55, docs/guide.md 251-252).
UnsafeRunsAlone ==
  \A c \in serial, d \in Call : Busy(c) /\ Busy(d) => c = d

\* What is executed is what was last permitted, whatever the handlers substituted (the
\* comment at executor.py 114-116); only inside a nested value that the last permission
\* has seen, and a handler of the chain has changed in place since, can it be something
\* else (executor.py 100, hooks.py 60, 176).
ExecutesWhatWasApproved ==
  \A c \in Call : phase[c] = "executing" =>
    /\ approved[c][1] = input[c][1]
    /\ c \notin tampered => approved[c] = input[c]

\* No handler is stepped over: a call that is executed was shown to every handler
\* registered all the while; and whoever is asked, such a handler of higher priority was
\* asked before, although registrations in mid-chain shift the list under the loop
\* (hooks.py 132-156 against 196-216).
NoHandlerSkipped ==
  \A c \in Call :
    /\ phase[c] \in {"repermit", "executing"} => steady[c] \subseteq ToSet(asked[c])
    /\ \A i \in DOMAIN asked[c], h \in steady[c] :
         Priority(h) < Priority(asked[c][i]) => \E j \in 1..i : asked[c][j] = h
=============================================================================
