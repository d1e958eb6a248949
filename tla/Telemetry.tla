------------------------------- MODULE Telemetry -------------------------------
(***************************************************************************)
(* What the subscribers of one agent's event bus make of its calls: the      *)
(* MetricsCollector (eval/metrics.py), one for the agent (enable_metrics) and *)
(* a fresh one for each case of the EvalRunner (eval/runner.py), the          *)
(* UsageTracker (eval/usage.py) and the spans of the OtelSubscriber           *)
(* (integrations/otel.py).                                                   *)
(*                                                                         *)
(* The bus is synchronous: what a step of the loop emits reaches every        *)
(* subscriber within the step. Calls on one agent may overlap, fail and be    *)
(* cancelled at each await; events carry a turn index, but not whose it is.   *)
(***************************************************************************)
EXTENDS Integers, Sequences, FiniteSets, SequencesExt, FiniteSetsExt

CONSTANTS Case,      \* calls that the EvalRunner makes, one after the other
          Chat,      \* calls of the application on the same agent
          Agent,     \* the collector of enable_metrics()
          MaxTurns,  \* of each call, its max_turns: provider calls it may make
          Tools,     \* tool calls of one answer, at most
          Keep       \* max_turns of a collector: completed turns it keeps

ASSUME TelemetryAssumption ==
  /\ Case \cap Chat = {} /\ Agent \notin Case \cup Chat
  /\ MaxTurns \in [Case \cup Chat -> Nat \ {0}] /\ Tools \in Nat \ {0}
  /\ Keep \in Nat \ {0}

Call == Case \cup Chat
Collector == Case \cup {Agent}

VARIABLES
  pc,        \* where each call stands
  turn,      \* turn_idx of each call
  waiting,   \* tool calls of each call's batch that have not started
  running,   \* tool calls of each call's batch that have not answered
  attached,  \* collectors whose handlers are on the bus
  pending,   \* of each collector, _pending: what was heard, by turn index
  completed, \* of each collector, _completed_turns, and which turn each stands for
  finished,  \* history: the turns each collector ever completed
  span,      \* _pending_llm_span
  open,      \* spans started and not ended
  ended,     \* spans ended, each with the response or result that ended it
  usage,     \* responses the tracker has counted
  totals,    \* responses in the token totals of the sessions
  heard,     \* of each collector, what reached it while it was attached
  overlapped, \* calls that ran while another did
  cut        \* calls that ended in the middle of a turn

spanVars == <<span, open, ended>>
metricVars == <<pending, completed, finished, heard>>
vars == <<pc, turn, waiting, running, attached, pending, completed, finished, span, open,
          ended, usage, totals, heard, overlapped, cut>>

NoSpan == <<>>
Idle == {"new", "done"}

Init ==
  /\ pc = [c \in Call |-> "new"] /\ turn = [c \in Call |-> 0]
  /\ waiting = [c \in Call |-> {}] /\ running = [c \in Call |-> {}]
  /\ attached = {Agent}
  /\ pending = [k \in Collector |-> <<>>] /\ completed = [k \in Collector |-> <<>>]
  /\ finished = [k \in Collector |-> <<>>]
  /\ span = NoSpan /\ open = {} /\ ended = {}
  /\ usage = {} /\ totals = {}
  /\ heard = [k \in Collector |-> {}]
  /\ overlapped = {} /\ cut = {}

\* A response, and the tool calls of its batch, are named by call and turn.
Response(c) == <<c, turn[c]>>
Batch(c, n) == {<<c, turn[c], i>> : i \in 1..n}

-----------------------------------------------------------------------------
(* The collector: pure functions on _pending.                              *)

\* Bug variant: a request for a turn that is still open starts its bucket afresh.
WithFresh(p, t, items) ==
  [u \in DOMAIN p \cup {t} |->
     IF u # t THEN p[u] ELSE IF items = {} \/ t \notin DOMAIN p THEN items ELSE p[t] \cup items]

\* Items added to the bucket of a turn, which is created if there is none.
With(p, t, items) ==
  [u \in DOMAIN p \cup {t} |->
     IF u # t THEN p[u] ELSE IF t \in DOMAIN p THEN p[t] \cup items ELSE items]

\* Bug variant: tool calls are booked on the first turn.
ToolTurnFirst(p) == 0

\* A tool call carries no turn: it is booked on the highest one that is open.
ToolTurn(p) == IF DOMAIN p = {} THEN 0 ELSE Max(DOMAIN p)

\* The buckets that leave _pending when turn t completes: its own, or the oldest.
Bucket(p, t) ==
  IF t \in DOMAIN p THEN {t} ELSE IF DOMAIN p = {} THEN {} ELSE {Min(DOMAIN p)}

\* What the attached collectors make of an event that brings items: each books them
\* on the turn that is its place.
Hear(place, items) ==
  /\ pending' = [k \in Collector |->
       IF k \in attached THEN With(pending[k], place[k], items) ELSE pending[k]]
  /\ heard' = [k \in Collector |-> IF k \in attached THEN heard[k] \cup items ELSE heard[k]]
  /\ UNCHANGED <<completed, finished>>

\* The turns a collector keeps: the latest.
Kept(turns) ==
  IF Len(turns) > Keep THEN SubSeq(turns, Len(turns) - Keep + 1, Len(turns)) ELSE turns

\* TurnCompleteEvent of call c.
TurnCompletes(c) ==
  LET out(k) == IF k \in attached THEN Bucket(pending[k], turn[c]) ELSE {}
      items(k) == UNION {pending[k][t] : t \in out(k)}
      entry(k) == [of |-> Response(c), items |-> items(k)]
  IN  /\ pending' = [k \in Collector |-> [t \in DOMAIN pending[k] \ out(k) |-> pending[k][t]]]
      /\ completed' = [k \in Collector |->
           IF k \in attached THEN Kept(Append(completed[k], entry(k))) ELSE completed[k]]
      /\ finished' = [k \in Collector |->
           IF k \in attached THEN Append(finished[k], entry(k)) ELSE finished[k]]
      /\ UNCHANGED heard

-----------------------------------------------------------------------------
(* One call: the events of QueryLoop.run and ToolExecutor._run_one.         *)

\* Bug variant: a span that was not ended is kept for the next response.
RequestKeepingSpan(c, t) ==
  /\ pending' = [k \in Collector |->
       IF k \in attached' THEN With(pending[k], t, {}) ELSE pending[k]]
  /\ span' = (IF span = NoSpan THEN <<c, t>> ELSE span) /\ open' = open \cup {<<c, t>>}
  /\ pc' = [pc EXCEPT ![c] = "provider"] /\ turn' = [turn EXCEPT ![c] = t]
  /\ UNCHANGED <<waiting, running, completed, finished, ended, usage, totals, heard, cut>>

\* ProviderRequestEvent: a bucket for the turn, and a span that takes the place of
\* the last one, ended or not.
Request(c, t) ==
  /\ pending' = [k \in Collector |->
       IF k \in attached' THEN With(pending[k], t, {}) ELSE pending[k]]
  /\ span' = <<c, t>> /\ open' = open \cup {<<c, t>>}
  /\ pc' = [pc EXCEPT ![c] = "provider"] /\ turn' = [turn EXCEPT ![c] = t]
  /\ UNCHANGED <<waiting, running, completed, finished, ended, usage, totals, heard, cut>>

\* A call of the application, or the next case once the one before is over: its
\* collector is subscribed before the agent runs.
Begin(c) ==
  /\ pc[c] = "new"
  /\ c \in Case => \A d \in Case : pc[d] \in Idle
  /\ attached' = attached \cup ({c} \cap Case)
  /\ Request(c, 0)
  /\ LET others == {d \in Call : pc[d] \notin Idle}
     IN  overlapped' = overlapped \cup others \cup (IF others = {} THEN {} ELSE {c})

NextTurn(c) ==
  /\ pc[c] = "next" /\ UNCHANGED <<attached, overlapped>> /\ Request(c, turn[c] + 1)

\* Bug variant: the handlers of a case stay on the bus.
LeaveSubscribed(c) == pc' = [pc EXCEPT ![c] = "done"] /\ UNCHANGED attached

\* The call is over; the finally of the EvalRunner takes the handlers of a case off
\* the bus.
Leave(c) == pc' = [pc EXCEPT ![c] = "done"] /\ attached' = attached \ {c}

\* The agent has returned: the application goes on, a case is judged.
Return(c) ==
  IF c \in Case THEN pc' = [pc EXCEPT ![c] = "assert"] /\ UNCHANGED attached ELSE Leave(c)

Judge(c) ==
  /\ pc[c] = "assert" /\ Leave(c)
  /\ UNCHANGED <<turn, waiting, running, metricVars, spanVars, usage, totals, overlapped, cut>>

\* A hook denies the call, or an answer is cut short twice, which counts for the
\* session: nothing is announced, nothing completes the turn.
Unanswered(c) ==
  /\ pc[c] = "provider" /\ Return(c) /\ cut' = cut \cup {c}
  /\ totals' \in {totals, totals \cup {Response(c)}}
  /\ UNCHANGED <<turn, waiting, running, metricVars, spanVars, usage, overlapped>>

\* An exception or a cancellation at an await within a turn.
Fail(c) ==
  /\ pc[c] \in {"provider", "ending", "tools"} /\ Leave(c) /\ cut' = cut \cup {c}
  /\ running' = [running EXCEPT ![c] = {}] /\ waiting' = [waiting EXCEPT ![c] = {}]
  /\ UNCHANGED <<turn, metricVars, spanVars, usage, totals, overlapped>>

\* Compression, between two turns, raises.
FailBetween(c) ==
  /\ pc[c] = "next" /\ Leave(c)
  /\ UNCHANGED <<turn, waiting, running, metricVars, spanVars, usage, totals, overlapped, cut>>

\* ProviderResponseEvent: text ends the turn, once the working memory is stored; tool
\* calls start a batch. A batch is the calls of tools the executor knows: for an unknown
\* one only a ToolResultEvent is emitted (executor.py 71-74), which ends no span and
\* which no collector hears.
Respond(c) ==
  /\ pc[c] = "provider"
  /\ Hear([k \in Collector |-> turn[c]], {Response(c)})
  /\ IF span = NoSpan THEN UNCHANGED spanVars
     ELSE /\ ended' = ended \cup {[span |-> span, by |-> Response(c)]}
          /\ open' = open \ {span} /\ span' = NoSpan
  /\ usage' = usage \cup {Response(c)} /\ totals' = totals \cup {Response(c)}
  /\ \/ pc' = [pc EXCEPT ![c] = "ending"] /\ UNCHANGED waiting
     \/ /\ pc' = [pc EXCEPT ![c] = "tools"]
        /\ \E n \in 0..Tools : waiting' = [waiting EXCEPT ![c] = Batch(c, n)]
  /\ UNCHANGED <<turn, running, attached, overlapped, cut>>

\* ToolCallEvent.
StartTool(c) ==
  /\ waiting[c] # {}
  /\ LET i == CHOOSE i \in waiting[c] : TRUE IN
       /\ waiting' = [waiting EXCEPT ![c] = @ \ {i}]
       /\ running' = [running EXCEPT ![c] = @ \cup {i}]
       /\ Hear([k \in Collector |-> ToolTurn(pending[k])], {i})
       /\ open' = open \cup {i}
  /\ UNCHANGED <<pc, turn, attached, span, ended, usage, totals, overlapped, cut>>

\* ToolResultEvent: an answer, an error or a denial.
ToolResult(c) ==
  \E i \in running[c] :
    /\ running' = [running EXCEPT ![c] = @ \ {i}]
    /\ ended' = ended \cup {[span |-> i, by |-> i]} /\ open' = open \ {i}
    /\ UNCHANGED <<pc, turn, waiting, attached, metricVars, span, usage, totals, overlapped, cut>>

\* TurnCompleteEvent after an answer, which ends the call.
EndTurn(c) ==
  /\ pc[c] = "ending" /\ TurnCompletes(c) /\ Return(c)
  /\ UNCHANGED <<turn, waiting, running, spanVars, usage, totals, overlapped, cut>>

\* TurnCompleteEvent after a batch, and the turn limit.
EndRound(c) ==
  /\ pc[c] = "tools" /\ waiting[c] = {} /\ running[c] = {} /\ TurnCompletes(c)
  /\ IF turn[c] + 1 < MaxTurns[c] THEN pc' = [pc EXCEPT ![c] = "next"] /\ UNCHANGED attached
     ELSE Return(c)
  /\ UNCHANGED <<turn, waiting, running, spanVars, usage, totals, overlapped, cut>>

Next == \E c \in Call :
  \/ Begin(c) \/ NextTurn(c) \/ Unanswered(c) \/ Respond(c) \/ StartTool(c) \/ ToolResult(c)
  \/ EndTurn(c) \/ EndRound(c) \/ Fail(c) \/ FailBetween(c) \/ Judge(c)

Spec == Init /\ [][Next]_vars

-----------------------------------------------------------------------------
Undisturbed(k) ==
  IF k = Agent THEN overlapped = {} /\ cut = {} ELSE k \notin overlapped

\* A collector loses and doubles nothing but by its limit: every response and tool call
\* it heard is in one bucket, of a completed turn or pending, however calls overlap and
\* fail, or it was of a completed turn that gave way to Keep later ones (metrics.py
\* 68-136); and the tracker's total falls behind those of the sessions by answers that
\* were cut short, no others (usage.py 24-31, loop.py 280-300).
NothingLostOrDoubled ==
  /\ \A k \in Collector :
       LET gone == Len(finished[k]) - Len(completed[k])
           trimmed == UNION {finished[k][i].items : i \in 1..gone}
           buckets == {<<"completed", i>> : i \in DOMAIN completed[k]}
                        \cup {<<"pending", t>> : t \in DOMAIN pending[k]}
           items(b) == IF b[1] = "completed" THEN completed[k][b[2]].items ELSE pending[k][b[2]]
       IN  /\ UNION {items(b) : b \in buckets} = heard[k] \ trimmed
           /\ \A b, d \in buckets : b # d => items(b) \cap items(d) = {}
           /\ gone > 0 => Len(completed[k]) = Keep
  /\ usage \subseteq totals /\ \A r \in totals \ usage : r[1] \in cut

\* As long as no turn was cut short and no two calls overlapped, a completed turn
\* holds its own response and its own tool calls, although tool calls carry no turn
\* (metrics.py 84-102); for a case of the EvalRunner it is enough that nothing
\* overlapped with the case itself, whatever happened to the cases before.
TurnsAreOwn ==
  \A k \in Collector : Undisturbed(k) =>
    \A i \in DOMAIN completed[k] :
      LET turnOf(x) == <<x[1], x[2]>>
          entry == completed[k][i]
      IN  entry.items = {x \in heard[k] : turnOf(x) = entry.of}

\* The metrics of a case are isolated: they hold what its own run caused, if nothing
\* else used the agent meanwhile, and nothing reaches them once the case is over
\* ("Each case gets its own fresh MetricsCollector so metrics are isolated",
\* runner.py 60, 96-143).
CasesAreIsolated ==
  /\ \A k \in Case : Undisturbed(k) => \A x \in heard[k] : x[1] = k
  /\ attached = {Agent} \cup {c \in Case : pc[c] \notin Idle}

\* No span is ended twice or left open by a call that ran through, and without
\* overlapping calls the response that ends a span belongs to its request: the one
\* slot for the pending span suffices, also after turns that were cut short
\* (otel.py 87-141).
SpansAreOwn ==
  /\ \A e \in ended : e.span \notin open /\ \A d \in ended : d.span = e.span => d = e
  /\ overlapped = {} => \A e \in ended : e.by = e.span
  /\ overlapped = {} => \A s \in open : s[1] \in cut \/ pc[s[1]] \notin Idle
=============================================================================
