------------------------------- MODULE Emitter -------------------------------
(***************************************************************************)
(* The hand-off of traced requests to the background workers               *)
(* (internal/events/emitter.go), with the three goroutines around it that  *)
(* decide what happens at shutdown: the request handlers, the goroutines   *)
(* they leave behind (go h.emitter.Emit(event)), and main, which shuts the *)
(* HTTP server down, cancels the emitter's context and waits in Stop.      *)
(*                                                                         *)
(* Go's select picks among its ready cases without preference, so a worker *)
(* whose context is cancelled may still take the receive case.             *)
(***************************************************************************)
EXTENDS Naturals, Sequences, Functions

CONSTANTS
    Events,      \* the traced requests, one event each
    Workers,     \* the drain goroutines
    BufferSize,  \* capacity of the channel
    None         \* no event in a worker's hands

ASSUME EmitterAssumption ==
    /\ BufferSize \in Nat \ {0}
    /\ None \notin Events
    /\ Workers # {}

VARIABLES
    req,       \* per event, how far the request that yields it has got
    ch,        \* the buffered channel
    pc,        \* control state of each worker
    cur,       \* the event each worker is processing
    handled,   \* events whose process function has returned
    aborted,   \* those that ran into the cancelled context
    dropped,   \* events Emit found no room for
    main,      \* what main is doing
    ctxDone,   \* cancelEmitter() has been called
    verdict,   \* what Stop logged
    atCancel,  \* history: the buffer's events when the context was cancelled
    late       \* history: events buffered when every worker had exited

hist == <<atCancel, late>>
vars == <<req, ch, pc, cur, handled, aborted, dropped, main, ctxDone, verdict,
          atCancel, late>>

ReqState  == {"new", "handler", "emitting", "given"}
PcState   == {"select", "process", "drain", "drainProcess", "exited"}
MainState == {"serving", "shutdown", "cancel", "stopping", "returned", "exited"}

TypeOK ==
    /\ req \in [Events -> ReqState]
    /\ ch \in Seq(Events) /\ Len(ch) <= BufferSize
    /\ pc \in [Workers -> PcState]
    /\ cur \in [Workers -> Events \cup {None}]
    /\ handled \subseteq Events
    /\ aborted \subseteq handled
    /\ dropped \subseteq Events
    /\ main \in MainState
    /\ ctxDone \in BOOLEAN
    /\ verdict \in {"none", "clean", "timeout"}
    /\ atCancel \subseteq Events
    /\ late \subseteq Events

Buffered == Range(ch)
Held     == {cur[w] : w \in Workers} \ {None}
Given    == {e \in Events : req[e] = "given"}
AllExited == \A w \in Workers : pc[w] = "exited"
\* The goroutines die with the process.
Running  == main # "exited"

Init ==
    /\ req = [e \in Events |-> "new"]
    /\ ch = <<>>
    /\ pc = [w \in Workers |-> "select"]
    /\ cur = [w \in Workers |-> None]
    /\ handled = {}
    /\ aborted = {}
    /\ dropped = {}
    /\ main = "serving"
    /\ ctxDone = FALSE
    /\ verdict = "none"
    /\ atCancel = {}
    /\ late = {}

-----------------------------------------------------------------------------
(* The request handlers and the goroutines they spawn.                     *)

\* The listener accepts a request as long as srv.Shutdown has not closed it.
Arrive(e) ==
    /\ main = "serving"
    /\ req[e] = "new"
    /\ req' = [req EXCEPT ![e] = "handler"]
    /\ UNCHANGED <<ch, pc, cur, handled, aborted, dropped, main, ctxDone, verdict, hist>>

\* The handler has answered its client: it spawns the Emit goroutine and returns.
SpawnEmit(e) ==
    /\ Running
    /\ req[e] = "handler"
    /\ req' = [req EXCEPT ![e] = "emitting"]
    /\ UNCHANGED <<ch, pc, cur, handled, aborted, dropped, main, ctxDone, verdict, hist>>

\* Mutant: no capacity check.
EmitWithoutCapacity(e) ==
    /\ Running
    /\ req[e] = "emitting"
    /\ req' = [req EXCEPT ![e] = "given"]
    /\ ch' = Append(ch, e)
    /\ late' = IF AllExited THEN late \cup {e} ELSE late
    /\ UNCHANGED <<dropped, pc, cur, handled, aborted, main, ctxDone, verdict, atCancel>>

\* Emit never blocks: it sends if the channel has room and drops otherwise.
Emit(e) ==
    /\ Running
    /\ req[e] = "emitting"
    /\ req' = [req EXCEPT ![e] = "given"]
    /\ \/ /\ Len(ch) < BufferSize
          /\ ch' = Append(ch, e)
          /\ late' = IF AllExited THEN late \cup {e} ELSE late
          /\ UNCHANGED dropped
       \/ /\ Len(ch) = BufferSize
          /\ dropped' = dropped \cup {e}
          /\ UNCHANGED <<ch, late>>
    /\ UNCHANGED <<pc, cur, handled, aborted, main, ctxDone, verdict, atCancel>>

-----------------------------------------------------------------------------
(* The workers.                                                            *)

\* Mutant: the event stays in the channel.
TakeWithoutRemoving(w, from, to) ==
    /\ Running
    /\ pc[w] = from
    /\ ch # <<>>
    /\ cur' = [cur EXCEPT ![w] = Head(ch)]
    /\ pc' = [pc EXCEPT ![w] = to]
    /\ UNCHANGED <<ch, req, handled, aborted, dropped, main, ctxDone, verdict, hist>>

\* A receive from the channel, in control state from, and the call of process.
Take(w, from, to) ==
    /\ Running
    /\ pc[w] = from
    /\ ch # <<>>
    /\ cur' = [cur EXCEPT ![w] = Head(ch)]
    /\ ch' = Tail(ch)
    /\ pc' = [pc EXCEPT ![w] = to]
    /\ UNCHANGED <<req, handled, aborted, dropped, main, ctxDone, verdict, hist>>

\* The outer select's receive: process gets the emitter's own context, which
\* may be cancelled by now or later.
Receive(w) == Take(w, "select", "process")

\* The inner select's receive: process gets context.Background().
DrainReceive(w) == Take(w, "drain", "drainProcess")

\* Mutant: an error of process ends its worker and those that are idle.
ReturnExitsOnError(w) ==
    /\ Running
    /\ pc[w] \in {"process", "drainProcess"}
    /\ handled' = handled \cup {cur[w]}
    /\ pc' = [v \in Workers |-> IF v = w \/ pc[v] = "select" THEN "exited" ELSE pc[v]]
    /\ cur' = [cur EXCEPT ![w] = None]
    /\ UNCHANGED <<req, ch, aborted, dropped, main, ctxDone, verdict, hist>>

\* process returns, with an error or without (callProcess only logs it), and
\* the worker goes back to its loop.  A call made with the emitter's context
\* may be cut short once that context is cancelled.
Return(w) ==
    /\ Running
    /\ pc[w] \in {"process", "drainProcess"}
    /\ handled' = handled \cup {cur[w]}
    /\ \/ UNCHANGED aborted
       \/ /\ pc[w] = "process" /\ ctxDone
          /\ aborted' = aborted \cup {cur[w]}
    /\ pc' = [pc EXCEPT ![w] = IF pc[w] = "process" THEN "select" ELSE "drain"]
    /\ cur' = [cur EXCEPT ![w] = None]
    /\ UNCHANGED <<req, ch, dropped, main, ctxDone, verdict, hist>>

\* Mutant: no drain.
ExitOnCancel(w) ==
    /\ Running
    /\ pc[w] = "select"
    /\ ctxDone
    /\ pc' = [pc EXCEPT ![w] = "exited"]
    /\ UNCHANGED <<req, ch, cur, handled, aborted, dropped, main, ctxDone, verdict, hist>>

\* The outer select's ctx.Done() case.
ObserveCancel(w) ==
    /\ Running
    /\ pc[w] = "select"
    /\ ctxDone
    /\ pc' = [pc EXCEPT ![w] = "drain"]
    /\ UNCHANGED <<req, ch, cur, handled, aborted, dropped, main, ctxDone, verdict, hist>>

\* The inner select's default: the buffer is empty, the goroutine returns.
DrainExit(w) ==
    /\ Running
    /\ pc[w] = "drain"
    /\ ch = <<>>
    /\ pc' = [pc EXCEPT ![w] = "exited"]
    /\ UNCHANGED <<req, ch, cur, handled, aborted, dropped, main, ctxDone, verdict, hist>>

-----------------------------------------------------------------------------
(* main.                                                                   *)

\* SIGINT or SIGTERM: srv.Shutdown closes the listener.
Signal ==
    /\ main = "serving"
    /\ main' = "shutdown"
    /\ UNCHANGED <<req, ch, pc, cur, handled, aborted, dropped, ctxDone, verdict, hist>>

\* srv.Shutdown returns when every handler has, or after 10 seconds.  It does
\* not know of the Emit goroutines, and main goes on after an error too.
ShutdownReturns ==
    /\ main = "shutdown"
    /\ main' = "cancel"
    /\ UNCHANGED <<req, ch, pc, cur, handled, aborted, dropped, ctxDone, verdict, hist>>

CancelEmitter ==
    /\ main = "cancel"
    /\ main' = "stopping"
    /\ ctxDone' = TRUE
    /\ atCancel' = Buffered
    /\ UNCHANGED <<req, ch, pc, cur, handled, aborted, dropped, verdict, late>>

\* Mutant: waits without bound.
StopWithoutTimeout ==
    /\ main = "stopping"
    /\ AllExited
    /\ main' = "returned"
    /\ verdict' = "clean"
    /\ UNCHANGED <<req, ch, pc, cur, handled, aborted, dropped, ctxDone, hist>>

\* Stop waits for the workers, 5 seconds at most, and says which it was.
Stop ==
    /\ main = "stopping"
    /\ main' = "returned"
    /\ \/ AllExited /\ verdict' = "clean"
       \/ verdict' = "timeout"
    /\ UNCHANGED <<req, ch, pc, cur, handled, aborted, dropped, ctxDone, hist>>

\* ListenAndServe failed: main returns at once, its deferred cancelEmitter runs
\* and nobody calls Stop.
ServerFails ==
    /\ main = "serving"
    /\ main' = "returned"
    /\ ctxDone' = TRUE
    /\ atCancel' = Buffered
    /\ UNCHANGED <<req, ch, pc, cur, handled, aborted, dropped, verdict, late>>

\* The deferred calls are done: the process ends with whatever is left.
Exit ==
    /\ main = "returned"
    /\ main' = "exited"
    /\ UNCHANGED <<req, ch, pc, cur, handled, aborted, dropped, ctxDone, verdict, hist>>

-----------------------------------------------------------------------------
Request(e) == Arrive(e) \/ SpawnEmit(e) \/ Emit(e)
Loop(w)    == Receive(w) \/ DrainReceive(w) \/ ObserveCancel(w) \/ DrainExit(w)
Shutdown   == ShutdownReturns \/ CancelEmitter \/ Stop \/ Exit

Next ==
    \/ \E e \in Events : Request(e)
    \/ \E w \in Workers : Loop(w) \/ Return(w)
    \/ Shutdown
    \/ Signal
    \/ ServerFails

\* The Go scheduler runs every runnable goroutine, and main's waits end by
\* their own timeouts.  Nothing makes a request arrive, a handler finish, a
\* signal come or a process function return.
Fairness ==
    /\ \A e \in Events : WF_vars(Emit(e))
    /\ \A w \in Workers : WF_vars(Loop(w))
    /\ WF_vars(Shutdown)

Spec == Init /\ [][Next]_vars
FairSpec == Spec /\ Fairness

-----------------------------------------------------------------------------
(* Properties.                                                             *)

\* Every event Emit was called with is in exactly one place: in one slot of
\* the channel, in one worker's hands, handled, or dropped.  In particular no
\* event is processed twice and none disappears while the process runs,
\* whatever the interleaving of Emit, the workers and the shutdown.
ExactlyOnePlace ==
    /\ IsInjective(ch)
    /\ \A w, v \in Workers : cur[w] = cur[v] /\ cur[w] # None => w = v
    /\ Buffered \cap Held = {}
    /\ (Buffered \cup Held) \cap (handled \cup dropped) = {}
    /\ handled \cap dropped = {}
    /\ Given = Buffered \cup Held \cup handled \cup dropped

\* The drain of runWorker is complete.  Once every worker has exited, the only
\* events left in the channel are those that Emit sent after the last worker
\* found it empty; and "emitter stopped cleanly" is only logged when every event
\* buffered at the cancellation has been through the process function.
OnlyLateEventsStranded == AllExited => Buffered \subseteq late
CleanStopHandledAll    == verdict = "clean" => atCancel \subseteq handled
DrainIsComplete        == OnlyLateEventsStranded /\ CleanStopHandledAll

\* The documented purpose of the drain (the comment of runWorker, "drains any
\* remaining buffered events / using a fresh background context so process
\* functions can still complete"): when the stop is logged as clean, no event
\* that was buffered at the cancellation has run into the cancelled context.
BufferedEventsSurviveCancel == verdict = "clean" => atCancel \cap aborted = {}

\* As long as process functions return, an event in the channel is eventually
\* handled, unless it came after the last worker's exit or the process ended
\* first: no error of process, and no order of takes, starves it.
ProcessReturns == \A w \in Workers : WF_vars(Return(w))
BufferedIsHandled ==
    ProcessReturns =>
        \A e \in Events : e \in Buffered ~> (e \in handled \/ e \in late \/ ~Running)

\* A signal always ends the process: no wait of the shutdown sequence is
\* unbounded, even when a process function or a handler never returns.
ShutdownEnds == main = "shutdown" ~> main = "exited"

\* The emitter implements the hand-off: the pool is closed when every worker
\* has exited, and what was accepted after that is stranded.
H == INSTANCE Handoff WITH
        backlog  <- (Buffered \ late) \cup Held,
        finished <- handled,
        stranded <- late,
        closed   <- AllExited
ImplementsHandoff == H!HSpec
=============================================================================
