----------------------------- MODULE ModelStream -----------------------------
(***************************************************************************)
(* DefaultModelGateway.stream: an asynchronous generator that admits,      *)
(* times and retries like complete (ModelGateway), reads the chunks of the *)
(* provider's iterator and yields them on to its consumer, who may stop at *)
(* any of them.                                                            *)
(*                                                                         *)
(* The provider's iterator is external: it yields chunks, ends, raises, or *)
(* never answers, and closing it takes time and may fail.  Chunks are told *)
(* apart by what the gateway tells apart in them.                          *)
(***************************************************************************)
EXTENDS ModelGateway

CONSTANTS
  FirstByteTimeout, \* stream_first_byte_timeout_seconds
  IdleTimeout,      \* stream_idle_timeout_seconds
  Chunks,           \* the provider chunks of an instance
  MaxChunks         \* bound: chunks one attempt may read

\* yields: what the chunk makes the gateway yield, in this order; conflict: then
\* comes a fragment that contradicts its tool call; structured: it has a payload.
ProviderChunk ==
  [yields : {<<>>, <<"text">>, <<"tool">>, <<"usage">>, <<"text", "tool">>,
             <<"text", "usage">>, <<"tool", "usage">>, <<"text", "tool", "usage">>},
   conflict : {FALSE}, structured : BOOLEAN]
    \cup
  [yields : {<<>>, <<"text">>}, conflict : {TRUE}, structured : {FALSE}]

ASSUME StreamAssumption ==
  /\ FirstByteTimeout \in Nat \ {0} /\ IdleTimeout \in Nat \ {0} /\ MaxChunks \in Nat
  /\ Chunks \subseteq ProviderChunk
  /\ Limited \cup Secret \subseteq Targets

VARIABLES
  out,      \* out[c]: what the consumer of the stream was given
  part,     \* part[c]: what its attempt has collected
  iterator  \* iterator[c]: the target whose iterator is open, or None

streamVars == <<gatewayVars, out, part, iterator>>

Visible == {"text", "tool"}

Nothing == [visible |-> FALSE, read |-> 0, pending |-> <<>>, broken |-> FALSE,
            text |-> 0, tools |-> 0, structured |-> FALSE]

\* visible belongs to the call, the rest to its attempt.
Restarted(x) == [Nothing EXCEPT !.visible = x.visible]

\* A chunk of the gateway; sequence is its place in out.
Yielded(c, kind) == Append(out[c], [kind |-> kind, attempt |-> Len(call[c].tried) + 1])

\* The stream ends with a chunk of its own.
EndWithChunk(c, kind, reply) ==
  /\ out' = [out EXCEPT ![c] = Yielded(c, kind)]
  /\ End(c, reply)

\* stream is iterated for the first time.
BeginStream(c) ==
  /\ Begin(c)
  /\ out' = [out EXCEPT ![c] = <<>>]
  /\ part' = [part EXCEPT ![c] = Nothing]
  /\ UNCHANGED iterator

\* Steps that streams have in common with complete.
SharedProceeds(c) == (AskBreaker(c) \/ AskSecret(c)) /\ UNCHANGED <<out, part, iterator>>
SharedFires(c) == Fires(c) /\ UNCHANGED <<out, part, iterator>>
SharedArrives(c) ==
  /\ TokenGranted(c) \/ SecretResolved(c) \/ Cancel(c)
  /\ UNCHANGED <<out, part, iterator>>

\* An attempt begins with empty buffers.
AdmitStream(c) ==
  /\ Admission(c)
  /\ part' = [part EXCEPT ![c] = Restarted(@)]
  /\ UNCHANGED <<out, iterator>>
-----------------------------------------------------------------------------
(***************************************************************************)
(* Reading and yielding.                                                   *)
(***************************************************************************)
\* provider.stream() makes the iterator, or raises; its first anext calls the provider.
OpenStream(c) ==
  /\ running = c /\ call[c].pc = "call"
  /\ \/ /\ Continue(c, "read")
        /\ iterator' = [iterator EXCEPT ![c] = TargetOf(c)]
     \/ /\ \E code \in Raised : Break(c, code)
        /\ UNCHANGED iterator
  /\ UNCHANGED <<breakers, invoked, out, part>>

\* The next chunk is awaited, for the first one or any other as long as remains.
Read(c) ==
  LET limit == IF part[c].read = 0 THEN FirstByteTimeout ELSE IdleTimeout
  IN /\ running = c /\ call[c].pc = "read"
     /\ IF DeadlinePassed(c)
        THEN /\ call' = [call EXCEPT ![c].pc = "close", ![c].code = "timeout"]
             /\ UNCHANGED <<running, invoked>>
        ELSE /\ Wait(c, "chunk", Lesser(limit, call[c].left))
             /\ invoked' = invoked \cup {TargetOf(c)}
     /\ UNCHANGED <<breakers, out, part, iterator>>

\* The try block around the iterator is left, with an error or with None.
LeaveWith(c, code) ==
  /\ call' = [call EXCEPT ![c].pc = "close", ![c].code = code]
  /\ running' = c

\* A chunk arrives.  What is visible in it counts before it is yielded.
ReceiveChunk(c) ==
  /\ running = None /\ call[c].pc = "chunk"
  /\ part[c].read < MaxChunks
  /\ \E chunk \in Chunks :
       part' = [part EXCEPT
                  ![c].visible = \/ @ \/ chunk.conflict
                                 \/ \E i \in DOMAIN chunk.yields : chunk.yields[i] \in Visible,
                  ![c].read = @ + 1,
                  ![c].pending = chunk.yields,
                  ![c].broken = chunk.conflict \/ (chunk.structured /\ part[c].structured),
                  ![c].structured = @ \/ chunk.structured]
  /\ Continue(c, "emit")
  /\ UNCHANGED <<breakers, invoked, out, iterator>>

\* The iterator ends or raises.
StreamStops(c) ==
  /\ running = None /\ call[c].pc = "chunk"
  /\ \E code \in Raised \cup {None} : LeaveWith(c, code)
  /\ UNCHANGED <<breakers, invoked, out, part, iterator>>

\* MUTANT of ChunkTimesOut: only the first chunk has a timeout.
FirstByteTimesOut(c) ==
  /\ running = None /\ call[c].pc = "chunk"
  /\ call[c].due <= 0 /\ part[c].read = 0
  /\ LeaveWith(c, "timeout")
  /\ UNCHANGED <<breakers, invoked, out, part, iterator>>

\* It is too slow.
ChunkTimesOut(c) ==
  /\ running = None /\ call[c].pc = "chunk"
  /\ call[c].due <= 0
  /\ LeaveWith(c, "timeout")
  /\ UNCHANGED <<breakers, invoked, out, part, iterator>>

\* Each part of a chunk is yielded, and the generator waits for its consumer:
\* no timer runs.
Emit(c) ==
  LET pending == part[c].pending
      kind == Head(pending)
  IN /\ running = c /\ call[c].pc = "emit"
     /\ IF pending = <<>>
        THEN /\ IF part[c].broken THEN LeaveWith(c, "malformed_response")
                                  ELSE Continue(c, "read")
             /\ UNCHANGED <<out, part>>
        ELSE /\ out' = [out EXCEPT ![c] = Yielded(c, kind)]
             /\ part' = [part EXCEPT ![c].pending = Tail(@),
                                     ![c].text  = IF kind = "text" THEN @ + 1 ELSE @,
                                     ![c].tools = IF kind = "tool" THEN @ + 1 ELSE @]
             /\ call' = [call EXCEPT ![c].pc = "yield"]
             /\ running' = None
     /\ UNCHANGED <<breakers, invoked, iterator>>

\* The consumer asks for the next chunk.
ConsumerGoesOn(c) ==
  /\ running = None /\ call[c].pc = "yield"
  /\ Continue(c, "emit")
  /\ UNCHANGED <<breakers, invoked, out, part, iterator>>

\* MUTANT of ConsumerStops: the iterator is left to itself.
CloseIsSkipped(c) ==
  /\ running = None /\ call[c].pc \in {"yield", "chunk"}
  /\ Continue(c, "cancelled")
  /\ UNCHANGED <<breakers, invoked, out, part, iterator>>

\* It closes the generator at a yield (GeneratorExit), or its task is cancelled
\* while the generator waits for a chunk.
ConsumerStops(c) ==
  /\ running = None /\ call[c].pc \in {"yield", "chunk"}
  /\ LeaveWith(c, "cancelled")
  /\ UNCHANGED <<breakers, invoked, out, part, iterator>>
-----------------------------------------------------------------------------
(***************************************************************************)
(* Closing, and what follows.                                              *)
(***************************************************************************)
\* finally: await iterator.aclose().  No timeout bounds it.
Close(c) ==
  /\ running = c /\ call[c].pc = "close"
  /\ Wait(c, "closing", 0)
  /\ UNCHANGED <<breakers, invoked, out, part, iterator>>

\* It is closed, or closing it raises, and then this error counts; the task may be
\* cancelled meanwhile.  An error also replaces the GeneratorExit of a consumer that
\* closes its stream.  Python refuses what such a stream yields then; in the model
\* its consumer is given it, and may go on or stop once more.
IteratorClosed(c) ==
  /\ running = None /\ call[c].pc = "closing"
  /\ iterator' = [iterator EXCEPT ![c] = None]
  /\ \E code \in Raised \cup {call[c].code, "cancelled"} :
       call' = [call EXCEPT ![c].code = code,
                            ![c].pc = IF code = "cancelled" THEN "cancelled"
                                      ELSE IF code = None THEN "build" ELSE "failed"]
  /\ running' = c
  /\ UNCHANGED <<breakers, invoked, out, part>>

\* MUTANT of ReleaseProbe: only errors are told to the breaker.
ProbeIsForgotten(c) ==
  /\ running = c /\ call[c].pc = "cancelled"
  /\ End(c, Reply("cancelled", "cancelled", Tried(c, "cancelled", "cancelled")))
  /\ UNCHANGED <<breakers, invoked, out, part, iterator>>

\* except (CancelledError, GeneratorExit).
ReleaseProbe(c) ==
  /\ running = c /\ call[c].pc = "cancelled"
  /\ breakers' = [breakers EXCEPT ![TargetOf(c)] = RecordCancelled(@)]
  /\ End(c, Reply("cancelled", "cancelled", Tried(c, "cancelled", "cancelled")))
  /\ UNCHANGED <<invoked, out, part, iterator>>

\* Tool calls are assembled and the response is built of what was collected: it
\* has some content, not of two kinds that exclude each other; whether it is what
\* the request asked for is not modelled.
Usable(x) == /\ x.text > 0 \/ x.tools > 0 \/ x.structured
             /\ ~(x.tools > 0 /\ x.structured)

Build(c) ==
  LET tried == Tried(c, "succeeded", None)
  IN /\ running = c /\ call[c].pc = "build"
     /\ \/ /\ Usable(part[c])
           /\ breakers' = [breakers EXCEPT ![TargetOf(c)] = RecordSuccess(@)]
           /\ EndWithChunk(c, "terminal",
                           [kind |-> "response", code |-> None, tried |-> tried,
                            text |-> part[c].text])
        \/ /\ \E code \in {"malformed_response", "structured_output_invalid", "unknown"} :
                Break(c, code)
           /\ UNCHANGED <<breakers, out>>
     /\ UNCHANGED <<invoked, part, iterator>>

\* MUTANT of FailStream: what was shown already does not matter.
ShownIsForgotten(c) ==
  LET code == call[c].code
      tried == Tried(c, "failed", code)
  IN /\ running = c /\ call[c].pc = "failed"
     /\ breakers' = IF call[c].admitted
                    THEN [breakers EXCEPT ![TargetOf(c)] = RecordFailure(@, code)] ELSE breakers
     /\ IF code \in Retryable /\ call[c].retry < MaxRetries
        THEN BackOff(c, tried) ELSE FallBack(c, code, tried)
     /\ UNCHANGED <<invoked, out, part, iterator>>

\* MUTANT of FailStream: the error is raised, however much was shown.
ErrorsAreRaised(c) ==
  LET code == call[c].code
      tried == Tried(c, "failed", code)
  IN /\ running = c /\ call[c].pc = "failed"
     /\ breakers' = IF call[c].admitted
                    THEN [breakers EXCEPT ![TargetOf(c)] = RecordFailure(@, code)] ELSE breakers
     /\ IF code \in Retryable /\ call[c].retry < MaxRetries /\ ~part[c].visible
        THEN BackOff(c, tried)
        ELSE IF part[c].visible THEN Raise(c, code, tried) ELSE FallBack(c, code, tried)
     /\ UNCHANGED <<invoked, out, part, iterator>>

\* record_failure and the record of the attempt.  Once something is visible the
\* error is the last chunk; before, it is handled as in complete.
FailStream(c) ==
  LET code == call[c].code
      tried == Tried(c, "failed", code)
  IN /\ running = c /\ call[c].pc = "failed"
     /\ breakers' = IF call[c].admitted
                    THEN [breakers EXCEPT ![TargetOf(c)] = RecordFailure(@, code)]
                    ELSE breakers
     /\ IF part[c].visible
        THEN EndWithChunk(c, "error", Reply("raised", code, tried))
        ELSE /\ IF code \in Retryable /\ call[c].retry < MaxRetries
                THEN BackOff(c, tried)
                ELSE FallBack(c, code, tried)
             /\ UNCHANGED out
     /\ UNCHANGED <<invoked, part, iterator>>
-----------------------------------------------------------------------------
StreamTick == Tick /\ UNCHANGED <<out, part, iterator>>

StreamInit ==
  /\ GatewayInit
  /\ out = [c \in Callers |-> <<>>]
  /\ part = [c \in Callers |-> Nothing]
  /\ iterator = [c \in Callers |-> None]

\* What the event loop, or a consumer that is there, goes on with.
StreamProceeds(c) ==
  \/ AdmitStream(c) \/ OpenStream(c) \/ Read(c) \/ Emit(c)
  \/ Close(c) \/ IteratorClosed(c) \/ ReleaseProbe(c) \/ Build(c) \/ FailStream(c)

ConsumerMoves(c) == ConsumerGoesOn(c) \/ ConsumerStops(c)

StreamNext ==
  \/ \E c \in Callers :
       \/ BeginStream(c) \/ SharedProceeds(c) \/ SharedFires(c) \/ SharedArrives(c)
       \/ StreamProceeds(c)
       \/ ReceiveChunk(c) \/ StreamStops(c) \/ ChunkTimesOut(c) \/ ConsumerMoves(c)
  \/ StreamTick

StreamSpec == StreamInit /\ [][StreamNext]_streamVars

\* What is ready, or becomes so for a waiting stream: its timer is due, its consumer
\* goes on or closes it, its iterator gets closed.
IsReady(c) ==
  \/ StreamProceeds(c) \/ SharedProceeds(c) \/ SharedFires(c)
  \/ ChunkTimesOut(c)
  \/ call[c].pc = "yield" /\ ConsumerMoves(c)

\* As in ModelGateway; besides, closing an iterator comes to an end (nothing in the
\* code bounds it), and a consumer goes on or closes its stream.
StreamFairness == (\A c \in Callers : SF_streamVars(IsReady(c))) /\ SF_streamVars(StreamTick)

FairStreamSpec == StreamSpec /\ StreamFairness
-----------------------------------------------------------------------------
(***************************************************************************)
(* Properties.                                                             *)
(***************************************************************************)
AttemptNumber(c) == IF call[c].reply = None THEN Len(call[c].tried) + 1
                    ELSE Len(call[c].reply.tried)

Reading == {"read", "chunk", "emit", "yield", "close", "closing"}

\* Nothing a consumer has seen is shown again, and nothing of it is lost: after the
\* first visible chunk there is no other attempt, in whatever way this one ends
\* (visible, stream), and the response of a terminal chunk has the text that was
\* shown, all of it and no more.
Count(c, kind) == Cardinality({i \in DOMAIN out[c] : out[c][i].kind = kind})
NothingIsReplayed ==
  \A c \in Callers :
    /\ \A i \in DOMAIN out[c] :
         out[c][i].kind \in Visible => out[c][i].attempt = AttemptNumber(c)
    /\ (call[c].reply # None /\ call[c].reply.kind = "response") =>
         call[c].reply.text = Count(c, "text")

\* A consumer that stays learns how its stream ended: by one last chunk once
\* anything was visible, and nothing follows that chunk (FR-004).
StreamEndsOnce ==
  \A c \in Callers :
    /\ \A i \in DOMAIN out[c] : out[c][i].kind \in {"terminal", "error"} =>
         /\ i = Len(out[c]) /\ call[c].pc = "idle"
    /\ (call[c].reply # None /\ call[c].reply.kind = "raised"
          /\ \E i \in DOMAIN out[c] : out[c][i].kind \in Visible) =>
         out[c][Len(out[c])].kind = "error"

\* An iterator is closed before anything else happens to its call: not when a
\* consumer stops, not between two attempts, is one left open.
IteratorsAreClosed == \A c \in Callers : iterator[c] # None => call[c].pc \in Reading

\* Every stream whose consumer is still there ends, although its provider may never
\* answer.
EveryStreamEnds == \A c \in Callers : call[c].pc # "idle" ~> call[c].pc = "idle"
=============================================================================
