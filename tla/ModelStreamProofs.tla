--------------------------- MODULE ModelStreamProofs ---------------------------
(***************************************************************************)
(* What stream promises, for any callers, providers, chunks and consumers. *)
(*                                                                         *)
(* What a call does between two chunks it does as complete does: its calls *)
(* keep GatewayInv.  StreamCall adds what its consumer was given: only the *)
(* attempt under way has shown anything, and what it collected of text is  *)
(* what it showed.                                                         *)
(***************************************************************************)
EXTENDS ModelStream, ModelGatewayProofs

Pieces == {"text", "tool", "usage"}

Parts == [visible : BOOLEAN, read : Nat, pending : Seq(Pieces), broken : BOOLEAN,
          text : Nat, tools : Nat, structured : BOOLEAN]

Shown == [kind : Pieces \cup {"terminal", "error"}, attempt : Nat]

\* The phases in which its attempt has no chunk yet, and all phases of a stream.
Early == CompletePhases \ {"idle", "failed"}
StreamPhases == CompletePhases \cup Reading \cup {"cancelled", "build"}

CountIn(o, kind) == Cardinality({i \in DOMAIN o : o[i].kind = kind})

\* A call x, what its consumer was given, what its attempt has collected, its iterator.
\* A call that has ended keeps what it was given, and its answer speaks of it.
StreamCall(x, o, p, it) ==
  /\ x.pc \in StreamPhases
  /\ it # None => x.pc \in Reading
  /\ x.pc # "idle" =>
       /\ \A i \in DOMAIN o : o[i].kind \in Pieces
       /\ \A i \in DOMAIN o : o[i].kind \in Visible =>
            p.visible /\ o[i].attempt = Len(x.tried) + 1
       /\ \A i \in DOMAIN p.pending : p.pending[i] \in Visible => p.visible
       /\ p.text = CountIn(o, "text")
       /\ x.pc \in Early => ~p.visible
  /\ x.pc = "idle" =>
       /\ \A i \in DOMAIN o : o[i].kind \notin Pieces => i = Len(o)
       /\ \A i \in DOMAIN o : o[i].kind \in Visible =>
            x.reply # None /\ o[i].attempt = Len(x.reply.tried)
       /\ x.reply # None /\ x.reply.kind = "response" => x.reply.text = CountIn(o, "text")
       /\ (/\ x.reply # None /\ x.reply.kind = "raised"
           /\ \E i \in DOMAIN o : o[i].kind \in Visible) => o[Len(o)].kind = "error"

StreamInv ==
  /\ GatewayInv
  /\ out \in [Callers -> Seq(Shown)]
  /\ part \in [Callers -> Parts]
  /\ iterator \in [Callers -> Targets \cup {None}]
  /\ \A c \in Callers : StreamCall(call[c], out[c], part[c], iterator[c])

(***************************************************************************)
(* Counting, and streams that move alone.                                  *)
(***************************************************************************)
\* One more chunk counts for its kind and for no other.
LEMMA CountAppend ==
  ASSUME NEW o \in Seq(Shown), NEW y \in Shown, NEW kind
  PROVE  /\ y.kind = kind => CountIn(Append(o, y), kind) = CountIn(o, kind) + 1
         /\ y.kind # kind => CountIn(Append(o, y), kind) = CountIn(o, kind)
         /\ CountIn(o, kind) \in Nat
<1> DEFINE more == Append(o, y)
           Is(q) == {i \in DOMAIN q : q[i].kind = kind}
<1>1. /\ Len(o) \in Nat /\ more \in Seq(Shown) /\ Len(more) = Len(o) + 1
      /\ \A i \in 1 .. Len(o) : more[i] = o[i]
      /\ more[Len(o) + 1] = y
  OBVIOUS
<1> HIDE DEF more
<1>2. DOMAIN more = 1 .. Len(o) + 1 /\ DOMAIN o = 1 .. Len(o)
  BY <1>1
<1>3. IsFiniteSet(Is(o)) /\ Cardinality(Is(o)) \in Nat
  <2>1. Is(o) \in SUBSET (1 .. Len(o)) /\ IsFiniteSet(1 .. Len(o))
    BY <1>1, <1>2, FS_Interval
  <2> QED BY <2>1, FS_Subset, FS_CardinalityType
<1>4. CASE y.kind = kind
  <2>1. Is(more) = Is(o) \cup {Len(o) + 1} /\ Len(o) + 1 \notin Is(o)
    BY <1>1, <1>2, <1>4
  <2>2. Cardinality(Is(more)) = Cardinality(Is(o)) + 1
    BY <1>3, <2>1, FS_AddElement
  <2> QED BY <1>3, <1>4, <2>2 DEF CountIn, more
<1>5. CASE y.kind # kind
  <2>1. Is(more) = Is(o)
    BY <1>1, <1>2, <1>5
  <2> QED BY <1>3, <1>5, <2>1 DEF CountIn, more
<1> QED BY <1>4, <1>5

\* Where nothing visible was given there is no text.
LEMMA NothingShown ==
  ASSUME NEW o, \A i \in DOMAIN o : o[i].kind \notin Visible
  PROVE  CountIn(o, "text") = 0
<1>1. {i \in DOMAIN o : o[i].kind = "text"} = {}
  BY DEF Visible
<1> QED BY <1>1, FS_EmptySet DEF CountIn

\* A stream that moves leaves the others as they are.
LEMMA StreamMoves ==
  ASSUME StreamInv, NEW c \in Callers, GatewayInv',
         NEW o \in Seq(Shown), NEW p \in Parts, NEW it \in Targets \cup {None},
         out' = [out EXCEPT ![c] = o], part' = [part EXCEPT ![c] = p],
         iterator' = [iterator EXCEPT ![c] = it],
         \A d \in Callers \ {c} : call'[d] = call[d],
         StreamCall(call'[c], o, p, it)
  PROVE  StreamInv'
<1>1. /\ out' \in [Callers -> Seq(Shown)] /\ part' \in [Callers -> Parts]
      /\ iterator' \in [Callers -> Targets \cup {None}]
      /\ out'[c] = o /\ part'[c] = p /\ iterator'[c] = it
      /\ \A d \in Callers \ {c} :
           out'[d] = out[d] /\ part'[d] = part[d] /\ iterator'[d] = iterator[d]
  BY DEF StreamInv
<1>2. \A d \in Callers : StreamCall(call'[d], out'[d], part'[d], iterator'[d])
  BY <1>1 DEF StreamInv
<1> QED BY <1>1, <1>2 DEF StreamInv

\* What a stream has of its own.
LEMMA StreamFacts ==
  ASSUME StreamInv, NEW c \in Callers
  PROVE  /\ GatewayInv /\ call \in [Callers -> Calls] /\ call[c] \in Calls
         /\ CallStands(call[c]) /\ call[c].tried \in Seq(Attempts)
         /\ Len(call[c].tried) \in Nat /\ call[c].code \in Codes \cup {None}
         /\ out[c] \in Seq(Shown) /\ part[c] \in Parts /\ iterator[c] \in Targets \cup {None}
         /\ out = [out EXCEPT ![c] = out[c]] /\ part = [part EXCEPT ![c] = part[c]]
         /\ iterator = [iterator EXCEPT ![c] = iterator[c]]
         /\ StreamCall(call[c], out[c], part[c], iterator[c])
<1>1. /\ GatewayInv /\ call \in [Callers -> Calls] /\ call[c] \in Calls /\ CallStands(call[c])
      /\ out \in [Callers -> Seq(Shown)] /\ part \in [Callers -> Parts]
      /\ iterator \in [Callers -> Targets \cup {None}]
      /\ StreamCall(call[c], out[c], part[c], iterator[c])
  BY WhoRuns DEF StreamInv, GatewayInv
<1>2. call[c].tried \in Seq(Attempts) /\ call[c].code \in Codes \cup {None}
  BY <1>1 DEF Calls
<1>3. Len(call[c].tried) \in Nat
  BY <1>2
<1>4. /\ out = [out EXCEPT ![c] = out[c]] /\ part = [part EXCEPT ![c] = part[c]]
      /\ iterator = [iterator EXCEPT ![c] = iterator[c]]
  BY <1>1
<1> QED BY <1>1, <1>2, <1>3, <1>4

\* An attempt that begins has collected nothing, and nothing becomes visible by it.
LEMMA RestartedFacts ==
  /\ Nothing \in Parts /\ ~Nothing.visible /\ Nothing.pending = <<>> /\ Nothing.text = 0
  /\ \A p \in Parts :
       /\ Restarted(p) \in Parts /\ Restarted(p).visible = p.visible
       /\ Restarted(p).pending = <<>> /\ Restarted(p).text = 0
<1>1. Nothing \in Parts /\ ~Nothing.visible /\ Nothing.pending = <<>> /\ Nothing.text = 0
  BY DEF Nothing, Parts
<1>2. ASSUME NEW p \in Parts
      PROVE  /\ Restarted(p) \in Parts /\ Restarted(p).visible = p.visible
             /\ Restarted(p).pending = <<>> /\ Restarted(p).text = 0
  BY <1>1, <1>2 DEF Restarted, Parts
<1> QED BY <1>1, <1>2

\* A call without a chunk, at rest or not, moves as one of complete does.
LEMMA QuietMoves ==
  ASSUME StreamInv, NEW c \in Callers, GatewayInv', MovesAlone(c), Unanswered(c),
         call[c].pc \in Early \/ (call[c].pc = "failed" /\ ~part[c].visible),
         UNCHANGED <<out, iterator>>,
         part' = part \/ part' = [part EXCEPT ![c] = Restarted(part[c])]
  PROVE  StreamInv'
<1> DEFINE x == call[c]
           o == out[c]
           p == part'[c]
<1>1. /\ StreamCall(x, o, part[c], iterator[c]) /\ o \in Seq(Shown) /\ part[c] \in Parts
      /\ out = [out EXCEPT ![c] = o] /\ iterator = [iterator EXCEPT ![c] = iterator[c]]
      /\ part = [part EXCEPT ![c] = part[c]] /\ iterator[c] \in Targets \cup {None}
      /\ part \in [Callers -> Parts]
  BY StreamFacts DEF StreamInv
<1>2. x.pc \notin Reading /\ x.pc # "idle" /\ ~part[c].visible
  BY <1>1 DEF Early, CompletePhases, Suspended, Reading, StreamCall
<1>3. /\ \A i \in DOMAIN o : o[i].kind \in Pieces /\ o[i].kind \notin Visible
      /\ iterator[c] = None /\ part[c].text = CountIn(o, "text") /\ CountIn(o, "text") = 0
      /\ \A i \in DOMAIN part[c].pending : part[c].pending[i] \notin Visible
  BY <1>1, <1>2, NothingShown DEF StreamCall
<1>4. /\ p \in Parts /\ part' = [part EXCEPT ![c] = p] /\ ~p.visible /\ p.text = 0
      /\ \A i \in DOMAIN p.pending : p.pending[i] \notin Visible
  <2>1. CASE part' = part
    BY <1>1, <1>2, <1>3, <2>1
  <2>2. CASE part' = [part EXCEPT ![c] = Restarted(part[c])]
    <3>1. /\ Restarted(part[c]) \in Parts /\ ~Restarted(part[c]).visible
          /\ Restarted(part[c]).text = 0 /\ Restarted(part[c]).pending = <<>>
      BY <1>1, <1>2, RestartedFacts
    <3>2. p = Restarted(part[c])
      BY <1>1, <2>2
    <3>3. p \in Parts /\ part' = [part EXCEPT ![c] = p] /\ ~p.visible /\ p.text = 0
      BY <2>2, <3>1, <3>2
    <3>4. p.pending = <<>>
      BY <3>1, <3>2
    <3> HIDE DEF p
    <3> QED BY <3>3, <3>4
  <2> QED BY <2>1, <2>2
<1> HIDE DEF p
<1>5. call'[c].pc \in CompletePhases /\ call'[c].pc \in StreamPhases
  BY DEF MovesAlone, StreamPhases
<1>6. StreamCall(call'[c], o, p, iterator[c])
  BY <1>3, <1>4, <1>5 DEF StreamCall, Unanswered
<1>7. \A d \in Callers \ {c} : call'[d] = call[d]
  BY DEF MovesAlone
<1> QED BY <1>1, <1>4, <1>6, <1>7, StreamMoves

\* A stream whose buffers stay as they are goes on to a phase of its own.
LEMMA OwnPhase ==
  ASSUME StreamInv, NEW c \in Callers, GatewayInv', call[c].pc # "idle",
         NEW q \in (Reading \cup {"cancelled", "build", "failed"}),
         NEW it \in Targets \cup {None}, it # None => q \in Reading,
         call'[c].pc = q, call'[c].tried = call[c].tried,
         \A d \in Callers \ {c} : call'[d] = call[d],
         UNCHANGED <<out, part>>, iterator' = [iterator EXCEPT ![c] = it]
  PROVE  StreamInv'
<1>1. /\ StreamCall(call[c], out[c], part[c], iterator[c])
      /\ out[c] \in Seq(Shown) /\ part[c] \in Parts
      /\ out = [out EXCEPT ![c] = out[c]] /\ part = [part EXCEPT ![c] = part[c]]
  BY StreamFacts
<1>2. q \in StreamPhases /\ q # "idle" /\ q \notin Early
  BY DEF StreamPhases, CompletePhases, Suspended, Reading, Early
<1>3. StreamCall(call'[c], out[c], part[c], it)
  BY <1>1, <1>2 DEF StreamCall
<1> QED BY <1>1, <1>3, StreamMoves

\* The ways of going on change neither what was tried nor another call.
LEMMA GoingOn ==
  ASSUME StreamInv, NEW c \in Callers, NEW q, NEW e, NEW due,
         \/ Continue(c, q) \/ Wait(c, q, due) \/ (Break(c, e) /\ q = "failed")
         \/ (LeaveWith(c, e) /\ q = "close")
         \/ call' = [call EXCEPT ![c].pc = q, ![c].code = e]
         \/ call' = [call EXCEPT ![c].code = e, ![c].pc = q]
         \/ call' = [call EXCEPT ![c].pc = q]
  PROVE  /\ call'[c].pc = q /\ call'[c].tried = call[c].tried
         /\ \A d \in Callers \ {c} : call'[d] = call[d]
<1>1. call \in [Callers -> Calls] /\ call[c] \in Calls
  BY StreamFacts
<1> QED BY <1>1 DEF Continue, Wait, Break, LeaveWith, Calls

\* A stream leaves its iterator, with an error or without.
LEMMA LeaveMoves ==
  ASSUME StreamInv, NEW c \in Callers, NEW e \in Codes \cup {None},
         call[c].pc \in Reading,
         call' = [call EXCEPT ![c].pc = "close", ![c].code = e],
         running \in {None, c}, running' = c,
         UNCHANGED <<breakers, invoked, out, part, iterator>>
  PROVE  StreamInv'
<1>1. /\ call[c] \in Calls /\ call[c].due \in Int /\ call[c].admitted /\ GatewayInv
      /\ call[c].pc \notin {"idle", "backoff"} /\ invoked' \subseteq Targets
  BY StreamFacts, WhoRuns DEF CallStands, Reading, Holding
<1>2. call' = [call EXCEPT ![c] = [@ EXCEPT !.pc = "close", !.due = call[c].due, !.code = e]]
  BY <1>1 DEF GatewayInv, Calls
<1>3. /\ "close" \in Phases \ {"idle", "backoff"} /\ "close" \notin Waiting
      /\ "close" \notin Unadmitted \cup Timed /\ "close" \in Reading
  BY DEF Phases, Holding, Waiting, Timed, Suspended, Unadmitted, Reading
<1>4. GatewayInv'
  BY <1>1, <1>2, <1>3, PhaseMoves
<1>5. iterator[c] \in Targets \cup {None} /\ iterator = [iterator EXCEPT ![c] = iterator[c]]
  BY StreamFacts
<1>6. /\ call'[c].pc = "close" /\ call'[c].tried = call[c].tried
      /\ \A d \in Callers \ {c} : call'[d] = call[d]
  BY GoingOn
<1> QED BY <1>1, <1>3, <1>4, <1>5, <1>6, OwnPhase, ZenonT(60)

(***************************************************************************)
(* One step of a stream.                                                   *)
(***************************************************************************)
LEMMA BeginStreamStep ==
  ASSUME StreamInv, NEW c \in Callers, BeginStream(c)
  PROVE  StreamInv'
<1>1. GatewayInv /\ call[c].pc = "idle" /\ Begin(c)
  BY DEF StreamInv, BeginStream, Begin
<1>2. GatewayInv' /\ MovesAlone(c) /\ Unanswered(c)
  BY <1>1, BeginStep, StepOfOne
<1>3. iterator[c] = None /\ iterator = [iterator EXCEPT ![c] = None]
  BY <1>1, StreamFacts DEF StreamCall, Reading
<1>4. /\ out' = [out EXCEPT ![c] = <<>>] /\ part' = [part EXCEPT ![c] = Nothing]
      /\ iterator' = [iterator EXCEPT ![c] = None] /\ <<>> \in Seq(Shown)
  BY <1>3 DEF BeginStream
<1>5. call'[c].pc \in CompletePhases /\ \A d \in Callers \ {c} : call'[d] = call[d]
  BY <1>2 DEF MovesAlone
<1>6. DOMAIN <<>> = {} /\ CountIn(<<>>, "text") = 0
  <2>1. \A i \in DOMAIN <<>> : <<>>[i].kind \notin Visible
    OBVIOUS
  <2> QED BY <2>1, NothingShown
<1>7. StreamCall(call'[c], <<>>, Nothing, None)
  BY <1>2, <1>5, <1>6, RestartedFacts DEF StreamCall, Unanswered, StreamPhases, Nothing
<1> QED BY <1>2, <1>4, <1>5, <1>7, RestartedFacts, StreamMoves

\* What happens before a provider is read.
LEMMA SharedStep ==
  ASSUME StreamInv, NEW c \in Callers,
         SharedProceeds(c) \/ SharedFires(c) \/ SharedArrives(c) \/ AdmitStream(c)
  PROVE  StreamInv'
<1>1. GatewayInv
  BY DEF StreamInv
<1>2. /\ \/ AskBreaker(c) \/ AskSecret(c) \/ Fires(c) \/ TokenGranted(c)
         \/ SecretResolved(c) \/ Cancel(c) \/ Admission(c)
      /\ UNCHANGED <<out, iterator>>
      /\ part' = part \/ part' = [part EXCEPT ![c] = Restarted(part[c])]
  <2>1. part \in [Callers -> Parts]
    BY DEF StreamInv
  <2> QED BY <2>1 DEF SharedProceeds, SharedFires, SharedArrives, AdmitStream
<1>3. GatewayInv'
  BY <1>1, <1>2, AskBreakerStep, AskSecretStep, TimesOutStep, WakeUpStep, TokenGrantedStep,
     SecretResolvedStep, CancelStep, AdmissionStep DEF Fires
<1>4. MovesAlone(c) /\ Unanswered(c)
  BY <1>1, <1>2, StepOfOne DEF Proceed
<1>5. call[c].pc \in Early
  BY <1>2 DEF AskBreaker, AskSecret, Fires, TimesOut, WakeUp, TokenGranted, SecretResolved,
              Cancel, Admission, Early, CompletePhases, Suspended
<1> QED BY <1>2, <1>3, <1>4, <1>5, QuietMoves

LEMMA OpenStreamStep ==
  ASSUME StreamInv, NEW c \in Callers, OpenStream(c)
  PROVE  StreamInv'
<1>1. /\ running = c /\ call[c].pc = "call" /\ GatewayInv
      /\ UNCHANGED breakers /\ invoked' \subseteq Targets /\ call[c].admitted
      /\ TargetOf(c) \in Targets /\ UNCHANGED <<out, part>>
      /\ StreamCall(call[c], out[c], part[c], iterator[c])
  BY StreamFacts, WhoRuns, TargetFacts DEF OpenStream, CallStands, Holding
<1>2. CASE Continue(c, "read") /\ iterator' = [iterator EXCEPT ![c] = TargetOf(c)]
  <2>1. /\ "read" \in Phases \ {"idle", "backoff", "failed"}
        /\ "read" \notin Waiting \cup Unadmitted /\ "read" \in Reading
    BY DEF Phases, Holding, Waiting, Timed, Suspended, Unadmitted, Reading
  <2>2. GatewayInv'
    BY <1>1, <1>2, <2>1, ContinueMoves
  <2>3. /\ call'[c].pc = "read" /\ call'[c].tried = call[c].tried
        /\ \A d \in Callers \ {c} : call'[d] = call[d]
    BY <1>2, GoingOn
  <2> QED BY <1>1, <1>2, <2>1, <2>2, <2>3, OwnPhase
<1>3. ASSUME NEW code \in Raised, Break(c, code), UNCHANGED iterator
      PROVE  StreamInv'
  <2>1. code \in Codes
    BY GatewayAssumption DEF Raised, Codes
  <2>2. GatewayInv'
    BY <1>1, <1>3, <2>1, BreakMoves
  <2>3. /\ call'[c].pc = "failed" /\ call'[c].tried = call[c].tried
        /\ \A d \in Callers \ {c} : call'[d] = call[d]
    BY <1>3, GoingOn
  <2>4. iterator[c] = None /\ iterator' = [iterator EXCEPT ![c] = None]
    BY <1>1, <1>3, StreamFacts DEF StreamCall, Reading
  <2> QED BY <1>1, <2>2, <2>3, <2>4, OwnPhase
<1> QED BY <1>2, <1>3 DEF OpenStream

LEMMA ReadStep ==
  ASSUME StreamInv, NEW c \in Callers, Read(c)
  PROVE  StreamInv'
<1> DEFINE limit == IF part[c].read = 0 THEN FirstByteTimeout ELSE IdleTimeout
           due == Lesser(limit, call[c].left)
<1>1. /\ running = c /\ call[c].pc = "read" /\ GatewayInv /\ call[c].admitted
      /\ UNCHANGED <<breakers, out, part, iterator>> /\ TargetOf(c) \in Targets
  BY StreamFacts, TargetFacts DEF Read, CallStands, Holding
<1>2. CASE DeadlinePassed(c)
  <2>1. /\ call' = [call EXCEPT ![c].pc = "close", ![c].code = "timeout"]
        /\ UNCHANGED <<running, invoked>>
    BY <1>2 DEF Read
  <2>2. "timeout" \in Codes /\ call[c].pc \in Reading
    BY <1>1 DEF Codes, Transient, Reading
  <2> QED BY <1>1, <2>1, <2>2, LeaveMoves
<1>3. CASE ~DeadlinePassed(c)
  <2>1. Wait(c, "chunk", due) /\ invoked' = invoked \cup {TargetOf(c)}
    BY <1>3 DEF Read
  <2>2. due \in Int /\ 0 <= due /\ due <= call[c].left
    BY <1>1, <1>3, WaitWhatRemains, StreamAssumption DEF Lesser, DeadlinePassed
  <2> HIDE DEF due
  <2>3. /\ "chunk" \in Waiting \ {"idle", "backoff"} /\ "chunk" \notin Unadmitted
        /\ "chunk" \in Reading
    BY DEF Waiting, Timed, Unadmitted, Reading
  <2>4. invoked' \subseteq Targets
    BY <1>1, <2>1 DEF GatewayInv
  <2>5. GatewayInv'
    BY <1>1, <2>1, <2>2, <2>3, <2>4, WaitMoves
  <2>6. /\ call'[c].pc = "chunk" /\ call'[c].tried = call[c].tried
        /\ \A d \in Callers \ {c} : call'[d] = call[d]
    BY <2>1, GoingOn
  <2>7. iterator[c] \in Targets \cup {None} /\ iterator = [iterator EXCEPT ![c] = iterator[c]]
    BY StreamFacts
  <2> QED BY <1>1, <2>3, <2>5, <2>6, <2>7, OwnPhase
<1> QED BY <1>2, <1>3

\* What is visible in a chunk counts before anything of it is yielded.
LEMMA ReceiveChunkStep ==
  ASSUME StreamInv, NEW c \in Callers, ReceiveChunk(c)
  PROVE  StreamInv'
<1> DEFINE p == part[c]
<1>1. /\ running = None /\ call[c].pc = "chunk" /\ Continue(c, "emit") /\ GatewayInv
      /\ UNCHANGED <<breakers, out, iterator>> /\ invoked' \subseteq Targets
      /\ call[c].admitted /\ p \in Parts /\ part \in [Callers -> Parts]
      /\ StreamCall(call[c], out[c], p, iterator[c])
  BY StreamFacts, WhoRuns, ZenonT(60) DEF ReceiveChunk, CallStands, Holding, StreamInv
<1>2. PICK chunk \in Chunks :
        part' = [part EXCEPT
                   ![c].visible = \/ @ \/ chunk.conflict
                                  \/ \E i \in DOMAIN chunk.yields : chunk.yields[i] \in Visible,
                   ![c].read = @ + 1,
                   ![c].pending = chunk.yields,
                   ![c].broken = chunk.conflict \/ (chunk.structured /\ part[c].structured),
                   ![c].structured = @ \/ chunk.structured]
  BY DEF ReceiveChunk
<1> DEFINE seen == \/ p.visible \/ chunk.conflict
                   \/ \E i \in DOMAIN chunk.yields : chunk.yields[i] \in Visible
           broken == chunk.conflict \/ (chunk.structured /\ p.structured)
           structured == p.structured \/ chunk.structured
           y == [p EXCEPT !.visible = seen, !.read = p.read + 1, !.pending = chunk.yields,
                          !.broken = broken, !.structured = structured]
<1>3. chunk.yields \in Seq(Pieces)
  <2>1. chunk.yields \in {<<>>, <<"text">>, <<"tool">>, <<"usage">>, <<"text", "tool">>,
                          <<"text", "usage">>, <<"tool", "usage">>,
                          <<"text", "tool", "usage">>}
    BY StreamAssumption DEF ProviderChunk
  <2>2. "text" \in Pieces /\ "tool" \in Pieces /\ "usage" \in Pieces
    BY DEF Pieces
  <2>3. /\ <<>> \in Seq(Pieces) /\ <<"text">> \in Seq(Pieces) /\ <<"tool">> \in Seq(Pieces)
        /\ <<"usage">> \in Seq(Pieces) /\ <<"text", "tool">> \in Seq(Pieces)
        /\ <<"text", "usage">> \in Seq(Pieces) /\ <<"tool", "usage">> \in Seq(Pieces)
        /\ <<"text", "tool", "usage">> \in Seq(Pieces)
    BY <2>2
  <2> QED BY <2>1, <2>3, Zenon
<1>4. part' = [part EXCEPT ![c] = y]
  BY <1>1, <1>2
<1>5. seen \in BOOLEAN /\ broken \in BOOLEAN /\ structured \in BOOLEAN
  <2>1. chunk.conflict \in BOOLEAN /\ chunk.structured \in BOOLEAN
    BY StreamAssumption DEF ProviderChunk
  <2>2. p.visible \in BOOLEAN /\ p.structured \in BOOLEAN
    BY <1>1 DEF Parts
  <2> QED BY <2>1, <2>2, Zenon
<1>6. (\E i \in DOMAIN chunk.yields : chunk.yields[i] \in Visible) => seen
  OBVIOUS
<1>7. p.visible => seen
  OBVIOUS
<1> HIDE DEF seen, broken, structured
<1>8. /\ y \in Parts /\ y.visible = seen /\ y.pending = chunk.yields /\ y.text = p.text
  <2>1. p \in Parts /\ p.read + 1 \in Nat
    BY <1>1 DEF Parts
  <2>2. y \in Parts
    BY <1>3, <1>5, <2>1, Zenon DEF Parts
  <2>3. y.visible = seen /\ y.pending = chunk.yields /\ y.text = p.text
    BY <2>1 DEF Parts
  <2> QED BY <2>2, <2>3
<1> HIDE DEF y, p
<1>9. /\ "emit" \in Phases \ {"idle", "backoff", "failed"} /\ "emit" \notin Waiting \cup Unadmitted
      /\ "emit" \in Reading /\ "emit" \in StreamPhases /\ "emit" \notin Early
  BY DEF Phases, Holding, Waiting, Timed, Suspended, Unadmitted, Reading, StreamPhases, Early,
         CompletePhases
<1>10. GatewayInv'
  BY <1>1, <1>9, ContinueMoves
<1>11. /\ call'[c].pc = "emit" /\ call'[c].tried = call[c].tried
       /\ \A d \in Callers \ {c} : call'[d] = call[d]
  BY <1>1, GoingOn
<1>12. StreamCall(call'[c], out[c], y, iterator[c])
  BY <1>1, <1>6, <1>7, <1>8, <1>9, <1>11 DEF StreamCall
<1>13. /\ out' = [out EXCEPT ![c] = out[c]] /\ iterator' = [iterator EXCEPT ![c] = iterator[c]]
       /\ out[c] \in Seq(Shown) /\ iterator[c] \in Targets \cup {None}
  BY <1>1, StreamFacts
<1> QED BY <1>4, <1>8, <1>10, <1>11, <1>12, <1>13, StreamMoves

LEMMA LeaveStep ==
  ASSUME StreamInv, NEW c \in Callers,
         StreamStops(c) \/ ChunkTimesOut(c) \/ ConsumerStops(c)
  PROVE  StreamInv'
<1>1. PICK e : /\ running = None /\ call[c].pc \in {"chunk", "yield"} /\ LeaveWith(c, e)
               /\ e \in Raised \cup {None, "timeout", "cancelled"}
               /\ UNCHANGED <<breakers, invoked, out, part, iterator>>
  BY DEF StreamStops, ChunkTimesOut, ConsumerStops
<1>2. e \in Codes \cup {None}
  <2>1. "timeout" \in Codes /\ "cancelled" \in Codes /\ Raised \subseteq Codes
    BY GatewayAssumption DEF Raised, Codes, Transient
  <2> QED BY <1>1, <2>1
<1>3. call[c].pc \in Reading
  BY <1>1 DEF Reading
<1> QED BY <1>1, <1>2, <1>3, LeaveMoves DEF LeaveWith

\* What is yielded is visible already if it is to be, and counted if it is text.
LEMMA EmitStep ==
  ASSUME StreamInv, NEW c \in Callers, Emit(c)
  PROVE  StreamInv'
<1> DEFINE p == part[c]
           x == call[c]
           kind == Head(p.pending)
<1>1. /\ running = c /\ x.pc = "emit" /\ GatewayInv /\ x \in Calls /\ x.admitted
      /\ UNCHANGED <<breakers, iterator>> /\ invoked' \subseteq Targets /\ UNCHANGED invoked
      /\ p \in Parts /\ part \in [Callers -> Parts] /\ out[c] \in Seq(Shown)
      /\ iterator[c] \in Targets \cup {None} /\ iterator = [iterator EXCEPT ![c] = iterator[c]]
      /\ StreamCall(x, out[c], p, iterator[c])
  BY StreamFacts, WhoRuns DEF Emit, CallStands, Holding, StreamInv
<1>2. CASE p.pending = <<>> /\ p.broken
  <2>1. LeaveWith(c, "malformed_response") /\ UNCHANGED <<out, part>>
    BY <1>2 DEF Emit
  <2>2. "malformed_response" \in Codes /\ x.pc \in Reading
    BY <1>1 DEF Codes, Reading
  <2> QED BY <1>1, <2>1, <2>2, LeaveMoves DEF LeaveWith
<1>3. CASE p.pending = <<>> /\ ~p.broken
  <2>1. Continue(c, "read") /\ UNCHANGED <<out, part>>
    BY <1>3 DEF Emit
  <2>2. /\ "read" \in Phases \ {"idle", "backoff", "failed"} /\ "read" \notin Waiting \cup Unadmitted
        /\ "read" \in Reading
    BY DEF Phases, Holding, Waiting, Timed, Suspended, Unadmitted, Reading
  <2>3. GatewayInv'
    BY <1>1, <2>1, <2>2, ContinueMoves
  <2>4. /\ call'[c].pc = "read" /\ call'[c].tried = x.tried
        /\ \A d \in Callers \ {c} : call'[d] = call[d]
    BY <2>1, GoingOn
  <2> QED BY <1>1, <2>1, <2>2, <2>3, <2>4, OwnPhase
<1>4. CASE p.pending # <<>>
  <2> DEFINE given == [kind |-> kind, attempt |-> Len(x.tried) + 1]
             text == IF kind = "text" THEN p.text + 1 ELSE p.text
             tools == IF kind = "tool" THEN p.tools + 1 ELSE p.tools
             y == [p EXCEPT !.pending = Tail(p.pending), !.text = text, !.tools = tools]
             o == Append(out[c], given)
  <2>1. /\ out' = [out EXCEPT ![c] = o] /\ part' = [part EXCEPT ![c] = y]
        /\ call' = [call EXCEPT ![c].pc = "yield"] /\ running' = None
    BY <1>1, <1>4 DEF Emit, Yielded
  <2>2. /\ p.pending \in Seq(Pieces) /\ p.text \in Nat /\ p.tools \in Nat
        /\ p.visible \in BOOLEAN
    BY <1>1 DEF Parts
  <2>3. /\ kind \in Pieces /\ Tail(p.pending) \in Seq(Pieces)
        /\ kind = p.pending[1] /\ 1 \in DOMAIN p.pending
        /\ \A i \in DOMAIN Tail(p.pending) :
             i + 1 \in DOMAIN p.pending /\ Tail(p.pending)[i] = p.pending[i + 1]
    BY <1>4, <2>2
  <2>4. Len(x.tried) + 1 \in Nat
    BY StreamFacts
  <2>5. given \in Shown /\ given.kind = kind /\ given.attempt = Len(x.tried) + 1
    BY <2>3, <2>4 DEF Shown
  <2> HIDE DEF given, kind
  <2>6. text \in Nat /\ tools \in Nat
    BY <2>2
  <2>7. /\ y \in Parts /\ y.visible = p.visible /\ y.pending = Tail(p.pending)
        /\ y.text = text
    <3> HIDE DEF text, tools
    <3>1. y \in Parts
      BY <1>1, <2>3, <2>6, Zenon DEF Parts
    <3>2. y.visible = p.visible /\ y.pending = Tail(p.pending) /\ y.text = text
      BY <1>1 DEF Parts
    <3> QED BY <3>1, <3>2
  <2>8. /\ o \in Seq(Shown) /\ Len(o) = Len(out[c]) + 1 /\ DOMAIN o = 1 .. Len(out[c]) + 1
        /\ DOMAIN out[c] = 1 .. Len(out[c]) /\ Len(out[c]) \in Nat
        /\ \A i \in 1 .. Len(out[c]) : o[i] = out[c][i]
        /\ o[Len(out[c]) + 1] = given
    BY <1>1, <2>5
  <2>9. text = CountIn(o, "text")
    <3>1. p.text = CountIn(out[c], "text")
      BY <1>1 DEF StreamCall
    <3> QED BY <1>1, <2>2, <2>5, <3>1, CountAppend
  <2> HIDE DEF o, y, text
  <2>10. kind \in Visible => p.visible
    BY <1>1, <2>3 DEF StreamCall
  <2>11. /\ \A i \in DOMAIN o : o[i].kind \in Pieces
         /\ \A i \in DOMAIN o : o[i].kind \in Visible =>
              y.visible /\ o[i].attempt = Len(x.tried) + 1
         /\ \A i \in DOMAIN y.pending : y.pending[i] \in Visible => y.visible
    <3>1. ASSUME NEW i \in DOMAIN o
          PROVE  /\ o[i].kind \in Pieces
                 /\ o[i].kind \in Visible => y.visible /\ o[i].attempt = Len(x.tried) + 1
      <4>1. CASE i \in DOMAIN out[c]
        BY <1>1, <2>7, <2>8, <4>1 DEF StreamCall
      <4>2. CASE i = Len(out[c]) + 1
        BY <2>3, <2>5, <2>7, <2>8, <2>10, <4>2
      <4> QED BY <2>8, <3>1, <4>1, <4>2
    <3>2. \A i \in DOMAIN y.pending : y.pending[i] \in Visible => y.visible
      BY <1>1, <2>3, <2>7 DEF StreamCall
    <3> QED BY <3>1, <3>2
  <2>12. /\ "yield" \in Phases \ {"idle", "backoff"} /\ "yield" \in Waiting \cap Reading
         /\ "yield" \notin Unadmitted \cup Timed \cup {"failed"}
         /\ "yield" \in StreamPhases /\ "yield" \notin Early
    BY DEF Phases, Holding, Waiting, Timed, Suspended, Unadmitted, Reading, StreamPhases, Early,
           CompletePhases
  <2>13. GatewayInv'
    <3>1. x.due \in Int /\ x.code \in Codes \cup {None}
      BY <1>1 DEF Calls
    <3>2. call' = [call EXCEPT ![c] = [@ EXCEPT !.pc = "yield", !.due = x.due, !.code = x.code]]
      BY <1>1, <2>1 DEF GatewayInv, Calls
    <3> QED BY <1>1, <2>1, <2>12, <3>1, <3>2, PhaseMoves, ZenonT(60)
  <2>14. /\ call'[c].pc = "yield" /\ call'[c].tried = x.tried
         /\ \A d \in Callers \ {c} : call'[d] = call[d]
    BY <2>1, GoingOn
  <2>15. StreamCall(call'[c], o, y, iterator[c])
    BY <2>7, <2>9, <2>11, <2>12, <2>14 DEF StreamCall
  <2>16. iterator' = [iterator EXCEPT ![c] = iterator[c]]
    BY <1>1
  <2> QED BY <1>1, <2>1, <2>7, <2>8, <2>13, <2>14, <2>15, <2>16, StreamMoves
<1> QED BY <1>2, <1>3, <1>4

LEMMA ConsumerGoesOnStep ==
  ASSUME StreamInv, NEW c \in Callers, ConsumerGoesOn(c)
  PROVE  StreamInv'
<1>1. /\ running = None /\ call[c].pc = "yield" /\ Continue(c, "emit") /\ GatewayInv
      /\ UNCHANGED <<breakers, out, part, iterator>> /\ invoked' \subseteq Targets
      /\ call[c].admitted
      /\ iterator[c] \in Targets \cup {None} /\ iterator = [iterator EXCEPT ![c] = iterator[c]]
  BY StreamFacts, WhoRuns DEF ConsumerGoesOn, CallStands, Holding
<1>2. /\ "emit" \in Phases \ {"idle", "backoff", "failed"} /\ "emit" \notin Waiting \cup Unadmitted
      /\ "emit" \in Reading
  BY DEF Phases, Holding, Waiting, Timed, Suspended, Unadmitted, Reading
<1>3. GatewayInv'
  BY <1>1, <1>2, ContinueMoves
<1>4. /\ call'[c].pc = "emit" /\ call'[c].tried = call[c].tried
      /\ \A d \in Callers \ {c} : call'[d] = call[d]
  BY <1>1, GoingOn
<1> QED BY <1>1, <1>2, <1>3, <1>4, OwnPhase

LEMMA CloseStep ==
  ASSUME StreamInv, NEW c \in Callers, Close(c)
  PROVE  StreamInv'
<1>1. /\ running = c /\ call[c].pc = "close" /\ Wait(c, "closing", 0) /\ GatewayInv
      /\ UNCHANGED <<breakers, out, part, iterator>> /\ invoked' \subseteq Targets
      /\ call[c].admitted
      /\ iterator[c] \in Targets \cup {None} /\ iterator = [iterator EXCEPT ![c] = iterator[c]]
  BY StreamFacts, WhoRuns DEF Close, CallStands, Holding
<1>2. /\ "closing" \in Waiting \ {"idle", "backoff"} /\ "closing" \notin Unadmitted \cup Timed
      /\ "closing" \in Reading
  BY DEF Waiting, Timed, Suspended, Unadmitted, Reading
<1>3. GatewayInv'
  BY <1>1, <1>2, WaitMoves
<1>4. /\ call'[c].pc = "closing" /\ call'[c].tried = call[c].tried
      /\ \A d \in Callers \ {c} : call'[d] = call[d]
  BY <1>1, GoingOn
<1> QED BY <1>1, <1>2, <1>3, <1>4, OwnPhase

LEMMA IteratorClosedStep ==
  ASSUME StreamInv, NEW c \in Callers, IteratorClosed(c)
  PROVE  StreamInv'
<1>1. /\ running = None /\ call[c].pc = "closing" /\ running' = c /\ GatewayInv
      /\ UNCHANGED <<breakers, out, part>> /\ invoked' \subseteq Targets
      /\ call[c].admitted /\ call[c] \in Calls /\ call[c].due \in Int
      /\ call[c].code \in Codes \cup {None} /\ iterator' = [iterator EXCEPT ![c] = None]
  BY StreamFacts, WhoRuns DEF IteratorClosed, CallStands, Holding
<1>2. PICK code \in Raised \cup {call[c].code, "cancelled"} :
        call' = [call EXCEPT ![c].code = code,
                             ![c].pc = IF code = "cancelled" THEN "cancelled"
                                       ELSE IF code = None THEN "build" ELSE "failed"]
  BY DEF IteratorClosed
<1> DEFINE q == IF code = "cancelled" THEN "cancelled"
                ELSE IF code = None THEN "build" ELSE "failed"
<1>3. code \in Codes \cup {None}
  BY <1>1, GatewayAssumption DEF Raised, Codes
<1>4. /\ q \in {"cancelled", "build", "failed"} /\ (q = "failed" => code \in Codes)
      /\ call' = [call EXCEPT ![c].code = code, ![c].pc = q]
  BY <1>2, <1>3
<1> HIDE DEF q
<1>5. /\ q \in Phases \ {"idle", "backoff"} /\ q \notin Waiting \cup Unadmitted \cup Timed
      /\ q \in Reading \cup {"cancelled", "build", "failed"}
  BY <1>4 DEF Phases, Holding, Waiting, Timed, Suspended, Unadmitted
<1>6. call' = [call EXCEPT ![c] = [@ EXCEPT !.pc = q, !.due = call[c].due, !.code = code]]
  BY <1>1, <1>4 DEF GatewayInv, Calls
<1>7. GatewayInv'
  BY <1>1, <1>3, <1>4, <1>5, <1>6, PhaseMoves
<1>8. /\ call'[c].pc = q /\ call'[c].tried = call[c].tried
      /\ \A d \in Callers \ {c} : call'[d] = call[d]
  BY <1>4, GoingOn
<1> QED BY <1>1, <1>5, <1>7, <1>8, OwnPhase

\* A stream ends with an answer that has one attempt more than the call had, in the
\* place where its consumer has seen it; last is its own last chunk, if it has one.
LEMMA StreamEnds ==
  ASSUME StreamInv, NEW c \in Callers, GatewayInv', call[c].pc # "idle",
         call[c].pc \notin Reading, NEW reply \in Replies, End(c, reply),
         Len(reply.tried) = Len(call[c].tried) + 1,
         NEW last \in {"terminal", "error"},
         \/ out' = out /\ reply.kind = "cancelled"
         \/ out' = [out EXCEPT ![c] = Yielded(c, last)],
         reply.kind = "response" => reply.text = part[c].text,
         reply.kind = "raised" => last = "error",
         UNCHANGED <<part, iterator>>
  PROVE  StreamInv'
<1> DEFINE x == call[c]
           p == part[c]
           given == [kind |-> last, attempt |-> Len(x.tried) + 1]
           more == Append(out[c], given)
           silent == out' = out /\ reply.kind = "cancelled"
           o == IF silent THEN out[c] ELSE more
<1>1. /\ x \in Calls /\ p \in Parts /\ out[c] \in Seq(Shown) /\ Len(x.tried) \in Nat
      /\ out = [out EXCEPT ![c] = out[c]] /\ part = [part EXCEPT ![c] = p] /\ GatewayInv
      /\ iterator = [iterator EXCEPT ![c] = iterator[c]] /\ iterator[c] \in Targets \cup {None}
      /\ StreamCall(x, out[c], p, iterator[c])
  BY StreamFacts
<1>2. /\ iterator[c] = None /\ p.text = CountIn(out[c], "text")
      /\ \A i \in DOMAIN out[c] : out[c][i].kind \in Pieces
      /\ \A i \in DOMAIN out[c] : out[c][i].kind \in Visible =>
           out[c][i].attempt = Len(x.tried) + 1
  BY <1>1 DEF StreamCall
<1>3. given \in Shown /\ given.kind = last
  BY <1>1 DEF Shown
<1>4. /\ more \in Seq(Shown) /\ DOMAIN more = 1 .. Len(out[c]) + 1
      /\ Len(more) = Len(out[c]) + 1 /\ Len(out[c]) \in Nat
      /\ DOMAIN out[c] = 1 .. Len(out[c])
      /\ \A i \in 1 .. Len(out[c]) : more[i] = out[c][i]
      /\ more[Len(out[c]) + 1] = given
  BY <1>1, <1>3
<1>5. CountIn(more, "text") = CountIn(out[c], "text")
  <2>1. given.kind # "text"
    BY <1>3
  <2> HIDE DEF given
  <2> QED BY <1>1, <1>3, <2>1, CountAppend
<1>6. out' = [out EXCEPT ![c] = o] /\ (reply.kind # "cancelled" => o = more)
  <2>1. CASE silent
    BY <1>1, <2>1
  <2>2. CASE ~silent
    BY <2>2 DEF Yielded
  <2> QED BY <2>1, <2>2
<1>7. o = out[c] \/ o = more
  OBVIOUS
<1> HIDE DEF o, more, given
<1>8. /\ o \in Seq(Shown) /\ CountIn(o, "text") = p.text
      /\ \A i \in DOMAIN o : o[i].kind \notin Pieces => i = Len(o)
      /\ \A i \in DOMAIN o : o[i].kind \in Visible => o[i].attempt = Len(x.tried) + 1
  <2>1. CASE o = out[c]
    BY <1>1, <1>2, <2>1
  <2>2. CASE o = more
    <3>1. given.kind \notin Visible
      BY <1>3 DEF Visible
    <3>2. ASSUME NEW i \in DOMAIN o
          PROVE  /\ o[i].kind \notin Pieces => i = Len(o)
                 /\ o[i].kind \in Visible => o[i].attempt = Len(x.tried) + 1
      <4>1. CASE i \in DOMAIN out[c]
        BY <1>2, <1>4, <2>2, <4>1
      <4>2. CASE i = Len(out[c]) + 1
        BY <1>4, <2>2, <3>1, <4>2
      <4> QED BY <1>4, <2>2, <3>2, <4>1, <4>2
    <3> QED BY <1>2, <1>4, <1>5, <2>2, <3>2
  <2> QED BY <1>7, <2>1, <2>2
<1>9. reply.kind = "raised" => o[Len(o)].kind = "error"
  BY <1>3, <1>4, <1>6
<1>10. MovesAlone(c) /\ call'[c].pc = "idle" /\ call'[c].reply = reply
  BY <1>1, EndsAlone
<1>11. StreamCall(call'[c], o, p, None)
  <2>1. "idle" \in StreamPhases
    BY DEF StreamPhases, CompletePhases
  <2> QED BY <1>8, <1>9, <1>10, <2>1, NoneFacts DEF StreamCall
<1>12. \A d \in Callers \ {c} : call'[d] = call[d]
  BY <1>10 DEF MovesAlone
<1>13. part' = [part EXCEPT ![c] = p] /\ iterator' = [iterator EXCEPT ![c] = None]
  BY <1>1, <1>2
<1> QED BY <1>1, <1>6, <1>8, <1>11, <1>12, <1>13, StreamMoves, ZenonT(60)

\* A probe slot is given back whenever a consumer stops.
LEMMA ReleaseProbeStep ==
  ASSUME StreamInv, NEW c \in Callers, ReleaseProbe(c)
  PROVE  StreamInv'
<1> DEFINE t == TargetOf(c)
           tried == Tried(c, "cancelled", "cancelled")
           reply == Reply("cancelled", "cancelled", tried)
<1>1. /\ running = c /\ call[c].pc = "cancelled" /\ call[c].admitted /\ GatewayInv
      /\ breakers' = [breakers EXCEPT ![t] = RecordCancelled(@)] /\ End(c, reply)
      /\ UNCHANGED <<out, part, iterator>> /\ invoked' \subseteq Targets /\ t \in Targets
      /\ call[c].pc \notin Reading
  BY StreamFacts, WhoRuns, TargetFacts DEF ReleaseProbe, CallStands, Holding, Reading
<1>2. breakers[t] \in Breaker /\ (breakers[t].probe => breakers[t].state = "half_open")
  BY <1>1 DEF GatewayInv, ProbeSlotIsOwned
<1>3. "cancelled" \in Codes /\ "cancelled" # None
  BY NoneFacts DEF Codes
<1>4. RecordCancelled(breakers[t]) \in Breaker /\ ~RecordCancelled(breakers[t]).probe
  BY <1>2, <1>3, BreakerFacts
<1>5. breakers' = IF call[c].admitted THEN [breakers EXCEPT ![t] = RecordCancelled(breakers[t])]
                  ELSE breakers
  BY <1>1
<1>6. /\ breakers' \in [Targets -> Breaker]
      /\ \A u \in Targets : breakers'[u].probe =>
           /\ breakers'[u].state = "half_open"
           /\ breakers[u].probe /\ ~(call[c].admitted /\ TargetOf(c) = u)
  BY <1>1, <1>4, <1>5, BreakerHears
<1>7. tried \in Seq(Attempts) /\ WellTried(tried) /\ Len(tried) = Len(call[c].tried) + 1
  BY <1>1, <1>3, AttemptFacts
<1> HIDE DEF tried
<1>8. reply \in Replies /\ ReplyStands(reply)
  BY <1>3, <1>7, ReplyFacts
<1>9. reply.kind = "cancelled" /\ reply.tried = tried
  BY DEF Reply
<1> HIDE DEF reply
<1>10. GatewayInv'
  BY <1>1, <1>6, <1>8, EndMoves
<1> QED BY <1>1, <1>7, <1>8, <1>9, <1>10, StreamEnds

LEMMA BuildStep ==
  ASSUME StreamInv, NEW c \in Callers, Build(c)
  PROVE  StreamInv'
<1> DEFINE t == TargetOf(c)
           tried == Tried(c, "succeeded", None)
           reply == [kind |-> "response", code |-> None, tried |-> tried,
                     text |-> part[c].text]
<1>1. /\ running = c /\ call[c].pc = "build" /\ call[c].admitted /\ GatewayInv
      /\ UNCHANGED <<part, iterator>> /\ invoked' \subseteq Targets /\ t \in Targets
      /\ breakers \in [Targets -> Breaker]
      /\ call[c].pc \notin Reading /\ part[c] \in Parts
      /\ iterator[c] \in Targets \cup {None} /\ iterator = [iterator EXCEPT ![c] = iterator[c]]
      /\ StreamCall(call[c], out[c], part[c], iterator[c])
  BY StreamFacts, WhoRuns, TargetFacts DEF Build, CallStands, Holding, Reading, GatewayInv
<1>2. CASE /\ breakers' = [breakers EXCEPT ![t] = RecordSuccess(@)]
           /\ EndWithChunk(c, "terminal", reply)
  <2>1. Closed \in Breaker /\ ~Closed.probe
    BY BreakerAssumption DEF Closed, Breaker
  <2>2. breakers' = IF call[c].admitted THEN [breakers EXCEPT ![t] = Closed] ELSE breakers
    BY <1>1, <1>2 DEF RecordSuccess
  <2>3. /\ breakers' \in [Targets -> Breaker]
        /\ \A u \in Targets : breakers'[u].probe =>
             /\ breakers'[u].state = "half_open"
             /\ breakers[u].probe /\ ~(call[c].admitted /\ TargetOf(c) = u)
    BY <1>1, <2>1, <2>2, BreakerHears
  <2>4. /\ tried \in Seq(Attempts) /\ WellTried(tried) /\ Len(tried) = Len(call[c].tried) + 1
        /\ tried[Len(tried)].outcome = "succeeded"
    BY <1>1, AttemptFacts
  <2>5. End(c, reply) /\ out' = [out EXCEPT ![c] = Yielded(c, "terminal")]
    BY <1>2 DEF EndWithChunk
  <2> HIDE DEF tried
  <2>6. part[c].text \in Nat
    BY <1>1 DEF Parts
  <2>7. /\ reply \in Replies /\ reply.kind = "response" /\ reply.tried = tried
        /\ reply.text = part[c].text
    BY <2>4, <2>6 DEF Replies
  <2> HIDE DEF reply
  <2>8. ReplyStands(reply)
    BY <2>4, <2>7 DEF ReplyStands
  <2>9. GatewayInv'
    BY <1>1, <2>3, <2>5, <2>7, <2>8, EndMoves
  <2> QED BY <1>1, <2>4, <2>5, <2>7, <2>9, StreamEnds
<1>3. ASSUME NEW code \in {"malformed_response", "structured_output_invalid", "unknown"},
             Break(c, code), UNCHANGED <<breakers, out>>
      PROVE  StreamInv'
  <2>1. code \in Codes
    BY DEF Codes
  <2>2. GatewayInv'
    BY <1>1, <1>3, <2>1, BreakMoves
  <2>3. /\ call'[c].pc = "failed" /\ call'[c].tried = call[c].tried
        /\ \A d \in Callers \ {c} : call'[d] = call[d]
    BY <1>3, GoingOn
  <2>4. iterator[c] = None
    BY <1>1 DEF StreamCall
  <2> QED BY <1>1, <1>3, <2>2, <2>3, <2>4, OwnPhase
<1> QED BY <1>2, <1>3 DEF Build

\* Only a stream that has shown nothing is tried again.
LEMMA FailStreamStep ==
  ASSUME StreamInv, NEW c \in Callers, FailStream(c)
  PROVE  StreamInv'
<1> DEFINE code == call[c].code
           tried == Tried(c, "failed", code)
           reply == Reply("raised", code, tried)
<1>1. /\ running = c /\ call[c].pc = "failed" /\ GatewayInv
      /\ UNCHANGED <<part, iterator>> /\ invoked' \subseteq Targets /\ UNCHANGED invoked
      /\ code \in Codes /\ call[c].pc \notin Reading /\ code # None
      /\ Len(call[c].tried) \in Nat
  BY StreamFacts, WhoRuns, NoneFacts DEF FailStream, CallStands, Reading
<1>2. /\ breakers' \in [Targets -> Breaker]
      /\ \A u \in Targets : breakers'[u].probe =>
           /\ breakers'[u].state = "half_open"
           /\ breakers[u].probe /\ ~(call[c].admitted /\ TargetOf(c) = u)
  <2>1. breakers' = IF call[c].admitted
                    THEN [breakers EXCEPT ![TargetOf(c)] = RecordFailure(@, call[c].code)]
                    ELSE breakers
    BY DEF FailStream
  <2> QED BY <1>1, <2>1, FailureIsHeard
<1>3. CASE part[c].visible
  <2>1. End(c, reply) /\ out' = [out EXCEPT ![c] = Yielded(c, "error")]
    BY <1>3 DEF FailStream, EndWithChunk
  <2>2. /\ tried \in Seq(Attempts) /\ WellTried(tried) /\ Len(tried) = Len(call[c].tried) + 1
        /\ tried[Len(tried)].outcome = "failed"
        /\ \A i \in 1 .. Len(call[c].tried) : tried[i].outcome = "failed"
    <3>1. code \in Codes \cup {None}
      BY <1>1
    <3> QED BY <1>1, <3>1, AttemptFacts
  <2> HIDE DEF tried
  <2>3. \A i \in 1 .. Len(tried) : tried[i].outcome = "failed"
    BY <1>1, <2>2
  <2>4. reply \in Replies /\ ReplyStands(reply)
    BY <1>1, <2>2, <2>3, ReplyFacts
  <2>5. reply.kind = "raised" /\ reply.tried = tried
    BY DEF Reply
  <2> HIDE DEF reply
  <2>6. GatewayInv'
    BY <1>1, <1>2, <2>1, <2>4, EndMoves
  <2> QED BY <1>1, <2>1, <2>2, <2>4, <2>5, <2>6, StreamEnds
<1>4. CASE ~part[c].visible
  <2>1. /\ UNCHANGED out
        /\ IF code \in Retryable /\ call[c].retry < MaxRetries
           THEN BackOff(c, tried) ELSE FallBack(c, code, tried)
    BY <1>4 DEF FailStream
  <2>2. GatewayInv'
    BY <1>1, <1>2, <2>1, OnwardStep
  <2>3. MovesAlone(c) /\ Unanswered(c)
    BY <1>1, <2>1, GoesOnAlone
  <2> QED BY <1>1, <1>4, <2>1, <2>2, <2>3, QuietMoves
<1> QED BY <1>3, <1>4

LEMMA StreamTickStep ==
  ASSUME StreamInv, StreamTick
  PROVE  StreamInv'
<1>1. GatewayInv /\ Tick /\ UNCHANGED <<out, part, iterator>>
  BY DEF StreamInv, StreamTick
<1>2. GatewayInv'
  BY <1>1, TickStep
<1>3. ASSUME NEW c \in Callers
      PROVE  StreamCall(call'[c], out[c], part[c], iterator[c])
  <2> DEFINE x == call[c]
  <2>1. x \in Calls /\ StreamCall(x, out[c], part[c], iterator[c]) /\ call'[c] = Aged(x)
    BY <1>1, StreamFacts DEF Tick
  <2>2. Aged(x).pc = x.pc /\ Aged(x).tried = x.tried /\ Aged(x).reply = x.reply
    BY <2>1 DEF Aged, Calls
  <2> QED BY <2>1, <2>2 DEF StreamCall
<1> QED BY <1>1, <1>2, <1>3 DEF StreamInv

LEMMA InitStreamInv == StreamInit => StreamInv
<1> SUFFICES ASSUME StreamInit PROVE StreamInv
  OBVIOUS
<1>1. /\ GatewayInv /\ call = [c \in Callers |-> AtRest] /\ out = [c \in Callers |-> <<>>]
      /\ part = [c \in Callers |-> Nothing] /\ iterator = [c \in Callers |-> None]
  BY InitGatewayInv DEF StreamInit, GatewayInit
<1>2. /\ AtRest.pc = "idle" /\ AtRest.reply = None /\ "idle" \in StreamPhases
      /\ <<>> \in Seq(Shown) /\ DOMAIN <<>> = {}
  BY RestFacts DEF StreamPhases, CompletePhases
<1>3. StreamCall(AtRest, <<>>, Nothing, None)
  BY <1>2 DEF StreamCall
<1> QED BY <1>1, <1>2, <1>3, RestartedFacts DEF StreamInv

LEMMA StreamStep == StreamInv /\ [StreamNext]_streamVars => StreamInv'
<1> SUFFICES ASSUME StreamInv, [StreamNext]_streamVars PROVE StreamInv'
  OBVIOUS
<1>1. ASSUME NEW c \in Callers,
             \/ BeginStream(c) \/ SharedProceeds(c) \/ SharedFires(c) \/ SharedArrives(c)
             \/ StreamProceeds(c)
             \/ ReceiveChunk(c) \/ StreamStops(c) \/ ChunkTimesOut(c) \/ ConsumerMoves(c)
      PROVE  StreamInv'
  BY <1>1, BeginStreamStep, SharedStep, OpenStreamStep, ReadStep, ReceiveChunkStep, LeaveStep,
     EmitStep, ConsumerGoesOnStep, CloseStep, IteratorClosedStep, ReleaseProbeStep, BuildStep,
     FailStreamStep DEF StreamProceeds, ConsumerMoves
<1>2. CASE StreamTick
  BY <1>2, StreamTickStep
<1>3. CASE UNCHANGED streamVars
  <2>1. GatewayInv'
    BY <1>3, UnchangedStep DEF streamVars, StreamInv
  <2> QED BY <1>3, <2>1 DEF streamVars, gatewayVars, StreamInv
<1> QED BY <1>1, <1>2, <1>3 DEF StreamNext

(***************************************************************************)
(* Theorems.                                                               *)
(***************************************************************************)
\* The invariant that the theorems about stream rest on.
THEOREM StreamsStayInOrder == StreamSpec => []StreamInv
BY InitStreamInv, StreamStep, PTL DEF StreamSpec

\* IteratorsAreClosed: a provider's iterator is closed before the call goes on to
\* another attempt, an answer or its end, whoever stops it (the finally of stream).
THEOREM IteratorsGetClosed == StreamSpec => []IteratorsAreClosed
<1>1. StreamInv => IteratorsAreClosed
  BY DEF StreamInv, StreamCall, IteratorsAreClosed
<1> QED BY <1>1, StreamsStayInOrder, PTL

\* ProbeSlotIsOwned: a taken probe slot belongs to a stream under way, also when its
\* consumer has stopped it (except (CancelledError, GeneratorExit)).
THEOREM StreamProbesAreOwned == StreamSpec => []ProbeSlotIsOwned
BY StreamsStayInOrder, PTL DEF StreamInv, GatewayInv

\* AttemptsFollowTheRoute, for streams: retries and fallback before anything visible go
\* by the same policy (stream).
THEOREM StreamAttemptsAreWalks == StreamSpec => []AttemptsFollowTheRoute
BY StreamsStayInOrder, AttemptsStand, PTL DEF StreamInv

\* NothingIsReplayed: a consumer sees chunks of one attempt only, and the text of a
\* response is what was shown of it, no more and no less (visible, stream).
THEOREM VisibleChunksAreFinal == StreamSpec => []NothingIsReplayed
<1>1. StreamInv => NothingIsReplayed
  <2> SUFFICES ASSUME StreamInv, NEW c \in Callers
               PROVE  /\ \A i \in DOMAIN out[c] : out[c][i].kind \in Visible =>
                           out[c][i].attempt = AttemptNumber(c)
                      /\ (call[c].reply # None /\ call[c].reply.kind = "response") =>
                           call[c].reply.text = Count(c, "text")
    BY DEF NothingIsReplayed
  <2>1. StreamCall(call[c], out[c], part[c], iterator[c]) /\ CallStands(call[c])
    BY StreamFacts
  <2>2. CASE call[c].pc = "idle"
    BY <2>1, <2>2 DEF StreamCall, AttemptNumber, Count, CountIn
  <2>3. CASE call[c].pc # "idle"
    BY <2>1, <2>3 DEF StreamCall, CallStands, AttemptNumber
  <2> QED BY <2>2, <2>3
<1> QED BY <1>1, StreamsStayInOrder, PTL

\* StreamEndsOnce: a terminal or an error chunk is the last one, and an error after
\* something visible is told by one (FR-004, stream).
THEOREM StreamsEndOnce == StreamSpec => []StreamEndsOnce
<1>1. StreamInv => StreamEndsOnce
  <2> SUFFICES ASSUME StreamInv, NEW c \in Callers
               PROVE  /\ \A i \in DOMAIN out[c] : out[c][i].kind \in {"terminal", "error"} =>
                           /\ i = Len(out[c]) /\ call[c].pc = "idle"
                      /\ (call[c].reply # None /\ call[c].reply.kind = "raised"
                            /\ \E i \in DOMAIN out[c] : out[c][i].kind \in Visible) =>
                           out[c][Len(out[c])].kind = "error"
    BY DEF StreamEndsOnce
  <2>1. /\ StreamCall(call[c], out[c], part[c], iterator[c]) /\ CallStands(call[c])
        /\ {"terminal", "error"} \cap Pieces = {}
    BY StreamFacts DEF Pieces
  <2>2. CASE call[c].pc = "idle"
    BY <2>1, <2>2 DEF StreamCall
  <2>3. CASE call[c].pc # "idle"
    BY <2>1, <2>3 DEF StreamCall, CallStands
  <2> QED BY <2>2, <2>3
<1> QED BY <1>1, StreamsStayInOrder, PTL
=============================================================================
