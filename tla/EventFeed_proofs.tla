-------------------------- MODULE EventFeed_proofs --------------------------
(***************************************************************************)
(* The safety of the push feed for any scripts, subscribers, buffer size   *)
(* and caps, and without a bound on the changes: no drop goes unsignalled, *)
(* and every stream is accounted for.                                      *)
(***************************************************************************)
EXTENDS EventFeed, FiniteSetTheorems, TLAPS

Event == {TipChanged, Resync} \cup {ScriptChanged(s) : s \in FeedScript}

EmitState == [scripts : SUBSET FeedScript, tip : BOOLEAN, event : Event \cup {NoEvent},
              ids : SUBSET Sub, at : Sub \cup {NoSub},
              pc : {"rest", "next", "resync", "event", "lag"}]

FeedTypeOK ==
  /\ ver \in [FeedScript -> Nat]
  /\ subs \in SUBSET Sub
  /\ routes \in [FeedScript -> SUBSET Sub]
  /\ lagged \in [Sub -> BOOLEAN]
  /\ queue \in [Sub -> Seq(Event)]
  /\ emit \in [Emitter -> EmitState]
  /\ conn \in [Sub -> {"new", "open", "route", "nudge", "stream", "closed"}]
  /\ todo \in [Sub -> SUBSET FeedScript]
  /\ pulled \in [Sub -> [FeedScript -> Nat]]

\* subscribe and unsubscribe keep the senders and the routes in step with the
\* streams.
Routed ==
  /\ subs = {i \in Sub : conn[i] \in {"route", "nudge", "stream"}}
  /\ \A s \in FeedScript : routes[s] = {i \in subs : s \in Watches[i] /\ conn[i] # "route"}

\* send_to is at a subscriber exactly while it sends to it, and has an event
\* until it is done.
Sending ==
  \A e \in Emitter :
    /\ emit[e].at = NoSub <=> emit[e].pc \in {"rest", "next"}
    /\ emit[e].pc # "rest" => emit[e].event \in Event
    /\ emit[e].pc = "rest" => emit[e].event = NoEvent

FeedInv == FeedTypeOK /\ Routed /\ Sending /\ LossSignalled

-----------------------------------------------------------------------------
\* What a nudge is about.
LEMMA ScriptsOfEvents ==
  ASSUME NEW i \in Sub
  PROVE  /\ \A s \in FeedScript : ScriptsOf(i, ScriptChanged(s)) = {s}
         /\ ScriptsOf(i, Resync) = Watches[i]
         /\ \A ev \in Event : ScriptsOf(i, ev) \in SUBSET FeedScript
<1>1. \A s \in FeedScript : ScriptsOf(i, ScriptChanged(s)) = {s}
  BY DEF ScriptsOf, ScriptChanged
<1>2. ScriptsOf(i, Resync) = Watches[i]
  BY DEF ScriptsOf, Resync
<1>3. ScriptsOf(i, TipChanged) = {}
  BY DEF ScriptsOf, TipChanged
<1>4. QED
  BY <1>1, <1>2, <1>3, EventFeedAssumption DEF Event

LEMMA EventsDiffer ==
  /\ \A s, u \in FeedScript : ScriptChanged(s) = ScriptChanged(u) => s = u
  /\ \A s \in FeedScript : ScriptChanged(s) # NoEvent
  /\ NoEvent \notin Event
BY DEF ScriptChanged, NoEvent, Event, TipChanged, Resync

LEMMA InitInv == FeedInit => FeedInv
<1> SUFFICES ASSUME FeedInit PROVE FeedInv
  OBVIOUS
<1>1. FeedTypeOK
  BY DEF FeedInit, FeedTypeOK, EmitState, Resting, NoEvent, NoSub, Emitter
<1>2. Routed
  BY DEF FeedInit, Routed
<1>3. Sending
  BY DEF FeedInit, Sending, Resting
<1>4. LossSignalled
  BY DEF FeedInit, LossSignalled, Behind
<1>5. QED
  BY <1>1, <1>2, <1>3, <1>4 DEF FeedInv

-----------------------------------------------------------------------------
\* One lemma per conjunct, with a step per action.

LEMMA EmitType ==
  ASSUME FeedTypeOK, NEW e \in Emitter, EmitStep(e)
  PROVE  emit' \in [Emitter -> EmitState]
<1> DEFINE r == emit[e]
<1>0. /\ emit \in [Emitter -> EmitState] /\ r \in EmitState
      /\ \A s \in FeedScript : routes[s] \in SUBSET Sub /\ ScriptChanged(s) \in Event
      /\ TipChanged \in Event /\ subs \cap WantsTip \in SUBSET Sub
  BY DEF FeedTypeOK, Event
<1>1. CASE EmitScript(e)
  <2>1. PICK s \in r.scripts :
          emit' = [emit EXCEPT ![e] = [r EXCEPT !.scripts = @ \ {s}, !.event = ScriptChanged(s),
                                                !.ids = routes[s], !.pc = "next"]]
    BY <1>1 DEF EmitScript
  <2>2. [r EXCEPT !.scripts = @ \ {s}, !.event = ScriptChanged(s), !.ids = routes[s], !.pc = "next"]
          \in EmitState
    BY <1>0, <2>1 DEF EmitState
  <2>3. QED
    BY <1>0, <2>1, <2>2
<1>2. CASE EmitTip(e)
  BY <1>0, <1>2 DEF EmitTip, EmitState
<1>3. CASE SendResync(e)
  BY <1>0, <1>3 DEF SendResync, EmitState
<1>4. CASE SendEvent(e)
  BY <1>0, <1>4 DEF SendEvent, EmitState
<1>5. CASE SendLag(e)
  BY <1>0, <1>5 DEF SendLag, EmitState
<1>6. CASE SendDone(e)
  BY <1>0, <1>6 DEF SendDone, EmitState
<1>7. ASSUME NEW i \in Sub, SendSwap(e, i) PROVE emit' \in [Emitter -> EmitState]
  BY <1>0, <1>7 DEF SendSwap, EmitState
<1>8. QED
  BY <1>1, <1>2, <1>3, <1>4, <1>5, <1>6, <1>7 DEF EmitStep

LEMMA TypeStep == FeedInv /\ FeedNext => FeedTypeOK'
<1> SUFFICES ASSUME FeedTypeOK, Sending, FeedNext PROVE FeedTypeOK'
  BY DEF FeedInv
<1> USE DEF busVars, sendVars, connVars, clientVars
<1>1. ASSUME NEW e \in Emitter, NEW a \in SUBSET FeedScript, NEW b \in SUBSET FeedScript, Change(e, a, b)
      PROVE  FeedTypeOK'
  <2>1. /\ emit \in [Emitter -> EmitState]
        /\ emit' = [emit EXCEPT ![e] = [emit[e] EXCEPT !.scripts = a \cup b, !.tip = (e = "chain")]]
    BY <1>1 DEF Change, Touched, FeedTypeOK
  <2>2. [emit[e] EXCEPT !.scripts = a \cup b, !.tip = (e = "chain")] \in EmitState
    BY <2>1 DEF EmitState
  <2>3. emit' \in [Emitter -> EmitState]
    BY <2>1, <2>2
  <2>4. QED
    BY <1>1, <2>3 DEF Change, FeedTypeOK
<1>2. ASSUME NEW e \in Emitter, EmitStep(e) PROVE FeedTypeOK'
  <2>1. emit' \in [Emitter -> EmitState]
    BY <1>2, EmitType
  <2>2. lagged' \in [Sub -> BOOLEAN]
    BY <1>2 DEF FeedTypeOK, EmitStep, EmitScript, EmitTip, SendResync, SendEvent, SendLag, SendDone,
                SendSwap, LagFlag
  <2>3. queue' \in [Sub -> Seq(Event)]
    <3>1. CASE SendResync(e)
      <4>1. Resync \in Event /\ emit[e].at \in Sub
        BY <3>1 DEF Event, SendResync, Sending, FeedTypeOK, EmitState
      <4>2. Append(queue[emit[e].at], Resync) \in Seq(Event)
        BY <4>1 DEF FeedTypeOK
      <4>3. QED
        BY <3>1, <4>1, <4>2 DEF FeedTypeOK, SendResync
    <3>2. CASE SendEvent(e)
      <4>1. emit[e].event \in Event /\ emit[e].at \in Sub
        BY <3>2 DEF Sending, SendEvent, FeedTypeOK, EmitState
      <4>2. Append(queue[emit[e].at], emit[e].event) \in Seq(Event)
        BY <4>1 DEF FeedTypeOK
      <4>3. QED
        BY <3>2, <4>1, <4>2 DEF FeedTypeOK, SendEvent
    <3>3. QED
      BY <1>2, <3>1, <3>2 DEF FeedTypeOK, EmitStep, EmitScript, EmitTip, SendLag, SendDone, SendSwap
  <2>4. UNCHANGED <<ver, busVars, connVars, clientVars>>
    BY <1>2 DEF EmitStep, EmitScript, EmitTip, SendResync, SendEvent, SendLag, SendDone, SendSwap
  <2>5. QED
    BY <2>1, <2>2, <2>3, <2>4 DEF FeedTypeOK
<1>3. ASSUME NEW i \in Sub, Open(i) \/ Refuse(i) \/ Subscribe(i) PROVE FeedTypeOK'
  BY <1>3 DEF Open, Refuse, Released, Subscribe, FeedTypeOK
<1>4. ASSUME NEW i \in Sub, Route(i) \/ Nudge(i) PROVE FeedTypeOK'
  <2>1. CASE Route(i)
    <3>1. routes' \in [FeedScript -> SUBSET Sub]
      BY <2>1 DEF Route, FeedTypeOK
    <3>2. QED
      BY <2>1, <3>1 DEF Route, FeedTypeOK
  <2>2. CASE Nudge(i)
    BY <2>2, EventFeedAssumption DEF Nudge, InitialNudge, FeedTypeOK
  <2>3. QED
    BY <1>4, <2>1, <2>2
<1>5. ASSUME NEW i \in Sub, Hangup(i) PROVE FeedTypeOK'
  <2>1. <<>> \in Seq(Event)
    OBVIOUS
  <2>2. QED
    BY <1>5, <2>1 DEF Hangup, Released, FeedTypeOK
<1>6. ASSUME NEW i \in Sub, Deliver(i) PROVE FeedTypeOK'
  <2>1. queue[i] \in Seq(Event) /\ queue[i] # <<>>
    BY <1>6 DEF Deliver, FeedTypeOK
  <2>2. Head(queue[i]) \in Event /\ Tail(queue[i]) \in Seq(Event)
    BY <2>1
  <2>3. QED
    BY <1>6, <2>2, ScriptsOfEvents DEF Deliver, FeedTypeOK
<1>7. ASSUME NEW i \in Sub, Pull(i) PROVE FeedTypeOK'
  BY <1>7 DEF Pull, FeedTypeOK
<1>8. QED
  BY <1>1, <1>2, <1>3, <1>4, <1>5, <1>6, <1>7 DEF FeedNext

LEMMA RoutedStep == FeedInv /\ FeedNext => Routed'
<1> SUFFICES ASSUME FeedTypeOK, Routed, FeedNext PROVE Routed'
  BY DEF FeedInv
<1> USE DEF Routed, busVars, sendVars, connVars, clientVars
<1>1. ASSUME NEW e \in Emitter, NEW a \in SUBSET FeedScript, NEW b \in SUBSET FeedScript, Change(e, a, b)
      PROVE  Routed'
  BY <1>1 DEF Change
<1>2. ASSUME NEW e \in Emitter, EmitStep(e) PROVE Routed'
  <2>1. UNCHANGED <<subs, routes, conn>>
    BY <1>2 DEF EmitStep, EmitScript, EmitTip, SendResync, SendEvent, SendLag, SendDone, SendSwap
  <2>2. QED
    BY <2>1
<1>3. ASSUME NEW i \in Sub, Open(i) \/ Refuse(i) PROVE Routed'
  BY <1>3 DEF Open, Refuse, Released, FeedTypeOK
<1>4. ASSUME NEW i \in Sub, Subscribe(i) PROVE Routed'
  BY <1>4 DEF Subscribe, FeedTypeOK
<1>5. ASSUME NEW i \in Sub, Route(i) PROVE Routed'
  BY <1>5 DEF Route, FeedTypeOK
<1>6. ASSUME NEW i \in Sub, Nudge(i) PROVE Routed'
  BY <1>6 DEF Nudge, FeedTypeOK
<1>7. ASSUME NEW i \in Sub, Hangup(i) PROVE Routed'
  BY <1>7 DEF Hangup, Released, FeedTypeOK
<1>8. ASSUME NEW i \in Sub, Deliver(i) \/ Pull(i) PROVE Routed'
  BY <1>8 DEF Deliver, Pull
<1>9. QED
  BY <1>1, <1>2, <1>3, <1>4, <1>5, <1>6, <1>7, <1>8 DEF FeedNext

LEMMA SendingStep == FeedInv /\ FeedNext => Sending'
<1> SUFFICES ASSUME FeedTypeOK, Sending, FeedNext PROVE Sending'
  BY DEF FeedInv
<1> USE EventFeedAssumption DEF Sending, FeedTypeOK, EmitState, busVars, sendVars, connVars, clientVars
<1>1. ASSUME NEW e \in Emitter, NEW a \in SUBSET FeedScript, NEW b \in SUBSET FeedScript, Change(e, a, b)
      PROVE  Sending'
  BY <1>1 DEF Change
<1>2. ASSUME NEW e \in Emitter, EmitStep(e) PROVE Sending'
  <2>1. CASE EmitScript(e)
    BY <2>1 DEF EmitScript, Event
  <2>2. CASE EmitTip(e)
    BY <2>2 DEF EmitTip, Event
  <2>3. CASE SendResync(e)
    BY <2>3 DEF SendResync
  <2>4. CASE SendEvent(e)
    BY <2>4 DEF SendEvent
  <2>5. CASE SendLag(e)
    BY <2>5 DEF SendLag
  <2>6. CASE SendDone(e)
    BY <2>6 DEF SendDone
  <2>7. ASSUME NEW i \in Sub, SendSwap(e, i) PROVE Sending'
    BY <2>7 DEF SendSwap, NoSub
  <2>8. QED
    BY <1>2, <2>1, <2>2, <2>3, <2>4, <2>5, <2>6, <2>7 DEF EmitStep
<1>3. ASSUME NEW i \in Sub, \/ Open(i) \/ Refuse(i) \/ Subscribe(i) \/ Route(i) \/ Nudge(i)
                            \/ Deliver(i) \/ Hangup(i) \/ Pull(i)
      PROVE  Sending'
  BY <1>3 DEF Open, Refuse, Subscribe, Route, Nudge, Deliver, Hangup, Pull
<1>4. QED
  BY <1>1, <1>2, <1>3 DEF FeedNext

-----------------------------------------------------------------------------
\* The argument for LossSignalled.  An emitter keeps the change in flight until
\* each routed subscriber has the event or a Resync in its channel, or its
\* lagged flag up; a flag that is taken down is in flight until then.

\* A step that leaves alone what signals a client of s.
LEMMA SignalKept ==
  ASSUME NEW i \in Sub, NEW s \in FeedScript, Signalled(i, s),
         todo'[i] = todo[i], lagged'[i] = lagged[i], queue'[i] = queue[i],
         \A e \in Emitter : InFlight(e, i, s) => InFlight(e, i, s)'
  PROVE  Signalled(i, s)'
BY DEF Signalled, ScriptsOf

\* Appending keeps what the channel holds and adds the new event.
LEMMA Appended ==
  ASSUME NEW q \in Seq(Event), NEW ev \in Event
  PROVE  /\ Len(q) + 1 \in DOMAIN Append(q, ev) /\ Append(q, ev)[Len(q) + 1] = ev
         /\ \A n \in DOMAIN q : n \in DOMAIN Append(q, ev) /\ Append(q, ev)[n] = q[n]
OBVIOUS

LEMMA EmitSignals ==
  ASSUME FeedInv, NEW e \in Emitter, EmitStep(e),
         NEW i \in Sub, NEW s \in FeedScript, Behind(i, s)
  PROVE  Signalled(i, s)'
<1> USE DEF busVars, sendVars, connVars, clientVars
<1> DEFINE r == emit[e]
<1>0. /\ r \in EmitState /\ emit \in [Emitter -> EmitState] /\ Signalled(i, s)
      /\ i # NoSub /\ i \in subs /\ i \in routes[s] /\ queue[i] \in Seq(Event)
      /\ queue \in [Sub -> Seq(Event)] /\ lagged \in [Sub -> BOOLEAN]
      /\ r.at = NoSub <=> r.pc \in {"rest", "next"}
      /\ r.pc # "rest" => r.event \in Event
      /\ r.pc = "rest" => r.event = NoEvent
  BY EventFeedAssumption DEF FeedInv, FeedTypeOK, Routed, Sending, LossSignalled, Behind, NoSub
<1>1. todo' = todo
  BY DEF EmitStep, EmitScript, EmitTip, SendResync, SendEvent, SendLag, SendDone, SendSwap
<1>2. CASE EmitScript(e)
  <2>1. PICK u \in r.scripts :
          emit' = [emit EXCEPT ![e] = [r EXCEPT !.scripts = @ \ {u}, !.event = ScriptChanged(u),
                                                !.ids = routes[u], !.pc = "next"]]
    BY <1>2 DEF EmitScript
  <2>2. InFlight(e, i, s) => InFlight(e, i, s)'
    <3>1. ~(r.event = ScriptChanged(s)) /\ ~(r.at = i)
      BY <1>0, <1>2, EventsDiffer DEF EmitScript
    <3>2. QED
      BY <1>0, <2>1, <3>1 DEF InFlight, EmitState
  <2>3. QED
    BY <1>0, <1>2, <2>1, <2>2, SignalKept DEF EmitScript, InFlight
<1>3. CASE EmitTip(e)
  <2>1. ~(r.event = ScriptChanged(s)) /\ ~(r.at = i)
    BY <1>0, <1>3, EventsDiffer DEF EmitTip
  <2>2. InFlight(e, i, s) => InFlight(e, i, s)'
    BY <1>0, <1>3, <2>1 DEF EmitTip, InFlight, EmitState
  <2>3. QED
    BY <1>0, <1>3, <2>2, SignalKept DEF EmitTip, InFlight
<1>4. CASE SendDone(e)
  <2>1. InFlight(e, i, s) => InFlight(e, i, s)'
    BY <1>0, <1>4 DEF SendDone, InFlight, EmitState
  <2>2. QED
    BY <1>0, <1>4, <2>1, SignalKept DEF SendDone, InFlight
<1>5. CASE SendLag(e)
  <2>1. CASE r.at = i
    <3>1. lagged'[i] = TRUE
      BY <1>0, <1>5, <2>1 DEF SendLag, LagFlag
    <3>2. QED
      BY <3>1 DEF Signalled
  <2>2. CASE r.at # i
    <3>1. InFlight(e, i, s) => InFlight(e, i, s)'
      BY <1>0, <1>5, <2>2 DEF SendLag, InFlight, EmitState
    <3>2. QED
      BY <1>0, <1>5, <2>2, <3>1, SignalKept DEF SendLag, InFlight
  <2>3. QED
    BY <2>1, <2>2
<1>6. CASE SendResync(e)
  <2>1. CASE r.at = i /\ Full(i)
    <3>1. emit'[e].at = i /\ emit'[e].pc = "lag"
      BY <1>0, <1>6, <2>1 DEF SendResync, EmitState
    <3>2. QED
      BY <3>1 DEF Signalled, InFlight
  <2>2. CASE r.at = i /\ ~Full(i)
    <3>1. queue'[i] = Append(queue[i], Resync) /\ Resync \in Event
      BY <1>0, <1>6, <2>2 DEF SendResync, Event
    <3>2. s \in ScriptsOf(i, Resync)
      BY ScriptsOfEvents DEF Behind
    <3>3. QED
      BY <1>0, <3>1, <3>2, Appended DEF Signalled, ScriptsOf
  <2>3. CASE r.at # i
    <3>1. InFlight(e, i, s) => InFlight(e, i, s)'
      BY <1>0, <1>6, <2>3 DEF SendResync, InFlight, EmitState
    <3>2. QED
      BY <1>0, <1>6, <2>3, <3>1, SignalKept DEF SendResync, InFlight
  <2>4. QED
    BY <2>1, <2>2, <2>3
<1>7. CASE SendEvent(e)
  <2>1. CASE r.at = i /\ Full(i)
    <3>1. emit'[e].at = i /\ emit'[e].pc = "lag"
      BY <1>0, <1>7, <2>1 DEF SendEvent, EmitState
    <3>2. QED
      BY <3>1 DEF Signalled, InFlight
  <2>2. CASE r.at = i /\ ~Full(i)
    <3>1. queue'[i] = Append(queue[i], r.event) /\ r.event \in Event
      BY <1>0, <1>7, <2>2 DEF SendEvent
    <3>2. CASE r.event = ScriptChanged(s)
      <4>1. s \in ScriptsOf(i, r.event)
        BY <3>2, ScriptsOfEvents
      <4>2. QED
        BY <1>0, <3>1, <4>1, Appended DEF Signalled, ScriptsOf
    <3>3. CASE r.event # ScriptChanged(s)
      <4>1. InFlight(e, i, s) => InFlight(e, i, s)'
        BY <1>0, <1>7, <3>3 DEF SendEvent, InFlight, EmitState
      <4>2. \A f \in Emitter : InFlight(f, i, s) => InFlight(f, i, s)'
        BY <1>0, <1>7, <4>1 DEF SendEvent, InFlight
      <4>3. \A n \in DOMAIN queue[i] : n \in DOMAIN queue'[i] /\ queue'[i][n] = queue[i][n]
        BY <1>0, <3>1, Appended
      <4>4. QED
        BY <1>0, <1>1, <1>7, <4>2, <4>3 DEF Signalled, ScriptsOf, SendEvent
    <3>4. QED
      BY <3>2, <3>3
  <2>3. CASE r.at # i
    <3>1. InFlight(e, i, s) => InFlight(e, i, s)'
      BY <1>0, <1>7, <2>3 DEF SendEvent, InFlight, EmitState
    <3>2. QED
      BY <1>0, <1>7, <2>3, <3>1, SignalKept DEF SendEvent, InFlight
  <2>4. QED
    BY <2>1, <2>2, <2>3
<1>8. ASSUME NEW j \in Sub, SendSwap(e, j) PROVE Signalled(i, s)'
  <2>1. CASE j = i /\ lagged[i]
    <3>1. emit'[e].at = i /\ emit'[e].pc = "resync"
      BY <1>0, <1>8, <2>1 DEF SendSwap, EmitState
    <3>2. QED
      BY <3>1 DEF Signalled, InFlight
  <2>2. CASE j # i \/ ~lagged[i]
    <3>1. lagged'[i] = lagged[i]
      BY <1>0, <1>8, <2>2 DEF SendSwap
    <3>2. InFlight(e, i, s) => InFlight(e, i, s)'
      BY <1>0, <1>8 DEF SendSwap, InFlight, EmitState
    <3>3. \A f \in Emitter : InFlight(f, i, s) => InFlight(f, i, s)'
      BY <1>0, <1>8, <3>2 DEF SendSwap, InFlight
    <3>4. todo'[i] = todo[i] /\ queue'[i] = queue[i]
      BY <1>1, <1>8 DEF SendSwap
    <3>5. QED
      BY <1>0, <3>1, <3>3, <3>4, SignalKept
  <2>3. QED
    BY <2>1, <2>2
<1>9. QED
  BY <1>2, <1>3, <1>4, <1>5, <1>6, <1>7, <1>8 DEF EmitStep

LEMMA LossStep == FeedInv /\ FeedNext => LossSignalled'
<1> SUFFICES ASSUME FeedInv, FeedNext, NEW i \in Sub, NEW s \in FeedScript, Behind(i, s)'
             PROVE  Signalled(i, s)'
  BY DEF LossSignalled
<1> USE DEF busVars, sendVars, connVars, clientVars
<1>0. Behind(i, s) => Signalled(i, s)
  BY DEF FeedInv, LossSignalled
<1>1. ASSUME NEW e \in Emitter, NEW a \in SUBSET FeedScript, NEW b \in SUBSET FeedScript, Change(e, a, b)
      PROVE  Signalled(i, s)'
  <2>0. emit \in [Emitter -> EmitState] /\ emit[e].scripts = {}
    BY <1>1 DEF Change, Resting, FeedInv, FeedTypeOK
  <2>1. CASE s \in a \cup b
    <3>1. s \in emit'[e].scripts
      BY <1>1, <2>0, <2>1 DEF Change, Touched, EmitState
    <3>2. QED
      BY <3>1 DEF Signalled, InFlight
  <2>2. CASE s \notin a \cup b
    <3>1. Behind(i, s)
      BY <1>1, <2>2 DEF Change, Behind, FeedInv, FeedTypeOK
    <3>2. \A f \in Emitter : InFlight(f, i, s) => InFlight(f, i, s)'
      BY <1>1, <2>0 DEF Change, InFlight, EmitState
    <3>3. UNCHANGED <<todo, lagged, queue>>
      BY <1>1 DEF Change
    <3>4. QED
      BY <1>0, <3>1, <3>2, <3>3, SignalKept
  <2>3. QED
    BY <2>1, <2>2
<1>2. ASSUME NEW e \in Emitter, EmitStep(e) PROVE Signalled(i, s)'
  <2>1. UNCHANGED <<conn, pulled, ver>>
    BY <1>2 DEF EmitStep, EmitScript, EmitTip, SendResync, SendEvent, SendLag, SendDone, SendSwap
  <2>2. Behind(i, s)
    BY <2>1 DEF Behind
  <2>3. QED
    BY <1>2, <2>2, EmitSignals
<1>3. ASSUME NEW j \in Sub, Open(j) \/ Refuse(j) \/ Subscribe(j) \/ Route(j) PROVE Signalled(i, s)'
  <2>1. UNCHANGED <<todo, lagged, queue, emit, pulled, ver>>
    BY <1>3 DEF Open, Refuse, Subscribe, Route
  <2>2. conn[i] = "stream"
    BY <1>3 DEF Open, Refuse, Released, Subscribe, Route, Behind, FeedInv, FeedTypeOK
  <2>3. Signalled(i, s)
    BY <1>0, <2>1, <2>2 DEF Behind
  <2>4. QED
    BY <2>1, <2>3, SignalKept DEF InFlight
<1>4. ASSUME NEW j \in Sub, Nudge(j) PROVE Signalled(i, s)'
  <2>1. CASE j = i
    BY <1>4, <2>1 DEF Nudge, InitialNudge, Signalled, Behind, FeedInv, FeedTypeOK
  <2>2. CASE j # i
    <3>1. Behind(i, s)
      BY <1>4, <2>2 DEF Nudge, Behind, FeedInv, FeedTypeOK
    <3>2. todo'[i] = todo[i] /\ UNCHANGED <<lagged, queue, emit>>
      BY <1>4, <2>2 DEF Nudge, FeedInv, FeedTypeOK
    <3>3. QED
      BY <1>0, <3>1, <3>2, SignalKept DEF InFlight
  <2>3. QED
    BY <2>1, <2>2
<1>5. ASSUME NEW j \in Sub, Deliver(j) PROVE Signalled(i, s)'
  <2>0. /\ Signalled(i, s) /\ UNCHANGED <<lagged, emit>>
        /\ queue \in [Sub -> Seq(Event)] /\ todo \in [Sub -> SUBSET FeedScript]
    BY <1>0, <1>5 DEF Deliver, Behind, FeedInv, FeedTypeOK
  <2>1. CASE j = i
    <3>1. /\ queue[i] # <<>> /\ queue'[i] = Tail(queue[i])
          /\ todo'[i] = todo[i] \cup ScriptsOf(i, Head(queue[i]))
      BY <1>5, <2>0, <2>1 DEF Deliver
    <3>2. ASSUME NEW n \in DOMAIN queue[i], s \in ScriptsOf(i, queue[i][n]) PROVE Signalled(i, s)'
      <4>1. CASE n = 1
        BY <2>0, <3>1, <3>2, <4>1 DEF Signalled
      <4>2. CASE n # 1
        <5>1. n - 1 \in DOMAIN queue'[i] /\ queue'[i][n - 1] = queue[i][n]
          BY <2>0, <3>1, <4>2
        <5>2. QED
          BY <3>2, <5>1 DEF Signalled, ScriptsOf
      <4>3. QED
        BY <4>1, <4>2
    <3>3. QED
      BY <2>0, <3>1, <3>2 DEF Signalled, InFlight
  <2>2. CASE j # i
    <3>1. queue'[i] = queue[i] /\ todo'[i] = todo[i]
      BY <1>5, <2>0, <2>2 DEF Deliver
    <3>2. QED
      BY <2>0, <3>1, SignalKept DEF InFlight
  <2>3. QED
    BY <2>1, <2>2
<1>6. ASSUME NEW j \in Sub, Hangup(j) PROVE Signalled(i, s)'
  <2>1. j # i /\ Behind(i, s)
    BY <1>6 DEF Hangup, Released, Behind, FeedInv, FeedTypeOK
  <2>2. queue'[i] = queue[i] /\ todo'[i] = todo[i] /\ UNCHANGED <<lagged, emit>>
    BY <1>6, <2>1 DEF Hangup, FeedInv, FeedTypeOK
  <2>3. QED
    BY <1>0, <2>1, <2>2, SignalKept DEF InFlight
<1>7. ASSUME NEW j \in Sub, Pull(j) PROVE Signalled(i, s)'
  <2>1. PICK u \in todo[j] : /\ pulled' = [pulled EXCEPT ![j][u] = ver[u]]
                             /\ todo' = [todo EXCEPT ![j] = @ \ {u}]
    BY <1>7 DEF Pull
  <2>2. UNCHANGED <<lagged, queue, emit, conn, ver>>
    BY <1>7 DEF Pull
  <2>3. ~(j = i /\ u = s)
    BY <2>1, <2>2 DEF Behind, FeedInv, FeedTypeOK
  <2>4. Behind(i, s)
    BY <2>1, <2>2, <2>3 DEF Behind, FeedInv, FeedTypeOK
  <2>5. s \in todo[i] => s \in todo'[i]
    BY <2>1, <2>3 DEF FeedInv, FeedTypeOK
  <2>6. QED
    BY <1>0, <2>2, <2>4, <2>5 DEF Signalled, ScriptsOf, InFlight
<1>8. QED
  BY <1>1, <1>2, <1>3, <1>4, <1>5, <1>6, <1>7 DEF FeedNext

LEMMA FeedInvariant == FeedSpec => []FeedInv
<1>1. FeedInv /\ UNCHANGED feedVars => FeedInv'
  BY DEF FeedInv, FeedTypeOK, Routed, Sending, LossSignalled, Behind, Signalled, ScriptsOf, InFlight, feedVars
<1>2. FeedInv /\ [FeedNext]_feedVars => FeedInv'
  BY <1>1, TypeStep, RoutedStep, SendingStep, LossStep DEF FeedInv
<1>3. QED
  BY InitInv, <1>2, PTL DEF FeedSpec

\* A drop is never silent, for any set of scripts and of subscribers, any buffer
\* size and any number of changes: a client that is behind has been told, will
\* be told by what is in its channel or by an emitter at work, or has its lagged
\* flag up (events.rs send_to, rpc_sse.rs handle_sse_connection).
THEOREM NoSilentLoss == FeedSpec => []LossSignalled
BY FeedInvariant, PTL DEF FeedInv

-----------------------------------------------------------------------------
\* The pool and the slots of an address.

Ip == {IpOf[i] : i \in Sub}

Counted ==
  /\ IsFiniteSet(Live) /\ permits \in Nat /\ permits + Cardinality(Live) = PoolCap
  /\ perIp \in [Ip -> Nat] /\ \A a \in Ip : perIp[a] = Cardinality(LiveOf(a))

LEMMA LiveFinite ==
  ASSUME IsFiniteSet(Live), NEW a
  PROVE  /\ IsFiniteSet(LiveOf(a))
         /\ Cardinality(Live) \in Nat /\ Cardinality(LiveOf(a)) \in Nat
<1>1. LiveOf(a) \subseteq Live
  BY DEF LiveOf
<1>2. QED
  BY <1>1, FS_Subset, FS_CardinalityType

LEMMA OpenCounts ==
  ASSUME FeedTypeOK, Counted, NEW i \in Sub, Open(i)
  PROVE  Counted'
<1>1. Live' = Live \cup {i} /\ i \notin Live /\ IpOf[i] \in Ip
  BY DEF Open, Live, Ip, FeedTypeOK
<1>2. LiveOf(IpOf[i])' = LiveOf(IpOf[i]) \cup {i} /\ i \notin LiveOf(IpOf[i])
  BY <1>1 DEF LiveOf
<1>3. \A a \in Ip \ {IpOf[i]} : LiveOf(a)' = LiveOf(a)
  BY <1>1 DEF LiveOf
<1>4. IsFiniteSet(Live') /\ Cardinality(Live') = Cardinality(Live) + 1
  BY <1>1, FS_AddElement DEF Counted
<1>5. Cardinality(LiveOf(IpOf[i])') = Cardinality(LiveOf(IpOf[i])) + 1
  BY <1>2, LiveFinite, FS_AddElement DEF Counted
<1>6. permits' \in Nat /\ permits' + Cardinality(Live') = PoolCap
  BY <1>4, LiveFinite, EventFeedAssumption DEF Counted, Open
<1>7. perIp' \in [Ip -> Nat] /\ \A a \in Ip : perIp'[a] = Cardinality(LiveOf(a)')
  BY <1>1, <1>3, <1>5 DEF Counted, Open
<1>8. QED
  BY <1>4, <1>6, <1>7 DEF Counted

LEMMA ReleasedCounts ==
  ASSUME FeedTypeOK, Counted, NEW i \in Live, Released(i)
  PROVE  Counted'
<1>1. Live' = Live \ {i} /\ i \in Sub /\ IpOf[i] \in Ip
  BY DEF Released, Live, Ip, FeedTypeOK
<1>2. LiveOf(IpOf[i])' = LiveOf(IpOf[i]) \ {i} /\ i \in LiveOf(IpOf[i])
  BY <1>1 DEF LiveOf
<1>3. \A a \in Ip \ {IpOf[i]} : LiveOf(a)' = LiveOf(a)
  BY <1>1 DEF LiveOf
<1>4. IsFiniteSet(Live') /\ Cardinality(Live') = Cardinality(Live) - 1
  BY <1>1, FS_RemoveElement DEF Counted
<1>5. Cardinality(LiveOf(IpOf[i])') = Cardinality(LiveOf(IpOf[i])) - 1
  BY <1>2, LiveFinite, FS_RemoveElement DEF Counted
<1>6. Cardinality(LiveOf(IpOf[i])') \in Nat
  BY <1>4, LiveFinite, FS_Subset, FS_CardinalityType DEF LiveOf
<1>7. permits' \in Nat /\ permits' + Cardinality(Live') = PoolCap
  BY <1>4, LiveFinite, EventFeedAssumption DEF Counted, Released
<1>8. perIp' \in [Ip -> Nat] /\ \A a \in Ip : perIp'[a] = Cardinality(LiveOf(a)')
  BY <1>1, <1>3, <1>5, <1>6 DEF Counted, Released
<1>9. QED
  BY <1>4, <1>7, <1>8 DEF Counted

LEMMA CountedStep == FeedInv /\ Counted /\ FeedNext => Counted'
<1> SUFFICES ASSUME FeedTypeOK, Counted, FeedNext PROVE Counted'
  BY DEF FeedInv
<1> USE DEF busVars, sendVars, connVars, clientVars
<1>0. ASSUME Live' = Live, UNCHANGED <<permits, perIp>> PROVE Counted'
  BY <1>0 DEF Counted, LiveOf
<1>1. ASSUME NEW e \in Emitter, NEW a \in SUBSET FeedScript, NEW b \in SUBSET FeedScript, Change(e, a, b)
      PROVE  Counted'
  BY <1>0, <1>1 DEF Change, Live
<1>2. ASSUME NEW e \in Emitter, EmitStep(e) PROVE Counted'
  <2>1. UNCHANGED connVars
    BY <1>2 DEF EmitStep, EmitScript, EmitTip, SendResync, SendEvent, SendLag, SendDone, SendSwap
  <2>2. QED
    BY <1>0, <2>1 DEF Live
<1>3. ASSUME NEW i \in Sub, Open(i) PROVE Counted'
  BY <1>3, OpenCounts
<1>4. ASSUME NEW i \in Sub, Refuse(i) \/ Hangup(i) PROVE Counted'
  BY <1>4, ReleasedCounts DEF Refuse, Hangup, Live
<1>5. ASSUME NEW i \in Sub, Subscribe(i) \/ Route(i) \/ Nudge(i) \/ Deliver(i) \/ Pull(i)
      PROVE  Counted'
  <2>1. Live' = Live /\ UNCHANGED <<permits, perIp>>
    BY <1>5 DEF Subscribe, Route, Nudge, Deliver, Pull, Live, FeedTypeOK
  <2>2. QED
    BY <1>0, <2>1
<1>6. QED
  BY <1>1, <1>2, <1>3, <1>4, <1>5 DEF FeedNext

\* Whatever way a stream ends, the pool, the slots of its address, the senders
\* and the routes are as if it had never been, for any caps and any number of
\* clients (handle_sse_connection, IpGuard, subscribe and unsubscribe).
THEOREM StreamsSafe == FeedSpec => []StreamsAccounted
<1>1. FeedInit => Counted
  <2> SUFFICES ASSUME FeedInit PROVE Counted
    OBVIOUS
  <2>1. Live = {} /\ \A a : LiveOf(a) = {}
    BY DEF FeedInit, Live, LiveOf
  <2>2. perIp = [a \in Ip |-> 0] /\ permits = PoolCap
    BY DEF FeedInit, Ip
  <2>3. IsFiniteSet(Live) /\ Cardinality(Live) = 0 /\ \A a : Cardinality(LiveOf(a)) = 0
    BY <2>1, FS_EmptySet
  <2>4. QED
    BY <2>2, <2>3, EventFeedAssumption DEF Counted
<1>2. Counted /\ UNCHANGED feedVars => Counted'
  BY DEF Counted, Live, LiveOf, feedVars
<1>3. FeedInv /\ Counted /\ [FeedNext]_feedVars => Counted'
  BY <1>2, CountedStep
<1>4. FeedInv /\ Counted => StreamsAccounted
  <2> SUFFICES ASSUME FeedInv, Counted PROVE StreamsAccounted
    OBVIOUS
  <2>1. subs = {i \in Live : conn[i] # "open"}
    BY DEF FeedInv, Routed, FeedTypeOK, Live
  <2>2. \A i \in Sub : perIp[IpOf[i]] = Cardinality(LiveOf(IpOf[i]))
    BY DEF Counted, Ip
  <2>3. QED
    BY <2>1, <2>2 DEF FeedInv, Routed, Counted, StreamsAccounted
<1>5. QED
  BY FeedInvariant, <1>1, <1>3, <1>4, PTL DEF FeedSpec
=============================================================================
