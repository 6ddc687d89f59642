----------------------------- MODULE EventFeed ------------------------------
(***************************************************************************)
(* The push feed of a wallet: the event bus (events.rs), the streams that  *)
(* drain it (rpc_sse.rs), and the two places that emit on it, the commit   *)
(* of a block (network/sync.rs) and the script index of the mempool        *)
(* (mempool/mempool.rs).                                                   *)
(*                                                                         *)
(* What a client can pull about a script is its version: a commit or a     *)
(* mempool change moves it on and then nudges the watchers of the script.  *)
(* A subscriber id is used once.  The two emitters run concurrently, step  *)
(* by step of send_to, and may be overtaken by subscriptions, pulls and    *)
(* disconnections.                                                         *)
(***************************************************************************)
EXTENDS Naturals, Sequences, FiniteSetsExt

CONSTANTS
  FeedScript,   \* scripts that can be watched
  Sub,          \* subscriber ids
  Watches,      \* [Sub -> SUBSET FeedScript]: the addresses of the request
  WantsTip,     \* ids whose request says tips=1
  IpOf,         \* [Sub -> addresses]
  PoolCap,      \* MAX_RPC_SSE_CONNECTIONS
  IpCap,        \* MAX_RPC_SSE_PER_IP
  Buffer,       \* SUBSCRIBER_BUFFER
  MaxChanges    \* bound on the changes of scripts

ASSUME EventFeedAssumption ==
  /\ 0 \notin Sub /\ Watches \in [Sub -> SUBSET FeedScript] /\ WantsTip \subseteq Sub
  /\ PoolCap \in Nat \ {0} /\ IpCap \in Nat \ {0} /\ Buffer \in Nat \ {0} /\ MaxChanges \in Nat

VARIABLES
  ver,        \* [FeedScript -> Nat]: versions of what a pull returns
  subs,       \* ids in EventBus::subscribers
  routes,     \* EventBus::routes: [FeedScript -> SUBSET Sub]
  lagged,     \* SubscriberSender::lagged
  queue,      \* the channels
  emit,       \* the emitters
  conn,       \* [Sub -> phase of the stream's task]
  permits,    \* free permits of the pool
  perIp,      \* the counter per address
  todo,       \* [Sub -> scripts the client was told to pull]
  pulled      \* [Sub -> [FeedScript -> version last pulled]]

feedVars == <<ver, subs, routes, lagged, queue, emit, conn, permits, perIp, todo, pulled>>

Emitter == {"chain", "pool"}
ScriptChanged(s) == [kind |-> "script", script |-> s]
TipChanged == [kind |-> "tip"]
Resync == [kind |-> "resync"]
NoEvent == [kind |-> "none"]
NoSub == 0

\* scripts, tip: still to be emitted; event, ids: the send_to in progress, and
\* in it the subscriber at hand and the step.
Resting == [scripts |-> {}, tip |-> FALSE, event |-> NoEvent, ids |-> {}, at |-> NoSub, pc |-> "rest"]

FeedInit ==
  /\ ver = [s \in FeedScript |-> 0]
  /\ subs = {} /\ routes = [s \in FeedScript |-> {}]
  /\ lagged = [i \in Sub |-> FALSE] /\ queue = [i \in Sub |-> <<>>]
  /\ emit = [e \in Emitter |-> Resting]
  /\ conn = [i \in Sub |-> "new"] /\ permits = PoolCap /\ perIp = [a \in {IpOf[i] : i \in Sub} |-> 0]
  /\ todo = [i \in Sub |-> {}] /\ pulled = [i \in Sub |-> [s \in FeedScript |-> 0]]

busVars == <<subs, routes>>
sendVars == <<lagged, queue>>
connVars == <<conn, permits, perIp>>
clientVars == <<todo, pulled>>

-----------------------------------------------------------------------------
\* Emitting.

\* The scripts to nudge: those that lost an output and those that gained one.
Touched(spentSide, outputs) == spentSide \cup outputs

\* The changes so far, for the bound.
Changes == MapThenSumSet(LAMBDA s : ver[s], FeedScript)

\* process_block commits under the UTXO lock and then emits; a transaction that
\* enters or leaves the mempool is indexed and then emitted.
Change(e, spentSide, outputs) ==
  LET changed == spentSide \cup outputs
  IN /\ emit[e] = Resting /\ changed # {}
     /\ Changes + Cardinality(changed) <= MaxChanges
     /\ ver' = [s \in FeedScript |-> IF s \in changed THEN ver[s] + 1 ELSE ver[s]]
     /\ emit' = [emit EXCEPT ![e].scripts = Touched(spentSide, outputs), ![e].tip = (e = "chain")]
     /\ UNCHANGED <<busVars, sendVars, connVars, clientVars>>

\* emit_script_changed: the interested ids are read from the routes, whose lock
\* is released before send_to.
EmitScript(e) ==
  /\ emit[e].pc = "rest"
  /\ \E s \in emit[e].scripts :
        emit' = [emit EXCEPT ![e] = [emit[e] EXCEPT !.scripts = @ \ {s}, !.event = ScriptChanged(s),
                                                    !.ids = routes[s], !.pc = "next"]]
  /\ UNCHANGED <<ver, busVars, sendVars, connVars, clientVars>>

EmitTip(e) ==
  /\ emit[e].pc = "rest" /\ emit[e].scripts = {} /\ emit[e].tip
  /\ emit' = [emit EXCEPT ![e] = [emit[e] EXCEPT !.tip = FALSE, !.event = TipChanged,
                                                 !.ids = subs \cap WantsTip, !.pc = "next"]]
  /\ UNCHANGED <<ver, busVars, sendVars, connVars, clientVars>>

\* send_to holds the subscribers' read lock from here to SendDone.
InSendTo(e) == emit[e].pc # "rest"
SubscribersFree == \A e \in Emitter : ~InSendTo(e)

Full(i) == Len(queue[i]) = Buffer

\* The next id that still has a sender: swap its lagged flag.
SendSwap(e, i) ==
  /\ emit[e].pc = "next" /\ i \in emit[e].ids \cap subs
  /\ emit' = [emit EXCEPT ![e] = [emit[e] EXCEPT !.ids = @ \ {i}, !.at = i,
                                                 !.pc = IF lagged[i] THEN "resync" ELSE "event"]]
  /\ lagged' = [lagged EXCEPT ![i] = FALSE]
  /\ UNCHANGED <<ver, busVars, queue, connVars, clientVars>>

\* The Resync of a lagged subscriber goes first; without room for it the event
\* is not tried.
SendResync(e) ==
  LET i == emit[e].at
  IN /\ emit[e].pc = "resync"
     /\ queue' = IF Full(i) THEN queue ELSE [queue EXCEPT ![i] = Append(@, Resync)]
     /\ emit' = [emit EXCEPT ![e].pc = IF Full(i) THEN "lag" ELSE "event"]
     /\ UNCHANGED <<ver, busVars, lagged, connVars, clientVars>>

SendEvent(e) ==
  LET i == emit[e].at
  IN /\ emit[e].pc = "event"
     /\ queue' = IF Full(i) THEN queue ELSE [queue EXCEPT ![i] = Append(@, emit[e].event)]
     /\ emit' = [emit EXCEPT ![e] = IF Full(i) THEN [emit[e] EXCEPT !.pc = "lag"]
                                               ELSE [emit[e] EXCEPT !.pc = "next", !.at = NoSub]]
     /\ UNCHANGED <<ver, busVars, lagged, connVars, clientVars>>

\* Faulty variant: the flag stays as the swap left it.
LagFlagForgotten(i) == lagged[i]

\* What is stored in the flag when a try_send fails.
LagFlag(i) == TRUE

SendLag(e) ==
  LET i == emit[e].at
  IN /\ emit[e].pc = "lag"
     /\ lagged' = [lagged EXCEPT ![i] = LagFlag(i)]
     /\ emit' = [emit EXCEPT ![e] = [emit[e] EXCEPT !.pc = "next", !.at = NoSub]]
     /\ UNCHANGED <<ver, busVars, queue, connVars, clientVars>>

SendDone(e) ==
  /\ emit[e].pc = "next" /\ emit[e].ids \cap subs = {}
  /\ emit' = [emit EXCEPT ![e] = [emit[e] EXCEPT !.pc = "rest", !.event = NoEvent, !.ids = {}]]
  /\ UNCHANGED <<ver, busVars, sendVars, connVars, clientVars>>

-----------------------------------------------------------------------------
\* The stream of one subscriber.

\* The pool's permit and the address's slot, or the request is refused.
Open(i) ==
  /\ conn[i] = "new" /\ permits > 0 /\ perIp[IpOf[i]] < IpCap
  /\ conn' = [conn EXCEPT ![i] = "open"]
  /\ permits' = permits - 1 /\ perIp' = [perIp EXCEPT ![IpOf[i]] = @ + 1]
  /\ UNCHANGED <<ver, busVars, sendVars, emit, clientVars>>

\* Both are given back when the task returns, whichever way.
Released(i) ==
  /\ conn' = [conn EXCEPT ![i] = "closed"]
  /\ permits' = permits + 1 /\ perIp' = [perIp EXCEPT ![IpOf[i]] = @ - 1]

\* A malformed request, or a client gone before the headers.
Refuse(i) ==
  /\ conn[i] = "open" /\ Released(i)
  /\ UNCHANGED <<ver, busVars, sendVars, emit, clientVars>>

\* subscribe makes the sender known first and the routes to it next.
Subscribe(i) ==
  /\ conn[i] = "open" /\ SubscribersFree
  /\ subs' = subs \cup {i} /\ conn' = [conn EXCEPT ![i] = "route"]
  /\ UNCHANGED <<ver, routes, sendVars, emit, permits, perIp, clientVars>>

Route(i) ==
  /\ conn[i] = "route"
  /\ routes' = [s \in FeedScript |-> IF s \in Watches[i] THEN routes[s] \cup {i} ELSE routes[s]]
  /\ conn' = [conn EXCEPT ![i] = "nudge"]
  /\ UNCHANGED <<ver, subs, sendVars, emit, permits, perIp, clientVars>>

\* Faulty variant: a new stream waits for its first event.
InitialNudgeNone(i) == {}

\* The scripts the stream nudges by itself before it waits for events.
InitialNudge(i) == Watches[i]

Nudge(i) ==
  /\ conn[i] = "nudge"
  /\ todo' = [todo EXCEPT ![i] = InitialNudge(i)]
  /\ conn' = [conn EXCEPT ![i] = "stream"]
  /\ UNCHANGED <<ver, busVars, sendVars, emit, permits, perIp, pulled>>

ScriptsOf(i, ev) ==
  CASE ev.kind = "script" -> {ev.script}
    [] ev.kind = "resync" -> Watches[i]
    [] OTHER -> {}

Deliver(i) ==
  /\ conn[i] = "stream" /\ queue[i] # <<>>
  /\ queue' = [queue EXCEPT ![i] = Tail(@)]
  /\ todo' = [todo EXCEPT ![i] = @ \cup ScriptsOf(i, Head(queue[i]))]
  /\ UNCHANGED <<ver, busVars, lagged, emit, connVars, pulled>>

\* A write fails, during the nudges, an event or a heartbeat: unsubscribe, with
\* the routes' lock held until the sender is removed as well.
Hangup(i) ==
  /\ conn[i] \in {"nudge", "stream"} /\ SubscribersFree
  /\ subs' = subs \ {i} /\ routes' = [s \in FeedScript |-> routes[s] \ {i}]
  /\ queue' = [queue EXCEPT ![i] = <<>>] /\ todo' = [todo EXCEPT ![i] = {}]
  /\ Released(i)
  /\ UNCHANGED <<ver, lagged, emit, pulled>>

\* External: the client pulls what it was told has changed.
Pull(i) ==
  /\ conn[i] = "stream"
  /\ \E s \in todo[i] : /\ pulled' = [pulled EXCEPT ![i][s] = ver[s]]
                        /\ todo' = [todo EXCEPT ![i] = @ \ {s}]
  /\ UNCHANGED <<ver, busVars, sendVars, emit, connVars>>

EmitStep(e) ==
  \/ EmitScript(e) \/ EmitTip(e) \/ SendResync(e) \/ SendEvent(e) \/ SendLag(e) \/ SendDone(e)
  \/ \E i \in Sub : SendSwap(e, i)

FeedNext ==
  \/ \E e \in Emitter, a, b \in SUBSET FeedScript : Change(e, a, b)
  \/ \E e \in Emitter : EmitStep(e)
  \/ \E i \in Sub : \/ Open(i) \/ Refuse(i) \/ Subscribe(i) \/ Route(i) \/ Nudge(i)
                    \/ Deliver(i) \/ Hangup(i) \/ Pull(i)

\* The steps of the emitters, of a stream's task and of a connected client, which
\* are not put off for ever.
FeedStep ==
  \/ \E e \in Emitter : EmitStep(e)
  \/ \E i \in Sub : Route(i) \/ Nudge(i) \/ Deliver(i) \/ Pull(i)

FeedSpec == FeedInit /\ [][FeedNext]_feedVars /\ WF_feedVars(FeedStep)

-----------------------------------------------------------------------------
\* Properties.

Behind(i, s) == conn[i] = "stream" /\ s \in Watches[i] /\ pulled[i][s] # ver[s]

\* An emitter that will still nudge i about s, or has yet to report a loss.
InFlight(e, i, s) ==
  \/ s \in emit[e].scripts
  \/ emit[e].event = ScriptChanged(s) /\ i \in emit[e].ids \cup {emit[e].at}
  \/ emit[e].at = i /\ emit[e].pc \in {"resync", "lag"}

Signalled(i, s) ==
  \/ s \in todo[i] \/ lagged[i]
  \/ \E n \in DOMAIN queue[i] : s \in ScriptsOf(i, queue[i][n])
  \/ \E e \in Emitter : InFlight(e, i, s)

\* A drop is never silent: when what a live client last pulled about a script it
\* watches is out of date, it has been told, or an event or a Resync waits in
\* its channel, or an emitter is still at it, or its lagged flag is up, so that
\* the next event brings a Resync (events.rs subscribe and send_to, the initial
\* nudges of rpc_sse.rs, and the emissions after a commit and an index update).
LossSignalled == \A i \in Sub : \A s \in FeedScript : Behind(i, s) => Signalled(i, s)

\* Once changes pause, every client that stays is up to date on all it watches,
\* save one left with its lagged flag up: send_to carries the Resync on the next
\* event only (the loop of handle_sse_connection, send_to).
FeedSettles == <>[](\A i \in Sub, s \in FeedScript : Behind(i, s) => lagged[i])

\* The streams that hold a permit, and those of one address.
Live == {i \in Sub : conn[i] \notin {"new", "closed"}}
LiveOf(a) == {i \in Live : IpOf[i] = a}

\* Whatever way a stream ends, its permit, its address's slot, its sender and
\* its routes are gone with it, and a live one has all of them
\* (handle_sse_connection, IpGuard, subscribe and unsubscribe).
StreamsAccounted ==
  /\ permits + Cardinality(Live) = PoolCap
  /\ \A i \in Sub : perIp[IpOf[i]] = Cardinality(LiveOf(IpOf[i]))
  /\ subs = {i \in Live : conn[i] # "open"}
  /\ \A s \in FeedScript : routes[s] = {i \in subs : s \in Watches[i] /\ conn[i] # "route"}
=============================================================================
