---------------------------- MODULE PeerRegistry ----------------------------
(***************************************************************************)
(* The peer registry and the life of a connection (network/sync.rs):       *)
(* accept or dial, handshake, eviction and attachment under the peers      *)
(* lock, the supervisor, the clean-up, and the reservation of the session  *)
(* the sync manager downloads from.                                        *)
(*                                                                         *)
(* A connection is its session id; ids are given in the order in which     *)
(* sessions are established, so a smaller id is an older session.  Owner   *)
(* is the identity a handshake over a socket address authenticates.  The   *)
(* age of a session is 0 within the grace time of evictions, 1 within the  *)
(* 120 s in which it is not replaced, 2 after that.                        *)
(***************************************************************************)
EXTENDS Integers, Sequences, FiniteSetsExt

CONSTANTS Peer,              \* identities
          InAddr, OutAddr,   \* socket addresses that dial us, that we dial
          Owner, Ip, Group,  \* of a socket address
          PrefersOutbound,   \* the identities with our_pubkey > identity
          MAX_INBOUND_PEERS, MAX_INBOUND_PER_IP, EVICTION_PENDING_HEADROOM,
          MAX_OUTBOUND_PEERS,
          PROTECT_USEFUL_N, PROTECT_OLDEST_N, PROTECT_GROUPS_N,
          Prompt,            \* whether supervisors start within the grace time
          Talking,           \* the identities that send useful messages
          Serving,           \* the identities the node downloads from
          MaxConns           \* bound on connections

ASSUME PeerRegistryAssumption ==
  /\ InAddr \cap OutAddr = {} /\ \A a \in InAddr \cup OutAddr : Owner[a] \in Peer
  /\ PrefersOutbound \subseteq Peer /\ Prompt \in BOOLEAN /\ Talking \cup Serving \subseteq Peer
  /\ {MAX_INBOUND_PEERS, MAX_INBOUND_PER_IP, EVICTION_PENDING_HEADROOM, MAX_OUTBOUND_PEERS,
      PROTECT_USEFUL_N, PROTECT_OLDEST_N, PROTECT_GROUPS_N, MaxConns} \subseteq Nat

Conn == 1..MaxConns
Addr == InAddr \cup OutAddr

VARIABLES
  conn,        \* session id -> [pc, addr, age, snap]
  session,     \* by_identity: identity -> session id or 0
  sockets,     \* connected_socket_to_identity
  pendingIn, pendingOut,
  flag,        \* connections whose shutdown flag is set
  useful,      \* sessions by last useful message, the latest last
  ibd,         \* active_ibd_peer, a session id or 0
  mgr,         \* "idle", "installed" or "ibd"
  catching     \* sync_state = CatchingUp

syncvars == <<ibd, mgr, catching>>
registry == <<session, sockets, pendingIn, pendingOut, flag, useful>>
vars == <<conn, registry, syncvars>>

Out(c) == conn[c].addr \in OutAddr
PeerOf(c) == Owner[conn[c].addr]
Current(c) == session[PeerOf(c)] = c
Attached == {session[p] : p \in Peer} \ {0}
Inbound == {c \in Attached : ~Out(c)}
Outbound == {c \in Attached : Out(c)}
InboundOf(ip) == {c \in Inbound : Ip[conn[c].addr] = ip}
Running == {c \in Conn : conn[c].pc \in {"attached", "up", "deaf"}}

Free == [pc |-> "free", addr |-> CHOOSE a \in Addr : TRUE, age |-> 0, snap |-> 0]

Init ==
  /\ conn = [c \in Conn |-> Free] /\ session = [p \in Peer |-> 0]
  /\ sockets = {} /\ pendingIn = {} /\ pendingOut = {} /\ flag = {} /\ useful = <<>>
  /\ ibd = 0 /\ mgr = "idle" /\ catching = TRUE

-----------------------------------------------------------------------------
\* Accepting and dialling.

\* reserve_inbound_socket and reserve_outbound_addr.
Reservable(a) == a \notin pendingIn \cup pendingOut /\ \A s \in sockets : s[1] # a

Open(a) ==
  \E c \in Conn : /\ conn[c].pc = "free" /\ \A d \in 1..c - 1 : conn[d].pc # "free"
                  /\ conn' = [conn EXCEPT ![c] = [Free EXCEPT !.pc = "handshake", !.addr = a]]

Accepts(a) ==
  /\ Cardinality(Inbound) + Cardinality(pendingIn)
       < MAX_INBOUND_PEERS + EVICTION_PENDING_HEADROOM
  /\ Cardinality(InboundOf(Ip[a])) < MAX_INBOUND_PER_IP
  /\ Reservable(a)

Accept(a) ==
  /\ Accepts(a) /\ Open(a) /\ pendingIn' = pendingIn \cup {a}
  /\ UNCHANGED <<session, sockets, pendingOut, flag, useful, syncvars>>

OutboundSlot == Cardinality(Outbound) + Cardinality(pendingOut) < MAX_OUTBOUND_PEERS

ReserveOutbound(a) == pendingOut' = pendingOut \cup {a} /\ UNCHANGED pendingIn

\* A turn of the outbound manager whose candidate is a.
Dial(a) ==
  /\ OutboundSlot /\ Reservable(a) /\ Open(a) /\ ReserveOutbound(a)
  /\ UNCHANGED <<session, sockets, flag, useful, syncvars>>


Release(c) ==
  /\ pendingIn' = pendingIn \ {conn[c].addr} /\ pendingOut' = pendingOut \ {conn[c].addr}

Finish(c) == conn' = [conn EXCEPT ![c] = [Free EXCEPT !.pc = "done"]]

\* The handshake fails, or its identity is banned.
HandshakeFails(c) ==
  /\ conn[c].pc = "handshake" /\ Finish(c) /\ Release(c)
  /\ UNCHANGED <<session, sockets, flag, useful, syncvars>>

\* An outbound connection reads active_ibd_peer before it takes the lock.
ReadActiveIbd(c) ==
  /\ conn[c].pc = "handshake" /\ Out(c)
  /\ conn' = [conn EXCEPT ![c].pc = "read", ![c].snap = ibd]
  /\ UNCHANGED <<registry, syncvars>>

-----------------------------------------------------------------------------
\* Eviction and attachment, under the peers lock.

First(S, n) == {c \in S : Cardinality({d \in S : d < c}) < n}
GroupOf(c) == Group[conn[c].addr]
Oldest == {c \in Inbound : \A d \in Inbound : GroupOf(d) = GroupOf(c) => c <= d}

\* The last n useful messages of inbound sessions.
LastUseful(n) ==
  LET u == SelectSeq(useful, LAMBDA c : c \in Inbound)
  IN  {u[i] : i \in {j \in DOMAIN u : j > Len(u) - n}}

\* Faulty variant: the session of the download is a candidate.
ProtectedNoIbd ==
  {c \in Inbound : conn[c].age = 0} \cup LastUseful(PROTECT_USEFUL_N)
    \cup First(Inbound, PROTECT_OLDEST_N) \cup First(Oldest, PROTECT_GROUPS_N)

Protected ==
  {ibd} \cup {c \in Inbound : conn[c].age = 0} \cup LastUseful(PROTECT_USEFUL_N)
    \cup First(Inbound, PROTECT_OLDEST_N) \cup First(Oldest, PROTECT_GROUPS_N)

\* The newest session of a largest network group; of equally large groups
\* the one with the highest total age, which ids do not tell.
Victims ==
  LET pool    == Inbound \ Protected
      of(c)   == {d \in pool : GroupOf(d) = GroupOf(c)}
      largest == {c \in pool : \A d \in pool : Cardinality(of(d)) <= Cardinality(of(c))}
  IN  IF \A c \in pool : of(c) = {c} THEN {c \in pool : \A d \in pool : d <= c}
      ELSE {c \in largest : \A d \in of(c) : d <= c}

\* Rules 1, 1b and 2: the existing session is not to be replaced.
Keeps(old, active) == active = old \/ catching \/ conn[old].age < 2

\* detach_session_if_current of the sessions in gone, then attach_session.
Attach(c, gone, active) ==
  LET p   == PeerOf(c)
      old == session[p]
      dropped == gone \cup {old}
      Take ==
        /\ session' = [q \in Peer |-> IF q = p THEN c ELSE IF session[q] \in gone THEN 0 ELSE session[q]]
        /\ sockets' = {s \in sockets : \A d \in dropped \ {0} : s[1] # conn[d].addr}
                        \cup {<<conn[c].addr, p>>}
        /\ flag' = flag \cup (dropped \ {0})
        /\ useful' = SelectSeq(useful, LAMBDA d : d \notin dropped)
        /\ conn' = [conn EXCEPT ![c].pc = "attached", ![c].snap = 0]
  IN  /\ Release(c)
      /\ IF old = 0 \/ (~Keeps(old, active) /\ Out(c) = (p \in PrefersOutbound)) THEN Take
         ELSE Finish(c) /\ UNCHANGED <<session, sockets, flag, useful>>

AttachOutbound(c) ==
  /\ conn[c].pc = "read" /\ Attach(c, {}, conn[c].snap)
  /\ UNCHANGED syncvars

AtCap == Cardinality(Inbound) >= MAX_INBOUND_PEERS

\* decide_inbound_eviction_utility and attach_session in one critical section.
AttachInbound(c) ==
  LET full == AtCap /\ session[PeerOf(c)] = 0
      refused == Cardinality(InboundOf(Ip[conn[c].addr])) >= MAX_INBOUND_PER_IP \/ Victims = {}
  IN  /\ conn[c].pc = "handshake" /\ ~Out(c)
      /\ \/ ~full /\ Attach(c, {}, ibd)
         \/ full /\ ~refused /\ \E v \in Victims : Attach(c, {v}, ibd)
         \/ full /\ refused /\ Finish(c) /\ Release(c)
            /\ UNCHANGED <<session, sockets, flag, useful>>
      /\ UNCHANGED syncvars

-----------------------------------------------------------------------------
\* The session.

\* The supervisor takes the shutdown flag from the registry, or a new one
\* when its session is no longer there.
Supervise(c) ==
  /\ conn[c].pc = "attached" /\ (Prompt => conn[c].age = 0)
  /\ conn' = [conn EXCEPT ![c].pc = IF Current(c) THEN "up" ELSE "deaf"]
  /\ UNCHANGED <<registry, syncvars>>

\* The session ends by itself: reader, writer, keepalive or a ban.
SessionEnds(c) ==
  /\ conn[c].pc \in {"up", "deaf"} /\ conn' = [conn EXCEPT ![c].pc = "ended"]
  /\ UNCHANGED <<registry, syncvars>>


\* The supervisor's tick finds the shutdown flag set.
Unwind(c) ==
  /\ conn[c].pc = "up" /\ c \in flag /\ conn' = [conn EXCEPT ![c].pc = "ended"]
  /\ UNCHANGED <<registry, syncvars>>

\* The clean-up: first active_ibd_peer, then the registry.
ClearIbd(c) ==
  /\ conn[c].pc = "ended" /\ conn' = [conn EXCEPT ![c].pc = "cleared"]
  /\ ibd' = IF ibd = c THEN 0 ELSE ibd
  /\ UNCHANGED <<registry, mgr, catching>>

Detachable(c) == Current(c)

DetachIfCurrent(c) ==
  /\ conn[c].pc = "cleared" /\ Finish(c) /\ flag' = flag \ {c}
  /\ IF Detachable(c)
     THEN /\ session' = [session EXCEPT ![PeerOf(c)] = 0]
          /\ sockets' = {s \in sockets : s[1] # conn[session[PeerOf(c)]].addr}
          /\ useful' = SelectSeq(useful, LAMBDA d : d # c)
     ELSE UNCHANGED <<session, sockets, useful>>
  /\ UNCHANGED <<pendingIn, pendingOut, syncvars>>

\* mark_useful_message of the current session.
Useful(c) ==
  /\ PeerOf(c) \in Talking /\ conn[c].pc = "up" /\ Current(c)
  /\ useful' = Append(SelectSeq(useful, LAMBDA d : d # c), c) /\ useful' # useful
  /\ UNCHANGED <<conn, session, sockets, pendingIn, pendingOut, flag, syncvars>>

\* The oldest useful message leaves the window of 600 s.
UsefulExpires ==
  /\ useful # <<>> /\ useful' = Tail(useful)
  /\ UNCHANGED <<conn, session, sockets, pendingIn, pendingOut, flag, syncvars>>

\* Time passes; older sessions reach each age first.
Ages(c) ==
  /\ conn[c].age < 2 /\ c \in Running
  /\ Prompt => conn[c].pc # "attached"
  /\ \A d \in Running : d < c => conn[d].age > conn[c].age
  /\ conn' = [conn EXCEPT ![c].age = @ + 1]
  /\ UNCHANGED <<registry, syncvars>>

-----------------------------------------------------------------------------
\* The sync manager.

\* active_ibd_peer is set under the peers lock, CatchingUp after it.
InstallIbd(p) ==
  /\ p \in Serving /\ mgr = "idle" /\ session[p] # 0
  /\ ibd' = session[p] /\ mgr' = "installed"
  /\ UNCHANGED <<conn, registry, catching>>

RunIbd ==
  /\ mgr = "installed" /\ mgr' = "ibd" /\ catching' = TRUE
  /\ UNCHANGED <<conn, registry, ibd>>

EndIbd ==
  /\ mgr = "ibd" /\ mgr' = "idle" /\ ibd' = 0
  /\ UNCHANGED <<conn, registry, catching>>

GoLive ==
  /\ mgr = "idle" /\ catching /\ catching' = FALSE
  /\ UNCHANGED <<conn, registry, ibd, mgr>>

Next ==
  \/ \E a \in InAddr : Accept(a)
  \/ \E a \in OutAddr : Dial(a)
  \/ \E c \in Conn :
       \/ HandshakeFails(c) \/ ReadActiveIbd(c) \/ AttachOutbound(c) \/ AttachInbound(c)
       \/ Supervise(c) \/ SessionEnds(c) \/ Unwind(c) \/ ClearIbd(c) \/ DetachIfCurrent(c)
       \/ Useful(c) \/ Ages(c)
  \/ UsefulExpires
  \/ \E p \in Peer : InstallIbd(p)
  \/ RunIbd \/ EndIbd \/ GoLive

Spec == Init /\ [][Next]_vars

\* Supervisors tick every second and their clean-up runs to its end.
FairSpec ==
  /\ Spec
  /\ \A c \in Conn : WF_vars(Supervise(c)) /\ WF_vars(Unwind(c))
                        /\ WF_vars(ClearIbd(c)) /\ WF_vars(DetachIfCurrent(c))

-----------------------------------------------------------------------------
Steps == {"free", "handshake", "read", "attached", "up", "deaf", "ended", "cleared", "done"}

\* Connections, the registry and the state of the download.
TypeOK ==
  /\ conn \in [Conn -> [pc : Steps, addr : Addr, age : 0..2, snap : 0..MaxConns]]
  /\ session \in [Peer -> 0..MaxConns] /\ sockets \subseteq Addr \X Peer
  /\ pendingIn \subseteq InAddr /\ pendingOut \subseteq OutAddr
  /\ flag \subseteq Conn /\ useful \in Seq(Conn)
  /\ ibd \in 0..MaxConns /\ mgr \in {"idle", "installed", "ibd"} /\ catching \in BOOLEAN


Leaves(c) == conn[c].pc = "cleared" /\ conn'[c].pc = "done"

\* The session the sync manager downloads from is neither evicted nor
\* replaced by a connection the peer makes: it goes with its own connection,
\* or for a dial of ours that read active_ibd_peer before the download began.
IbdSessionKept ==
  [][ibd # 0 /\ Current(ibd) =>
       \/ session'[PeerOf(ibd)] = ibd \/ Leaves(ibd)
       \/ \E c \in Conn : conn[c].pc = "read" /\ conn[c].snap # ibd /\ session'[PeerOf(ibd)] = c]_vars

=============================================================================
