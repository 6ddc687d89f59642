----------------------------- MODULE AbuseTracker ---------------------------
(***************************************************************************)
(* Strikes and bans (network/sync.rs: record_ip_strike, is_ip_banned,      *)
(* ban_identity, is_identity_banned; the ban tables of chain/storage.rs;   *)
(* their restoration in main.rs).                                          *)
(*                                                                         *)
(* Time is counted in steps that are long against the one second after     *)
(* which a reader looks at the bans again.  A violation is struck by the   *)
(* reader itself, or by the sync manager when it comes to the event, which *)
(* may be long after: a download runs in the same task.  The wall clock    *)
(* and the monotonic clock agree.                                          *)
(***************************************************************************)
EXTENDS Integers, FiniteSets, FiniteSetsExt, Functions

CONSTANTS Ip, Id,
          IP_BAN_STRIKE_THRESHOLD, BAN_DECAY, IP_BAN_DURATION,
          MAX_IP_ABUSE_ENTRIES, MAX_IDENTITY_BAN_ENTRIES,
          MaxTime,      \* bound on time
          MaxQueued,    \* bound on violations that wait for the sync manager
          MaxRestarts   \* bound on restarts

ASSUME AbuseAssumption ==
  /\ IP_BAN_STRIKE_THRESHOLD \in Nat /\ IP_BAN_STRIKE_THRESHOLD > 1
  /\ BAN_DECAY \in Nat \ {0} /\ IP_BAN_DURATION \in Nat /\ BAN_DECAY <= IP_BAN_DURATION
  /\ MAX_IP_ABUSE_ENTRIES \in Nat \ {0} /\ MAX_IDENTITY_BAN_ENTRIES \in Nat \ {0}
  /\ MaxTime \in Nat /\ MaxQueued \in Nat /\ MaxRestarts \in Nat

VARIABLES
  now,
  abuse,      \* ip_abuse: strikes, end of the ban or 0, time of the last strike
  stored,     \* IP_BAN_TABLE: end of the ban, or 0
  idBans,     \* identity_bans: end of the ban, or 0
  storedIds,  \* IDENTITY_BAN_TABLE
  sessions,   \* <<ip, identity>> of the open sessions
  reading,    \* those whose reader waits for a message, having found no ban
  queued,     \* violations that wait for the sync manager
  restarts,
  hist,       \* history: the strikes of an IP, with no pause of BAN_DECAY
              \* between two of them, up to the threshold, since a full
              \* table last gave up its entry, and the time of the last
  lifted      \* history: a strike has lifted a ban

history == <<hist, lifted>>
tables == <<abuse, stored, idBans, storedIds>>
abuseVars == <<now, tables, sessions, reading, queued, restarts, history>>

AbuseInit ==
  /\ now = 1 /\ restarts = 0
  /\ abuse = <<>> /\ stored = [i \in Ip |-> 0]
  /\ idBans = [d \in Id |-> 0] /\ storedIds = [d \in Id |-> 0]
  /\ sessions = {} /\ reading = {} /\ queued = {}
  /\ hist = [i \in Ip |-> [n |-> 0, last |-> 0]] /\ lifted = FALSE

Banned(i) == i \in DOMAIN abuse /\ now < abuse[i].until
IdBanned(d) == now < idBans[d]
Decayed(e) == now - e.last >= BAN_DECAY
-----------------------------------------------------------------------------
\* is_ip_banned removes an entry whose ban is over, or whose strikes decayed.
Forget(i) ==
  /\ i \in DOMAIN abuse
  /\ IF abuse[i].until # 0 THEN now >= abuse[i].until ELSE Decayed(abuse[i])

CheckIp(i) ==
  /\ abuse' = IF Forget(i) THEN Restrict(abuse, DOMAIN abuse \ {i}) ELSE abuse
  /\ stored' = IF Forget(i) /\ abuse[i].until # 0 THEN [stored EXCEPT ![i] = 0] ELSE stored

\* is_identity_banned.
CheckId(d) ==
  LET over == idBans[d] # 0 /\ ~IdBanned(d)
  IN /\ idBans' = IF over THEN [idBans EXCEPT ![d] = 0] ELSE idBans
     /\ storedIds' = IF over THEN [storedIds EXCEPT ![d] = 0] ELSE storedIds

\* The two checks in their order: the second is not made of a banned IP.
CheckBans(i, d) ==
  /\ CheckIp(i)
  /\ IF Banned(i) THEN UNCHANGED <<idBans, storedIds>> ELSE CheckId(d)

\* ban_identity: at the cap the expired bans go, then the ones that end first.
BanIdentity(d) ==
  LET listed == {e \in Id : idBans[e] # 0}
      kept == IF Cardinality(listed) < MAX_IDENTITY_BAN_ENTRIES THEN listed
              ELSE {e \in listed : now < idBans[e]}
  IN \E K \in SUBSET kept :
       /\ IF Cardinality(kept) < MAX_IDENTITY_BAN_ENTRIES THEN K = kept
          ELSE Cardinality(K) = MAX_IDENTITY_BAN_ENTRIES - 1
       /\ \A e \in K, f \in kept \ K : idBans[f] <= idBans[e]
       /\ idBans' = [e \in Id |-> IF e = d THEN now + IP_BAN_DURATION
                                  ELSE IF e \in K THEN idBans[e] ELSE 0]
       /\ storedIds' = [e \in Id |-> IF e = d THEN now + IP_BAN_DURATION
                                     ELSE IF e \in listed \ K THEN 0 ELSE storedIds[e]]

Full(S) == Cardinality(S) >= MAX_IP_ABUSE_ENTRIES

\* The entries record_ip_strike may keep, K, when the table is full: first the
\* decayed ones go, then the oldest that are not banned, one by one, and if all
\* are banned the oldest of them, for an IP that has no entry.
Keeps(K, i) ==
  LET D == DOMAIN abuse
      swept == IF Full(D) THEN {j \in D : ~Decayed(abuse[j]) \/ Banned(j)} ELSE D
      bans == {j \in swept : Banned(j)}
      Oldest(gone, among) == \A g \in gone, j \in among \ gone : abuse[g].last <= abuse[j].last
  IN \/ ~Full(swept) /\ K = swept
     \/ /\ Full(swept) /\ ~Full(bans)
        /\ bans \subseteq K /\ K \subseteq swept /\ ~Full(K)
        /\ \A j \in swept \ K : Full(K \cup {j})
        /\ Oldest(swept \ K, swept \ bans)
     \/ /\ Full(swept) /\ Full(bans)
        /\ IF i \in bans THEN K = bans
           ELSE \E v \in bans : K = bans \ {v} /\ Oldest({v}, bans)

\* The entry after one more strike: strikes that decayed are forgotten, and a
\* ban with them.
Struck(e) ==
  LET strikes == IF Decayed(e) THEN 1 ELSE e.strikes + 1
      until == IF Decayed(e) THEN 0 ELSE e.until
  IN [strikes |-> strikes, last |-> now,
      until |-> IF strikes >= IP_BAN_STRIKE_THRESHOLD THEN now + IP_BAN_DURATION ELSE until]

\* put_ip_ban.
Persist(i, e) == stored' = [stored EXCEPT ![i] = e.until]

\* record_ip_strike.
RecordStrike(i, d) ==
  /\ \E K \in SUBSET DOMAIN abuse :
       /\ Keeps(K, i)
       /\ LET old == IF i \in K THEN abuse[i] ELSE [strikes |-> 0, until |-> 0, last |-> now]
              new == Struck(old)
          IN /\ abuse' = [j \in K \cup {i} |-> IF j = i THEN new ELSE abuse[j]]
             /\ IF new.strikes >= IP_BAN_STRIKE_THRESHOLD
                THEN Persist(i, new) /\ BanIdentity(d)
                ELSE UNCHANGED <<stored, idBans, storedIds>>
       /\ hist' = [j \in Ip |->
                     LET h == IF j \in DOMAIN abuse \ K /\ ~Banned(j)
                              THEN [n |-> 0, last |-> 0] ELSE hist[j]
                     IN IF j # i THEN h
                        ELSE [n |-> IF now - h.last >= BAN_DECAY THEN 1
                                    ELSE Min({h.n + 1, IP_BAN_STRIKE_THRESHOLD}),
                              last |-> now]]
       /\ lifted' = (lifted \/ (Banned(i) /\ abuse'[i].until = 0))
-----------------------------------------------------------------------------
\* The registry keeps one session of an identity.
Connected(d) == \E s \in sessions : s[2] = d

\* An inbound connection: listen looks at the IP, the handshake at the identity.
Accept(i, d) ==
  /\ ~Connected(d)
  /\ CheckBans(i, d)
  /\ sessions' = IF Banned(i) \/ IdBanned(d) THEN sessions ELSE sessions \cup {<<i, d>>}
  /\ UNCHANGED <<now, reading, queued, restarts, history>>

\* An outbound connection: only the identity is looked at.
Dial(i, d) ==
  /\ ~Connected(d)
  /\ CheckId(d)
  /\ sessions' = IF IdBanned(d) THEN sessions ELSE sessions \cup {<<i, d>>}
  /\ UNCHANGED <<now, abuse, stored, reading, queued, restarts, history>>

\* Faulty variant: a session refused because of a ban is struck.
ReaderCheckStrikes(i, d) ==
  /\ <<i, d>> \in sessions
  /\ IF Banned(i) \/ IdBanned(d)
     THEN RecordStrike(i, d) /\ sessions' = sessions \ {<<i, d>>} /\ reading' = reading \ {<<i, d>>}
     ELSE CheckBans(i, d) /\ reading' = reading \cup {<<i, d>>} /\ UNCHANGED <<sessions, history>>
  /\ UNCHANGED <<now, queued, restarts>>

\* The head of the reader's loop (the supervisor makes the same checks): a
\* banned peer's session ends without a strike.
ReaderCheck(i, d) ==
  /\ <<i, d>> \in sessions
  /\ CheckBans(i, d)
  /\ IF Banned(i) \/ IdBanned(d)
     THEN sessions' = sessions \ {<<i, d>>} /\ reading' = reading \ {<<i, d>>}
     ELSE sessions' = sessions /\ reading' = reading \cup {<<i, d>>}
  /\ UNCHANGED <<now, queued, restarts, history>>

\* A block the reader itself finds invalid; it looks at the IP once more.
StrikeInline(i, d) ==
  /\ <<i, d>> \in reading /\ ~Banned(i)
  /\ RecordStrike(i, d)
  /\ reading' = reading \ {<<i, d>>}
  /\ sessions' = IF now < abuse'[i].until THEN sessions \ {<<i, d>>} ELSE sessions
  /\ UNCHANGED <<now, queued, restarts>>

\* A session that ends with an error that is struck.
StrikeExit(i, d) ==
  /\ <<i, d>> \in reading
  /\ RecordStrike(i, d)
  /\ reading' = reading \ {<<i, d>>} /\ sessions' = sessions \ {<<i, d>>}
  /\ UNCHANGED <<now, queued, restarts>>

\* A block or a tip that goes to the sync manager, or to a task it starts, and
\* will be found invalid there.
Queue(i, d) ==
  /\ <<i, d>> \in reading /\ ~Banned(i)
  /\ Cardinality(queued) < MaxQueued /\ <<i, d>> \notin queued
  /\ queued' = queued \cup {<<i, d>>} /\ reading' = reading \ {<<i, d>>}
  /\ UNCHANGED <<now, tables, sessions, restarts, history>>

\* It is found invalid.
StrikeQueued(i, d) ==
  /\ <<i, d>> \in queued
  /\ queued' = queued \ {<<i, d>>}
  /\ RecordStrike(i, d)
  /\ UNCHANGED <<now, sessions, reading, restarts>>

Close(i, d) ==
  /\ <<i, d>> \in sessions
  /\ sessions' = sessions \ {<<i, d>>} /\ reading' = reading \ {<<i, d>>}
  /\ UNCHANGED <<now, tables, queued, restarts, history>>

\* Time passes; every reader looks at the bans again.
Tick ==
  /\ now < MaxTime
  /\ now' = now + 1 /\ reading' = {}
  /\ UNCHANGED <<tables, sessions, queued, restarts, history>>

\* A restart: load_ip_bans and load_identity_bans drop what has expired, the
\* other bans come back with a threshold of strikes; strikes below it are lost.
Reload ==
  LET back == {i \in Ip : stored[i] > now}
  IN /\ restarts < MaxRestarts
     /\ restarts' = restarts + 1
     /\ stored' = [i \in Ip |-> IF i \in back THEN stored[i] ELSE 0]
     /\ storedIds' = [d \in Id |-> IF storedIds[d] > now THEN storedIds[d] ELSE 0]
     /\ abuse' = [i \in back |-> [strikes |-> IP_BAN_STRIKE_THRESHOLD,
                                  until |-> stored[i], last |-> now]]
     /\ idBans' = storedIds'
     /\ sessions' = {} /\ reading' = {} /\ queued' = {}
     /\ hist' = [i \in Ip |-> IF hist[i].n >= IP_BAN_STRIKE_THRESHOLD THEN hist[i]
                              ELSE [n |-> 0, last |-> 0]]
     /\ UNCHANGED <<now, lifted>>

AbuseNext ==
  \/ \E i \in Ip, d \in Id :
       \/ Accept(i, d) \/ Dial(i, d) \/ ReaderCheck(i, d) \/ Close(i, d)
       \/ StrikeInline(i, d) \/ StrikeExit(i, d) \/ Queue(i, d) \/ StrikeQueued(i, d)
  \/ Tick \/ Reload

AbuseSpec == AbuseInit /\ [][AbuseNext]_abuseVars
-----------------------------------------------------------------------------
\* Every component has its type.
AbuseTypeOK ==
  /\ now \in 1..MaxTime
  /\ DOMAIN abuse \subseteq Ip
  /\ \A i \in DOMAIN abuse :
       /\ abuse[i].strikes \in Nat \ {0} /\ abuse[i].last \in 1..now
       /\ abuse[i].until \in 0..(now + IP_BAN_DURATION)
  /\ \A i \in Ip : stored[i] \in 0..(now + IP_BAN_DURATION)
  /\ sessions \subseteq Ip \X Id /\ queued \subseteq Ip \X Id /\ reading \subseteq sessions

\* An IP that has been struck as often as the threshold, over whatever
\* connections, without a pause of BAN_DECAY between two strikes and without its
\* entry being given up by a full table, is banned for the whole duration after
\* the last of them, across restarts (IP_BAN_STRIKE_THRESHOLD: "cumulative
\* strikes (across all connections)").  MAX_IP_ABUSE_ENTRIES and
\* MAX_IDENTITY_BAN_ENTRIES are hard caps, and the bans in force never fill the
\* table: an entry that would be the last to fill it with bans is evicted by its
\* own next strike.  So no ban is evicted for another offender, and the eviction
\* "regardless of ban status" never happens, unless a ban that was lifted comes
\* back from the database.
ThresholdBans ==
  /\ AbuseTypeOK
  /\ ~lifted => \A i \in Ip :
       hist[i].n >= IP_BAN_STRIKE_THRESHOLD /\ now < hist[i].last + IP_BAN_DURATION => Banned(i)
  /\ Cardinality(DOMAIN abuse) <= MAX_IP_ABUSE_ENTRIES
  /\ Cardinality({d \in Id : idBans[d] # 0}) <= MAX_IDENTITY_BAN_ENTRIES
  /\ ~lifted => Cardinality({i \in Ip : Banned(i)}) < MAX_IP_ABUSE_ENTRIES

\* Bans come when they are due (ThresholdBans), and a ban in force keeps its
\* end, across restarts (IP_BAN_DURATION_SECS: "Duration (seconds) an IP is
\* banned"), as long as no strike has lifted one, as a strike for an event that
\* waited until the strikes before the ban had decayed does.  The end moves only
\* for a violation that was queued, or a message that was awaited, before the
\* ban: connecting again and again during a ban does not make it longer
\* (reader_task: "turning a 600s ban into an effectively permanent one under
\* reconnect churn").
BanKept ==
  /\ []ThresholdBans
  /\ [][\A i \in Ip : Banned(i) =>
          /\ now' < abuse[i].until =>
               lifted' \/ (i \in DOMAIN abuse' /\ abuse'[i].until >= abuse[i].until)
          /\ i \in DOMAIN abuse' /\ abuse'[i].until # abuse[i].until =>
               \E d \in Id : <<i, d>> \in (queued \ queued') \cup (reading \ reading')]_abuseVars
=============================================================================
