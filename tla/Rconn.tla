-------------------------------- MODULE Rconn --------------------------------
(***************************************************************************)
(* A reliable connection (lib/rconn.c) on a virtual connection             *)
(* (lib/vconn.c, lib/vconn-stream.c) to a peer that may be absent, silent, *)
(* of an older version, or answering, and may change from one to another   *)
(* at any time.  The end modelled here either dials, and dials again       *)
(* (rconn_connect), or was dialled (rconn_new_from_vconn, how the          *)
(* stand-alone switch talks to its controllers) and gives up when the      *)
(* connection is lost.                                                     *)
(*                                                                         *)
(* Everything a call changes is in one record, rc, so that a function of   *)
(* the code is an operator from rc to rc.  Times are kept as what the code *)
(* compares: elapsed is time_now() - state_entered, quiet is time_now() -  *)
(* MAX(last_received, state_entered), deadline is backoff_deadline -       *)
(* time_now(), not below 0.  Left out: counters that are only reported,    *)
(* copies for monitors, and questionable_connectivity, a flag for the      *)
(* discovery of secchan.  The peer keeps to the version it announced.      *)
(***************************************************************************)
EXTENDS Naturals, Sequences, SequencesExt, FiniteSets, FiniteSetsExt

CONSTANTS
  probe_interval,
  max_backoff,
  Window,       \* messages a stream takes before it is read
  Limit,        \* messages a caller may have in flight
  MaxQueue      \* a bound: nobody talks or dials anew while more are queued

ASSUME RconnAssumption ==
  /\ {probe_interval, max_backoff, Window, Limit, MaxQueue} \subseteq Nat \ {0}

VARIABLES
  rc,        \* the rconn, its vconn and the stream
  dialer,    \* this end dials
  mode,      \* of the peer
  hello,     \* the peer has sent its HELLO on this connection
  pending    \* handed in on this connection and not yet read by the peer

rconn_vars == <<rc, dialer, mode, hello, pending>>

Modes == {"absent", "silent", "old", "answering"}
Never == max_backoff + 1     \* TIME_MAX, as a remaining time
NoXid == 0                   \* idle_echo_xid of none
Foreign == 1                 \* transaction ids that are not a probe's

Msg(type, xid, counted) == [type |-> type, xid |-> xid, counted |-> counted]
Probe(xid) == Msg("ECHO_REQUEST", xid, 0)

is_connected(r) == r.state \in {"ACTIVE", "IDLE"}

state_transition(r, s) == [r EXCEPT !.state = s, !.elapsed = 0, !.quiet = 0]

timed_out(r) ==
  CASE r.state = "VOID"       -> FALSE
    [] r.state = "BACKOFF"    -> r.elapsed >= r.backoff
    [] r.state = "CONNECTING" -> r.elapsed >= Max({1, r.backoff})
    [] r.state = "ACTIVE"     -> r.quiet >= probe_interval
    [] r.state = "IDLE"       -> r.elapsed >= probe_interval

-----------------------------------------------------------------------------
(* vconn.c.  vcs is the state of the vconn; a stream that was closed or    *)
(* reset is read to its end first.                                         *)

Broken(r) == r.link = "broken"
HasRoom(r) == Len(r.out) < Window

vcs_connecting(r) ==
  IF r.vcs # "CONNECTING" THEN r
  ELSE CASE r.link = "dialling" -> r
         [] r.link = "up"       -> [r EXCEPT !.vcs = "SEND_HELLO"]
         [] r.link = "broken"   -> [r EXCEPT !.vcs = "DISCONNECTED"]

vcs_send_hello(r) ==
  IF r.vcs # "SEND_HELLO" THEN r
  ELSE IF Broken(r) THEN [r EXCEPT !.vcs = "DISCONNECTED"]
  ELSE [r EXCEPT !.vcs = "RECV_HELLO", !.out = Append(@, Msg("HELLO", Foreign, 0))]

vcs_recv_hello(r) ==
  IF r.vcs # "RECV_HELLO" THEN r
  ELSE IF r.in = <<>> THEN IF Broken(r) THEN [r EXCEPT !.vcs = "DISCONNECTED"] ELSE r
  ELSE [r EXCEPT !.in = Tail(@),
                 !.vcs = CASE Head(r.in).type = "HELLO"     -> "CONNECTED"
                           [] Head(r.in).type = "OLD_HELLO" -> "SEND_ERROR"
                           [] OTHER                         -> "DISCONNECTED"]

vcs_send_error(r) ==
  IF r.vcs # "SEND_ERROR" \/ (~Broken(r) /\ ~HasRoom(r)) THEN r
  ELSE [r EXCEPT !.vcs = "DISCONNECTED"]

\* The loop of vconn_connect: a state at a time while the state changes.
vconn_connect(r) ==
  vcs_send_error(vcs_recv_hello(vcs_send_hello(vcs_connecting(r))))

vconn_close(r) ==
  [r EXCEPT !.vcs = "NONE", !.link = "none", !.in = <<>>, !.out = <<>>]

-----------------------------------------------------------------------------
(* rconn.c *)

\* How many messages of q are in flight for a caller.
Counted(q) == Cardinality({i \in DOMAIN q : q[i].counted = 1})

flush_queue(r) == [r EXCEPT !.txq = <<>>, !.n_queued = @ - Counted(r.txq)]

rconn_disconnect(r) ==
  IF r.state = "VOID" THEN r
  ELSE state_transition([vconn_close(r) EXCEPT !.reliable = FALSE, !.backoff = 0,
                                               !.deadline = 0], "VOID")

NextBackoff(r) ==
  IF r.deadline = 0 THEN 1 ELSE Min({max_backoff, Max({1, 2 * r.backoff})})

\* Mutant: the queue goes on to the next connection.
DropsVconnOnly(r) == vconn_close(r)

DropsConnection(r) == flush_queue(vconn_close(r))

disconnect(r) ==
  IF ~r.reliable THEN rconn_disconnect(r)
  ELSE LET d == IF r.state = "BACKOFF" THEN r ELSE DropsConnection(r)
       IN  state_transition([d EXCEPT !.backoff = NextBackoff(r),
                                      !.deadline = NextBackoff(r)], "BACKOFF")

\* Mutant: an address that refuses is given up.
ReconnectOrGiveUp(r, refused) ==
  IF refused THEN rconn_disconnect(r)
  ELSE state_transition([r EXCEPT !.vcs = "CONNECTING", !.link = "dialling",
                                  !.deadline = r.backoff], "CONNECTING")

\* vconn_open fails at once (refused), or goes on in the background.
reconnect(r, refused) ==
  IF refused THEN disconnect([r EXCEPT !.deadline = Never])
  ELSE state_transition([r EXCEPT !.vcs = "CONNECTING", !.link = "dialling",
                                  !.deadline = r.backoff], "CONNECTING")

\* idle_echo_xid is the id of whatever was sent last.
try_send(r) ==
  LET v == vconn_connect(r)
      m == Head(r.txq)
  IN  CASE v.vcs = "DISCONNECTED" \/ (v.vcs = "CONNECTED" /\ Broken(v))
             -> disconnect([v EXCEPT !.idle_echo_xid = NoXid])
        [] v.vcs = "CONNECTED" /\ ~Broken(v) /\ HasRoom(v)
             -> [v EXCEPT !.idle_echo_xid = m.xid, !.out = Append(@, m),
                          !.txq = Tail(@), !.n_queued = @ - m.counted]
        [] OTHER -> [v EXCEPT !.idle_echo_xid = NoXid]

\* As many turns as there are messages are enough; what fails for lack of room
\* fails again and changes nothing.
do_tx_work(r) ==
  LET After[k \in 0..Len(r.txq)] ==
        IF k = 0 THEN r
        ELSE LET t == After[k - 1]
             IN  IF t.txq = <<>> \/ ~is_connected(t) THEN t ELSE try_send(t)
  IN  After[Len(r.txq)]

rconn_send(r, m) ==
  IF ~is_connected(r) THEN r
  ELSE LET q == [r EXCEPT !.txq = Append(@, m), !.n_queued = @ + m.counted]
       IN  IF Len(q.txq) = 1 THEN try_send(q) ELSE q

\* An id that no message under way has.
FreshXid(r) ==
  LET under_way == r.txq \o r.out \o r.in
      used == {r.idle_echo_xid} \cup {m.xid : m \in Range(under_way)}
  IN  Min((2..(3 + Len(under_way))) \ used)

run_CONNECTING(r) ==
  LET v == vconn_connect(r) IN
  CASE v.vcs = "CONNECTED"    -> state_transition(v, "ACTIVE")
    [] v.vcs = "DISCONNECTED" -> disconnect(v)
    [] OTHER -> IF timed_out(v) THEN disconnect([v EXCEPT !.deadline = Never]) ELSE v

run_ACTIVE(r) ==
  IF timed_out(r) THEN rconn_send(state_transition(r, "IDLE"), Probe(FreshXid(r)))
  ELSE do_tx_work(r)

\* Mutant: the answer is waited for, however long it takes.
WaitsForAnswer(r) == do_tx_work(r)

run_IDLE(r) == IF timed_out(r) THEN disconnect(r) ELSE do_tx_work(r)

RunOnce(r, refused) ==
  CASE r.state = "VOID"       -> r
    [] r.state = "BACKOFF"    -> IF timed_out(r) THEN reconnect(r, refused) ELSE r
    [] r.state = "CONNECTING" -> run_CONNECTING(r)
    [] r.state = "ACTIVE"     -> run_ACTIVE(r)
    [] r.state = "IDLE"       -> run_IDLE(r)

\* Another round, unless the last one, from old to r, left the state alone.
Again(old, r, refused) == IF r.state = old.state THEN r ELSE RunOnce(r, refused)

\* Three rounds are enough: a state that was just entered has not timed out, so
\* that ACTIVE and IDLE are followed by BACKOFF or VOID only, and those by none.
rconn_run(r, refused) ==
  LET first  == RunOnce(r, refused)
      second == Again(r, first, refused)
  IN  Again(first, second, refused)

\* What receiving m does to the state.
Heard(r, m) ==
  CASE r.state = "ACTIVE" -> r
    [] r.state = "IDLE" /\ (m.type # "ECHO_REPLY" \/ r.idle_echo_xid = NoXid)
         -> state_transition(r, "ACTIVE")
    [] r.state = "IDLE" /\ m.type = "ECHO_REPLY" /\ r.idle_echo_xid # NoXid
         -> [(IF r.idle_echo_xid = m.xid THEN state_transition(r, "ACTIVE") ELSE r)
               EXCEPT !.idle_echo_xid = NoXid]

rconn_recv(r) ==
  LET v == vconn_connect(r) IN
  CASE ~is_connected(r) -> r
    [] is_connected(r) /\ v.vcs = "DISCONNECTED" -> disconnect(v)
    [] is_connected(r) /\ v.vcs = "CONNECTED" /\ v.in # <<>>
         -> Heard([v EXCEPT !.in = Tail(@), !.quiet = 0], Head(v.in))
    [] is_connected(r) /\ v.vcs = "CONNECTED" /\ v.in = <<>> /\ Broken(v) -> disconnect(v)
    [] OTHER -> v

-----------------------------------------------------------------------------
(* The process that owns the connection *)

\* A call turns rc into r and hands in the messages handed.  A connection that
\* ends takes with it what is pending.
Becomes(r, handed) ==
  /\ r # rc
  /\ rc' = r
  /\ hello' = (hello /\ r.link = rc.link)
  /\ pending' = IF r.link = rc.link THEN pending \o handed ELSE <<>>
  /\ UNCHANGED <<dialer, mode>>

\* The main loop calls rconn_run and then rconn_recv.
Run ==
  \E refused \in BOOLEAN :
    /\ refused => mode = "absent"
    /\ LET r == rconn_run(rc, refused)
           probed == rc.state = "ACTIVE" /\ r.state = "IDLE"
       IN  Becomes(r, IF probed THEN <<Probe(FreshXid(rc))>> ELSE <<>>)

ReceiveMsg == Becomes(rconn_recv(rc), <<>>)

\* rconn_send_with_limit.
SendMsg ==
  /\ is_connected(rc)
  /\ rc.n_queued < Limit
  /\ LET m == Msg("MSG", Foreign, 1) IN Becomes(rconn_send(rc, m), <<m>>)

\* rconn_connect on a connection in use, when another address is discovered:
\* rconn_disconnect leaves the queue as it is.
Redial ==
  /\ dialer
  /\ is_connected(rc)
  /\ Len(rc.txq) <= MaxQueue
  /\ rc' = reconnect([rconn_disconnect(rc) EXCEPT !.reliable = TRUE], FALSE)
  /\ hello' = FALSE
  /\ pending' = rc.txq
  /\ UNCHANGED <<dialer, mode>>

Fresh(state, vcs, link) ==
  [state |-> state, elapsed |-> 0, quiet |-> 0, backoff |-> 0, deadline |-> 0,
   reliable |-> FALSE, txq |-> <<>>, idle_echo_xid |-> NoXid, n_queued |-> 0,
   vcs |-> vcs, link |-> link, in |-> <<>>, out |-> <<>>]

\* rconn_new, and rconn_new_from_vconn on a connection that was accepted.
Dialled == reconnect([Fresh("VOID", "NONE", "none") EXCEPT !.reliable = TRUE], FALSE)
Accepted == Fresh("ACTIVE", "SEND_HELLO", "up")

\* The lost connection was destroyed (remote_destroy) and the peer dials again.
Accept ==
  /\ rc.state = "VOID" /\ ~dialer
  /\ mode # "absent"
  /\ Becomes(Accepted, <<>>)

-----------------------------------------------------------------------------
(* The peer, the network and time *)

PeerConnects ==
  /\ rc.link = "dialling"
  /\ rc' = [rc EXCEPT !.link = IF mode = "absent" THEN "broken" ELSE "up"]
  /\ UNCHANGED <<dialer, mode, hello, pending>>

PeerSays(m) ==
  /\ rc.link = "up" /\ Len(rc.in) < Window
  /\ rc' = [rc EXCEPT !.in = Append(@, m)]

PeerHello ==
  /\ ~hello
  /\ \/ mode = "answering" /\ PeerSays(Msg("HELLO", Foreign, 0))
     \/ mode = "old" /\ PeerSays(Msg("OLD_HELLO", Foreign, 0))
  /\ hello' = TRUE
  /\ UNCHANGED <<dialer, mode, pending>>

PeerReads ==
  /\ mode = "answering" /\ hello
  /\ rc.link = "up" /\ rc.out # <<>>
  /\ LET m == Head(rc.out)
         asked == m.type = "ECHO_REQUEST"
     IN  /\ asked => Len(rc.in) < Window
         /\ rc' = [rc EXCEPT !.out = Tail(@),
                             !.in = IF asked THEN Append(@, Msg("ECHO_REPLY", m.xid, 0)) ELSE @]
         /\ pending' = IF m.type = "HELLO" \/ pending = <<>> THEN pending ELSE Tail(pending)
  /\ UNCHANGED <<dialer, mode, hello>>

\* Each time it does, after a probe, the next silence brings another probe: of a
\* peer that talks and does not read, the queue grows without limit.
PeerTalks ==
  /\ mode = "answering" /\ hello
  /\ Len(rc.txq) < MaxQueue
  /\ PeerSays(Msg("MSG", Foreign, 0))
  /\ UNCHANGED <<dialer, mode, hello, pending>>

\* A peer may fall silent and answer again; any other change loses its end of
\* the connection.
PeerChanges ==
  /\ mode' \in Modes \ {mode}
  /\ rc' = IF {mode, mode'} # {"silent", "answering"} /\ rc.link # "none"
           THEN [rc EXCEPT !.link = "broken"] ELSE rc
  /\ UNCHANGED <<dialer, hello, pending>>

PeerHasWork ==
  \/ rc.link = "dialling"
  \/ rc.link = "up" /\ ~hello /\ mode \in {"old", "answering"}
  \/ /\ rc.link = "up" /\ hello /\ mode = "answering"
     /\ rc.out # <<>>
     /\ Head(rc.out).type = "ECHO_REQUEST" => Len(rc.in) < Window

ProcessHasWork == rconn_run(rc, FALSE) # rc \/ rconn_recv(rc) # rc

Longest == Max({max_backoff, probe_interval})

Later(r) ==
  [r EXCEPT !.elapsed = Min({@ + 1, Longest}), !.quiet = Min({@ + 1, Longest}),
            !.deadline = IF @ = 0 THEN 0 ELSE @ - 1]

\* A second is long for this process, which poll_block wakes for a message and
\* for a timeout, and for a peer that answers.
Tick ==
  /\ rc.state # "VOID"
  /\ ~ProcessHasWork
  /\ mode \in {"old", "answering"} => ~PeerHasWork
  /\ rc' = Later(rc)
  /\ rc' # rc
  /\ UNCHANGED <<dialer, mode, hello, pending>>

-----------------------------------------------------------------------------
RconnInit ==
  /\ dialer \in BOOLEAN
  /\ rc = IF dialer THEN Dialled ELSE Accepted
  /\ mode \in Modes
  /\ hello = FALSE
  /\ pending = <<>>

Event == Run \/ ReceiveMsg \/ PeerConnects \/ PeerHello \/ PeerReads \/ Tick

RconnNext == Event \/ SendMsg \/ Redial \/ Accept \/ PeerTalks \/ PeerChanges

RconnSpec == RconnInit /\ [][RconnNext]_rconn_vars

\* There is nothing that would happen without the caller or the peer's whim.
Settled ==
  ~ProcessHasWork /\ ~PeerHasWork /\ (rc.state = "VOID" \/ Later(rc) = rc)

\* The process runs when poll_block wakes it, the peer does what its mode says,
\* and time goes on; nobody has to send, to talk or to change.  This is
\* WF_rconn_vars(Event) with its ENABLED written out, which TLC evaluates faster.
Fairness == []<>Settled \/ []<><<Event>>_rconn_vars

RconnFairSpec == RconnSpec /\ Fairness

-----------------------------------------------------------------------------
(* Properties *)

\* What the stream holds of the messages: a HELLO may be before them.
Sent(r) == IF r.out # <<>> /\ Head(r.out).type = "HELLO" THEN Tail(r.out) ELSE r.out

\* rconn_send: while a connection lasts, what was handed in and the peer has not
\* read is in the stream and then in the queue, in order, nothing twice and
\* nothing of an earlier connection that was lost, and the callers' counts
\* (n_queued) are of what is in the queue.
HandedInOrder ==
  rc.state # "VOID" =>
    /\ Sent(rc) \o rc.txq = pending
    /\ rc.n_queued = Counted(rc.txq)

\* A peer that stays silent does not keep a connection: the probes find it out,
\* however often the caller sends.
SilentPeerIsDropped == <>[](mode = "silent") => []<>~is_connected(rc)

\* The end that dials is connected again, however it was lost, once the peer
\* answers for good.
AnsweringPeerIsServed == dialer => (<>[](mode = "answering") => []<>is_connected(rc))

\* "If the interval passes again without a message being received, the rconn
\* disconnects" (lib/rconn.c:182): a connection that is probed is given up for
\* silence only if nothing was received since the probe.
ProbeEndsSilence ==
  [][rc.state = "IDLE" /\ rc.elapsed >= probe_interval /\ rc.link = "up"
       /\ ~is_connected(rc)' => rc.quiet >= probe_interval]_rconn_vars
=============================================================================
