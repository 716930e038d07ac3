------------------------------ MODULE PeerEdge ------------------------------
(***************************************************************************)
(* peer.Edge: the bounded note queue in front of the network, the loop of  *)
(* Run with its sessions and backoff, the reader goroutine of each         *)
(* session, and the other end of the connection: the handler loop of       *)
(* peer.Host as far as an edge can see it.                                 *)
(*                                                                         *)
(* Each direction of a connection holds at most LinkCapacity messages (the *)
(* socket buffers); a write waits for room, and no write of edge or host   *)
(* has a deadline.  Time is left out: a note may be stale or not when it   *)
(* is taken from the queue, and a timer may fire at any moment.            *)
(***************************************************************************)
EXTENDS Naturals, Sequences, FiniteSets, SequencesExt

CONSTANTS
    QueueCapacity,      \* peer.queue_capacity
    LinkCapacity,       \* messages the socket buffers hold, each way
    ReconnectBase,      \* peer.reconnect_base
    ReconnectLimit,     \* peer.reconnect_limit
    MaxNotes,           \* bound: notes the pipeline writes
    MaxSessions         \* bound: connections that come about

\* NewEdge checks the configured ones.
ASSUME EdgeAssumption ==
    /\ QueueCapacity \in Nat \ {0} /\ ReconnectBase \in Nat \ {0}
    /\ ReconnectLimit \in Nat /\ ReconnectLimit >= ReconnectBase
    /\ LinkCapacity \in Nat \ {0} /\ MaxNotes \in Nat /\ MaxSessions \in Nat

Sessions == 1..MaxSessions

(***************************************************************************)
(* Messages: a note (its number), or one of these.  A session has its own  *)
(* connection and at most one ping out, so the pong that comes carries the *)
(* pending nonce, and nonces are left out.                                 *)
(***************************************************************************)
Nothing == 0
Ping == MaxNotes + 1
Pong == MaxNotes + 2
Rejected == MaxNotes + 3
IsNote(m) == m \in 1..MaxNotes

VARIABLES
    stop,       \* the context of Run is done
    pc,         \* Run and runSession
    state,      \* snapshot.State
    backoff,    \* the delay before the next attempt
    session,    \* the number of the current or last connection
    hand,       \* the message being written
    pending,    \* pendingNonce is not zero
    queue,      \* Edge.queue
    written,    \* notes given to Write
    tally,      \* notes "sent", dropped as "full" or "stale", "failed" in a write
    link,       \* each connection: "none", "up", "broken" or "closed"
    toHost, toEdge,     \* its two directions
    reader,     \* its reader goroutine: "none", "read", "hold", "ended"
    held,       \* the message a reader holds
    incoming,   \* its channel of capacity one
    readError,  \* its readErrors channel is filled
    received    \* history: notes the host received, with their session

edgeVars == <<pc, state, backoff, session, hand, pending>>
readerVars == <<reader, held, incoming, readError>>
vars == <<stop, edgeVars, queue, written, tally, link, toHost, toEdge,
          readerVars, received>>

Init ==
    /\ stop = FALSE
    /\ pc = "loop" /\ state = "disconnected" /\ backoff = ReconnectBase
    /\ session = 0 /\ hand = Nothing
    /\ pending = FALSE
    /\ queue = <<>> /\ written = 0
    /\ tally = [k \in {"sent", "full", "stale", "failed"} |-> 0]
    /\ link = [s \in Sessions |-> "none"]
    /\ toHost = [s \in Sessions |-> <<>>] /\ toEdge = [s \in Sessions |-> <<>>]
    /\ reader = [s \in Sessions |-> "none"]
    /\ held = [s \in Sessions |-> Nothing]
    /\ incoming = [s \in Sessions |-> <<>>]
    /\ readError = [s \in Sessions |-> FALSE]
    /\ received = <<>>

Count(kind) == tally' = [tally EXCEPT ![kind] = @ + 1]

-----------------------------------------------------------------------------
(***************************************************************************)
(* Write, called by the note worker of the pipeline                        *)
(***************************************************************************)

Write ==
    /\ written < MaxNotes /\ written' = written + 1
    /\ \/ /\ Len(queue) < QueueCapacity
          /\ queue' = Append(queue, written + 1) /\ UNCHANGED tally
       \/ /\ Len(queue) = QueueCapacity
          /\ Count("full") /\ UNCHANGED queue
    /\ UNCHANGED <<stop, edgeVars, link, toHost, toEdge, readerVars, received>>

-----------------------------------------------------------------------------
(***************************************************************************)
(* Run                                                                     *)
(***************************************************************************)

\* The loop condition, and the state of the next attempt.
Attempt ==
    /\ pc = "loop"
    /\ \/ ~stop /\ pc' = "dial" /\ state' = "connecting"
       \/ stop /\ pc' = "finish" /\ UNCHANGED state
    /\ UNCHANGED <<stop, backoff, session, hand, pending, queue, written, tally,
                   link, toHost, toEdge, readerVars, received>>

\* Dial, the hello and the host's hello; then the reader goroutine is started.
\* A session that connected makes the backoff start again, here at once.
Connect ==
    /\ pc = "dial" /\ ~stop /\ session < MaxSessions
    /\ LET s == session + 1
       IN /\ session' = s
          /\ link' = [link EXCEPT ![s] = "up"]
          /\ reader' = [reader EXCEPT ![s] = "read"]
    /\ pc' = "select" /\ state' = "connected" /\ pending' = FALSE
    /\ backoff' = ReconnectBase
    /\ UNCHANGED <<stop, hand, queue, written, tally, toHost, toEdge, held,
                   incoming, readError, received>>

\* Dial, the hello or the host's answer to it fails.
ConnectFails ==
    /\ pc = "dial" /\ pc' = "over"
    /\ UNCHANGED <<stop, state, backoff, session, hand, pending, queue, written,
                   tally, link, toHost, toEdge, readerVars, received>>

\* Mutant: the edge gives up after a session that did not come about.
SessionOverOnce ==
    /\ pc = "over"
    /\ \/ (stop \/ state = "connecting") /\ pc' = "finish" /\ UNCHANGED state
       \/ ~stop /\ state = "connected" /\ pc' = "backoff" /\ state' = "backoff"
    /\ UNCHANGED <<stop, backoff, session, hand, pending, queue, written, tally,
                   link, toHost, toEdge, readerVars, received>>

\* runSession has returned.
SessionOver ==
    /\ pc = "over"
    /\ \/ stop /\ pc' = "finish" /\ UNCHANGED state
       \/ ~stop /\ pc' = "backoff" /\ state' = "backoff"
    /\ UNCHANGED <<stop, backoff, session, hand, pending, queue, written, tally,
                   link, toHost, toEdge, readerVars, received>>

\* The timer fires or the context is done; the delay doubles up to the limit.
BackoffEnds ==
    /\ pc = "backoff" /\ pc' = "loop"
    /\ backoff' = IF 2 * backoff > ReconnectLimit THEN ReconnectLimit ELSE 2 * backoff
    /\ UNCHANGED <<stop, state, session, hand, pending, queue, written, tally,
                   link, toHost, toEdge, readerVars, received>>

Finish ==
    /\ pc = "finish" /\ pc' = "done" /\ state' = "disconnected"
    /\ UNCHANGED <<stop, backoff, session, hand, pending, queue, written, tally,
                   link, toHost, toEdge, readerVars, received>>

-----------------------------------------------------------------------------
(***************************************************************************)
(* The select loop of runSession                                           *)
(***************************************************************************)

\* runSession returns: its deferred CloseNow closes the connection.
Leave ==
    /\ pc' = "over" /\ hand' = Nothing /\ pending' = FALSE
    /\ link' = [link EXCEPT ![session] = "closed"]
    /\ toEdge' = [toEdge EXCEPT ![session] = <<>>]

OnStop ==
    /\ pc = "select" /\ stop /\ Leave
    /\ UNCHANGED <<stop, state, backoff, session, queue, written, tally, toHost,
                   readerVars, received>>

OnReadError ==
    /\ pc = "select" /\ readError[session] /\ Leave
    /\ readError' = [readError EXCEPT ![session] = FALSE]
    /\ UNCHANGED <<stop, state, backoff, session, queue, written, tally, toHost,
                   reader, held, incoming, received>>

\* The pong that was waited for clears pendingNonce; an error is only noted.  A
\* host sends nothing else once it has said hello.
OnIncoming ==
    /\ pc = "select" /\ incoming[session] # <<>>
    /\ pending' = (pending /\ Head(incoming[session]) # Pong)
    /\ incoming' = [incoming EXCEPT ![session] = Tail(@)]
    /\ UNCHANGED <<stop, pc, state, backoff, session, hand, queue, written,
                   tally, link, toHost, toEdge, reader, held, readError,
                   received>>

\* Mutant: an unanswered ping is sent again and again.
OnTickAgain ==
    /\ pc = "select" /\ pending' = TRUE /\ hand' = Ping /\ pc' = "write"
    /\ UNCHANGED <<stop, state, backoff, session, queue, written, tally, link,
                   toHost, toEdge, readerVars, received>>

\* The heartbeat ticker: an unanswered ping ends the session.
OnTick ==
    /\ pc = "select"
    /\ \/ pending /\ Leave
       \/ /\ ~pending /\ pending' = TRUE /\ hand' = Ping /\ pc' = "write"
          /\ UNCHANGED <<link, toEdge>>
    /\ UNCHANGED <<stop, state, backoff, session, queue, written, tally, toHost,
                   readerVars, received>>

\* A note is taken from the queue, and dropped if it is older than StaleAfter.
OnQueue ==
    /\ pc = "select" /\ queue # <<>> /\ queue' = Tail(queue)
    /\ \/ Count("stale") /\ UNCHANGED <<pc, hand>>
       \/ hand' = Head(queue) /\ pc' = "write" /\ UNCHANGED tally
    /\ UNCHANGED <<stop, state, backoff, session, pending, written, link,
                   toHost, toEdge, readerVars, received>>

\* writeMessage returns without an error, once the socket takes the message.
WriteDone ==
    /\ pc = "write" /\ link[session] = "up" /\ Len(toHost[session]) < LinkCapacity
    /\ toHost' = [toHost EXCEPT ![session] = Append(@, hand)]
    /\ IF IsNote(hand) THEN Count("sent") ELSE UNCHANGED tally
    /\ pc' = "select" /\ hand' = Nothing
    /\ UNCHANGED <<stop, state, backoff, session, pending, queue, written, link,
                   toEdge, readerVars, received>>

\* writeMessage fails: the note is gone, and the session with it.  The host may
\* have the message all the same.
Cut ==
    /\ pc = "write" /\ (stop \/ link[session] = "broken") /\ Leave
    /\ \/ UNCHANGED toHost
       \/ /\ Len(toHost[session]) < LinkCapacity
          /\ toHost' = [toHost EXCEPT ![session] = Append(@, hand)]

\* Mutant: a note whose write failed goes back to the queue.
WriteFailsRequeues ==
    /\ Cut
    /\ IsNote(hand) => Len(queue) < QueueCapacity
    /\ queue' = IF IsNote(hand) THEN <<hand>> \o queue ELSE queue
    /\ UNCHANGED <<stop, state, backoff, session, tally, written, readerVars,
                   received>>

WriteFails ==
    /\ Cut
    /\ IF IsNote(hand) THEN Count("failed") ELSE UNCHANGED tally
    /\ UNCHANGED <<stop, state, backoff, session, queue, written, readerVars,
                   received>>

-----------------------------------------------------------------------------
(***************************************************************************)
(* The reader goroutine of session s.  Its select knows the context of Run *)
(* and not the end of the session.                                         *)
(***************************************************************************)

Read(s) ==
    /\ reader[s] = "read" /\ link[s] = "up" /\ toEdge[s] # <<>>
    /\ held' = [held EXCEPT ![s] = Head(toEdge[s])]
    /\ toEdge' = [toEdge EXCEPT ![s] = Tail(@)]
    /\ reader' = [reader EXCEPT ![s] = "hold"]
    /\ UNCHANGED <<stop, edgeVars, queue, written, tally, link, toHost,
                   incoming, readError, received>>

\* The error of a session that is over is never received.
ReadFails(s) ==
    /\ reader[s] = "read" /\ (stop \/ link[s] # "up")
    /\ reader' = [reader EXCEPT ![s] = "ended"]
    /\ readError' = [readError EXCEPT ![s] = (link[s] # "closed")]
    /\ UNCHANGED <<stop, edgeVars, queue, written, tally, link, toHost, toEdge,
                   held, incoming, received>>

\* Mutant: the reader does not look at the context while it waits.
HandOverOnly(s) ==
    /\ reader[s] = "hold"
    /\ incoming[s] = <<>>
    /\ held' = [held EXCEPT ![s] = Nothing]
    /\ incoming' = [incoming EXCEPT ![s] = <<held[s]>>]
    /\ reader' = [reader EXCEPT ![s] = "read"]
    /\ UNCHANGED <<stop, edgeVars, queue, written, tally, link, toHost, toEdge,
                   readError, received>>

HandOver(s) ==
    /\ reader[s] = "hold"
    /\ \/ /\ incoming[s] = <<>>
          /\ held' = [held EXCEPT ![s] = Nothing]
          /\ incoming' = [incoming EXCEPT ![s] = <<held[s]>>]
          /\ reader' = [reader EXCEPT ![s] = "read"]
       \/ stop /\ reader' = [reader EXCEPT ![s] = "ended"] /\ UNCHANGED <<incoming, held>>
    /\ UNCHANGED <<stop, edgeVars, queue, written, tally, link, toHost, toEdge,
                   readError, received>>

-----------------------------------------------------------------------------
(***************************************************************************)
(* The handler of session s in the host                                    *)
(***************************************************************************)

\* A ping is answered, a note is taken, or refused with an error message; the
\* handler reads on only when the socket has taken its answer.
HostRead(s) ==
    /\ toHost[s] # <<>>
    /\ toHost' = [toHost EXCEPT ![s] = Tail(@)]
    /\ LET m == Head(toHost[s])
           Answer(a) == /\ Len(toEdge[s]) < LinkCapacity
                        /\ toEdge' = IF link[s] = "up"
                                     THEN [toEdge EXCEPT ![s] = Append(@, a)] ELSE toEdge
       IN \/ m = Ping /\ Answer(Pong) /\ UNCHANGED received
          \/ /\ IsNote(m) /\ received' = Append(received, <<s, m>>)
             /\ UNCHANGED toEdge \/ Answer(Rejected)
    /\ UNCHANGED <<stop, edgeVars, queue, written, tally, link, readerVars>>

\* The handler's read or write fails on a connection that is no longer up: what
\* it has not read is lost.
HostLeaves(s) ==
    /\ link[s] # "up" /\ toHost[s] # <<>>
    /\ toHost' = [toHost EXCEPT ![s] = <<>>]
    /\ UNCHANGED <<stop, edgeVars, queue, written, tally, link, toEdge,
                   readerVars, received>>

-----------------------------------------------------------------------------
(***************************************************************************)
(* The environment                                                         *)
(***************************************************************************)

\* The network, or the host ending the session (idle, replaced, shut down).
LinkBreaks ==
    /\ session > 0 /\ link[session] = "up"
    /\ link' = [link EXCEPT ![session] = "broken"]
    /\ UNCHANGED <<stop, edgeVars, queue, written, tally, toHost, toEdge,
                   readerVars, received>>

\* The supervisor cancels the context of Run.
Cancel ==
    /\ ~stop /\ stop' = TRUE
    /\ UNCHANGED <<edgeVars, queue, written, tally, link, toHost, toEdge,
                   readerVars, received>>

Session == OnStop \/ OnReadError \/ OnIncoming \/ OnQueue \/ WriteDone \/ WriteFails
Loop == Attempt \/ SessionOver \/ BackoffEnds \/ Finish
Reader(s) == Read(s) \/ ReadFails(s) \/ HandOver(s)
Host(s) == HostRead(s) \/ HostLeaves(s)

Next ==
    \/ Write \/ Loop \/ Connect \/ ConnectFails \/ Session \/ OnTick
    \/ \E s \in Sessions : Reader(s) \/ Host(s)
    \/ LinkBreaks \/ Cancel

Spec == Init /\ [][Next]_vars

(***************************************************************************)
(* Goroutines keep running, and a select picks among its ready cases at    *)
(* random, so the ticker and the context get their turn.  Nothing is       *)
(* assumed of the host: it may stop reading and answering without closing  *)
(* the connection, and only cancellation is sure to end a Dial.            *)
(***************************************************************************)
FairSpec ==
    /\ Spec
    /\ WF_vars(Loop) /\ WF_vars(stop /\ ConnectFails)
    /\ WF_vars(Session) /\ SF_vars(OnTick) /\ SF_vars(OnStop)
    /\ \A s \in Sessions : WF_vars(Reader(s))

-----------------------------------------------------------------------------
(***************************************************************************)
(* Properties                                                              *)
(***************************************************************************)

\* Types; the backoff stays between its base and its limit.
TypeOK ==
    /\ {stop} \subseteq BOOLEAN
    /\ pc \in {"loop", "dial", "select", "write", "over", "backoff", "finish", "done"}
    /\ state \in {"disconnected", "connecting", "connected", "backoff"}
    /\ backoff \in ReconnectBase..ReconnectLimit
    /\ session \in 0..MaxSessions /\ pending \in BOOLEAN
    /\ Len(queue) <= QueueCapacity /\ written \in 0..MaxNotes
    /\ tally \in [{"sent", "full", "stale", "failed"} -> 0..MaxNotes]
    /\ link \in [Sessions -> {"none", "up", "broken", "closed"}]
    /\ reader \in [Sessions -> {"none", "read", "hold", "ended"}]
    /\ \A s \in Sessions :
        Len(incoming[s]) <= 1 /\ Len(toHost[s]) <= LinkCapacity
        /\ Len(toEdge[s]) <= LinkCapacity

\* Every note given to Write is in the queue, in the hands of the session, or
\* counted exactly once: as sent, refused, dropped stale or failed.
Accounted ==
    written = Len(queue) + tally["sent"] + tally["full"] + tally["stale"]
              + tally["failed"]
              + IF pc = "write" /\ IsNote(hand) THEN 1 ELSE 0

\* However often sessions end and new ones begin, the host receives no note
\* twice, and the notes of one session in the order they were written.
ReceivedOnce ==
    \A i, j \in 1..Len(received) : i < j =>
        /\ received[i][2] # received[j][2]
        /\ received[i][1] = received[j][1] => received[i][2] < received[j][2]

\* Cancelling the context ends Run and the reader goroutine of every session
\* there ever was, also one that waits for room in the channel of a session
\* that is over.
Stops == stop ~> pc = "done" /\ \A s \in Sessions : reader[s] \in {"none", "ended"}

\* "Run reconnects until cancellation": every wait is followed by an attempt.
KeepsTrying == pc \in {"over", "backoff"} ~> (pc = "dial" \/ stop)

\* Application ping and pong measure liveness: a ping is answered, or the
\* session ends and the host is dialled again; a host that neither answers nor
\* closes the connection does not hold the edge.
PingSettles == pending ~> ~pending

\* Delivery through sessions that come and go: types hold, every note is in one
\* place, and the host receives none twice.
DeliverySound == TypeOK /\ Accounted /\ ReceivedOnce

=============================================================================
