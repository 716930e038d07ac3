----------------------------- MODULE NoteStream -----------------------------
(***************************************************************************)
(* uistream.Hub and its WebSocket handler: accepted notes are fanned out   *)
(* to one bounded queue per browser.  Every goroutine that writes notes    *)
(* (the note worker of the pipeline, each session of the peer host)        *)
(* publishes, so publishers run concurrently under the read lock of        *)
(* Hub.mu, while subscribing and unsubscribing take the write lock.        *)
(*                                                                         *)
(* Each channel operation and each atomic counter access is one step.  A   *)
(* note is its place in the order in which Hub.notes counted it.           *)
(***************************************************************************)
EXTENDS Naturals, Sequences, FiniteSets, SequencesExt

CONSTANTS
    Publishers,     \* goroutines that write notes
    Viewers,        \* browser connections
    NoViewer,       \* not a viewer
    Capacity,       \* performance.ui_queue_capacity
    MaxNotes        \* bound: notes published

ASSUME CapacityAssumption == Capacity \in Nat \ {0}
ASSUME MaxNotesAssumption == MaxNotes \in Nat

ASSUME NoViewerAssumption == NoViewer \notin Viewers
ASSUME PublishersAssumption == IsFiniteSet(Publishers)

VARIABLES
    ended,      \* the lifecycle context is done
    left,       \* viewers whose connection is gone
    notes,      \* Hub.notes
    pubPc,      \* publishers
    pubNote,    \* the note a publisher holds
    todo,       \* subscriptions its loop has still to visit
    at,         \* the subscription it found full
    viewPc,     \* viewer handlers
    clients,    \* Hub.clients
    queue,      \* Subscription.queue
    drops,      \* Subscription.drops
    batch,      \* notes drained for the batch being built
    total,      \* NoteTotal of the batch being built
    shown,      \* notes of the batches written
    told,       \* drops taken for batches
    offered,    \* history: notes published while subscribed
    base,       \* history: notes counted that are not meant for the viewer
    author      \* history: the publisher of each note

pubVars == <<notes, author, pubPc, pubNote, todo, at>>
viewVars == <<viewPc, clients, batch, total, shown, told, base>>
vars == <<ended, left, pubVars, queue, drops, offered, viewVars>>

Init ==
    /\ ended = FALSE /\ left = {} /\ notes = 0 /\ author = <<>>
    /\ pubPc = [p \in Publishers |-> "idle"]
    /\ pubNote = [p \in Publishers |-> 0]
    /\ todo = [p \in Publishers |-> {}]
    /\ at = [p \in Publishers |-> NoViewer]
    /\ viewPc = [v \in Viewers |-> "away"]
    /\ clients = {}
    /\ queue = [v \in Viewers |-> <<>>]
    /\ drops = [v \in Viewers |-> 0]
    /\ batch = [v \in Viewers |-> <<>>]
    /\ total = [v \in Viewers |-> 0]
    /\ shown = [v \in Viewers |-> <<>>]
    /\ told = [v \in Viewers |-> 0]
    /\ offered = [v \in Viewers |-> 0]
    /\ base = [v \in Viewers |-> 0]

-----------------------------------------------------------------------------
(***************************************************************************)
(* Hub.mu, a sync.RWMutex: a waiting writer keeps new readers out.         *)
(***************************************************************************)

Readers == {p \in Publishers : pubPc[p] \in {"loop", "full", "retry"}}
Writers == {v \in Viewers : viewPc[v] \in {"subscribe", "close"}}

-----------------------------------------------------------------------------
(***************************************************************************)
(* Publish.  viewerMIDI.Write and viewerSink.Write call it only for a note *)
(* the scheduler or the peer queue accepted; a refused note changes        *)
(* nothing here.                                                           *)
(***************************************************************************)

\* The note is counted before it is handed out.
Count(p) ==
    /\ pubPc[p] = "idle" /\ notes < MaxNotes
    /\ notes' = notes + 1 /\ author' = Append(author, p)
    /\ pubPc' = [pubPc EXCEPT ![p] = "lock"]
    /\ pubNote' = [pubNote EXCEPT ![p] = notes + 1]
    /\ UNCHANGED <<ended, left, todo, at, queue, drops, offered, viewVars>>

\* hub.mu.RLock; the loop visits the clients in any order.
Lock(p) ==
    /\ pubPc[p] = "lock" /\ Writers = {}
    /\ pubPc' = [pubPc EXCEPT ![p] = "loop"]
    /\ todo' = [todo EXCEPT ![p] = clients]
    /\ offered' = [v \in Viewers |-> offered[v] + IF v \in clients THEN 1 ELSE 0]
    /\ UNCHANGED <<ended, left, notes, author, pubNote, at, queue, drops, viewVars>>

\* The first select: the note is queued, or the queue is full.
Offer(p, v) ==
    /\ pubPc[p] = "loop" /\ v \in todo[p]
    /\ todo' = [todo EXCEPT ![p] = @ \ {v}]
    /\ \/ /\ Len(queue[v]) < Capacity
          /\ queue' = [queue EXCEPT ![v] = Append(@, pubNote[p])]
          /\ UNCHANGED <<pubPc, at>>
       \/ /\ Len(queue[v]) = Capacity
          /\ pubPc' = [pubPc EXCEPT ![p] = "full"]
          /\ at' = [at EXCEPT ![p] = v]
          /\ UNCHANGED queue
    /\ UNCHANGED <<ended, left, notes, author, pubNote, drops, offered, viewVars>>

\* The second select discards the oldest note, unless the viewer was faster.
Discard(p) ==
    /\ pubPc[p] = "full"
    /\ pubPc' = [pubPc EXCEPT ![p] = "retry"]
    /\ \/ /\ queue[at[p]] # <<>>
          /\ queue' = [queue EXCEPT ![at[p]] = Tail(@)]
          /\ drops' = [drops EXCEPT ![at[p]] = @ + 1]
       \/ queue[at[p]] = <<>> /\ UNCHANGED <<queue, drops>>
    /\ UNCHANGED <<ended, left, notes, author, pubNote, todo, at, offered, viewVars>>

\* Mutant: the queue is expected to have room, a lost note is not counted.
RetryUncounted(p) ==
    /\ pubPc[p] = "retry"
    /\ pubPc' = [pubPc EXCEPT ![p] = "loop"] /\ at' = [at EXCEPT ![p] = NoViewer]
    /\ \/ /\ Len(queue[at[p]]) < Capacity
          /\ queue' = [queue EXCEPT ![at[p]] = Append(@, pubNote[p])]
       \/ Len(queue[at[p]]) = Capacity /\ UNCHANGED queue
    /\ UNCHANGED <<ended, left, notes, author, pubNote, todo, drops, offered, viewVars>>

\* Mutant: the last select has no default case.
RetryBlocks(p) ==
    /\ pubPc[p] = "retry"
    /\ pubPc' = [pubPc EXCEPT ![p] = "loop"] /\ at' = [at EXCEPT ![p] = NoViewer]
    /\ Len(queue[at[p]]) < Capacity
    /\ queue' = [queue EXCEPT ![at[p]] = Append(@, pubNote[p])]
    /\ UNCHANGED <<ended, left, notes, author, pubNote, todo, drops, offered, viewVars>>

\* The third select queues the note, or drops it because another publisher has
\* filled the queue again.
Retry(p) ==
    /\ pubPc[p] = "retry"
    /\ pubPc' = [pubPc EXCEPT ![p] = "loop"] /\ at' = [at EXCEPT ![p] = NoViewer]
    /\ \/ /\ Len(queue[at[p]]) < Capacity
          /\ queue' = [queue EXCEPT ![at[p]] = Append(@, pubNote[p])]
          /\ UNCHANGED drops
       \/ /\ Len(queue[at[p]]) = Capacity
          /\ drops' = [drops EXCEPT ![at[p]] = @ + 1]
          /\ UNCHANGED queue
    /\ UNCHANGED <<ended, left, notes, author, pubNote, todo, offered, viewVars>>

\* The deferred RUnlock.
Unlock(p) ==
    /\ pubPc[p] = "loop" /\ todo[p] = {}
    /\ pubPc' = [pubPc EXCEPT ![p] = "idle"]
    /\ UNCHANGED <<ended, left, notes, author, pubNote, todo, at, queue, drops, offered,
                   viewVars>>

Publish(p) ==
    \/ Lock(p) \/ Discard(p) \/ Retry(p) \/ Unlock(p)
    \/ \E v \in Viewers : Offer(p, v)

-----------------------------------------------------------------------------
(***************************************************************************)
(* ServeHTTP of a viewer                                                   *)
(***************************************************************************)

Goto(v, next) == viewPc' = [viewPc EXCEPT ![v] = next]

\* The request passed the method and local-origin checks and was upgraded.
Connect(v) ==
    /\ viewPc[v] = "away" /\ Goto(v, "subscribe")
    /\ UNCHANGED <<ended, left, pubVars, queue, drops, offered, clients, batch,
                   total, shown, told, base>>

\* Subscribe, under the write lock.  A note that is counted and whose publisher
\* waits for the lock will be offered to this viewer too.
Subscribe(v) ==
    /\ viewPc[v] = "subscribe" /\ Readers = {} /\ Goto(v, "live")
    /\ clients' = clients \cup {v}
    /\ base' = [base EXCEPT ![v] =
                   notes - Cardinality({p \in Publishers : pubPc[p] = "lock"})]
    /\ UNCHANGED <<ended, left, pubVars, queue, drops, offered, batch, total,
                   shown, told>>

\* The handler's context: CloseRead ends it when the browser goes away.
Gone(v) == ended \/ v \in left

Leave(v) ==
    /\ viewPc[v] = "live" /\ Gone(v) /\ Goto(v, "close")
    /\ UNCHANGED <<ended, left, pubVars, queue, drops, offered, clients, batch,
                   total, shown, told, base>>

\* The ticker fires.
Tick(v) ==
    /\ viewPc[v] = "live" /\ Goto(v, "drain")
    /\ batch' = [batch EXCEPT ![v] = <<>>]
    /\ UNCHANGED <<ended, left, pubVars, queue, drops, offered, clients, total,
                   shown, told, base>>

\* drain takes at most Capacity notes, and stops at an empty queue.
Drain(v) ==
    /\ viewPc[v] = "drain"
    /\ \/ /\ queue[v] # <<>> /\ Len(batch[v]) < Capacity
          /\ batch' = [batch EXCEPT ![v] = Append(@, Head(queue[v]))]
          /\ queue' = [queue EXCEPT ![v] = Tail(@)]
          /\ UNCHANGED viewPc
       \/ /\ queue[v] = <<>> \/ Len(batch[v]) = Capacity
          /\ Goto(v, "drops")
          /\ UNCHANGED <<batch, queue>>
    /\ UNCHANGED <<ended, left, pubVars, drops, offered, clients, total, shown,
                   told, base>>

\* TakeDrops.
TakeDrops(v) ==
    /\ viewPc[v] = "drops" /\ Goto(v, "totals")
    /\ told' = [told EXCEPT ![v] = @ + drops[v]]
    /\ drops' = [drops EXCEPT ![v] = 0]
    /\ UNCHANGED <<ended, left, pubVars, queue, offered, clients, batch, total,
                   shown, base>>

\* totals, read after the queue was drained and the drops were taken.
Totals(v) ==
    /\ viewPc[v] = "totals" /\ Goto(v, "write")
    /\ total' = [total EXCEPT ![v] = notes]
    /\ UNCHANGED <<ended, left, pubVars, queue, drops, offered, clients, batch,
                   shown, told, base>>

\* Mutant: a batch that may have been written is written again.
WriteBatchRetries(v) ==
    /\ viewPc[v] = "write"
    /\ \/ /\ ~Gone(v)
          /\ shown' = [shown EXCEPT ![v] = @ \o batch[v]]
          /\ \/ Goto(v, "live") /\ batch' = [batch EXCEPT ![v] = <<>>]
             \/ UNCHANGED <<viewPc, batch>>
       \/ Goto(v, "close") /\ UNCHANGED <<shown, batch>>
    /\ UNCHANGED <<ended, left, pubVars, queue, drops, offered, clients, total,
                   told, base>>

\* wsjson.Write; when it fails the batch is lost and the handler returns.
WriteBatch(v) ==
    /\ viewPc[v] = "write"
    /\ \/ /\ ~Gone(v) /\ Goto(v, "live")
          /\ shown' = [shown EXCEPT ![v] = @ \o batch[v]]
          /\ batch' = [batch EXCEPT ![v] = <<>>]
       \/ Goto(v, "close") /\ UNCHANGED <<shown, batch>>
    /\ UNCHANGED <<ended, left, pubVars, queue, drops, offered, clients, total,
                   told, base>>

\* The deferred Subscription.Close, under the write lock.
Close(v) ==
    /\ viewPc[v] = "close" /\ Readers = {} /\ Goto(v, "closed")
    /\ clients' = clients \ {v}
    /\ UNCHANGED <<ended, left, pubVars, queue, drops, offered, batch, total,
                   shown, told, base>>

\* What the handler does without waiting for its ticker.
Handle(v) ==
    \/ Subscribe(v) \/ Leave(v) \/ Drain(v) \/ TakeDrops(v) \/ Totals(v)
    \/ WriteBatch(v) \/ Close(v)

-----------------------------------------------------------------------------
\* The browser closes its connection.
Disconnect(v) ==
    /\ v \notin left /\ viewPc[v] # "away"
    /\ left' = left \cup {v}
    /\ UNCHANGED <<ended, pubVars, queue, drops, offered, viewVars>>

\* The supervisor cancels the management context.
EndLifecycle ==
    /\ ~ended /\ ended' = TRUE
    /\ UNCHANGED <<left, pubVars, queue, drops, offered, viewVars>>

Next ==
    \/ \E p \in Publishers : Count(p) \/ Publish(p)
    \/ \E v \in Viewers : Connect(v) \/ Tick(v) \/ Handle(v) \/ Disconnect(v)
    \/ EndLifecycle

Spec == Init /\ [][Next]_vars

\* Goroutines keep running; new notes, connections and ticks may stop coming.
FairSpec ==
    /\ Spec
    /\ \A p \in Publishers : WF_vars(Publish(p))
    /\ \A v \in Viewers : WF_vars(Handle(v))

-----------------------------------------------------------------------------
(***************************************************************************)
(* Properties                                                              *)
(***************************************************************************)

\* Types, and the bounds of queue and batch.
TypeOK ==
    /\ ended \in BOOLEAN /\ left \subseteq Viewers /\ clients \subseteq Viewers
    /\ notes \in 0..MaxNotes /\ author \in Seq(Publishers) /\ Len(author) = notes
    /\ pubPc \in [Publishers -> {"idle", "lock", "loop", "full", "retry"}]
    /\ pubNote \in [Publishers -> 0..MaxNotes]
    /\ todo \in [Publishers -> SUBSET Viewers]
    /\ at \in [Publishers -> Viewers \cup {NoViewer}]
    /\ viewPc \in [Viewers -> {"away", "subscribe", "live", "drain", "drops",
                               "totals", "write", "close", "closed"}]
    /\ \A v \in Viewers :
        /\ queue[v] \in Seq(1..MaxNotes) /\ Len(queue[v]) <= Capacity
        /\ batch[v] \in Seq(1..MaxNotes) /\ Len(batch[v]) <= Capacity
        /\ shown[v] \in Seq(1..MaxNotes)
        /\ {drops[v], told[v], total[v], offered[v], base[v]} \subseteq 0..MaxNotes

\* Publishers that still hold a note for viewer v.
Holding(v) == {p \in Publishers : v \in todo[p] \/ at[p] = v}

\* Every note published while a browser is subscribed is queued for it, shown
\* to it, or counted once in the drops it is told: none vanishes and none is
\* counted twice, whatever publishers and the draining handler interleave.
Accounted ==
    \A v \in Viewers :
        offered[v] = Len(shown[v]) + Len(batch[v]) + Len(queue[v])
                     + drops[v] + told[v] + Cardinality(Holding(v))

\* The note total of a batch is never behind its notes: what the browser has
\* been shown and told is part of what the total says was published.
TotalCoversBatch ==
    \A v \in Viewers : viewPc[v] = "write" =>
        base[v] + Len(shown[v]) + Len(batch[v]) + told[v] <= total[v]

\* Slow browsers lose notes but never see them out of order or twice: each
\* browser sees the notes of one goroutine in the order it published them.
ShownInOrder ==
    \A v \in Viewers :
        LET seen == shown[v] \o batch[v] \o queue[v]
        IN \A i, j \in 1..Len(seen) :
              (i < j /\ author[seen[i]] = author[seen[j]]) => seen[i] < seen[j]

\* A subscription is never visited after it was closed.
NoLateOffer == \A p \in Publishers : todo[p] \subseteq clients

\* "without blocking the caller": every Publish comes to its end, whatever the
\* browsers do and however many subscriptions come and go.
PublishEnds ==
    \A p \in Publishers : pubPc[p] # "idle" ~> pubPc[p] = "idle"

\* Once the management context is cancelled every handler that runs unsubscribes
\* and returns, so that the HTTP server can be drained.
ViewersEnd ==
    \A v \in Viewers : (ended /\ viewPc[v] # "away") ~> viewPc[v] = "closed"

\* What a browser is sent is right: types hold, every note is accounted for, the
\* total of a batch covers it, and no closed subscription is visited.
DeliverySound == TypeOK /\ Accounted /\ TotalCoversBatch /\ NoLateOffer

\* Neither a publisher nor a handler waits for ever on the other side.
NobodyWaits == PublishEnds /\ ViewersEnd

=============================================================================
