------------------------------ MODULE Pipeline ------------------------------
(***************************************************************************)
(* pipeline.Processor: the capture loop, the packet worker and the note    *)
(* worker, joined by two bounded Go channels, with end of input and        *)
(* cancellation.  Packets are numbered in the order the source yields      *)
(* them; a note carries the number of its packet.                          *)
(*                                                                         *)
(* A Go select with several ready cases picks any of them, so after the    *)
(* context is cancelled a worker may still take from its queue.            *)
(***************************************************************************)
EXTENDS Naturals, Sequences

CONSTANTS
    PacketCapacity,     \* PacketQueueCapacity
    NoteCapacity,       \* NoteQueueCapacity
    MaxPackets          \* bound: packets the source yields

\* New rejects capacities that are not positive.
ASSUME CapacityAssumption ==
    PacketCapacity \in Nat \ {0} /\ NoteCapacity \in Nat \ {0}

\* The bound of the model.
ASSUME PacketsAssumption == MaxPackets \in Nat

VARIABLES
    cancelled,      \* the context of Run is done
    capPc,          \* capture loop: in source.Next, choosing, or returned
    captured,       \* packets captured so far, also the number of the last one
    packetQueue,    \* Processor.packetQueue
    packetsClosed,  \* Run closed packetQueue
    packetPc,       \* packet worker
    packetHand,     \* the packet it works on
    noteQueue,      \* Processor.noteQueue
    notesClosed,    \* the packet worker closed noteQueue
    notePc,         \* note worker
    noteHand,       \* the note it works on
    returned,       \* Run closed the source and returned
    dropped,        \* how often Observer.Dropped was called, for any reason
    silent,         \* packets the rules do not play
    mapped,         \* history: notes that entered noteQueue
    offered,        \* history: notes given to Sink.Write
    accepted        \* notes Sink.Write accepted

captureVars == <<capPc, captured, packetsClosed>>
packetVars == <<packetPc, packetHand, silent, mapped, notesClosed>>
noteVars == <<notePc, noteHand, offered, accepted>>
vars == <<cancelled, packetQueue, noteQueue, returned, dropped,
          captureVars, packetVars, noteVars>>

\* Observer.Dropped, called once for every packet or note that is given up.
Drop == dropped' = dropped + 1

Init ==
    /\ cancelled = FALSE /\ returned = FALSE
    /\ capPc = "next" /\ captured = 0 /\ packetsClosed = FALSE
    /\ packetQueue = <<>> /\ noteQueue = <<>>
    /\ packetPc = "select" /\ packetHand = 0 /\ notesClosed = FALSE
    /\ notePc = "select" /\ noteHand = 0
    /\ dropped = 0 /\ silent = 0
    /\ mapped = <<>> /\ offered = <<>> /\ accepted = 0

\* The owner of the processor cancels its context, at any time.
Cancel ==
    /\ ~cancelled /\ ~returned
    /\ cancelled' = TRUE
    /\ UNCHANGED <<packetQueue, noteQueue, returned, dropped, captureVars,
                   packetVars, noteVars>>

-----------------------------------------------------------------------------
(***************************************************************************)
(* capture, in the goroutine of Run                                        *)
(***************************************************************************)

\* source.Next yields a packet.
NextPacket ==
    /\ capPc = "next" /\ captured < MaxPackets
    /\ captured' = captured + 1
    /\ capPc' = "choose"
    /\ UNCHANGED <<cancelled, packetQueue, noteQueue, returned, dropped,
                   packetsClosed, packetVars, noteVars>>

\* source.Next fails: end of input, a read error or a cancelled context; Run
\* closes the packet queue.
NextFails ==
    /\ capPc = "next"
    /\ capPc' = "done" /\ packetsClosed' = TRUE
    /\ UNCHANGED <<cancelled, packetQueue, noteQueue, returned, dropped,
                   captured, packetVars, noteVars>>

\* Mutant: the select has no default case, the capture loop waits for room.
PushPacketBlocks ==
    /\ capPc = "choose"
    /\ \/ /\ Len(packetQueue) < PacketCapacity
          /\ packetQueue' = Append(packetQueue, captured)
          /\ capPc' = "next"
          /\ UNCHANGED <<dropped, packetsClosed>>
       \/ /\ cancelled
          /\ Drop
          /\ capPc' = "done" /\ packetsClosed' = TRUE
          /\ UNCHANGED packetQueue
    /\ UNCHANGED <<cancelled, noteQueue, returned, captured, packetVars, noteVars>>

\* The select of capture: room in the queue, a full queue, or cancellation.
PushPacket ==
    /\ capPc = "choose"
    /\ \/ /\ Len(packetQueue) < PacketCapacity
          /\ packetQueue' = Append(packetQueue, captured)
          /\ capPc' = "next"
          /\ UNCHANGED <<dropped, packetsClosed>>
       \/ /\ Len(packetQueue) = PacketCapacity /\ ~cancelled
          /\ Drop
          /\ capPc' = "next"
          /\ UNCHANGED <<packetQueue, packetsClosed>>
       \/ /\ cancelled
          /\ Drop
          /\ capPc' = "done" /\ packetsClosed' = TRUE
          /\ UNCHANGED packetQueue
    /\ UNCHANGED <<cancelled, noteQueue, returned, captured, packetVars, noteVars>>

-----------------------------------------------------------------------------
(***************************************************************************)
(* processPackets                                                          *)
(***************************************************************************)

TakePacket ==
    /\ packetPc = "select" /\ packetQueue # <<>>
    /\ packetHand' = Head(packetQueue) /\ packetQueue' = Tail(packetQueue)
    /\ packetPc' = "process"
    /\ UNCHANGED <<cancelled, noteQueue, returned, dropped, captureVars, silent,
                   mapped, notesClosed, noteVars>>

\* processPacket up to the note queue: the registry, the selector or the
\* mapper rejects the packet, the rules do not play it, or it becomes a note.
Process ==
    /\ packetPc = "process"
    /\ \/ /\ Drop
          /\ packetPc' = "select" /\ UNCHANGED silent
       \/ /\ silent' = silent + 1
          /\ packetPc' = "select" /\ UNCHANGED dropped
       \/ /\ packetPc' = "choose" /\ UNCHANGED <<dropped, silent>>
    /\ UNCHANGED <<cancelled, packetQueue, noteQueue, returned, captureVars,
                   packetHand, mapped, notesClosed, noteVars>>

\* Mutant: a note that finds the queue full is not counted.
PushNoteUncounted ==
    /\ packetPc = "choose"
    /\ packetPc' = "select"
    /\ \/ /\ Len(noteQueue) < NoteCapacity
          /\ noteQueue' = Append(noteQueue, packetHand)
          /\ mapped' = Append(mapped, packetHand)
          /\ UNCHANGED dropped
       \/ /\ Len(noteQueue) = NoteCapacity /\ ~cancelled
          /\ UNCHANGED <<noteQueue, mapped, dropped>>
       \/ /\ cancelled
          /\ Drop
          /\ UNCHANGED <<noteQueue, mapped>>
    /\ UNCHANGED <<cancelled, packetQueue, returned, captureVars, packetHand,
                   silent, notesClosed, noteVars>>

\* Mutant: a packet whose note finds the queue full is queued again.
PushNoteRequeues ==
    /\ packetPc = "choose"
    /\ packetPc' = "select"
    /\ \/ /\ Len(noteQueue) < NoteCapacity
          /\ noteQueue' = Append(noteQueue, packetHand)
          /\ mapped' = Append(mapped, packetHand)
          /\ UNCHANGED packetQueue
       \/ /\ Len(noteQueue) = NoteCapacity /\ Len(packetQueue) < PacketCapacity
          /\ packetQueue' = Append(packetQueue, packetHand)
          /\ UNCHANGED <<noteQueue, mapped>>
    /\ UNCHANGED <<cancelled, returned, dropped, captureVars, packetHand,
                   silent, notesClosed, noteVars>>

\* The select at the end of processPacket.
PushNote ==
    /\ packetPc = "choose"
    /\ packetPc' = "select"
    /\ \/ /\ Len(noteQueue) < NoteCapacity
          /\ noteQueue' = Append(noteQueue, packetHand)
          /\ mapped' = Append(mapped, packetHand)
          /\ UNCHANGED dropped
       \/ /\ Len(noteQueue) = NoteCapacity /\ ~cancelled
          /\ Drop
          /\ UNCHANGED <<noteQueue, mapped>>
       \/ /\ cancelled
          /\ Drop
          /\ UNCHANGED <<noteQueue, mapped>>
    /\ UNCHANGED <<cancelled, packetQueue, returned, captureVars, packetHand,
                   silent, notesClosed, noteVars>>

\* Cancellation is noticed: from now on packets are only discarded.
PacketsCancelled ==
    /\ packetPc = "select" /\ cancelled
    /\ packetPc' = "discard"
    /\ UNCHANGED <<cancelled, packetQueue, noteQueue, returned, dropped,
                   captureVars, packetHand, silent, mapped, notesClosed, noteVars>>

DiscardPacket ==
    /\ packetPc = "discard" /\ packetQueue # <<>>
    /\ packetQueue' = Tail(packetQueue)
    /\ Drop
    /\ UNCHANGED <<cancelled, noteQueue, returned, captureVars, packetVars, noteVars>>

\* The queue is closed and empty: the worker ends and closes the note queue.
PacketsEnd ==
    /\ packetPc \in {"select", "discard"}
    /\ packetsClosed /\ packetQueue = <<>>
    /\ packetPc' = "done" /\ notesClosed' = TRUE
    /\ UNCHANGED <<cancelled, packetQueue, noteQueue, returned, dropped,
                   captureVars, packetHand, silent, mapped, noteVars>>

-----------------------------------------------------------------------------
(***************************************************************************)
(* processNotes                                                            *)
(***************************************************************************)

TakeNote ==
    /\ notePc = "select" /\ noteQueue # <<>>
    /\ noteHand' = Head(noteQueue) /\ noteQueue' = Tail(noteQueue)
    /\ offered' = Append(offered, Head(noteQueue))
    /\ notePc' = "write"
    /\ UNCHANGED <<cancelled, packetQueue, returned, dropped, captureVars,
                   packetVars, accepted>>

\* Sink.Write returns; a rejected note is dropped and the worker goes on.
SinkReturns ==
    /\ notePc = "write"
    /\ notePc' = "select"
    /\ \/ accepted' = accepted + 1 /\ UNCHANGED dropped
       \/ Drop /\ UNCHANGED accepted
    /\ UNCHANGED <<cancelled, packetQueue, noteQueue, returned, captureVars,
                   packetVars, noteHand, offered>>

\* Mutant: notes are also discarded when the queue is closed at end of input.
NotesCancelledAtEOF ==
    /\ notePc = "select" /\ (cancelled \/ notesClosed)
    /\ notePc' = "discard"
    /\ UNCHANGED <<cancelled, packetQueue, noteQueue, returned, dropped,
                   captureVars, packetVars, noteHand, offered, accepted>>

NotesCancelled ==
    /\ notePc = "select" /\ cancelled
    /\ notePc' = "discard"
    /\ UNCHANGED <<cancelled, packetQueue, noteQueue, returned, dropped,
                   captureVars, packetVars, noteHand, offered, accepted>>

DiscardNote ==
    /\ notePc = "discard" /\ noteQueue # <<>>
    /\ noteQueue' = Tail(noteQueue)
    /\ Drop
    /\ UNCHANGED <<cancelled, packetQueue, returned, captureVars, packetVars, noteVars>>

\* Mutant: the worker goes on receiving from the closed queue.
NotesEndSpins ==
    /\ notePc \in {"select", "discard"}
    /\ notesClosed /\ noteQueue = <<>>
    /\ notePc' = "select"
    /\ UNCHANGED <<cancelled, packetQueue, noteQueue, returned, dropped,
                   captureVars, packetVars, noteHand, offered, accepted>>

NotesEnd ==
    /\ notePc \in {"select", "discard"}
    /\ notesClosed /\ noteQueue = <<>>
    /\ notePc' = "done"
    /\ UNCHANGED <<cancelled, packetQueue, noteQueue, returned, dropped,
                   captureVars, packetVars, noteHand, offered, accepted>>

\* The rest of Run: both workers are done, the source is closed.
Return ==
    /\ capPc = "done" /\ packetPc = "done" /\ notePc = "done" /\ ~returned
    /\ returned' = TRUE
    /\ UNCHANGED <<cancelled, packetQueue, noteQueue, dropped, captureVars,
                   packetVars, noteVars>>

-----------------------------------------------------------------------------

CaptureStep == NextPacket \/ NextFails \/ PushPacket \/ Return

PacketStep ==
    TakePacket \/ Process \/ PushNote \/ PacketsCancelled \/ DiscardPacket \/ PacketsEnd

NoteStep == TakeNote \/ SinkReturns \/ NotesCancelled \/ DiscardNote \/ NotesEnd

\* Nothing happens once Run has returned.
Finished == returned /\ UNCHANGED vars

Next == Cancel \/ CaptureStep \/ PacketStep \/ NoteStep \/ Finished

Spec == Init /\ [][Next]_vars

\* Only the capture loop is known to run: source.Next returns (its context may be
\* cancelled, a finite source ends), but the sink may block for ever.
FairSpec == Spec /\ WF_vars(CaptureStep)

\* The workers run too, and the sink honours its context.
WorkersRun == WF_vars(PacketStep) /\ WF_vars(NoteStep)

-----------------------------------------------------------------------------
(***************************************************************************)
(* Properties                                                              *)
(***************************************************************************)

\* Every variable holds a value of the Go state it stands for, and the queues
\* respect their capacities.
TypeOK ==
    /\ cancelled \in BOOLEAN /\ returned \in BOOLEAN
    /\ packetsClosed \in BOOLEAN /\ notesClosed \in BOOLEAN
    /\ capPc \in {"next", "choose", "done"}
    /\ packetPc \in {"select", "process", "choose", "discard", "done"}
    /\ notePc \in {"select", "write", "discard", "done"}
    /\ captured \in Nat /\ silent \in Nat /\ accepted \in Nat
    /\ packetHand \in Nat /\ noteHand \in Nat
    /\ packetQueue \in Seq(Nat) /\ Len(packetQueue) <= PacketCapacity
    /\ noteQueue \in Seq(Nat) /\ Len(noteQueue) <= NoteCapacity
    /\ mapped \in Seq(Nat) /\ offered \in Seq(Nat)
    /\ dropped \in Nat

Busy(pc, states) == IF pc \in states THEN 1 ELSE 0

\* Every captured packet is accounted for exactly once: dropped and counted,
\* not played, accepted by the sink, queued, or in the hands of one goroutine.
Conservation ==
    captured = dropped + silent + accepted
                 + Len(packetQueue) + Len(noteQueue)
                 + Busy(capPc, {"choose"})
                 + Busy(packetPc, {"process", "choose"})
                 + Busy(notePc, {"write"})

\* When Run has returned nothing is in flight: every packet was played, not
\* played by rule, or counted as dropped, also when it was cancelled.
NothingInFlight == returned => captured = dropped + silent + accepted

\* Notes reach the sink in capture order, none twice: what was offered is a
\* prefix of what was mapped, and packets are mapped in increasing order.
InOrder ==
    /\ offered = SubSeq(mapped, 1, Len(offered))
    /\ \A i, j \in DOMAIN mapped : i < j => mapped[i] < mapped[j]

\* Without cancellation Run returns only after every mapped note was offered
\* to the sink: a finite source drains.
DrainsAtEOF == returned /\ ~cancelled => offered = mapped

\* Run returns once its source ends or its context is cancelled, provided that
\* the workers run.
Terminates == WorkersRun => ((cancelled \/ capPc = "done") ~> returned)

\* The capture loop never waits for a consumer: even if the sink blocks for
\* ever, every captured packet is soon queued or dropped.
CaptureNeverBlocks == (capPc = "choose") ~> (capPc # "choose")
=============================================================================
