---------------------------- MODULE PipelineProof ----------------------------
(***************************************************************************)
(* Proofs about Pipeline for all queue capacities and any number of        *)
(* packets.                                                                *)
(***************************************************************************)
EXTENDS Pipeline, TLAPS, SequenceTheorems

\* Where the goroutines are when the channels are closed: the strengthening
\* that makes NothingInFlight and DrainsAtEOF inductive.  Until somebody starts
\* to discard notes, the mapped notes are the offered and the queued ones, in
\* this order.
ShutdownInv ==
    /\ packetsClosed <=> capPc = "done"
    /\ notesClosed <=> packetPc = "done"
    /\ packetPc = "done" => packetsClosed /\ packetQueue = <<>>
    /\ notePc = "done" => notesClosed /\ noteQueue = <<>>
    /\ notePc = "discard" => cancelled
    /\ returned => capPc = "done" /\ packetPc = "done" /\ notePc = "done"

LineInv ==
    notePc \in {"select", "write"} \/ ~cancelled => mapped = offered \o noteQueue

\* What was offered is the beginning of what was mapped, also while notes are
\* discarded.
PrefixInv ==
    /\ Len(offered) <= Len(mapped)
    /\ \A i \in 1..Len(offered) : offered[i] = mapped[i]

Increasing(s) == \A i, j \in 1..Len(s) : i < j => s[i] < s[j]

Below(s, x) == \A i \in 1..Len(s) : s[i] < x

Above(x, s) == \A i \in 1..Len(s) : x < s[i]

\* Packet numbers grow along the pipeline: mapped notes come before the packet
\* in hand, that one before the queued packets, those before the next one.
OrderInv ==
    /\ packetHand <= captured
    /\ capPc = "choose" => packetHand < captured
    /\ Increasing(packetQueue)
    /\ Above(packetHand, packetQueue)
    /\ Below(packetQueue, captured + 1)
    /\ capPc = "choose" => Below(packetQueue, captured)
    /\ Increasing(mapped)
    /\ Below(mapped, packetHand + 1)
    /\ packetPc \in {"process", "choose"} => Below(mapped, packetHand)

Inv == TypeOK /\ Conservation /\ ShutdownInv /\ LineInv /\ PrefixInv /\ OrderInv

\* The invariant holds before Run starts.
LEMMA InvInit == Init => Inv
<1> SUFFICES ASSUME Init PROVE Inv
  OBVIOUS
<1>1. <<>> \in Seq(Nat) /\ Len(<<>>) = 0
  BY EmptySeq
<1>2. <<>> = <<>> \o <<>>
  BY <1>1, ConcatEmptySeq
<1>3. /\ packetQueue \in Seq(Nat) /\ Len(packetQueue) = 0
      /\ noteQueue \in Seq(Nat) /\ Len(noteQueue) = 0
      /\ mapped \in Seq(Nat) /\ Len(mapped) = 0
      /\ offered \in Seq(Nat) /\ Len(offered) = 0
  BY <1>1 DEF Init
<1>4. TypeOK
  <2>1. Len(packetQueue) <= PacketCapacity /\ Len(noteQueue) <= NoteCapacity
    BY <1>3, CapacityAssumption
  <2>2. captured \in Nat /\ silent \in Nat /\ accepted \in Nat /\ packetHand \in Nat
        /\ noteHand \in Nat /\ dropped \in Nat
    BY DEF Init
  <2> QED BY <1>3, <2>1, <2>2, Zenon DEF Init, TypeOK
<1>5. Conservation
  BY <1>3 DEF Init, Conservation, Busy
<1>6. ShutdownInv
  BY DEF Init, ShutdownInv
<1>7. LineInv
  BY <1>2, Zenon DEF Init, LineInv
<1>8. PrefixInv
  BY <1>3 DEF PrefixInv
<1>9. OrderInv
  BY <1>3 DEF Init, OrderInv, Increasing, Below, Above
<1> QED BY <1>4, <1>5, <1>6, <1>7, <1>8, <1>9 DEF Inv

\* Taking the head of a nonempty queue.
LEMMA Taken ==
    ASSUME NEW q \in Seq(Nat), q # <<>>
    PROVE  /\ Head(q) \in Nat /\ Tail(q) \in Seq(Nat)
           /\ Len(q) \in Nat \ {0} /\ Len(Tail(q)) = Len(q) - 1
  BY HeadTailProperties, EmptySeq, LenProperties

\* Appending to a queue.
LEMMA Pushed ==
    ASSUME NEW q \in Seq(Nat), NEW x \in Nat
    PROVE  /\ Append(q, x) \in Seq(Nat)
           /\ Len(q) \in Nat /\ Len(Append(q, x)) = Len(q) + 1
  BY AppendProperties, LenProperties

\* What taking from and appending to the queues does to their lengths.
LEMMA Queues ==
    ASSUME TypeOK
    PROVE  /\ Len(packetQueue) \in Nat /\ Len(noteQueue) \in Nat
           /\ packetQueue # <<>> =>
                /\ Head(packetQueue) \in Nat /\ Tail(packetQueue) \in Seq(Nat)
                /\ Len(packetQueue) # 0 /\ Len(Tail(packetQueue)) = Len(packetQueue) - 1
           /\ noteQueue # <<>> =>
                /\ Head(noteQueue) \in Nat /\ Tail(noteQueue) \in Seq(Nat)
                /\ Append(offered, Head(noteQueue)) \in Seq(Nat)
                /\ Len(noteQueue) # 0 /\ Len(Tail(noteQueue)) = Len(noteQueue) - 1
           /\ Append(packetQueue, captured) \in Seq(Nat)
           /\ Len(Append(packetQueue, captured)) = Len(packetQueue) + 1
           /\ Append(noteQueue, packetHand) \in Seq(Nat)
           /\ Len(Append(noteQueue, packetHand)) = Len(noteQueue) + 1
           /\ Append(mapped, packetHand) \in Seq(Nat)
<1>1. /\ packetQueue \in Seq(Nat) /\ noteQueue \in Seq(Nat) /\ mapped \in Seq(Nat)
      /\ offered \in Seq(Nat) /\ captured \in Nat /\ packetHand \in Nat
  BY DEF TypeOK
<1>2. /\ Append(packetQueue, captured) \in Seq(Nat) /\ Append(noteQueue, packetHand) \in Seq(Nat)
      /\ Len(packetQueue) \in Nat /\ Len(noteQueue) \in Nat
      /\ Len(Append(packetQueue, captured)) = Len(packetQueue) + 1
      /\ Len(Append(noteQueue, packetHand)) = Len(noteQueue) + 1
      /\ Append(mapped, packetHand) \in Seq(Nat)
  BY <1>1, Pushed
<1>3. ASSUME packetQueue # <<>>
      PROVE  /\ Head(packetQueue) \in Nat /\ Tail(packetQueue) \in Seq(Nat)
             /\ Len(packetQueue) # 0 /\ Len(Tail(packetQueue)) = Len(packetQueue) - 1
  BY <1>1, <1>3, Taken
<1>4. ASSUME noteQueue # <<>>
      PROVE  /\ Head(noteQueue) \in Nat /\ Tail(noteQueue) \in Seq(Nat)
             /\ Len(noteQueue) # 0 /\ Len(Tail(noteQueue)) = Len(noteQueue) - 1
             /\ Append(offered, Head(noteQueue)) \in Seq(Nat)
  <2>1. /\ Head(noteQueue) \in Nat /\ Tail(noteQueue) \in Seq(Nat)
        /\ Len(noteQueue) # 0 /\ Len(Tail(noteQueue)) = Len(noteQueue) - 1
    BY <1>1, <1>4, Taken
  <2>2. Append(offered, Head(noteQueue)) \in Seq(Nat)
    BY <1>1, <2>1, Pushed
  <2> QED BY <2>1, <2>2
<1> QED BY <1>2, <1>3, <1>4

\* Offering the head of the queue keeps the line of notes.
LEMMA OfferKeepsLine ==
    ASSUME NEW o \in Seq(Nat), NEW q \in Seq(Nat), q # <<>>
    PROVE  Append(o, Head(q)) \o Tail(q) = o \o q
<1>1. /\ Head(q) \in Nat /\ Tail(q) \in Seq(Nat) /\ Len(q) \in Nat \ {0}
      /\ Len(Tail(q)) = Len(q) - 1 /\ \A i \in 1..Len(Tail(q)) : Tail(q)[i] = q[i + 1]
  BY Taken, HeadTailProperties
<1>2. <<Head(q)>> \o Tail(q) = q
  BY <1>1
<1>3. Append(o, Head(q)) = o \o <<Head(q)>>
  BY <1>1, AppendIsConcat
<1>4. <<Head(q)>> \in Seq(Nat)
  BY <1>1
<1>5. (o \o <<Head(q)>>) \o Tail(q) = o \o (<<Head(q)>> \o Tail(q))
  BY <1>1, <1>4, ConcatAssociative
<1> QED BY <1>2, <1>3, <1>5

\* So does a new note at its end.
LEMMA PushKeepsLine ==
    ASSUME NEW o \in Seq(Nat), NEW q \in Seq(Nat), NEW x \in Nat
    PROVE  Append(o \o q, x) = o \o Append(q, x)
<1>1. <<x>> \in Seq(Nat) /\ o \o q \in Seq(Nat)
  BY ConcatProperties
<1>2. Append(o \o q, x) = (o \o q) \o <<x>> /\ Append(q, x) = q \o <<x>>
  BY <1>1, AppendIsConcat
<1>3. (o \o q) \o <<x>> = o \o (q \o <<x>>)
  BY <1>1, ConcatAssociative
<1> QED BY <1>2, <1>3

\* A number above all others is appended to an increasing sequence.
LEMMA IncreasingAppend ==
    ASSUME NEW s \in Seq(Nat), NEW x \in Nat, Increasing(s), Below(s, x)
    PROVE  Increasing(Append(s, x))
<1>1. /\ Len(s) \in Nat /\ Len(Append(s, x)) = Len(s) + 1
      /\ Append(s, x)[Len(s) + 1] = x
      /\ \A i \in 1..Len(s) : Append(s, x)[i] = s[i]
  BY AppendProperties, LenProperties
<1> QED BY <1>1 DEF Increasing, Below

\* Bounds below and above a sequence hold for a new element too.
LEMMA BelowAppend ==
    ASSUME NEW s \in Seq(Nat), NEW x \in Nat, NEW y \in Nat, Below(s, y), x < y
    PROVE  Below(Append(s, x), y)
<1>1. /\ Len(s) \in Nat /\ Len(Append(s, x)) = Len(s) + 1
      /\ Append(s, x)[Len(s) + 1] = x
      /\ \A i \in 1..Len(s) : Append(s, x)[i] = s[i]
  BY AppendProperties, LenProperties
<1> QED BY <1>1 DEF Below

\* The same from below.
LEMMA AboveAppend ==
    ASSUME NEW s \in Seq(Nat), NEW x \in Nat, NEW y \in Nat, Above(y, s), y < x
    PROVE  Above(y, Append(s, x))
<1>1. /\ Len(s) \in Nat /\ Len(Append(s, x)) = Len(s) + 1
      /\ Append(s, x)[Len(s) + 1] = x
      /\ \A i \in 1..Len(s) : Append(s, x)[i] = s[i]
  BY AppendProperties, LenProperties
<1> QED BY <1>1 DEF Above

\* A larger bound is a bound.
LEMMA BelowLater ==
    ASSUME NEW s \in Seq(Nat), NEW x \in Nat, NEW y \in Nat,
           Below(s, x) \/ (Below(s, x + 1) /\ x < y), x <= y
    PROVE  Below(s, y)
<1>1. \A i \in 1..Len(s) : s[i] \in Nat
  BY ElementOfSeq
<1> QED BY <1>1 DEF Below

\* The head of an increasing sequence comes before its tail.
LEMMA IncreasingTail ==
    ASSUME NEW s \in Seq(Nat), s # <<>>, Increasing(s)
    PROVE  Increasing(Tail(s)) /\ Above(Head(s), Tail(s))
<1>1. /\ Len(s) \in Nat \ {0} /\ Len(Tail(s)) = Len(s) - 1 /\ Head(s) = s[1]
      /\ \A i \in 1..Len(Tail(s)) : Tail(s)[i] = s[i + 1]
  BY Taken, HeadTailProperties
<1> QED BY <1>1 DEF Increasing, Above

\* Bounds hold for the tail.
LEMMA BelowTail ==
    ASSUME NEW s \in Seq(Nat), NEW x \in Nat, s # <<>>, Below(s, x)
    PROVE  Below(Tail(s), x)
<1>1. /\ Len(s) \in Nat \ {0} /\ Len(Tail(s)) = Len(s) - 1
      /\ \A i \in 1..Len(Tail(s)) : Tail(s)[i] = s[i + 1]
  BY Taken, HeadTailProperties
<1> QED BY <1>1 DEF Below

\* The same from below.
LEMMA AboveTail ==
    ASSUME NEW s \in Seq(Nat), NEW x \in Nat, s # <<>>, Above(x, s)
    PROVE  Above(x, Tail(s))
<1>1. /\ Len(s) \in Nat \ {0} /\ Len(Tail(s)) = Len(s) - 1
      /\ \A i \in 1..Len(Tail(s)) : Tail(s)[i] = s[i + 1]
  BY Taken, HeadTailProperties
<1> QED BY <1>1 DEF Above

\* The head lies between the bounds of its sequence.
LEMMA HeadBetween ==
    ASSUME NEW s \in Seq(Nat), s # <<>>
    PROVE  /\ \A x \in Nat : Above(x, s) => x < Head(s)
           /\ \A x \in Nat : Below(s, x) => Head(s) < x
<1>1. Len(s) \in Nat \ {0} /\ Head(s) = s[1]
  BY Taken, HeadTailProperties
<1> QED BY <1>1 DEF Above, Below

\* Every step keeps the types and the capacities.
LEMMA TypeNext ==
    ASSUME TypeOK, [Next]_vars
    PROVE  TypeOK'
<1> USE DEF TypeOK
<1>1. CASE Cancel
  BY <1>1 DEF Cancel, captureVars, packetVars, noteVars
<1>2. CASE NextPacket
  BY <1>2 DEF NextPacket, captureVars, packetVars, noteVars
<1>3. CASE NextFails
  BY <1>3 DEF NextFails, captureVars, packetVars, noteVars
<1>4. CASE PushPacket
  <2>1. CASE Len(packetQueue) < PacketCapacity /\ packetQueue' = Append(packetQueue, captured)
             /\ capPc' = "next" /\ UNCHANGED <<dropped, packetsClosed>>
    BY <1>4, <2>1, Queues, CapacityAssumption DEF PushPacket, packetVars, noteVars
  <2>2. CASE packetQueue' = packetQueue /\ Drop /\ capPc' = "next"
             /\ UNCHANGED packetsClosed
    BY <1>4, <2>2, Queues, CapacityAssumption DEF PushPacket, packetVars, noteVars, Drop
  <2>3. CASE packetQueue' = packetQueue /\ Drop /\ capPc' = "done" /\ packetsClosed'
    BY <1>4, <2>3, Queues, CapacityAssumption DEF PushPacket, packetVars, noteVars, Drop
  <2> QED BY <1>4, <2>1, <2>2, <2>3 DEF PushPacket
<1>5. CASE TakePacket
  BY <1>5, Queues, CapacityAssumption DEF TakePacket, captureVars, packetVars, noteVars
<1>6. CASE Process
  BY <1>6 DEF Process, captureVars, packetVars, noteVars, Drop
<1>7. CASE PushNote
  <2>1. CASE Len(noteQueue) < NoteCapacity /\ noteQueue' = Append(noteQueue, packetHand)
             /\ mapped' = Append(mapped, packetHand) /\ UNCHANGED dropped
    BY <1>7, <2>1, Queues, CapacityAssumption DEF PushNote, captureVars, noteVars
  <2>2. CASE UNCHANGED <<noteQueue, mapped>> /\ Drop
    BY <1>7, <2>2, Queues, CapacityAssumption DEF PushNote, captureVars, noteVars, Drop
  <2> QED BY <1>7, <2>1, <2>2 DEF PushNote
<1>8. CASE PacketsCancelled
  BY <1>8 DEF PacketsCancelled, captureVars, packetVars, noteVars
<1>9. CASE DiscardPacket
  BY <1>9, Queues, CapacityAssumption DEF DiscardPacket, captureVars, packetVars, noteVars, Drop
<1>10. CASE PacketsEnd
  BY <1>10 DEF PacketsEnd, captureVars, packetVars, noteVars
<1>11. CASE TakeNote
  BY <1>11, Queues, CapacityAssumption DEF TakeNote, captureVars, packetVars, noteVars
<1>12. CASE SinkReturns
  BY <1>12 DEF SinkReturns, captureVars, packetVars, noteVars, Drop
<1>13. CASE NotesCancelled
  BY <1>13 DEF NotesCancelled, captureVars, packetVars, noteVars
<1>14. CASE DiscardNote
  BY <1>14, Queues, CapacityAssumption DEF DiscardNote, captureVars, packetVars, noteVars, Drop
<1>15. CASE NotesEnd
  BY <1>15 DEF NotesEnd, captureVars, packetVars, noteVars
<1>16. CASE Return
  BY <1>16 DEF Return, captureVars, packetVars, noteVars
<1>17. CASE UNCHANGED vars
  BY <1>17 DEF vars, captureVars, packetVars, noteVars
<1> QED
  BY <1>1, <1>2, <1>3, <1>4, <1>5, <1>6, <1>7, <1>8, <1>9,
     <1>10, <1>11, <1>12, <1>13, <1>14, <1>15, <1>16, <1>17
  DEF Next, CaptureStep, PacketStep, NoteStep, Finished

\* Every step keeps the account.
LEMMA CountNext ==
    ASSUME TypeOK, ShutdownInv, Conservation, [Next]_vars
    PROVE  Conservation'
<1> USE DEF TypeOK, ShutdownInv, Conservation, Busy
<1>1. CASE Cancel
  BY <1>1, Queues DEF Cancel, captureVars, packetVars, noteVars
<1>2. CASE NextPacket
  BY <1>2, Queues DEF NextPacket, captureVars, packetVars, noteVars
<1>3. CASE NextFails
  BY <1>3, Queues DEF NextFails, captureVars, packetVars, noteVars
<1>4. CASE PushPacket
  <2>1. CASE Len(packetQueue) < PacketCapacity /\ packetQueue' = Append(packetQueue, captured)
             /\ capPc' = "next" /\ UNCHANGED <<dropped, packetsClosed>>
    BY <1>4, <2>1, Queues DEF PushPacket, packetVars, noteVars
  <2>2. CASE packetQueue' = packetQueue /\ Drop /\ capPc' = "next"
             /\ UNCHANGED packetsClosed
    BY <1>4, <2>2, Queues DEF PushPacket, packetVars, noteVars, Drop
  <2>3. CASE packetQueue' = packetQueue /\ Drop /\ capPc' = "done" /\ packetsClosed'
    BY <1>4, <2>3, Queues DEF PushPacket, packetVars, noteVars, Drop
  <2> QED BY <1>4, <2>1, <2>2, <2>3 DEF PushPacket
<1>5. CASE TakePacket
  BY <1>5, Queues DEF TakePacket, captureVars, packetVars, noteVars
<1>6. CASE Process
  <2>1. CASE Drop /\ packetPc' = "select" /\ UNCHANGED silent
    BY <1>6, <2>1, Queues DEF Process, captureVars, noteVars, Drop
  <2>2. CASE silent' = silent + 1 /\ packetPc' = "select" /\ UNCHANGED dropped
    BY <1>6, <2>2, Queues DEF Process, captureVars, noteVars
  <2>3. CASE packetPc' = "choose" /\ UNCHANGED <<dropped, silent>>
    BY <1>6, <2>3, Queues DEF Process, captureVars, noteVars
  <2> QED BY <1>6, <2>1, <2>2, <2>3 DEF Process
<1>7. CASE PushNote
  <2>1. CASE Len(noteQueue) < NoteCapacity /\ noteQueue' = Append(noteQueue, packetHand)
             /\ mapped' = Append(mapped, packetHand) /\ UNCHANGED dropped
    BY <1>7, <2>1, Queues DEF PushNote, captureVars, noteVars
  <2>2. CASE UNCHANGED <<noteQueue, mapped>> /\ Drop
    BY <1>7, <2>2, Queues DEF PushNote, captureVars, noteVars, Drop
  <2> QED BY <1>7, <2>1, <2>2 DEF PushNote
<1>8. CASE PacketsCancelled
  BY <1>8, Queues DEF PacketsCancelled, captureVars, packetVars, noteVars
<1>9. CASE DiscardPacket
  BY <1>9, Queues DEF DiscardPacket, captureVars, packetVars, noteVars, Drop
<1>10. CASE PacketsEnd
  BY <1>10, Queues DEF PacketsEnd, captureVars, packetVars, noteVars
<1>11. CASE TakeNote
  BY <1>11, Queues DEF TakeNote, captureVars, packetVars, noteVars
<1>12. CASE SinkReturns
  <2>1. CASE accepted' = accepted + 1 /\ UNCHANGED dropped
    BY <1>12, <2>1, Queues DEF SinkReturns, captureVars, packetVars
  <2>2. CASE Drop /\ UNCHANGED accepted
    BY <1>12, <2>2, Queues DEF SinkReturns, captureVars, packetVars, Drop
  <2> QED BY <1>12, <2>1, <2>2 DEF SinkReturns
<1>13. CASE NotesCancelled
  BY <1>13, Queues DEF NotesCancelled, captureVars, packetVars, noteVars
<1>14. CASE DiscardNote
  BY <1>14, Queues DEF DiscardNote, captureVars, packetVars, noteVars, Drop
<1>15. CASE NotesEnd
  BY <1>15, Queues DEF NotesEnd, captureVars, packetVars, noteVars
<1>16. CASE Return
  BY <1>16, Queues DEF Return, captureVars, packetVars, noteVars
<1>17. CASE UNCHANGED vars
  BY <1>17 DEF vars, captureVars, packetVars, noteVars
<1> QED
  BY <1>1, <1>2, <1>3, <1>4, <1>5, <1>6, <1>7, <1>8, <1>9,
     <1>10, <1>11, <1>12, <1>13, <1>14, <1>15, <1>16, <1>17
  DEF Next, CaptureStep, PacketStep, NoteStep, Finished

\* Every step keeps the order in which the goroutines end.
LEMMA ShutdownNext ==
    ASSUME TypeOK, ShutdownInv, [Next]_vars
    PROVE  ShutdownInv'
<1> USE DEF TypeOK, ShutdownInv
<1>1. CASE Cancel
  BY <1>1 DEF Cancel, captureVars, packetVars, noteVars
<1>2. CASE NextPacket
  BY <1>2 DEF NextPacket, captureVars, packetVars, noteVars
<1>3. CASE NextFails
  BY <1>3 DEF NextFails, captureVars, packetVars, noteVars
<1>4. CASE PushPacket
  BY <1>4 DEF PushPacket, captureVars, packetVars, noteVars, Drop
<1>5. CASE TakePacket
  BY <1>5 DEF TakePacket, captureVars, packetVars, noteVars
<1>6. CASE Process
  BY <1>6 DEF Process, captureVars, packetVars, noteVars, Drop
<1>7. CASE PushNote
  BY <1>7 DEF PushNote, captureVars, packetVars, noteVars, Drop
<1>8. CASE PacketsCancelled
  BY <1>8 DEF PacketsCancelled, captureVars, packetVars, noteVars
<1>9. CASE DiscardPacket
  BY <1>9 DEF DiscardPacket, captureVars, packetVars, noteVars, Drop
<1>10. CASE PacketsEnd
  BY <1>10 DEF PacketsEnd, captureVars, packetVars, noteVars
<1>11. CASE TakeNote
  BY <1>11 DEF TakeNote, captureVars, packetVars, noteVars
<1>12. CASE SinkReturns
  BY <1>12 DEF SinkReturns, captureVars, packetVars, noteVars, Drop
<1>13. CASE NotesCancelled
  BY <1>13 DEF NotesCancelled, captureVars, packetVars, noteVars
<1>14. CASE DiscardNote
  BY <1>14 DEF DiscardNote, captureVars, packetVars, noteVars, Drop
<1>15. CASE NotesEnd
  BY <1>15 DEF NotesEnd, captureVars, packetVars, noteVars
<1>16. CASE Return
  BY <1>16 DEF Return, captureVars, packetVars, noteVars
<1>17. CASE UNCHANGED vars
  BY <1>17 DEF vars, captureVars, packetVars, noteVars
<1> QED
  BY <1>1, <1>2, <1>3, <1>4, <1>5, <1>6, <1>7, <1>8, <1>9,
     <1>10, <1>11, <1>12, <1>13, <1>14, <1>15, <1>16, <1>17
  DEF Next, CaptureStep, PacketStep, NoteStep, Finished

\* Every step keeps the line of mapped notes.
LEMMA LineNext ==
    ASSUME TypeOK, ShutdownInv, LineInv, [Next]_vars
    PROVE  LineInv'
<1> USE DEF TypeOK, ShutdownInv, LineInv
<1>1. CASE Cancel
  BY <1>1 DEF Cancel, captureVars, packetVars, noteVars
<1>2. CASE NextPacket
  BY <1>2 DEF NextPacket, captureVars, packetVars, noteVars
<1>3. CASE NextFails
  BY <1>3 DEF NextFails, captureVars, packetVars, noteVars
<1>4. CASE PushPacket
  BY <1>4 DEF PushPacket, captureVars, packetVars, noteVars, Drop
<1>5. CASE TakePacket
  BY <1>5 DEF TakePacket, captureVars, packetVars, noteVars
<1>6. CASE Process
  BY <1>6 DEF Process, captureVars, packetVars, noteVars, Drop
<1>7. CASE PushNote
  <2>1. CASE UNCHANGED <<noteQueue, mapped>>
    BY <1>7, <2>1 DEF PushNote, noteVars
  <2>2. CASE noteQueue' = Append(noteQueue, packetHand) /\ mapped' = Append(mapped, packetHand)
    <3>1. Append(offered \o noteQueue, packetHand) = offered \o Append(noteQueue, packetHand)
      BY PushKeepsLine
    <3> QED BY <1>7, <2>2, <3>1 DEF PushNote, noteVars
  <2> QED BY <1>7, <2>1, <2>2 DEF PushNote
<1>8. CASE PacketsCancelled
  BY <1>8 DEF PacketsCancelled, captureVars, packetVars, noteVars
<1>9. CASE DiscardPacket
  BY <1>9 DEF DiscardPacket, captureVars, packetVars, noteVars, Drop
<1>10. CASE PacketsEnd
  BY <1>10 DEF PacketsEnd, captureVars, packetVars, noteVars
<1>11. CASE TakeNote
  <2>1. Append(offered, Head(noteQueue)) \o Tail(noteQueue) = offered \o noteQueue
    BY <1>11, OfferKeepsLine DEF TakeNote
  <2> QED BY <1>11, <2>1 DEF TakeNote, packetVars
<1>12. CASE SinkReturns
  BY <1>12 DEF SinkReturns, captureVars, packetVars, noteVars, Drop
<1>13. CASE NotesCancelled
  BY <1>13 DEF NotesCancelled, captureVars, packetVars, noteVars
<1>14. CASE DiscardNote
  BY <1>14 DEF DiscardNote, captureVars, packetVars, noteVars, Drop
<1>15. CASE NotesEnd
  BY <1>15 DEF NotesEnd, captureVars, packetVars, noteVars
<1>16. CASE Return
  BY <1>16 DEF Return, captureVars, packetVars, noteVars
<1>17. CASE UNCHANGED vars
  BY <1>17 DEF vars, captureVars, packetVars, noteVars
<1> QED
  BY <1>1, <1>2, <1>3, <1>4, <1>5, <1>6, <1>7, <1>8, <1>9,
     <1>10, <1>11, <1>12, <1>13, <1>14, <1>15, <1>16, <1>17
  DEF Next, CaptureStep, PacketStep, NoteStep, Finished

\* Every step keeps the offered notes a beginning of the mapped ones.
LEMMA PrefixNext ==
    ASSUME TypeOK, LineInv, PrefixInv, [Next]_vars
    PROVE  PrefixInv'
<1> USE DEF TypeOK, PrefixInv
<1>1. CASE Cancel
  BY <1>1 DEF Cancel, captureVars, packetVars, noteVars
<1>2. CASE NextPacket
  BY <1>2 DEF NextPacket, captureVars, packetVars, noteVars
<1>3. CASE NextFails
  BY <1>3 DEF NextFails, captureVars, packetVars, noteVars
<1>4. CASE PushPacket
  BY <1>4 DEF PushPacket, captureVars, packetVars, noteVars, Drop
<1>5. CASE TakePacket
  BY <1>5 DEF TakePacket, captureVars, packetVars, noteVars
<1>6. CASE Process
  BY <1>6 DEF Process, captureVars, packetVars, noteVars, Drop
<1>7. CASE PushNote
  <2>1. CASE UNCHANGED mapped
    BY <1>7, <2>1 DEF PushNote, noteVars
  <2>2. CASE mapped' = Append(mapped, packetHand)
    <3>1. /\ Len(mapped') = Len(mapped) + 1 /\ Len(mapped) \in Nat /\ Len(offered) \in Nat
          /\ \A i \in 1..Len(mapped) : mapped'[i] = mapped[i]
      BY <2>2, AppendProperties, LenProperties
    <3>2. offered' = offered
      BY <1>7 DEF PushNote, noteVars
    <3> QED BY <3>1, <3>2
  <2> QED BY <1>7, <2>1, <2>2 DEF PushNote
<1>8. CASE PacketsCancelled
  BY <1>8 DEF PacketsCancelled, captureVars, packetVars, noteVars
<1>9. CASE DiscardPacket
  BY <1>9 DEF DiscardPacket, captureVars, packetVars, noteVars, Drop
<1>10. CASE PacketsEnd
  BY <1>10 DEF PacketsEnd, captureVars, packetVars, noteVars
<1>11. CASE TakeNote
  <2>1. mapped = offered \o noteQueue /\ mapped' = mapped
    BY <1>11 DEF TakeNote, LineInv, packetVars
  <2>2. noteQueue \in Seq(Nat) /\ noteQueue # <<>> /\ offered \in Seq(Nat)
    BY <1>11 DEF TakeNote
  <2>3. /\ Len(noteQueue) \in Nat \ {0} /\ Head(noteQueue) = noteQueue[1]
        /\ Head(noteQueue) \in Nat /\ Len(offered) \in Nat
    BY <2>2, Taken, HeadTailProperties, LenProperties
  <2>4. /\ Len(mapped) = Len(offered) + Len(noteQueue)
        /\ \A i \in 1..Len(mapped) :
              mapped[i] = IF i <= Len(offered) THEN offered[i]
                          ELSE noteQueue[i - Len(offered)]
    BY <2>1, <2>2, ConcatProperties
  <2>5. mapped[Len(offered) + 1] = Head(noteQueue)
    <3>1. /\ Len(offered) + 1 \in 1..Len(mapped) /\ ~(Len(offered) + 1 <= Len(offered))
          /\ (Len(offered) + 1) - Len(offered) = 1
      BY <2>3, <2>4
    <3> QED BY <2>3, <2>4, <3>1
  <2>6. /\ Len(offered') = Len(offered) + 1
        /\ \A i \in 1..Len(offered) : offered'[i] = offered[i]
        /\ offered'[Len(offered) + 1] = Head(noteQueue)
    BY <1>11, <2>2, <2>3, AppendProperties DEF TakeNote
  <2> QED BY <2>1, <2>3, <2>4, <2>5, <2>6
<1>12. CASE SinkReturns
  BY <1>12 DEF SinkReturns, captureVars, packetVars, noteVars, Drop
<1>13. CASE NotesCancelled
  BY <1>13 DEF NotesCancelled, captureVars, packetVars, noteVars
<1>14. CASE DiscardNote
  BY <1>14 DEF DiscardNote, captureVars, packetVars, noteVars, Drop
<1>15. CASE NotesEnd
  BY <1>15 DEF NotesEnd, captureVars, packetVars, noteVars
<1>16. CASE Return
  BY <1>16 DEF Return, captureVars, packetVars, noteVars
<1>17. CASE UNCHANGED vars
  BY <1>17 DEF vars, captureVars, packetVars, noteVars
<1> QED
  BY <1>1, <1>2, <1>3, <1>4, <1>5, <1>6, <1>7, <1>8, <1>9,
     <1>10, <1>11, <1>12, <1>13, <1>14, <1>15, <1>16, <1>17
  DEF Next, CaptureStep, PacketStep, NoteStep, Finished

\* Every step keeps packet numbers growing along the pipeline.
LEMMA OrderNext ==
    ASSUME TypeOK, OrderInv, [Next]_vars
    PROVE  OrderInv'
<1> USE DEF TypeOK, OrderInv
<1>1. CASE Cancel
  BY <1>1 DEF Cancel, captureVars, packetVars, noteVars
<1>2. CASE NextPacket
  <2>1. /\ captured' = captured + 1
        /\ UNCHANGED <<packetHand, packetQueue, mapped, packetPc>>
    BY <1>2 DEF NextPacket, packetVars
  <2>2. Below(packetQueue, captured') /\ Below(packetQueue, captured' + 1)
    BY <2>1, BelowLater
  <2> QED BY <2>1, <2>2
<1>3. CASE NextFails
  BY <1>3 DEF NextFails, captureVars, packetVars, noteVars
<1>4. CASE PushPacket
  <2>1. CASE packetQueue' = Append(packetQueue, captured) /\ capPc' = "next"
    <3>1. UNCHANGED <<captured, packetHand, mapped, packetPc>> /\ capPc = "choose"
      BY <1>4 DEF PushPacket, packetVars
    <3>2. Increasing(packetQueue')
      BY <2>1, <3>1, IncreasingAppend
    <3>3. Above(packetHand, packetQueue') /\ Below(packetQueue', captured + 1)
      BY <2>1, <3>1, AboveAppend, BelowAppend, BelowLater
    <3> QED BY <2>1, <3>1, <3>2, <3>3
  <2>2. CASE packetQueue' = packetQueue
    BY <1>4, <2>2 DEF PushPacket, packetVars
  <2> QED BY <1>4, <2>1, <2>2 DEF PushPacket
<1>5. CASE TakePacket
  <2>1. /\ UNCHANGED <<captured, capPc, mapped>> /\ packetPc' = "process"
        /\ packetHand' = Head(packetQueue) /\ packetQueue' = Tail(packetQueue)
        /\ packetQueue # <<>>
    BY <1>5 DEF TakePacket, captureVars
  <2>2. /\ Increasing(packetQueue') /\ Above(packetHand', packetQueue')
        /\ Below(packetQueue', captured + 1)
        /\ capPc = "choose" => Below(packetQueue', captured)
    BY <2>1, IncreasingTail, BelowTail
  <2>3. /\ packetHand < packetHand' /\ packetHand' < captured + 1
        /\ capPc = "choose" => packetHand' < captured
    BY <2>1, HeadBetween
  <2>4. Below(mapped, packetHand')
    BY <2>1, <2>3, Taken, BelowLater
  <2>5. Below(mapped, packetHand' + 1)
    BY <2>1, <2>4, Taken, BelowLater
  <2>6. packetHand' <= captured
    BY <2>1, <2>3, Taken
  <2> QED BY <2>1, <2>2, <2>3, <2>4, <2>5, <2>6
<1>6. CASE Process
  BY <1>6 DEF Process, captureVars, packetVars, noteVars, Drop
<1>7. CASE PushNote
  <2>1. CASE UNCHANGED mapped
    BY <1>7, <2>1 DEF PushNote, captureVars
  <2>2. CASE mapped' = Append(mapped, packetHand)
    <3>1. /\ UNCHANGED <<captured, capPc, packetHand, packetQueue>>
          /\ packetPc = "choose" /\ packetPc' = "select"
      BY <1>7 DEF PushNote, captureVars
    <3>2. Increasing(mapped') /\ Below(mapped', packetHand + 1)
      BY <2>2, <3>1, IncreasingAppend, BelowAppend, BelowLater
    <3> QED BY <3>1, <3>2
  <2> QED BY <1>7, <2>1, <2>2 DEF PushNote
<1>8. CASE PacketsCancelled
  BY <1>8 DEF PacketsCancelled, captureVars, packetVars, noteVars
<1>9. CASE DiscardPacket
  <2>1. /\ UNCHANGED <<captured, capPc, mapped, packetHand, packetPc>>
        /\ packetQueue' = Tail(packetQueue) /\ packetQueue # <<>>
    BY <1>9 DEF DiscardPacket, captureVars, packetVars
  <2>2. /\ Increasing(packetQueue') /\ Above(packetHand, packetQueue')
        /\ Below(packetQueue', captured + 1)
        /\ capPc = "choose" => Below(packetQueue', captured)
    BY <2>1, IncreasingTail, AboveTail, BelowTail
  <2> QED BY <2>1, <2>2
<1>10. CASE PacketsEnd
  BY <1>10 DEF PacketsEnd, captureVars, packetVars, noteVars
<1>11. CASE TakeNote
  BY <1>11 DEF TakeNote, captureVars, packetVars, noteVars
<1>12. CASE SinkReturns
  BY <1>12 DEF SinkReturns, captureVars, packetVars, noteVars, Drop
<1>13. CASE NotesCancelled
  BY <1>13 DEF NotesCancelled, captureVars, packetVars, noteVars
<1>14. CASE DiscardNote
  BY <1>14 DEF DiscardNote, captureVars, packetVars, noteVars, Drop
<1>15. CASE NotesEnd
  BY <1>15 DEF NotesEnd, captureVars, packetVars, noteVars
<1>16. CASE Return
  BY <1>16 DEF Return, captureVars, packetVars, noteVars
<1>17. CASE UNCHANGED vars
  BY <1>17 DEF vars, captureVars, packetVars, noteVars
<1> QED
  BY <1>1, <1>2, <1>3, <1>4, <1>5, <1>6, <1>7, <1>8, <1>9,
     <1>10, <1>11, <1>12, <1>13, <1>14, <1>15, <1>16, <1>17
  DEF Next, CaptureStep, PacketStep, NoteStep, Finished

\* The invariant is inductive and holds in every reachable state.
LEMMA InvHolds == Spec => []Inv
<1>1. Inv /\ [Next]_vars => Inv'
  BY TypeNext, CountNext, ShutdownNext, LineNext, PrefixNext, OrderNext DEF Inv
<1> QED BY InvInit, <1>1, PTL DEF Spec

-----------------------------------------------------------------------------

\* Types and queue capacities, for all capacities and any number of packets.
THEOREM TypeCorrect == Spec => []TypeOK
<1>1. Inv => TypeOK
  BY DEF Inv
<1> QED BY InvHolds, <1>1, PTL

\* Every captured packet is accounted for exactly once at every moment,
\* whatever the interleaving of the three goroutines and of cancellation.
THEOREM PacketsConserved == Spec => []Conservation
<1>1. Inv => Conservation
  BY DEF Inv
<1> QED BY InvHolds, <1>1, PTL

\* Run returns with nothing in flight: every packet was played, not played by
\* rule, or counted as dropped.
THEOREM NothingLost == Spec => []NothingInFlight
<1>1. Inv => NothingInFlight
  <2> SUFFICES ASSUME Inv, returned PROVE captured = dropped + silent + accepted
    BY DEF NothingInFlight
  <2>1. capPc = "done" /\ packetPc = "done" /\ notePc = "done"
    BY DEF Inv, ShutdownInv
  <2>2. Len(packetQueue) = 0 /\ Len(noteQueue) = 0
    BY <2>1, EmptySeq DEF Inv, ShutdownInv
  <2> QED BY <2>1, <2>2 DEF Inv, TypeOK, Conservation, Busy
<1> QED BY InvHolds, <1>1, PTL

\* Notes reach the sink in capture order and none twice, whatever is dropped
\* on the way.
THEOREM NotesInOrder == Spec => []InOrder
<1>1. Inv => InOrder
  <2> SUFFICES ASSUME Inv PROVE InOrder
    OBVIOUS
  <2>1. /\ mapped \in Seq(Nat) /\ offered \in Seq(Nat) /\ PrefixInv
        /\ Len(mapped) \in Nat /\ Len(offered) \in Nat /\ DOMAIN mapped = 1..Len(mapped)
    BY LenProperties DEF Inv, TypeOK
  <2>2. /\ SubSeq(mapped, 1, Len(offered)) \in Seq(Nat)
        /\ Len(SubSeq(mapped, 1, Len(offered))) = Len(offered)
        /\ \A i \in 1..Len(offered) : SubSeq(mapped, 1, Len(offered))[i] = mapped[i]
    BY <2>1, SubSeqProperties DEF PrefixInv
  <2>3. offered = SubSeq(mapped, 1, Len(offered))
    BY <2>1, <2>2, SeqEqual DEF PrefixInv
  <2>4. \A i, j \in DOMAIN mapped : i < j => mapped[i] < mapped[j]
    BY <2>1 DEF Inv, OrderInv, Increasing
  <2> QED BY <2>3, <2>4 DEF InOrder
<1> QED BY InvHolds, <1>1, PTL

\* Without cancellation Run returns only after every mapped note was offered to
\* the sink.
THEOREM FiniteSourceDrains == Spec => []DrainsAtEOF
<1>1. Inv => DrainsAtEOF
  <2> SUFFICES ASSUME Inv, returned, ~cancelled PROVE offered = mapped
    BY DEF DrainsAtEOF
  <2>1. noteQueue = <<>> /\ mapped = offered \o noteQueue
    BY DEF Inv, ShutdownInv, LineInv
  <2>2. offered \o <<>> = offered
    BY ConcatEmptySeq DEF Inv, TypeOK
  <2> QED BY <2>1, <2>2
<1> QED BY InvHolds, <1>1, PTL
=============================================================================
