-------------------------- MODULE MidiRuntimeProof --------------------------
(***************************************************************************)
(* Proofs about MidiRuntime for every set of synthesizers, every device    *)
(* list, every number of channels and pitches and all limits.              *)
(***************************************************************************)
EXTENDS MidiRuntime, TLAPS, NaturalsInduction, WellFoundedInduction,
        FiniteSetTheorems, SequenceTheorems

\* A nonempty set of naturals has a least element.
LEMMA LeastElement ==
    ASSUME NEW T \in SUBSET Nat, T # {}
    PROVE  \E x \in T : \A y \in T : x <= y
<1>1. \E x \in T : \A y \in T : ~(<<y, x>> \in OpToRel(<, Nat))
  BY NatLessThanWellFounded, WFMin
<1>2. PICK x \in T : \A y \in T : ~(<<y, x>> \in OpToRel(<, Nat))
  BY <1>1
<1>3. ASSUME NEW y \in T, y < x PROVE FALSE
  <2>1. <<y, x>> \in OpToRel(<, Nat)
    <3>1. OpToRel(<, Nat) = {ss \in Nat \X Nat : ss[1] < ss[2]}
      BY DEF OpToRel
    <3> QED BY <3>1, <1>3
  <2> QED BY <2>1, <1>2
<1> QED BY <1>3

-----------------------------------------------------------------------------
(***************************************************************************)
(* What the operators return                                               *)
(***************************************************************************)

\* pruneRateWindow stops at an index of the window, past expired entries only.
LEMMA ExpiredProperties ==
    ASSUME recent \in Seq(Nat), now \in Nat
    PROVE  /\ Expired \in 0..Len(recent)
           /\ \A j \in 1..Expired : recent[j] + Window <= now
           /\ Expired < Len(recent) => recent[Expired + 1] + Window > now
<1> DEFINE T == {i \in 1..(Len(recent) + 1) :
                    i = Len(recent) + 1 \/ recent[i] + Window > now}
<1>1. Len(recent) \in Nat
  BY LenProperties
<1>2. T \in SUBSET Nat /\ Len(recent) + 1 \in T
  BY <1>1
<1>3. PICK x \in T : \A y \in T : x <= y
  BY <1>2, LeastElement
<1>4. /\ x - 1 \in 0..Len(recent)
      /\ \A j \in 1..(x - 1) : recent[j] + Window <= now
      /\ x - 1 < Len(recent) => recent[(x - 1) + 1] + Window > now
  <2>1. x \in 1..(Len(recent) + 1)
    BY <1>3
  <2>2. ASSUME NEW j \in 1..(x - 1) PROVE recent[j] + Window <= now
    <3>1. j \in 1..Len(recent) /\ j < x
      BY <2>1, <1>1
    <3>2. j \notin T
      BY <3>1, <1>3, <2>1
    <3>3. recent[j] \in Nat
      BY <3>1, ElementOfSeq
    <3> QED BY <3>1, <3>2, <3>3, <1>1, LimitsAssumption
  <2>3. x - 1 < Len(recent) => recent[(x - 1) + 1] + Window > now
    BY <2>1, <1>1, <1>3
  <2> QED BY <2>1, <2>2, <2>3, <1>1
<1>5. \E first \in 0..Len(recent) :
        /\ \A j \in 1..first : recent[j] + Window <= now
        /\ first < Len(recent) => recent[first + 1] + Window > now
  BY <1>4
<1> QED BY <1>5 DEF Expired

\* The pruned window is again a sequence of start times.
LEMMA PrunedType ==
    ASSUME recent \in Seq(Nat), now \in Nat
    PROVE  Pruned \in Seq(Nat)
<1>1. Expired \in 0..Len(recent) /\ Len(recent) \in Nat
  BY ExpiredProperties, LenProperties
<1>2. \A i \in (Expired + 1)..Len(recent) : recent[i] \in Nat
  BY <1>1, ElementOfSeq
<1> QED BY <1>1, <1>2, SubSeqProperties DEF Pruned

\* SelectDevice picks a listed port.
LEMMA SelectDeviceProperties ==
    ASSUME NEW list \in Seq(Names), list # <<>>
    PROVE  /\ SelectDevice(list).number \in DOMAIN list
           /\ SelectDevice(list).name = list[SelectDevice(list).number]
           /\ SelectDevice(list) \in [number : Nat, name : Names]
<1> DEFINE named(S) == {i \in DOMAIN list : list[i] \in S}
           pool == IF named(Exact) # {} THEN named(Exact)
                   ELSE IF named(Matches) # {} THEN named(Matches)
                   ELSE DOMAIN list
           n == CHOOSE i \in pool : \A j \in pool : i <= j
<1>1. DOMAIN list \in SUBSET Nat /\ DOMAIN list # {}
  <2>1. DOMAIN list = 1..Len(list) /\ Len(list) \in Nat
    BY LenProperties
  <2>2. Len(list) # 0
    BY EmptySeq
  <2>3. 1 \in 1..Len(list) /\ (1..Len(list)) \subseteq Nat
    BY <2>1, <2>2
  <2> QED BY <2>1, <2>3
<1>2. pool \in SUBSET Nat /\ pool # {} /\ pool \subseteq DOMAIN list
  BY <1>1
<1>3. \E i \in pool : \A j \in pool : i <= j
  BY <1>2, LeastElement
<1>4. n \in pool
  BY <1>3
<1>5. n \in DOMAIN list /\ n \in Nat /\ list[n] \in Names
  BY <1>1, <1>2, <1>4, ElementOfSeq, LenProperties
<1>6. SelectDevice(list) = [number |-> n, name |-> list[n]]
  BY DEF SelectDevice
<1> HIDE DEF n
<1> QED BY <1>5, <1>6

-----------------------------------------------------------------------------
(***************************************************************************)
(* Type correctness                                                        *)
(***************************************************************************)

\* The idle value of trig is well typed.
LEMMA NoTrigType == NoTrig \in [key : Keys, dur : Nat, at : Nat]
<1>1. (CHOOSE n \in Notes : TRUE) \in Notes
  BY ChannelsAssumption
<1>2. 1 \in Channels
  BY ChannelsAssumption DEF Channels
<1> QED BY <1>1, <1>2 DEF NoTrig, Keys

\* The initial state is well typed.
LEMMA TypeInit == Init => TypeOK
<1> SUFFICES ASSUME Init PROVE TypeOK
  OBVIOUS
<1>1. plugged \in Seq(Names) /\ devices \in Seq(Names)
  BY NamesAssumption, EmptySeq DEF Init
<1>2. recent \in Seq(Nat) /\ played \in Seq(Nat)
  BY EmptySeq DEF Init
<1> QED
  BY <1>1, <1>2, NoTrigType
  DEF Init, TypeOK, Absent, ActiveNote, NoDevice, NoPending, Devices

\* The part of TypeOK that sends can disturb.
PortsTyped ==
    /\ output \in Names \cup {None} /\ device \in Devices
    /\ sounding \in [Names -> SUBSET Keys] /\ faulty \subseteq Names

\* Forgetting all active notes keeps the types of the scheduler's books.
LEMMA ClearActiveType ==
    ASSUME TypeOK, ClearActive
    PROVE  timers' \subseteq Timer /\ active' \in [Keys -> ActiveNote]
  BY DEF TypeOK, ClearActive, Absent, ActiveNote

\* So does every outcome of a send, for the manager's and the synthesizers'.
LEMMA SendType ==
    ASSUME TypeOK, NEW on \in SUBSET Keys, NEW off \in SUBSET Keys,
           SendOK(on, off) \/ SendFails(on, off) \/ SendUnavailable
    PROVE  PortsTyped'
<1>1. CASE SendOK(on, off)
  BY <1>1 DEF PortsTyped, TypeOK, SendOK
<1>2. CASE SendFails(on, off)
  <2>1. output \in Names
    BY <1>2 DEF PortsTyped, TypeOK, SendFails
  <2>2. sounding' \in [Names -> SUBSET Keys]
    BY <1>2, <2>1 DEF PortsTyped, TypeOK, SendFails
  <2> QED BY <1>2, <2>1, <2>2 DEF PortsTyped, TypeOK, SendFails, NoDevice, Devices
<1>3. CASE SendUnavailable
  BY <1>3 DEF PortsTyped, TypeOK, SendUnavailable, portVars
<1> QED BY <1>1, <1>2, <1>3

\* panicLocked's send loop keeps the port state well typed, whichever send fails.
LEMMA ResetType ==
    ASSUME TypeOK, ResetOutput
    PROVE  PortsTyped'
<1>1. ASSUME NEW j \in Channels, SendFails({}, UpTo(j))
      PROVE  PortsTyped'
  <2>1. UpTo(j) \in SUBSET Keys
    BY DEF UpTo
  <2> QED BY <1>1, <2>1, SendType
<1>2. CASE SendUnavailable
  BY <1>2 DEF PortsTyped, TypeOK, SendUnavailable, portVars
<1>3. CASE /\ output # None
           /\ sounding' = [sounding EXCEPT ![output] = {}]
           /\ faulty' = faulty \ {output}
           /\ UNCHANGED <<output, device>>
  BY <1>3 DEF PortsTyped, TypeOK
<1> QED BY <1>1, <1>2, <1>3 DEF ResetOutput

\* Every step keeps the types.
LEMMA TypeNext == TypeOK /\ [Next]_vars => TypeOK'
<1> SUFFICES ASSUME TypeOK, [Next]_vars PROVE TypeOK'
  OBVIOUS
<1> USE DEF schedVars, portVars, pollVars
<1>1. CASE Tick
  BY <1>1 DEF TypeOK, Tick
<1>2. CASE Replug
  BY <1>2, NamesAssumption DEF TypeOK, Replug
<1>3. ASSUME NEW k \in Keys, WriteRefused(k) PROVE TypeOK'
  BY <1>3, PrunedType DEF TypeOK, WriteRefused
<1>4. ASSUME NEW k \in Keys, NEW d \in Durations, WriteAccept(k, d)
      PROVE  TypeOK'
  <2>1. recent' \in Seq(Nat)
    BY <1>4, PrunedType DEF TypeOK, WriteAccept
  <2>2. [key |-> k, dur |-> d, at |-> now] \in [key : Keys, dur : Nat, at : Nat]
    BY DurationsAssumption DEF TypeOK
  <2>3. CASE /\ UNCHANGED <<active, timers, portVars>> /\ gate' = "write"
             /\ trig' = [key |-> k, dur |-> d, at |-> now]
    BY <1>4, <2>1, <2>2, <2>3 DEF TypeOK, WriteAccept
  <2>4. CASE /\ SendOK({}, {k}) /\ gate' = "write"
             /\ timers' = {t \in timers : ~(t.key = k /\ t.gen = active[k].gen)}
             /\ active' = [active EXCEPT ![k] = Absent]
             /\ trig' = [key |-> k, dur |-> d, at |-> now]
    <3>1. PortsTyped'
      BY <2>4, SendType
    <3>2. active' \in [Keys -> ActiveNote] /\ timers' \subseteq Timer
      BY <2>4 DEF TypeOK, Absent, ActiveNote
    <3> QED BY <1>4, <2>1, <2>2, <2>4, <3>1, <3>2
            DEF TypeOK, WriteAccept, PortsTyped
  <2>5. CASE /\ SendFails({}, {k}) \/ SendUnavailable
             /\ ClearActive /\ UNCHANGED <<gate, trig>>
    <3>1. PortsTyped'
      BY <2>5, SendType
    <3> QED BY <1>4, <2>1, <2>5, <3>1, ClearActiveType
            DEF TypeOK, WriteAccept, PortsTyped
  <2> QED BY <1>4, <2>3, <2>4, <2>5 DEF WriteAccept
<1>5. CASE WriteNoteOn
  <2>1. CASE /\ SendOK({trig.key}, {}) /\ nextGen' = nextGen + 1
             /\ recent' = Append(recent, trig.at)
             /\ played' = Append(played, trig.at)
             /\ timers' = timers \cup {[key |-> trig.key, gen |-> nextGen + 1,
                                       at |-> now + trig.dur]}
             /\ active' = [active EXCEPT ![trig.key] =
                              [started |-> trig.at, gen |-> nextGen + 1]]
    <3>1. trig.key \in Keys /\ trig.dur \in Nat /\ trig.at \in Nat
      BY DEF TypeOK
    <3>2. PortsTyped'
      BY <2>1, <3>1, SendType
    <3>3. recent' \in Seq(Nat) /\ played' \in Seq(Nat)
      BY <2>1, <3>1, AppendProperties DEF TypeOK
    <3>4. timers' \subseteq Timer
      BY <2>1, <3>1 DEF TypeOK, Timer
    <3>5. active' \in [Keys -> ActiveNote]
      BY <2>1, <3>1 DEF TypeOK, ActiveNote
    <3> QED BY <1>5, <2>1, <3>2, <3>3, <3>4, <3>5, NoTrigType
            DEF TypeOK, WriteNoteOn, PortsTyped
  <2>2. CASE /\ SendFails({trig.key}, {}) \/ SendUnavailable
             /\ ClearActive /\ UNCHANGED <<recent, played, nextGen>>
    <3>1. {trig.key} \in SUBSET Keys
      BY DEF TypeOK
    <3>2. PortsTyped'
      BY <2>2, <3>1, SendType
    <3> QED BY <1>5, <2>2, <3>2, ClearActiveType, NoTrigType
            DEF TypeOK, WriteNoteOn, PortsTyped
  <2> QED BY <1>5, <2>1, <2>2 DEF WriteNoteOn
<1>6. CASE TimerFire
  BY <1>6 DEF TypeOK, TimerFire, Timer, Callback
<1>7. ASSUME NEW c \in fired, Stop(c) PROVE TypeOK'
  <2>1. c.key \in Keys /\ fired' \subseteq Callback
    BY <1>7 DEF TypeOK, Stop, Callback
  <2>2. CASE UNCHANGED <<active, timers, portVars>>
    BY <1>7, <2>1, <2>2 DEF TypeOK, Stop
  <2>3. CASE /\ SendOK({}, {c.key}) /\ UNCHANGED timers
             /\ active' = [active EXCEPT ![c.key] = Absent]
    <3>1. PortsTyped'
      BY <2>1, <2>3, SendType
    <3>2. active' \in [Keys -> ActiveNote]
      BY <2>3 DEF TypeOK, Absent, ActiveNote
    <3> QED BY <1>7, <2>1, <2>3, <3>1, <3>2 DEF TypeOK, Stop, PortsTyped
  <2>4. CASE (SendFails({}, {c.key}) \/ SendUnavailable) /\ ClearActive
    <3>1. PortsTyped'
      BY <2>1, <2>4, SendType
    <3> QED BY <1>7, <2>1, <2>4, <3>1, ClearActiveType DEF TypeOK, Stop, PortsTyped
  <2> QED BY <1>7, <2>2, <2>3, <2>4 DEF Stop
<1>8. CASE Panic
  BY <1>8, ResetType, ClearActiveType DEF TypeOK, Panic, PanicLocked, PortsTyped
<1>9. CASE Close
  BY <1>9, ResetType, ClearActiveType DEF TypeOK, Close, PanicLocked, PortsTyped
<1>10. CASE Discover
  BY <1>10 DEF TypeOK, Discover
<1>11. CASE SelectNothing
  BY <1>11 DEF TypeOK, SelectNothing, NoPending, NoDevice, Devices
<1>12. CASE SelectCurrent
  BY <1>12 DEF TypeOK, SelectCurrent
<1>13. CASE SelectOther
  <2> DEFINE selected == SelectDevice(devices)
             port == plugged[selected.number]
  <2>1. selected \in Devices
    BY <1>13, SelectDeviceProperties DEF TypeOK, SelectOther, Devices
  <2>2. selected.number \in DOMAIN plugged => port \in Names
    BY ElementOfSeq, LenProperties DEF TypeOK
  <2> HIDE DEF selected, port
  <2>3. CASE /\ selected.number \in DOMAIN plugged
             /\ sounding' = [sounding EXCEPT ![port] = {}]
             /\ faulty' = faulty \ {port}
             /\ pending' = [port |-> port, device |-> selected]
             /\ recPc' = "commit"
    BY <1>13, <2>1, <2>2, <2>3 DEF TypeOK, SelectOther
  <2>4. CASE /\ selected.number \in DOMAIN plugged
             /\ \E j \in Channels :
                   sounding' = [sounding EXCEPT ![port] = @ \ UpTo(j)]
             /\ recPc' = "idle" /\ UNCHANGED <<faulty, pending>>
    <3>1. sounding' \in [Names -> SUBSET Keys]
      BY <2>2, <2>4 DEF TypeOK
    <3> QED BY <1>13, <2>4, <3>1 DEF TypeOK, SelectOther
  <2>5. CASE recPc' = "idle" /\ UNCHANGED <<sounding, faulty, pending>>
    BY <1>13, <2>5 DEF TypeOK, SelectOther
  <2> QED BY <1>13, <2>3, <2>4, <2>5 DEF SelectOther, selected, port
<1>14. CASE CommitReset
  <2>1. CASE closed
    BY <1>14, <2>1 DEF TypeOK, CommitReset, NoPending, NoDevice, Devices
  <2>2. CASE ~closed /\ output # None
    BY <1>14, <2>2, ResetType, ClearActiveType
    DEF TypeOK, CommitReset, PanicLocked, PortsTyped
  <2>3. CASE ~closed /\ output = None
    BY <1>14, <2>3 DEF TypeOK, CommitReset
  <2> QED BY <2>1, <2>2, <2>3
<1>15. CASE CommitReplace
  BY <1>15 DEF TypeOK, CommitReplace, NoPending, NoDevice, Devices
<1>16. CASE ManagerStop
  BY <1>16 DEF TypeOK, ManagerStop, NoDevice, Devices
<1>17. CASE UNCHANGED vars
  BY <1>17 DEF TypeOK, vars
<1> QED
  BY <1>1, <1>2, <1>3, <1>4, <1>5, <1>6, <1>7, <1>8, <1>9, <1>10, <1>11, <1>12,
     <1>13, <1>14, <1>15, <1>16, <1>17 DEF Next

\* Every reachable state of the scheduler, the manager and their gate is
\* well typed, for all constants.
THEOREM TypeCorrect == Spec => []TypeOK
  BY TypeInit, TypeNext, PTL DEF Spec

-----------------------------------------------------------------------------
(***************************************************************************)
(* Note Off timers                                                         *)
(***************************************************************************)

\* Who may hold the gate, and when the scheduler's books are empty.
GateInv ==
    /\ gate = "write" => trig.key \notin Voices
    /\ gate = "transition" <=> recPc = "replace"
    /\ closed => gate = "free"
    /\ gate = "transition" \/ closed \/ output = None => Voices = {}

\* Strengthening of TimersOwned: generations are handed out once, a key has at
\* most one timer, and a timer has not fired.
TimerInv ==
    /\ TimersOwned
    /\ \A t \in timers : t.gen <= nextGen
    /\ \A c \in fired : c.gen <= nextGen
    /\ \A t \in timers : [key |-> t.key, gen |-> t.gen] \notin fired
    /\ \A t, u \in timers : t.key = u.key => t = u

\* clearActiveLocked leaves no active note and, as timers are owned, no timer.
LEMMA ClearActiveEmpties ==
    ASSUME TypeOK, TimersOwned, ClearActive
    PROVE  Voices' = {} /\ timers' = {}
<1>1. Voices' = {}
  BY DEF ClearActive, Voices, Absent
<1>2. timers' = {}
  BY DEF ClearActive, TimersOwned
<1> QED BY <1>1, <1>2

\* With no note active and no timer left the timer invariant is about the
\* callbacks only.
LEMMA TimerInvCleared ==
    ASSUME TypeOK, TimerInv, ClearActive, fired' \subseteq fired, nextGen' = nextGen
    PROVE  TimerInv'
<1>1. Voices' = {} /\ timers' = {}
  BY ClearActiveEmpties DEF TimerInv
<1> QED BY <1>1 DEF TimerInv, TimersOwned

\* A step that leaves notes and timers alone keeps their ownership.
LEMMA TimerInvUnchanged ==
    ASSUME TimerInv, UNCHANGED <<active, timers, fired, nextGen>>
    PROVE  TimerInv'
  BY DEF TimerInv, TimersOwned, HasNoteOff, Voices

\* Every step keeps timer ownership.
LEMMA TimerNext == TypeOK /\ GateInv /\ TimerInv /\ [Next]_vars => TimerInv'
<1> SUFFICES ASSUME TypeOK, GateInv, TimerInv, [Next]_vars PROVE TimerInv'
  OBVIOUS
<1> USE DEF schedVars, portVars, pollVars
<1>1. ASSUME NEW k \in Keys, NEW d \in Durations, WriteAccept(k, d)
      PROVE  TimerInv'
  <2>1. CASE UNCHANGED <<active, timers>>
    BY <1>1, <2>1, TimerInvUnchanged DEF WriteAccept
  <2>2. CASE /\ timers' = {t \in timers : ~(t.key = k /\ t.gen = active[k].gen)}
             /\ active' = [active EXCEPT ![k] = Absent]
    <3>1. fired' = fired /\ nextGen' = nextGen
      BY <1>1 DEF WriteAccept
    <3>2. timers' = {t \in timers : t.key # k}
      BY <2>2 DEF TimerInv, TimersOwned
    <3>3. \A x \in Keys \ {k} : active'[x] = active[x]
      BY <2>2 DEF TypeOK
    <3>4. Voices' = Voices \ {k}
      BY <2>2, <3>3 DEF TypeOK, Voices, Absent
    <3>5. \A t \in timers' : active'[t.key].gen = t.gen
      BY <3>2, <3>3 DEF TimerInv, TimersOwned, TypeOK, Timer
    <3>6. \A x \in Voices' : HasNoteOff(x)'
      <4> SUFFICES ASSUME NEW x \in Voices' PROVE HasNoteOff(x)'
        OBVIOUS
      <4>1. HasNoteOff(x) /\ active'[x] = active[x] /\ x # k
        BY <3>3, <3>4 DEF TimerInv, TimersOwned, Voices
      <4> QED BY <4>1, <3>1, <3>2 DEF HasNoteOff
    <3> QED BY <3>1, <3>2, <3>5, <3>6 DEF TimerInv, TimersOwned
  <2>3. CASE ClearActive
    BY <1>1, <2>3, TimerInvCleared DEF WriteAccept
  <2> QED BY <1>1, <2>1, <2>2, <2>3 DEF WriteAccept
<1>2. CASE WriteNoteOn
  <2>1. CASE ClearActive /\ UNCHANGED nextGen
    BY <1>2, <2>1, TimerInvCleared DEF WriteNoteOn
  <2> DEFINE tm == [key |-> trig.key, gen |-> nextGen + 1, at |-> now + trig.dur]
  <2>0. tm.key = trig.key /\ tm.gen = nextGen + 1
    OBVIOUS
  <2>2. CASE /\ nextGen' = nextGen + 1
             /\ timers' = timers \cup {tm}
             /\ active' = [active EXCEPT ![trig.key] =
                              [started |-> trig.at, gen |-> nextGen + 1]]
    <3> HIDE DEF tm
    <3>1. /\ fired' = fired /\ trig.key \in Keys /\ trig.key \notin Voices
          /\ nextGen \in Nat
      BY <1>2 DEF WriteNoteOn, GateInv, TypeOK
    <3>2. \A t \in timers : t.key # trig.key
      BY <3>1 DEF TimerInv, TimersOwned, TypeOK, Timer, Voices
    <3>3. /\ \A x \in Keys \ {trig.key} : active'[x] = active[x]
          /\ active'[trig.key].gen = nextGen + 1
      BY <2>2, <3>1 DEF TypeOK
    <3>4. \A t \in timers' : active'[t.key].gen = t.gen
      <4>1. \A t \in timers : active'[t.key].gen = t.gen
        BY <3>2, <3>3 DEF TimerInv, TimersOwned, TypeOK, Timer
      <4> QED BY <2>0, <2>2, <3>3, <4>1
    <3>5. \A x \in Voices' : HasNoteOff(x)'
      <4> SUFFICES ASSUME NEW x \in Voices' PROVE HasNoteOff(x)'
        OBVIOUS
      <4>1. CASE x = trig.key
        BY <4>1, <2>0, <2>2, <3>3 DEF HasNoteOff
      <4>2. CASE x # trig.key
        <5>1. HasNoteOff(x) /\ active'[x] = active[x]
          BY <4>2, <3>3 DEF TimerInv, TimersOwned, Voices
        <5> QED BY <5>1, <2>2, <3>1 DEF HasNoteOff
      <4> QED BY <4>1, <4>2
    <3>6. /\ \A t \in timers' : t.gen <= nextGen'
          /\ \A c \in fired' : c.gen <= nextGen'
      BY <2>0, <2>2, <3>1 DEF TimerInv, TypeOK, Timer, Callback
    <3>7. \A t \in timers' : [key |-> t.key, gen |-> t.gen] \notin fired'
      <4>1. [key |-> trig.key, gen |-> nextGen + 1] \notin fired
        BY <3>1 DEF TimerInv
      <4> QED BY <4>1, <2>0, <2>2, <3>1 DEF TimerInv
    <3>8. \A t, u \in timers' : t.key = u.key => t = u
      BY <2>0, <2>2, <3>2 DEF TimerInv
    <3> QED BY <3>4, <3>5, <3>6, <3>7, <3>8 DEF TimerInv, TimersOwned
  <2> QED BY <1>2, <2>1, <2>2 DEF WriteNoteOn
<1>3. CASE TimerFire
  <2>1. PICK t \in timers :
          /\ timers' = timers \ {t}
          /\ fired' = fired \cup {[key |-> t.key, gen |-> t.gen]}
          /\ UNCHANGED <<active, nextGen>>
    BY <1>3 DEF TimerFire
  <2>2. \A x \in Voices' : HasNoteOff(x)'
    BY <2>1 DEF TimerInv, TimersOwned, HasNoteOff, Voices
  <2>3. \A u \in timers' : [key |-> u.key, gen |-> u.gen] \notin fired'
    BY <2>1 DEF TimerInv
  <2>4. \A c \in fired' : c.gen <= nextGen'
    BY <2>1 DEF TimerInv
  <2> QED BY <2>1, <2>2, <2>3, <2>4 DEF TimerInv, TimersOwned
<1>4. ASSUME NEW c \in fired, Stop(c) PROVE TimerInv'
  <2>1. fired' = fired \ {c} /\ nextGen' = nextGen /\ c \in Callback
    BY <1>4 DEF Stop, TypeOK
  <2>2. CASE active[c.key].gen # c.gen /\ UNCHANGED <<active, timers>>
    <3>1. \A x \in Voices' : HasNoteOff(x)'
      BY <2>1, <2>2 DEF TimerInv, TimersOwned, HasNoteOff, Voices
    <3> QED BY <2>1, <2>2, <3>1 DEF TimerInv, TimersOwned
  <2>3. CASE /\ active[c.key].gen = c.gen /\ UNCHANGED timers
             /\ active' = [active EXCEPT ![c.key] = Absent]
    <3>1. \A t \in timers : t.key # c.key
      <4> SUFFICES ASSUME NEW t \in timers, t.key = c.key PROVE FALSE
        OBVIOUS
      <4>1. t.gen = c.gen
        BY <2>3 DEF TimerInv, TimersOwned
      <4>2. c = [key |-> t.key, gen |-> t.gen]
        BY <4>1, <2>1 DEF Callback
      <4> QED BY <4>2 DEF TimerInv
    <3>2. \A x \in Keys \ {c.key} : active'[x] = active[x]
      BY <2>3 DEF TypeOK
    <3>3. \A t \in timers' : active'[t.key].gen = t.gen
      BY <2>3, <3>1, <3>2 DEF TimerInv, TimersOwned, TypeOK, Timer
    <3>4. \A x \in Voices' : x # c.key
      BY <2>1, <2>3 DEF Voices, Absent, TypeOK, Callback
    <3>5. \A x \in Voices' : HasNoteOff(x)'
      <4> SUFFICES ASSUME NEW x \in Voices' PROVE HasNoteOff(x)'
        OBVIOUS
      <4>1. x # c.key /\ active'[x] = active[x] /\ HasNoteOff(x)
        BY <3>2, <3>4 DEF TimerInv, TimersOwned, Voices
      <4>2. [key |-> x, gen |-> active[x].gen] # c
        BY <4>1
      <4> QED BY <4>1, <4>2, <2>1, <2>3 DEF HasNoteOff
    <3> QED BY <2>1, <2>3, <3>3, <3>5 DEF TimerInv, TimersOwned
  <2>4. CASE ClearActive
    BY <2>1, <2>4, TimerInvCleared
  <2> QED BY <1>4, <2>2, <2>3, <2>4 DEF Stop
<1>5. CASE Panic \/ Close
  BY <1>5, TimerInvCleared DEF Panic, Close, PanicLocked
<1>6. CASE CommitReset
  BY <1>6, TimerInvCleared, TimerInvUnchanged DEF CommitReset, PanicLocked
<1>7. CASE UNCHANGED <<active, timers, fired, nextGen>>
  BY <1>7, TimerInvUnchanged
<1> QED
  BY <1>1, <1>2, <1>3, <1>4, <1>5, <1>6, <1>7
  DEF Next, vars, Tick, Replug, WriteRefused, Discover, SelectNothing,
      SelectCurrent, SelectOther, CommitReplace, ManagerStop

-----------------------------------------------------------------------------
(***************************************************************************)
(* The gate, and what the synthesizers sound                               *)
(***************************************************************************)

\* The voices after forgetting all of them, one of them, or adding one.
LEMMA VoicesCleared == ClearActive => Voices' = {}
  BY DEF ClearActive, Voices, Absent

\* Forgetting one active note removes its voice only.
LEMMA VoicesRemoved ==
    ASSUME TypeOK, NEW k, active' = [active EXCEPT ![k] = Absent]
    PROVE  Voices' = Voices \ {k}
  BY DEF TypeOK, Voices, Absent

\* The voices are determined by Scheduler.active.
LEMMA VoicesUnchanged == active' = active => Voices' = Voices
  BY DEF Voices

\* The outcomes of an accepted Write, a Note On and a callback, in terms of
\* voices and sends.
LEMMA WriteAcceptEffect ==
    ASSUME TypeOK, NEW k \in Keys, NEW d, WriteAccept(k, d)
    PROVE  /\ gate = "free" /\ ~closed /\ UNCHANGED <<closed, recPc>>
           /\ \/ /\ gate' = "write" /\ trig'.key = k /\ k \notin Voices
                 /\ Voices' = Voices /\ UNCHANGED portVars
              \/ /\ gate' = "write" /\ trig'.key = k
                 /\ k \in Voices /\ Voices' = Voices \ {k} /\ SendOK({}, {k})
              \/ /\ gate' = "free" /\ Voices' = {}
                 /\ SendFails({}, {k}) \/ SendUnavailable
<1>1. gate = "free" /\ ~closed /\ UNCHANGED <<closed, recPc>>
  BY DEF WriteAccept, pollVars
<1>2. CASE /\ k \notin Voices /\ gate' = "write"
           /\ trig' = [key |-> k, dur |-> d, at |-> now]
           /\ UNCHANGED <<active, timers, portVars>>
  BY <1>1, <1>2, VoicesUnchanged
<1>3. CASE /\ SendOK({}, {k}) /\ gate' = "write" /\ k \in Voices
           /\ active' = [active EXCEPT ![k] = Absent]
           /\ trig' = [key |-> k, dur |-> d, at |-> now]
  <2>1. trig'.key = k
    BY <1>3
  <2> QED BY <1>1, <1>3, <2>1, VoicesRemoved
<1>4. CASE /\ SendFails({}, {k}) \/ SendUnavailable
           /\ ClearActive /\ UNCHANGED <<gate, trig>>
  BY <1>1, <1>4, VoicesCleared
<1> QED BY <1>1, <1>2, <1>3, <1>4 DEF WriteAccept

\* The outcomes of the second half of Write.
LEMMA WriteNoteOnEffect ==
    ASSUME TypeOK, WriteNoteOn
    PROVE  /\ gate = "write" /\ gate' = "free" /\ UNCHANGED <<closed, recPc>>
           /\ trig.key \in Keys
           /\ \/ SendOK({trig.key}, {}) /\ Voices' = Voices \cup {trig.key}
              \/ /\ Voices' = {}
                 /\ SendFails({trig.key}, {}) \/ SendUnavailable
<1>1. /\ gate = "write" /\ gate' = "free" /\ UNCHANGED <<closed, recPc>>
      /\ trig.key \in Keys
  BY DEF WriteNoteOn, pollVars, TypeOK
<1>2. CASE /\ SendOK({trig.key}, {})
           /\ active' = [active EXCEPT ![trig.key] =
                            [started |-> trig.at, gen |-> nextGen + 1]]
  <2>1. Voices' = Voices \cup {trig.key}
    BY <1>1, <1>2 DEF TypeOK, Voices
  <2> QED BY <1>1, <1>2, <2>1
<1>3. CASE (SendFails({trig.key}, {}) \/ SendUnavailable) /\ ClearActive
  BY <1>1, <1>3, VoicesCleared
<1> QED BY <1>1, <1>2, <1>3 DEF WriteNoteOn

\* The outcomes of a timer callback.
LEMMA StopEffect ==
    ASSUME TypeOK, NEW c \in fired, Stop(c)
    PROVE  /\ gate = "free" /\ c.key \in Keys /\ UNCHANGED <<gate, closed, recPc>>
           /\ \/ Voices' = Voices /\ UNCHANGED portVars
              \/ SendOK({}, {c.key}) /\ Voices' = Voices \ {c.key}
              \/ /\ Voices' = {}
                 /\ SendFails({}, {c.key}) \/ SendUnavailable
<1>1. gate = "free" /\ c.key \in Keys /\ UNCHANGED <<gate, closed, recPc>>
  BY DEF Stop, pollVars, TypeOK, Callback
<1>2. CASE UNCHANGED <<active, timers, portVars>>
  BY <1>1, <1>2, VoicesUnchanged
<1>3. CASE SendOK({}, {c.key}) /\ active' = [active EXCEPT ![c.key] = Absent]
  BY <1>1, <1>3, VoicesRemoved
<1>4. CASE (SendFails({}, {c.key}) \/ SendUnavailable) /\ ClearActive
  BY <1>1, <1>4, VoicesCleared
<1> QED BY <1>1, <1>2, <1>3, <1>4 DEF Stop

\* A reset through the published output: it is silent and trusted, or it is
\* lost, or there was none.  Other synthesizers are not touched.
LEMMA ResetEffect ==
    ASSUME TypeOK, ResetOutput
    PROVE  /\ \A n \in Names : n # output => sounding'[n] = sounding[n]
           /\ \/ /\ output # None /\ output' = output
                 /\ sounding'[output] = {} /\ faulty' = faulty \ {output}
                 /\ UNCHANGED device
              \/ output # None /\ output' = None /\ faulty' = faulty \cup {output}
              \/ output = None /\ UNCHANGED portVars
<1>1. ASSUME NEW j \in Channels, SendFails({}, UpTo(j))
      PROVE  /\ output # None /\ output' = None /\ faulty' = faulty \cup {output}
             /\ \A n \in Names : n # output => sounding'[n] = sounding[n]
  BY <1>1 DEF SendFails, TypeOK
<1>2. CASE SendUnavailable
  BY <1>2 DEF SendUnavailable, portVars
<1>3. CASE /\ output # None
           /\ sounding' = [sounding EXCEPT ![output] = {}]
           /\ faulty' = faulty \ {output}
           /\ UNCHANGED <<output, device>>
  BY <1>3 DEF TypeOK
<1> QED BY <1>1, <1>2, <1>3 DEF ResetOutput

\* Every step keeps the gate with the operation that holds it.
LEMMA GateNext == TypeOK /\ GateInv /\ [Next]_vars => GateInv'
<1> SUFFICES ASSUME TypeOK, GateInv, [Next]_vars PROVE GateInv'
  OBVIOUS
<1> USE DEF schedVars, portVars, pollVars
<1>1. ASSUME NEW k \in Keys, NEW d \in Durations, WriteAccept(k, d)
      PROVE  GateInv'
  BY <1>1, WriteAcceptEffect DEF GateInv, SendOK
<1>2. CASE WriteNoteOn
  BY <1>2, WriteNoteOnEffect DEF GateInv, SendOK
<1>3. ASSUME NEW c \in fired, Stop(c) PROVE GateInv'
  BY <1>3, StopEffect DEF GateInv, SendOK
<1>4. CASE Panic
  BY <1>4, VoicesCleared DEF GateInv, Panic, PanicLocked
<1>5. CASE Close
  BY <1>5, VoicesCleared DEF GateInv, Close, PanicLocked
<1>6. CASE CommitReset
  BY <1>6, VoicesCleared, VoicesUnchanged DEF GateInv, CommitReset, PanicLocked
<1>7. CASE CommitReplace \/ ManagerStop \/ SelectOther
  BY <1>7, VoicesUnchanged DEF GateInv, CommitReplace, ManagerStop, SelectOther
<1>8. CASE Discover \/ SelectNothing \/ SelectCurrent
  BY <1>8, VoicesUnchanged DEF GateInv, Discover, SelectNothing, SelectCurrent
<1>9. CASE UNCHANGED <<gate, trig, active, recPc, closed, output>>
  BY <1>9, VoicesUnchanged DEF GateInv
<1> QED
  BY <1>1, <1>2, <1>3, <1>4, <1>5, <1>6, <1>7, <1>8, <1>9
  DEF Next, vars, Tick, Replug, WriteRefused, TimerFire

\* No step leaves a note sounding that the scheduler does not know of.
LEMMA SilentNext ==
    TypeOK /\ GateInv /\ SilentUnlessActive /\ [Next]_vars => SilentUnlessActive'
<1> SUFFICES ASSUME TypeOK, GateInv, SilentUnlessActive, [Next]_vars
             PROVE  SilentUnlessActive'
  OBVIOUS
<1> USE DEF schedVars, portVars, pollVars
\* A send that succeeds changes the published output as it changes the voices.
<1>1. ASSUME NEW on, NEW off, SendOK(on, off), Voices' = (Voices \ off) \cup on
      PROVE  SilentUnlessActive'
  BY <1>1 DEF SilentUnlessActive, SendOK, TypeOK
\* A send that fails makes the published output faulty and loses it.
<1>2. ASSUME NEW on, NEW off, SendFails(on, off) PROVE SilentUnlessActive'
  <2>1. \A n \in Names : n # output => sounding'[n] = sounding[n]
    BY <1>2 DEF SendFails, TypeOK
  <2>2. output' = None /\ faulty' = faulty \cup {output}
    BY <1>2 DEF SendFails
  <2> QED BY <2>1, <2>2 DEF SilentUnlessActive
<1>3. ASSUME SendUnavailable, Voices' = {} PROVE SilentUnlessActive'
  BY <1>3, NamesAssumption DEF SilentUnlessActive, SendUnavailable, GateInv
<1>4. ASSUME ResetOutput, Voices' = {} PROVE SilentUnlessActive'
  BY <1>4, ResetEffect DEF SilentUnlessActive, GateInv
<1>5. ASSUME UNCHANGED portVars, Voices' = Voices PROVE SilentUnlessActive'
  BY <1>5 DEF SilentUnlessActive
<1>6. ASSUME NEW k \in Keys, NEW d \in Durations, WriteAccept(k, d)
      PROVE  SilentUnlessActive'
  BY <1>1, <1>2, <1>3, <1>5, <1>6, WriteAcceptEffect
<1>7. CASE WriteNoteOn
  BY <1>1, <1>2, <1>3, <1>7, WriteNoteOnEffect
<1>8. ASSUME NEW c \in fired, Stop(c) PROVE SilentUnlessActive'
  BY <1>1, <1>2, <1>3, <1>5, <1>8, StopEffect
<1>9. CASE Panic \/ Close
  BY <1>4, <1>9, VoicesCleared DEF Panic, Close, PanicLocked
<1>10. CASE CommitReset
  BY <1>4, <1>5, <1>10, VoicesCleared, VoicesUnchanged DEF CommitReset, PanicLocked
<1>11. CASE CommitReplace
  BY <1>11, VoicesUnchanged DEF CommitReplace, SilentUnlessActive, GateInv
<1>12. CASE ManagerStop
  BY <1>12, VoicesUnchanged DEF ManagerStop, SilentUnlessActive, GateInv
<1>13. CASE SelectOther
  <2>1. \A n \in Names : sounding'[n] \subseteq sounding[n]
    BY <1>13 DEF SelectOther, TypeOK
  <2>2. ASSUME NEW n \in Names, n \notin faulty', n \in faulty
        PROVE  sounding'[n] = {}
    BY <1>13, <2>2 DEF SelectOther, TypeOK
  <2>3. Voices' = Voices /\ output' = output
    BY <1>13, VoicesUnchanged DEF SelectOther
  <2> QED BY <2>1, <2>2, <2>3 DEF SilentUnlessActive
<1>14. CASE UNCHANGED <<portVars, active>>
  BY <1>5, <1>14, VoicesUnchanged
<1> QED
  BY <1>6, <1>7, <1>8, <1>9, <1>10, <1>11, <1>12, <1>13, <1>14
  DEF Next, vars, Tick, Replug, WriteRefused, TimerFire, Discover,
      SelectNothing, SelectCurrent

\* The inductive invariant that holds for every device list.
Inv == TypeOK /\ GateInv /\ TimerInv /\ SilentUnlessActive

\* The invariant holds initially.
LEMMA InvInit == Init => Inv
<1> SUFFICES ASSUME Init PROVE Inv
  OBVIOUS
<1>1. Voices = {}
  BY DEF Init, Voices, Absent
<1> QED
  BY <1>1, TypeInit
  DEF Init, Inv, GateInv, TimerInv, TimersOwned, SilentUnlessActive

\* The invariant is inductive.
LEMMA InvInductive == Inv /\ [Next]_vars => Inv'
  BY TypeNext, GateNext, TimerNext, SilentNext DEF Inv

\* The invariant holds in every reachable state.
LEMMA InvHolds == Spec => []Inv
  BY InvInit, InvInductive, PTL DEF Spec

\* Every Note Off timer belongs to the note that is active, and every active
\* note has a Note Off to come: stop, Panic, Close, retriggers, failed sends and
\* device transitions never orphan a timer or a note.
THEOREM TimersStayOwned == Spec => []TimersOwned
<1>1. Inv => TimersOwned
  BY DEF Inv, TimerInv
<1> QED BY InvHolds, <1>1, PTL

\* As long as the sends to it succeed, a synthesizer sounds only notes the
\* scheduler tracks, and only while it is the selected output, whatever the
\* order of writes, callbacks, polls, replugs, panics and shutdown.
THEOREM OnlyActiveNotesSound == Spec => []SilentUnlessActive
<1>1. Inv => SilentUnlessActive
  BY DEF Inv
<1> QED BY InvHolds, <1>1, PTL

-----------------------------------------------------------------------------
(***************************************************************************)
(* Polyphony                                                               *)
(***************************************************************************)

\* The voices, and the one that is about to start.
Held == Voices \cup (IF gate = "write" THEN {trig.key} ELSE {})

PolyInv == IsFiniteSet(Held) /\ Cardinality(Held) <= MaxPolyphony

\* Fewer held voices stay within the limit.
LEMMA PolyShrinks ==
    ASSUME PolyInv, Held' \subseteq Held
    PROVE  PolyInv'
<1>1. IsFiniteSet(Held') /\ Cardinality(Held') <= Cardinality(Held)
  BY FS_Subset DEF PolyInv
<1>2. Cardinality(Held) \in Nat /\ Cardinality(Held') \in Nat
  BY <1>1, FS_CardinalityType DEF PolyInv
<1> QED BY <1>1, <1>2, LimitsAssumption DEF PolyInv

\* No voice is held initially.
LEMMA PolyInit == Init => PolyInv
<1> SUFFICES ASSUME Init PROVE PolyInv
  OBVIOUS
<1>1. Held = {}
  BY DEF Init, Held, Voices, Absent
<1> QED BY <1>1, FS_EmptySet, LimitsAssumption DEF PolyInv

\* Every step keeps the held voices within the limit.
LEMMA PolyNext == Inv /\ PolyInv /\ [Next]_vars => PolyInv'
<1> SUFFICES ASSUME Inv, PolyInv, [Next]_vars PROVE PolyInv'
  OBVIOUS
<1> USE DEF schedVars, portVars, pollVars
<1>0. TypeOK /\ GateInv
  BY DEF Inv
<1>1. ASSUME NEW k \in Keys, NEW d \in Durations, WriteAccept(k, d)
      PROVE  PolyInv'
  <2>1. Held = Voices /\ ~PolyphonyLimited(k)
    BY <1>1 DEF Held, WriteAccept
  <2>2. CASE Held' \subseteq Held
    BY <2>2, PolyShrinks
  <2>3. CASE gate' = "write" /\ trig'.key = k /\ k \notin Voices /\ Voices' = Voices
    <3>1. Held' = Held \cup {k} /\ k \notin Held
      BY <2>1, <2>3 DEF Held
    <3>2. Cardinality(Held) \in Nat /\ Cardinality(Held) < MaxPolyphony
      BY <2>1, <2>3, FS_CardinalityType, LimitsAssumption
      DEF PolyphonyLimited, PolyInv
    <3>3. IsFiniteSet(Held') /\ Cardinality(Held') = Cardinality(Held) + 1
      BY <3>1, FS_AddElement DEF PolyInv
    <3> QED BY <3>2, <3>3, LimitsAssumption DEF PolyInv
  <2>4. CASE gate' = "write" /\ trig'.key = k /\ k \in Voices /\ Voices' = Voices \ {k}
    BY <2>1, <2>2, <2>4 DEF Held
  <2>5. CASE gate' = "free" /\ Voices' = {}
    BY <2>2, <2>5 DEF Held
  <2> QED BY <1>0, <1>1, <2>3, <2>4, <2>5, WriteAcceptEffect
<1>2. CASE Held' \subseteq Held
  BY <1>2, PolyShrinks
<1>3. CASE WriteNoteOn
  BY <1>0, <1>2, <1>3, WriteNoteOnEffect DEF Held
<1>4. ASSUME NEW c \in fired, Stop(c) PROVE PolyInv'
  BY <1>0, <1>2, <1>4, StopEffect DEF Held
<1>5. CASE Panic \/ Close
  BY <1>2, <1>5, VoicesCleared DEF Held, Panic, Close, PanicLocked
<1>6. CASE CommitReset
  BY <1>2, <1>6, VoicesCleared, VoicesUnchanged DEF Held, CommitReset, PanicLocked
<1>7. CASE CommitReplace
  BY <1>2, <1>7, VoicesUnchanged DEF Held, CommitReplace
<1>8. CASE UNCHANGED <<active, gate, trig>>
  BY <1>2, <1>8, VoicesUnchanged DEF Held
<1> QED
  BY <1>1, <1>3, <1>4, <1>5, <1>6, <1>7, <1>8
  DEF Next, vars, Tick, Replug, WriteRefused, TimerFire, Discover, ManagerStop,
      SelectNothing, SelectCurrent, SelectOther

\* The limit holds in every reachable state.
LEMMA PolyHolds == Spec => []PolyInv
  BY InvHolds, PolyInit, PolyNext, PTL DEF Spec

\* The scheduler never holds more than MaximumPolyphony voices, although a
\* Note On is sent after the limit was checked and time passes in between.
THEOREM PolyphonyBounded == Spec => []PolyphonyBound
<1>1. PolyInv => PolyphonyBound
  BY DEF PolyInv, PolyphonyBound, Held
<1> QED BY PolyHolds, <1>1, PTL

-----------------------------------------------------------------------------
(***************************************************************************)
(* Stable ports                                                            *)
(***************************************************************************)

\* The device was listed under its number, and is the port that was opened.
Listed(dev, port) ==
    /\ dev.name = port
    /\ \E e \in Enumerations : dev.number \in DOMAIN e /\ e[dev.number] = port

\* The opened output that waits to be committed.
Waiting == recPc \in {"commit", "replace"} /\ pending.port # None

\* While ports keep their numbers, the published and the waiting output are
\* two different synthesizers, and neither is faulty.
StableInv ==
    /\ plugged \in Enumerations /\ devices \in Enumerations
    /\ output # None => Listed(device, output) /\ output \notin faulty
    /\ Waiting => /\ Listed(pending.device, pending.port)
                  /\ pending.port \notin faulty
                  /\ pending.port # output

\* Sends never make the waiting output faulty, nor publish anything.
LEMMA StableSend ==
    ASSUME StableInv, UNCHANGED <<plugged, pollVars>>,
           \/ output' = output /\ device' = device /\ faulty' \subseteq faulty
           \/ output' = None /\ faulty' = faulty \cup {output}
    PROVE  StableInv'
<1> USE DEF pollVars
<1>1. CASE output' = output /\ device' = device /\ faulty' \subseteq faulty
  BY <1>1 DEF StableInv, Waiting, Listed
<1>2. CASE output' = None /\ faulty' = faulty \cup {output}
  BY <1>2 DEF StableInv, Waiting, Listed
<1> QED BY <1>1, <1>2

\* Stable numbers make Open(number) open the port that was selected, and a
\* newly selected device another synthesizer than the one in use.
LEMMA StableOpen ==
    ASSUME StablePorts, TypeOK, StableInv, devices # <<>>,
           NEW number, number = SelectDevice(devices).number,
           number \in DOMAIN plugged
    PROVE  /\ plugged[number] \in Names
           /\ Listed(SelectDevice(devices), plugged[number])
           /\ output # None /\ device # SelectDevice(devices)
                => plugged[number] # output
<1> DEFINE selected == SelectDevice(devices)
<1>1. /\ number \in DOMAIN devices
      /\ selected.name = devices[number]
      /\ selected \in [number : Nat, name : Names]
  BY SelectDeviceProperties DEF TypeOK
<1> HIDE DEF selected
<1>2. plugged[number] = devices[number]
  BY <1>1 DEF StablePorts, StableInv
<1>3. Listed(selected, plugged[number])
  BY <1>1, <1>2 DEF Listed, StableInv, selected
<1>4. ASSUME output # None, device # selected, plugged[number] = output
      PROVE  FALSE
  <2>1. PICK e \in Enumerations :
           device.number \in DOMAIN e /\ e[device.number] = output
    BY <1>4 DEF StableInv, Listed
  <2>2. device.number = number
    BY <1>4, <2>1 DEF StablePorts, StableInv
  <2>3. device.name = selected.name
    BY <1>1, <1>2, <1>4 DEF StableInv, Listed
  <2>4. device \in Devices /\ selected \in Devices
    BY <1>1 DEF TypeOK, Devices
  <2>5. selected.number = number
    BY DEF selected
  <2> QED BY <1>4, <2>2, <2>3, <2>4, <2>5 DEF Devices
<1> QED BY <1>1, <1>2, <1>3, <1>4 DEF selected


\* While ports keep their numbers, every step keeps StableInv.
LEMMA StableNext ==
    ASSUME StablePorts
    PROVE  Inv /\ StableInv /\ [Next]_vars => StableInv'
<1> SUFFICES ASSUME Inv, StableInv, [Next]_vars PROVE StableInv'
  OBVIOUS
<1> USE DEF schedVars, portVars
<1>0. TypeOK /\ GateInv
  BY DEF Inv
<1>1. ASSUME NEW k \in Keys, NEW d \in Durations, WriteAccept(k, d)
      PROVE  StableInv'
  <2>1. UNCHANGED <<plugged, pollVars>>
    BY <1>1 DEF WriteAccept
  <2> QED BY <1>0, <1>1, <2>1, WriteAcceptEffect, StableSend
          DEF SendOK, SendFails, SendUnavailable
<1>2. CASE WriteNoteOn
  <2>1. UNCHANGED <<plugged, pollVars>>
    BY <1>2 DEF WriteNoteOn
  <2> QED BY <1>0, <1>2, <2>1, WriteNoteOnEffect, StableSend
          DEF SendOK, SendFails, SendUnavailable
<1>3. ASSUME NEW c \in fired, Stop(c) PROVE StableInv'
  <2>1. UNCHANGED <<plugged, pollVars>>
    BY <1>3 DEF Stop
  <2> QED BY <1>0, <1>3, <2>1, StopEffect, StableSend
          DEF SendOK, SendFails, SendUnavailable
<1>4. CASE Panic \/ Close
  <2>1. UNCHANGED <<plugged, pollVars>> /\ ResetOutput
    BY <1>4 DEF Panic, Close, PanicLocked
  <2> QED BY <1>0, <2>1, ResetEffect, StableSend
<1>5. CASE Discover
  BY <1>5 DEF Discover, StableInv, Waiting, Listed
<1>6. CASE SelectNothing \/ SelectCurrent
  BY <1>6 DEF SelectNothing, SelectCurrent, StableInv, Waiting, Listed, NoPending
<1>7. CASE SelectOther
  <2> DEFINE selected == SelectDevice(devices)
             port == plugged[selected.number]
  <2>1. UNCHANGED <<plugged, devices, output, device>> /\ devices # <<>>
    BY <1>7 DEF SelectOther
  <2>2. output = None \/ device # selected
    BY <1>7 DEF SelectOther
  <2>3. selected.number \in DOMAIN plugged =>
          port \in Names /\ Listed(selected, port) /\ port # output
    BY <1>0, <2>1, <2>2, StableOpen, NamesAssumption
  <2>4. \/ /\ selected.number \in DOMAIN plugged
           /\ faulty' = faulty \ {port}
           /\ pending' = [port |-> port, device |-> selected]
        \/ UNCHANGED <<faulty, pending>> /\ recPc' = "idle"
    BY <1>7 DEF SelectOther
  <2> HIDE DEF selected, port
  <2>5. CASE /\ selected.number \in DOMAIN plugged
             /\ faulty' = faulty \ {port}
             /\ pending' = [port |-> port, device |-> selected]
    <3>1. pending'.port = port /\ pending'.device = selected
      BY <2>5
    <3> QED BY <2>1, <2>3, <2>5, <3>1 DEF StableInv, Waiting, Listed
  <2>6. CASE UNCHANGED <<faulty, pending>> /\ recPc' = "idle"
    BY <2>1, <2>6 DEF StableInv, Waiting, Listed
  <2> QED BY <2>4, <2>5, <2>6
<1>8. CASE CommitReset
  <2>1. CASE closed
    BY <1>8, <2>1 DEF CommitReset, StableInv, Waiting, Listed, NoPending
  <2>2. CASE ~closed
    <3>1. /\ UNCHANGED <<plugged, devices, pending>>
          /\ recPc = "commit" /\ recPc' = "replace"
      BY <1>8, <2>2 DEF CommitReset
    <3>2. \/ output' = output /\ device' = device /\ faulty' \subseteq faulty
          \/ output' = None /\ faulty' = faulty \cup {output}
      BY <1>0, <1>8, <2>2, ResetEffect DEF CommitReset, PanicLocked
    <3>3. CASE output' = output /\ device' = device /\ faulty' \subseteq faulty
      BY <3>1, <3>3 DEF StableInv, Waiting, Listed
    <3>4. CASE output' = None /\ faulty' = faulty \cup {output}
      BY <3>1, <3>4 DEF StableInv, Waiting, Listed
    <3> QED BY <3>2, <3>3, <3>4
  <2> QED BY <2>1, <2>2
<1>9. CASE CommitReplace
  BY <1>9 DEF CommitReplace, StableInv, Waiting, Listed
<1>10. CASE ManagerStop
  BY <1>10 DEF ManagerStop, StableInv, Waiting, Listed
<1>11. CASE Replug
  BY <1>11 DEF Replug, StableInv, Waiting, Listed, pollVars
<1>12. CASE UNCHANGED <<plugged, pollVars, portVars>>
  BY <1>12, StableSend
<1> QED
  BY <1>1, <1>2, <1>3, <1>4, <1>5, <1>6, <1>7, <1>8, <1>9, <1>10, <1>11, <1>12
  DEF Next, vars, Tick, WriteRefused, TimerFire

\* StableInv holds initially.
LEMMA StableInit == Init => StableInv
  BY NamesAssumption DEF Init, StableInv, Waiting

\* While ports keep their numbers, StableInv holds in every reachable state.
LEMMA StableHolds ==
    ASSUME StablePorts
    PROVE  Spec => []StableInv
  BY InvHolds, StableInit, StableNext, PTL DEF Spec

\* While ports keep their numbers, no note hangs on the published output: what
\* sounds there is an active note with a Note Off to come, across failed sends,
\* replugs and device transitions.
THEOREM NoHangingNotes ==
    ASSUME StablePorts
    PROVE  Spec => []NoHangingNote
<1>1. Inv /\ StableInv => NoHangingNote
  BY DEF Inv, TypeOK, StableInv, SilentUnlessActive, NoHangingNote
<1> QED BY InvHolds, StableHolds, <1>1, PTL

\* While ports keep their numbers, the device the manager reports is the open one.
THEOREM ReportedDevicesAreOpen ==
    ASSUME StablePorts
    PROVE  Spec => []ReportedDeviceIsOpen
<1>1. StableInv => ReportedDeviceIsOpen
  BY DEF StableInv, Listed, ReportedDeviceIsOpen
<1> QED BY StableHolds, <1>1, PTL

\* While ports keep their numbers, Write's Note On never lands on a key that is
\* still sounding on the published output.
THEOREM NoLayeredNotes ==
    ASSUME StablePorts
    PROVE  Spec => []NoLayeredNote
<1>1. Inv /\ StableInv => NoLayeredNote
  BY DEF Inv, TypeOK, GateInv, StableInv, SilentUnlessActive, NoLayeredNote
<1> QED BY InvHolds, StableHolds, <1>1, PTL

-----------------------------------------------------------------------------
(***************************************************************************)
(* The voice bank                                                          *)
(***************************************************************************)

\* Every step of the runtime is a step of the voice bank on what is heard.
LEMMA BankStep ==
    ASSUME Inv, PolyInv, StableInv, [Next]_vars
    PROVE  [Bank!Next]_<<Heard, closed>>
<1> USE DEF schedVars, portVars, pollVars
<1>0. /\ TypeOK /\ GateInv /\ SilentUnlessActive
      /\ Heard \subseteq Voices
  BY NamesAssumption DEF Inv, TypeOK, StableInv, SilentUnlessActive, Heard
\* Whatever only takes voices down is a Release.
<1>1. ASSUME Heard' \subseteq Heard, closed' = closed PROVE Bank!Next
  BY <1>1 DEF Bank!Next, Bank!Release
<1>2. ASSUME NEW off, SendOK({}, off) \/ SendFails({}, off) \/ SendUnavailable
      PROVE  Heard' \subseteq Heard
  BY <1>0, <1>2 DEF SendOK, SendFails, SendUnavailable, Heard, TypeOK
<1>3. ASSUME ResetOutput PROVE Heard' = {}
  BY <1>0, <1>3, ResetEffect DEF Heard
<1>4. ASSUME NEW k \in Keys, NEW d \in Durations, WriteAccept(k, d)
      PROVE  Bank!Next
  <2>1. UNCHANGED portVars => Heard' = Heard
    BY DEF Heard
  <2> QED BY <1>0, <1>1, <1>2, <1>4, <2>1, WriteAcceptEffect
<1>5. CASE WriteNoteOn
  <2>1. CASE SendOK({trig.key}, {})
    <3>1. /\ ~closed /\ closed' = closed /\ trig.key \in Keys
          /\ trig.key \notin Voices /\ gate = "write"
      BY <1>0, <1>5, WriteNoteOnEffect DEF GateInv
    <3>2. Heard' = Heard \cup {trig.key} /\ trig.key \notin Heard
      BY <1>0, <2>1, <3>1 DEF SendOK, Heard, TypeOK
    <3>3. Held = Voices \cup {trig.key}
      BY <3>1 DEF Held
    <3>4. IsFiniteSet(Voices) /\ Cardinality(Held) = Cardinality(Voices) + 1
      <4>1. IsFiniteSet(Voices)
        BY <3>3, FS_Subset DEF PolyInv
      <4> QED BY <4>1, <3>1, <3>3, FS_AddElement
    <3>5. /\ Cardinality(Heard) <= Cardinality(Voices)
          /\ Cardinality(Voices) \in Nat /\ Cardinality(Heard) \in Nat
      BY <1>0, <3>4, FS_Subset, FS_CardinalityType
    <3>6. Cardinality(Heard) < MaxPolyphony
      BY <3>4, <3>5, LimitsAssumption DEF PolyInv
    <3>7. Bank!Cardinality(Heard) = Cardinality(Heard)
      BY DEF Bank!Cardinality, Cardinality
    <3>8. Bank!Attack(trig.key)
      BY <3>1, <3>2, <3>6, <3>7 DEF Bank!Attack
    <3> QED BY <3>1, <3>8 DEF Bank!Next
  <2>2. CASE SendFails({trig.key}, {}) \/ SendUnavailable
    <3>1. Heard' = {}
      BY <2>2 DEF SendFails, SendUnavailable, Heard
    <3> QED BY <1>0, <1>1, <1>5, <3>1, WriteNoteOnEffect
  <2> QED BY <1>0, <1>5, <2>1, <2>2, WriteNoteOnEffect
<1>6. ASSUME NEW c \in fired, Stop(c) PROVE Bank!Next
  <2>1. UNCHANGED portVars => Heard' = Heard
    BY DEF Heard
  <2> QED BY <1>0, <1>1, <1>2, <1>6, <2>1, StopEffect
<1>7. CASE Panic
  BY <1>1, <1>3, <1>7 DEF Panic, PanicLocked
<1>8. CASE Close
  BY <1>3, <1>8 DEF Close, PanicLocked, Bank!Next, Bank!Shut
<1>9. CASE CommitReset
  <2>1. UNCHANGED portVars => Heard' = Heard
    BY DEF Heard
  <2> QED BY <1>1, <1>3, <1>9, <2>1 DEF CommitReset, PanicLocked
<1>10. CASE CommitReplace
  <2>1. Voices = {} /\ output' = pending.port /\ closed' = closed
    BY <1>0, <1>10 DEF CommitReplace, GateInv
  <2>2. pending.port # None => sounding[pending.port] = {}
    BY <1>0, <1>10, <2>1
    DEF CommitReplace, StableInv, Waiting, SilentUnlessActive, TypeOK
  <2>3. Heard' = {}
    BY <1>10, <2>1, <2>2 DEF CommitReplace, Heard
  <2> QED BY <1>1, <2>1, <2>3
<1>11. CASE ManagerStop
  BY <1>1, <1>11 DEF ManagerStop, Heard
<1>12. CASE SelectOther
  <2>1. \A n \in Names : sounding'[n] \subseteq sounding[n]
    BY <1>0, <1>12 DEF SelectOther, TypeOK
  <2>2. Heard' \subseteq Heard /\ closed' = closed
    BY <1>0, <1>12, <2>1 DEF SelectOther, Heard, TypeOK
  <2> QED BY <1>1, <2>2
<1>13. CASE UNCHANGED <<portVars, closed>>
  BY <1>13 DEF Heard
<1> QED
  BY <1>4, <1>5, <1>6, <1>7, <1>8, <1>9, <1>10, <1>11, <1>12, <1>13
  DEF Next, vars, Tick, Replug, WriteRefused, TimerFire, Discover,
      SelectNothing, SelectCurrent

\* While ports keep their numbers, the runtime implements the voice bank: what
\* is heard on the selected synthesizer obeys the polyphony limit, starts on
\* silent keys only, and ends for good with Close.
THEOREM RuntimeImplementsVoiceBank ==
    ASSUME StablePorts
    PROVE  Spec => ImplementsVoiceBank
<1>1. Init => Bank!Init
  BY DEF Init, Bank!Init, Heard
<1>2. Inv /\ PolyInv /\ StableInv /\ [Next]_vars => [Bank!Next]_<<Heard, closed>>
  BY BankStep
<1> QED BY <1>1, <1>2, InvHolds, PolyHolds, StableHolds, PTL
        DEF Spec, ImplementsVoiceBank, Bank!Spec

-----------------------------------------------------------------------------
(***************************************************************************)
(* The note rate                                                           *)
(***************************************************************************)

\* The time at which the limits of the next note are checked.
CheckedAt == IF gate = "write" THEN trig.at ELSE now

\* The window is the tail of the history; what it no longer holds has expired;
\* and an accepted note leaves room for itself.
RateInv ==
    /\ Len(recent) <= Len(played)
    /\ \A i \in 1..Len(recent) : recent[i] = played[Len(played) - Len(recent) + i]
    /\ \A i \in 1..(Len(played) - Len(recent)) : played[i] + Window <= CheckedAt
    /\ gate = "write" => Len(recent) < MaxRate /\ trig.at <= now

\* Pruning keeps the window a tail of the history and drops expired notes only.
LEMMA RatePruned ==
    ASSUME TypeOK, RateInv, gate # "write", recent' = Pruned, played' = played,
           now' = now, gate' = "write" => Len(Pruned) < MaxRate /\ trig'.at = now
    PROVE  RateInv'
<1> DEFINE x == Expired
           n == Len(recent)
           m == Len(played)
<1>1. n \in Nat /\ m \in Nat /\ n <= m /\ now \in Nat
  BY LenProperties DEF TypeOK, RateInv
<1>2. x \in 0..n /\ \A j \in 1..x : recent[j] + Window <= now
  BY ExpiredProperties DEF TypeOK
<1>3. /\ Len(recent') = n - x
      /\ \A i \in 1..(n - x) : recent'[i] = recent[x + i]
  <2>1. \A i \in (x + 1)..n : recent[i] \in Nat
    BY <1>1, <1>2, ElementOfSeq DEF TypeOK
  <2>2. /\ Len(SubSeq(recent, x + 1, n)) = IF x + 1 <= n THEN n - (x + 1) + 1 ELSE 0
        /\ \A i \in 1..(n - (x + 1) + 1) :
              SubSeq(recent, x + 1, n)[i] = recent[(x + 1) + i - 1]
    BY <1>1, <1>2, <2>1, SubSeqProperties
  <2>3. recent' = SubSeq(recent, x + 1, n)
    BY DEF Pruned
  <2> HIDE DEF x, n, m
  <2>4. ASSUME NEW i \in 1..(n - x) PROVE recent'[i] = recent[x + i]
    <3>1. i \in 1..(n - (x + 1) + 1) /\ (x + 1) + i - 1 = x + i
      BY <1>1, <1>2
    <3> QED BY <3>1, <2>2, <2>3
  <2> QED BY <1>1, <1>2, <2>2, <2>3, <2>4
<1>4. /\ \A i \in 1..n : recent[i] = played[m - n + i]
      /\ \A i \in 1..(m - n) : played[i] + Window <= now
  BY DEF RateInv, CheckedAt
<1>5. CheckedAt' = now
  BY DEF CheckedAt
<1>6. Len(recent') <= m
  BY <1>1, <1>2, <1>3
<1> HIDE DEF x, n, m
<1>7. ASSUME NEW i \in 1..Len(recent') PROVE recent'[i] = played[m - Len(recent') + i]
  <2>1. i \in 1..(n - x) /\ x + i \in 1..n /\ m - Len(recent') + i = m - n + (x + i)
    BY <1>1, <1>2, <1>3
  <2> QED BY <2>1, <1>3, <1>4
<1>8. ASSUME NEW i \in 1..(m - Len(recent')) PROVE played[i] + Window <= now
  <2>1. CASE i \in 1..(m - n)
    BY <2>1, <1>4
  <2>2. CASE i \notin 1..(m - n)
    <3>1. i - (m - n) \in 1..x /\ i - (m - n) \in 1..n
      BY <2>2, <1>1, <1>2, <1>3
    <3>2. recent[i - (m - n)] = played[m - n + (i - (m - n))]
      BY <3>1, <1>4
    <3>3. m - n + (i - (m - n)) = i
      BY <1>1
    <3> QED BY <3>1, <3>2, <3>3, <1>2
  <2> QED BY <2>1, <2>2
<1>9. gate' = "write" => Len(recent') < MaxRate /\ trig'.at <= now'
  BY <1>1
<1> QED BY <1>5, <1>6, <1>7, <1>8, <1>9 DEF RateInv, m

\* A step outside Write, or a clock tick, keeps the rate window faithful.
LEMMA RateUnchanged ==
    ASSUME TypeOK, RateInv, UNCHANGED <<recent, played, gate, trig>>,
           now' = now \/ now' = now + 1
    PROVE  RateInv'
<1>1. now \in Nat /\ trig.at \in Nat
  BY DEF TypeOK
<1>2. \A i \in 1..(Len(played) - Len(recent)) : played[i] \in Nat
  BY LenProperties, ElementOfSeq DEF TypeOK, RateInv
<1> QED BY <1>1, <1>2, LimitsAssumption DEF RateInv, CheckedAt

\* Every step keeps the rate window faithful and the rate bounded.
LEMMA RateNext ==
    Inv /\ RateInv /\ RateBound /\ [Next]_vars => RateInv' /\ RateBound'
<1> SUFFICES ASSUME Inv, RateInv, RateBound, [Next]_vars
             PROVE  RateInv' /\ RateBound'
  OBVIOUS
<1> USE DEF schedVars, portVars, pollVars
<1>0. TypeOK /\ GateInv
  BY DEF Inv
<1>1. ASSUME played' = played PROVE RateBound'
  BY <1>1 DEF RateBound
<1>2. ASSUME NEW k \in Keys, WriteRefused(k) PROVE RateInv' /\ RateBound'
  BY <1>0, <1>1, <1>2, RatePruned DEF WriteRefused
<1>3. ASSUME NEW k \in Keys, NEW d \in Durations, WriteAccept(k, d)
      PROVE  RateInv' /\ RateBound'
  <2>1. /\ gate = "free" /\ recent' = Pruned /\ played' = played /\ now' = now
        /\ ~RateLimited
    BY <1>3 DEF WriteAccept
  <2>2. Len(Pruned) < MaxRate
    <3>1. Len(Pruned) \in Nat
      BY <1>0, PrunedType, LenProperties DEF TypeOK
    <3> QED BY <2>1, <3>1, LimitsAssumption DEF RateLimited
  <2>3. gate' = "write" => trig'.at = now
    BY <1>3 DEF WriteAccept
  <2> QED BY <1>0, <1>1, <2>1, <2>2, <2>3, RatePruned
<1>4. CASE WriteNoteOn
  <2>1. CASE UNCHANGED <<recent, played>>
    <3>1. RateInv'
      <4>1. /\ gate = "write" /\ gate' = "free" /\ now' = now
            /\ now \in Nat /\ trig.at \in Nat /\ trig.at <= now
        BY <1>0, <1>4 DEF WriteNoteOn, TypeOK, RateInv
      <4>2. \A i \in 1..(Len(played) - Len(recent)) : played[i] \in Nat
        BY <1>0, LenProperties, ElementOfSeq DEF TypeOK, RateInv
      <4> QED BY <2>1, <4>1, <4>2, LimitsAssumption DEF RateInv, CheckedAt
    <3> QED BY <1>1, <2>1, <3>1
  <2>2. CASE /\ recent' = Append(recent, trig.at)
             /\ played' = Append(played, trig.at)
    <3> DEFINE n == Len(recent)
               m == Len(played)
    <3>1. /\ n \in Nat /\ m \in Nat /\ n <= m /\ n < MaxRate
          /\ now \in Nat /\ trig.at \in Nat /\ trig.at <= now
          /\ gate' = "free" /\ now' = now /\ DOMAIN played = 1..m
      BY <1>0, <1>4, LenProperties DEF TypeOK, RateInv, WriteNoteOn
    <3>2. /\ Len(recent') = n + 1 /\ Len(played') = m + 1
          /\ \A i \in 1..n : recent'[i] = recent[i]
          /\ \A i \in 1..m : played'[i] = played[i]
          /\ recent'[n + 1] = trig.at /\ played'[m + 1] = trig.at
          /\ DOMAIN played' = 1..(m + 1)
      BY <1>0, <2>2, <3>1, AppendProperties, LenProperties DEF TypeOK
    <3>3. /\ \A i \in 1..n : recent[i] = played[m - n + i]
          /\ \A i \in 1..(m - n) : played[i] + Window <= trig.at /\ played[i] \in Nat
      BY <1>0, <1>4, <3>1, ElementOfSeq DEF RateInv, CheckedAt, WriteNoteOn, TypeOK
    <3> HIDE DEF n, m
    <3>4. RateInv'
      <4>1. ASSUME NEW i \in 1..(n + 1)
            PROVE  recent'[i] = played'[(m + 1) - (n + 1) + i]
        <5>1. CASE i = n + 1
          BY <5>1, <3>1, <3>2
        <5>2. CASE i \in 1..n
          <6>1. m - n + i \in 1..m /\ (m + 1) - (n + 1) + i = m - n + i
            BY <5>2, <3>1
          <6> QED BY <5>2, <6>1, <3>2, <3>3
        <5> QED BY <5>1, <5>2, <3>1
      <4>2. ASSUME NEW i \in 1..((m + 1) - (n + 1))
            PROVE  played'[i] + Window <= now
        <5>1. i \in 1..(m - n) /\ i \in 1..m
          BY <3>1
        <5> QED BY <5>1, <3>1, <3>2, <3>3, LimitsAssumption
      <4> QED BY <3>1, <3>2, <4>1, <4>2 DEF RateInv, CheckedAt
    <3>5. RateBound'
      <4> SUFFICES ASSUME NEW i \in 1..(m + 1), i + MaxRate \in 1..(m + 1)
                   PROVE  played'[i + MaxRate] >= played'[i] + Window
        BY <3>2 DEF RateBound
      <4>1. CASE i + MaxRate \in 1..m
        <5>1. i \in 1..m
          BY <4>1, <3>1, LimitsAssumption
        <5> QED BY <4>1, <5>1, <3>1, <3>2 DEF RateBound
      <4>2. CASE i + MaxRate = m + 1
        <5>1. i \in 1..(m - n) /\ i \in 1..m
          BY <4>2, <3>1, LimitsAssumption
        <5> QED BY <4>2, <5>1, <3>1, <3>2, <3>3, LimitsAssumption
      <4> QED BY <4>1, <4>2, <3>1, LimitsAssumption
    <3> QED BY <3>4, <3>5
  <2> QED BY <1>4, <2>1, <2>2 DEF WriteNoteOn
<1>5. CASE CommitReset \/ CommitReplace
  <2>1. /\ UNCHANGED <<recent, played, trig, now>>
        /\ gate # "write" /\ gate' # "write"
    BY <1>0, <1>5 DEF CommitReset, CommitReplace, GateInv
  <2> QED BY <1>1, <2>1 DEF RateInv, CheckedAt
<1>6. CASE /\ UNCHANGED <<recent, played, gate, trig>>
           /\ now' = now \/ now' = now + 1
  BY <1>0, <1>1, <1>6, RateUnchanged
<1> QED
  BY <1>2, <1>3, <1>4, <1>5, <1>6
  DEF Next, vars, Tick, Replug, TimerFire, Stop, Panic, Close, Discover,
      SelectNothing, SelectCurrent, SelectOther, ManagerStop

\* Any MaximumNotesPerSecond + 1 consecutive notes span a full window, however
\* long each Note On takes to send and whatever else fails or is reset.
THEOREM RateBounded == Spec => []RateBound
<1>1. Init => RateInv /\ RateBound
  BY EmptySeq DEF Init, RateInv, RateBound
<1> QED BY <1>1, InvHolds, RateNext, PTL DEF Spec
=============================================================================
