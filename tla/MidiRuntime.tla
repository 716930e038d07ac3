---------------------------- MODULE MidiRuntime ----------------------------
(***************************************************************************)
(* The MIDI runtime: the note scheduler (scheduler.go), the device manager *)
(* (manager.go), the operation gate that binds them (runtime.go) and the   *)
(* synthesizers behind the operating system's MIDI ports (external).       *)
(*                                                                         *)
(* Whatever runs under the gate and talks to one output only is one step:  *)
(* no other thread sends, and the manager's poll, the only code that reads *)
(* the output without the gate, sees it either before or after.  Two       *)
(* operations are split because time or the poll may interleave with them: *)
(* an accepted Write (Note Off of a retrigger, then Note On) and a device  *)
(* transition (reset of the old output, then replacement).                 *)
(***************************************************************************)
EXTENDS Naturals, Sequences, FiniteSets

CONSTANTS
    Names,          \* names of the synthesizers that may be plugged in
    None,           \* no port, no device
    Enumerations,   \* the port lists the operating system may report
    Exact,          \* names equal to the configured exact name (none if unset)
    Matches,        \* names the configured pattern matches (none if unset)
    NumChannels,    \* 16 in the code
    Notes,          \* MIDI pitches
    Durations,      \* note durations, in clock ticks
    MaxRate,        \* MaximumNotesPerSecond
    MaxPolyphony,   \* MaximumPolyphony
    MinRetrigger,   \* MinimumRetriggerInterval, in ticks
    Window,         \* the rate limiter's one second, in ticks
    Horizon,        \* bound: no note is accepted after this time
    MaxNotes        \* bound: how many notes are ever started

Channels == 1..NumChannels

Keys == Channels \X Notes

\* There is at least one channel and one pitch.
ASSUME ChannelsAssumption == NumChannels \in Nat \ {0} /\ Notes # {}

\* NewScheduler rejects non-positive limits and negative intervals.
ASSUME LimitsAssumption ==
    /\ MaxRate \in Nat \ {0}
    /\ MaxPolyphony \in Nat \ {0}
    /\ MinRetrigger \in Nat
    /\ Window \in Nat \ {0}

\* NoteEvent.Validate rejects non-positive durations.
ASSUME DurationsAssumption == Durations \subseteq Nat \ {0}

\* The zero value None is not a device name; the configured names are names.

ASSUME NamesAssumption ==
    /\ None \notin Names
    /\ Enumerations \subseteq Seq(Names)
    /\ <<>> \in Enumerations
    /\ Exact \subseteq Names /\ Matches \subseteq Names

\* The bounds of the model.
ASSUME BoundsAssumption == Horizon \in Nat /\ MaxNotes \in Nat

VARIABLES
    now,        \* the scheduler's clock
    active,     \* Scheduler.active: key -> start time and generation, 0 if absent
    timers,     \* Note Off timers that have not expired
    fired,      \* expired timers whose callback waits for the gate
    recent,     \* Scheduler.recent: start times in the rate window
    nextGen,    \* Scheduler.nextGeneration
    closed,     \* Runtime.closed and Scheduler.closed, always set together
    gate,       \* holder of the operation gate across steps
    trig,       \* the accepted note between its checks and its Note On
    output,     \* the port behind Manager.output, None if nil
    device,     \* Manager.device
    recPc,      \* progress of Manager.reconcile
    devices,    \* the last successful enumeration
    pending,    \* the opened output and its device, to be committed
    plugged,    \* what the operating system would enumerate now
    sounding,   \* the keys each synthesizer is sounding
    faulty,     \* ports on which a send failed since their last full reset
    played      \* history: start times of all notes ever accepted and sent

schedVars == <<active, timers, recent, nextGen, trig, played>>
portVars == <<output, device, sounding, faulty>>
pollVars == <<recPc, devices, pending>>
vars == <<now, fired, closed, gate, plugged, schedVars, portVars, pollVars>>

NoDevice == [number |-> 0, name |-> None]

Devices == [number : Nat, name : Names \cup {None}]

Absent == [started |-> 0, gen |-> 0]

NoTrig == [key |-> <<1, CHOOSE n \in Notes : TRUE>>, dur |-> 0, at |-> 0]

NoPending == [port |-> None, device |-> NoDevice]

\* The channel/pitch pairs that hold a voice: the domain of Scheduler.active.
Voices == {k \in Keys : active[k].gen # 0}

Init ==
    /\ now = 0
    /\ active = [k \in Keys |-> Absent]
    /\ timers = {} /\ fired = {}
    /\ recent = <<>> /\ played = <<>>
    /\ nextGen = 0
    /\ closed = FALSE
    /\ gate = "free" /\ trig = NoTrig
    /\ output = None /\ device = NoDevice
    /\ recPc = "idle" /\ devices = <<>> /\ pending = NoPending
    /\ plugged \in Enumerations
    /\ sounding = [n \in Names |-> {}]
    /\ faulty = {}

-----------------------------------------------------------------------------
(***************************************************************************)
(* Sending through the manager                                             *)
(***************************************************************************)

\* Manager.Send succeeded: the synthesizer stopped off and started on.
SendOK(on, off) ==
    /\ output # None
    /\ sounding' = [sounding EXCEPT ![output] = (@ \ off) \cup on]
    /\ UNCHANGED <<output, device, faulty>>

\* Manager.Send failed.  The helper may have applied the message before it
\* died or timed out.  The output is closed and forgotten.
SendFails(on, off) ==
    /\ output # None
    /\ sounding' \in {sounding, [sounding EXCEPT ![output] = (@ \ off) \cup on]}
    /\ faulty' = faulty \cup {output}
    /\ output' = None /\ device' = NoDevice

\* Manager.Send without an output: ErrOutputUnavailable.
SendUnavailable ==
    /\ output = None
    /\ UNCHANGED portVars

\* Mutant: the notes are forgotten but their timers are not stopped.
ClearActiveKeepsTimers ==
    /\ active' = [k \in Keys |-> Absent]
    /\ UNCHANGED timers

\* clearActiveLocked, and the first half of panicLocked: every timer owned by
\* an active note is stopped, and no note is active.
ClearActive ==
    /\ timers' = {t \in timers : active[t.key].gen # t.gen}
    /\ active' = [k \in Keys |-> Absent]

\* All Notes Off on the first j channels.
UpTo(j) == {k \in Keys : k[1] <= j}

\* The send loop of panicLocked.  When one send fails the output is gone and
\* the remaining channels get nothing.
ResetOutput ==
    \/ /\ output # None
       /\ sounding' = [sounding EXCEPT ![output] = {}]
       /\ faulty' = faulty \ {output}
       /\ UNCHANGED <<output, device>>
    \/ \E j \in Channels : SendFails({}, UpTo(j))
    \/ SendUnavailable

PanicLocked == ClearActive /\ ResetOutput

-----------------------------------------------------------------------------
(***************************************************************************)
(* Scheduler                                                               *)
(***************************************************************************)

\* pruneRateWindow: how many leading start times are a full window old.
Expired ==
    CHOOSE first \in 0..Len(recent) :
        /\ \A j \in 1..first : recent[j] + Window <= now
        /\ first < Len(recent) => recent[first + 1] + Window > now

Pruned == SubSeq(recent, Expired + 1, Len(recent))

RetriggerLimited(k) ==
    k \in Voices /\ now < active[k].started + MinRetrigger

\* Mutant: one note too many per window.
RateLimitedLate == Len(Pruned) > MaxRate

RateLimited == Len(Pruned) >= MaxRate

PolyphonyLimited(k) == k \notin Voices /\ Cardinality(Voices) >= MaxPolyphony

\* Write refused by the rate or the polyphony limit.  The refusals that come
\* before pruneRateWindow (closed, retrigger interval) change nothing.
WriteRefused(k) ==
    /\ gate = "free" /\ ~closed
    /\ ~RetriggerLimited(k)
    /\ RateLimited \/ PolyphonyLimited(k)
    /\ recent' = Pruned
    /\ UNCHANGED <<now, fired, closed, gate, plugged, active, timers, nextGen,
                   trig, played, portVars, pollVars>>

\* Write accepted: a voice that is sounding is taken down first.  When its
\* Note Off fails the note is abandoned; the All Notes Off fallback finds no
\* output (Manager.Send has just closed it) and changes nothing.
WriteAccept(k, d) ==
    /\ gate = "free" /\ ~closed
    /\ now <= Horizon /\ nextGen < MaxNotes
    /\ ~RetriggerLimited(k) /\ ~RateLimited /\ ~PolyphonyLimited(k)
    /\ recent' = Pruned
    /\ \/ /\ k \notin Voices
          /\ gate' = "write"
          /\ trig' = [key |-> k, dur |-> d, at |-> now]
          /\ UNCHANGED <<active, timers, portVars>>
       \/ /\ k \in Voices
          /\ SendOK({}, {k})
          /\ timers' = {t \in timers : ~(t.key = k /\ t.gen = active[k].gen)}
          /\ active' = [active EXCEPT ![k] = Absent]
          /\ gate' = "write"
          /\ trig' = [key |-> k, dur |-> d, at |-> now]
       \/ /\ k \in Voices
          /\ SendFails({}, {k}) \/ SendUnavailable
          /\ ClearActive
          /\ UNCHANGED <<gate, trig>>
    /\ UNCHANGED <<now, fired, closed, plugged, nextGen, played, pollVars>>

\* The rest of Write: Note On, then the books and the Note Off timer.  Time
\* may have passed since the limits were checked at trig.at.
WriteNoteOn ==
    /\ gate = "write"
    /\ gate' = "free" /\ trig' = NoTrig
    /\ \/ /\ SendOK({trig.key}, {})
          /\ recent' = Append(recent, trig.at)
          /\ played' = Append(played, trig.at)
          /\ nextGen' = nextGen + 1
          /\ timers' = timers \cup
                {[key |-> trig.key, gen |-> nextGen + 1, at |-> now + trig.dur]}
          /\ active' = [active EXCEPT ![trig.key] =
                           [started |-> trig.at, gen |-> nextGen + 1]]
       \/ /\ SendFails({trig.key}, {}) \/ SendUnavailable
          /\ ClearActive
          /\ UNCHANGED <<recent, played, nextGen>>
    /\ UNCHANGED <<now, fired, closed, plugged, pollVars>>

\* A Note Off timer expires: its callback exists but does not hold the gate.
\* From here on Timer.Stop can no longer prevent it.
TimerFire ==
    \E t \in timers :
       /\ t.at <= now
       /\ timers' = timers \ {t}
       /\ fired' = fired \cup {[key |-> t.key, gen |-> t.gen]}
       /\ UNCHANGED <<now, closed, gate, plugged, active, recent, nextGen, trig,
                      played, portVars, pollVars>>

\* Mutant: a late callback stops whatever note holds its key.
StopAnyGeneration(c) ==
    /\ gate = "free"
    /\ c \in fired
    /\ fired' = fired \ {c}
    /\ \/ /\ active[c.key].gen = 0
          /\ UNCHANGED <<active, timers, portVars>>
       \/ /\ active[c.key].gen # 0
          /\ SendOK({}, {c.key})
          /\ active' = [active EXCEPT ![c.key] = Absent]
          /\ UNCHANGED timers
       \/ /\ active[c.key].gen # 0
          /\ SendFails({}, {c.key}) \/ SendUnavailable
          /\ ClearActive
    /\ UNCHANGED <<now, closed, gate, plugged, recent, nextGen, trig, played,
                   pollVars>>

\* Mutant: the callback forgets its note and sends nothing.
StopSendsNothing(c) ==
    /\ gate = "free"
    /\ c \in fired
    /\ fired' = fired \ {c}
    /\ active' = IF active[c.key].gen = c.gen
                 THEN [active EXCEPT ![c.key] = Absent] ELSE active
    /\ UNCHANGED <<now, closed, gate, plugged, timers, recent, nextGen, trig,
                   played, portVars, pollVars>>

\* stop: the callback acts only for the generation it was created for.
Stop(c) ==
    /\ gate = "free"
    /\ c \in fired
    /\ fired' = fired \ {c}
    /\ \/ /\ active[c.key].gen # c.gen
          /\ UNCHANGED <<active, timers, portVars>>
       \/ /\ active[c.key].gen = c.gen
          /\ SendOK({}, {c.key})
          /\ active' = [active EXCEPT ![c.key] = Absent]
          /\ UNCHANGED timers
       \/ /\ active[c.key].gen = c.gen
          /\ SendFails({}, {c.key}) \/ SendUnavailable
          /\ ClearActive
    /\ UNCHANGED <<now, closed, gate, plugged, recent, nextGen, trig, played,
                   pollVars>>

\* Runtime.Panic: the operator's reset; refused once the runtime is closed.
Panic ==
    /\ gate = "free" /\ ~closed
    /\ PanicLocked
    /\ UNCHANGED <<now, fired, closed, gate, plugged, recent, nextGen, trig,
                   played, pollVars>>

\* Mutant: Close does not wait for the gate.
CloseUngated ==
    /\ ~closed
    /\ closed' = TRUE
    /\ PanicLocked
    /\ UNCHANGED <<now, fired, gate, plugged, recent, nextGen, trig, played,
                   pollVars>>

\* Runtime.Close: the final reset.
Close ==
    /\ gate = "free" /\ ~closed
    /\ closed' = TRUE
    /\ PanicLocked
    /\ UNCHANGED <<now, fired, gate, plugged, recent, nextGen, trig, played,
                   pollVars>>

-----------------------------------------------------------------------------
(***************************************************************************)
(* Manager                                                                 *)
(***************************************************************************)

\* SelectDevice: exact name, then pattern, then the first port listed.
SelectDevice(list) ==
    LET named(S) == {i \in DOMAIN list : list[i] \in S}
        pool == IF named(Exact) # {} THEN named(Exact)
                ELSE IF named(Matches) # {} THEN named(Matches)
                ELSE DOMAIN list
        n == CHOOSE i \in pool : \A j \in pool : i <= j
    IN  [number |-> n, name |-> list[n]]

\* reconcile begins: the first helper process lists the ports.  A failing
\* enumeration ends the attempt and leaves everything as it is.
Discover ==
    /\ recPc = "idle"
    /\ recPc' = "select"
    /\ devices' = plugged
    /\ UNCHANGED <<now, fired, closed, gate, plugged, schedVars, portVars, pending>>

\* No port is left: an open output is to be taken out of service.
SelectNothing ==
    /\ recPc = "select" /\ devices = <<>>
    /\ recPc' = IF output # None THEN "commit" ELSE "idle"
    /\ pending' = NoPending
    /\ UNCHANGED <<now, fired, closed, gate, plugged, schedVars, portVars, devices>>

\* The selected device is the one in use.
SelectCurrent ==
    /\ recPc = "select" /\ devices # <<>>
    /\ output # None /\ device = SelectDevice(devices)
    /\ recPc' = "idle"
    /\ UNCHANGED <<now, fired, closed, gate, plugged, schedVars, portVars,
                   devices, pending>>

\* Mutant: a newly opened output is not reset before it is published.
SelectOtherNoReset ==
    /\ recPc = "select" /\ devices # <<>>
    /\ output = None \/ device # SelectDevice(devices)
    /\ SelectDevice(devices).number \in DOMAIN plugged
    /\ pending' = [port |-> plugged[SelectDevice(devices).number],
                   device |-> SelectDevice(devices)]
    /\ recPc' = "commit"
    /\ UNCHANGED <<now, fired, closed, gate, plugged, schedVars, portVars, devices>>

\* Another device is selected.  A second helper process enumerates again and
\* opens the port that has the selected number now; the new output is reset,
\* outside the gate, and waits to be committed.
SelectOther ==
    /\ recPc = "select" /\ devices # <<>>
    /\ output = None \/ device # SelectDevice(devices)
    /\ LET selected == SelectDevice(devices)
       IN  \/ /\ selected.number \in DOMAIN plugged
              /\ LET port == plugged[selected.number]
                 IN  /\ sounding' = [sounding EXCEPT ![port] = {}]
                     /\ faulty' = faulty \ {port}
                     /\ pending' = [port |-> port, device |-> selected]
              /\ recPc' = "commit"
           \/ \* the reset fails after j channels: the output is closed again
              /\ selected.number \in DOMAIN plugged
              /\ \E j \in Channels :
                    sounding' = [sounding EXCEPT ![plugged[selected.number]] =
                                    @ \ UpTo(j)]
              /\ recPc' = "idle"
              /\ UNCHANGED <<faulty, pending>>
           \/ \* open error, or a reset that fails before it has any effect
              /\ recPc' = "idle"
              /\ UNCHANGED <<sounding, faulty, pending>>
    /\ UNCHANGED <<now, fired, closed, gate, plugged, schedVars, output, device,
                   devices>>

\* Mutant: the old output is replaced without a reset.
CommitResetNothing ==
    /\ recPc = "commit" /\ gate = "free"
    /\ \/ /\ closed
          /\ recPc' = "idle" /\ pending' = NoPending
          /\ UNCHANGED gate
       \/ /\ ~closed
          /\ recPc' = "replace" /\ gate' = "transition"
          /\ UNCHANGED pending
    /\ UNCHANGED <<now, fired, closed, plugged, schedVars, portVars, devices>>

\* commitTransition takes the gate.  A closed runtime refuses and the new
\* output is closed; otherwise a connected old output is reset.
CommitReset ==
    /\ recPc = "commit" /\ gate = "free"
    /\ \/ /\ closed
          /\ recPc' = "idle" /\ pending' = NoPending
          /\ UNCHANGED <<gate, active, timers, portVars>>
       \/ /\ ~closed
          /\ recPc' = "replace" /\ gate' = "transition"
          /\ IF output # None THEN PanicLocked
             ELSE UNCHANGED <<active, timers, portVars>>
          /\ UNCHANGED pending
    /\ UNCHANGED <<now, fired, closed, plugged, recent, nextGen, trig, played,
                   devices>>

\* replaceOutputCoordinated, still under the gate: the new output is published.
CommitReplace ==
    /\ recPc = "replace"
    /\ output' = pending.port /\ device' = pending.device
    /\ pending' = NoPending
    /\ recPc' = "idle" /\ gate' = "free"
    /\ UNCHANGED <<now, fired, closed, plugged, schedVars, sounding, faulty,
                   devices>>

\* Mutant: the manager is cancelled without waiting for Runtime.Close.
ManagerStopEarly ==
    /\ recPc = "idle" /\ gate = "free"
    /\ recPc' = "stopped"
    /\ output' = None /\ device' = NoDevice
    /\ UNCHANGED <<now, fired, closed, gate, plugged, schedVars, sounding,
                   faulty, devices, pending>>

\* Run is cancelled between two polls and closes the output without a reset.
\* app.go cancels the manager only after Runtime.Close has returned.
ManagerStop ==
    /\ recPc = "idle" /\ gate = "free" /\ closed
    /\ recPc' = "stopped"
    /\ output' = None /\ device' = NoDevice
    /\ UNCHANGED <<now, fired, closed, gate, plugged, schedVars, sounding,
                   faulty, devices, pending>>

-----------------------------------------------------------------------------
(***************************************************************************)
(* Environment                                                             *)
(***************************************************************************)

\* Longest duration a note may have.
MaxDur == CHOOSE d \in Durations : \A e \in Durations : e <= d

\* The clock advances far enough for every accepted note to expire.
Tick ==
    /\ now < Horizon \/ (gate # "write" /\ now < Horizon + MaxDur)
    /\ now' = now + 1
    /\ UNCHANGED <<fired, closed, gate, plugged, schedVars, portVars, pollVars>>

\* A port appears or disappears, and the operating system renumbers the rest.
\* An open handle on a vanished port shows it by failing sends.
Replug ==
    /\ plugged' \in Enumerations
    /\ UNCHANGED <<now, fired, closed, gate, schedVars, portVars, pollVars>>

Next ==
    \/ Tick
    \/ Replug
    \/ \E k \in Keys : WriteRefused(k)
    \/ \E k \in Keys, d \in Durations : WriteAccept(k, d)
    \/ WriteNoteOn
    \/ TimerFire
    \/ \E c \in fired : Stop(c)
    \/ Panic
    \/ Close
    \/ Discover
    \/ SelectNothing
    \/ SelectCurrent
    \/ SelectOther
    \/ CommitReset
    \/ CommitReplace
    \/ ManagerStop

Spec == Init /\ [][Next]_vars

\* Go runs expired timers, keeps a running goroutine running and serves the
\* receivers of the gate's channel in arrival order, so no waiting callback
\* starves.  Nothing else is assumed to happen.
Fairness ==
    /\ WF_vars(Tick)
    /\ WF_vars(TimerFire)
    /\ WF_vars(WriteNoteOn)
    /\ WF_vars(CommitReplace)
    /\ \A k \in Keys, g \in 1..MaxNotes : SF_vars(Stop([key |-> k, gen |-> g]))

FairSpec == Spec /\ Fairness

-----------------------------------------------------------------------------
(***************************************************************************)
(* Properties                                                              *)
(***************************************************************************)

ActiveNote == [started : Nat, gen : Nat]

Timer == [key : Keys, gen : Nat \ {0}, at : Nat]

Callback == [key : Keys, gen : Nat \ {0}]

\* Every variable holds a value of the Go field it stands for.
TypeOK ==
    /\ now \in Nat
    /\ active \in [Keys -> ActiveNote]
    /\ timers \subseteq Timer
    /\ fired \subseteq Callback
    /\ recent \in Seq(Nat) /\ played \in Seq(Nat)
    /\ nextGen \in Nat
    /\ closed \in BOOLEAN
    /\ gate \in {"free", "write", "transition"}
    /\ trig \in [key : Keys, dur : Nat, at : Nat]
    /\ output \in Names \cup {None}
    /\ device \in Devices
    /\ recPc \in {"idle", "select", "commit", "replace", "stopped"}
    /\ devices \in Seq(Names)
    /\ pending \in [port : Names \cup {None}, device : Devices]
    /\ plugged \in Seq(Names)
    /\ sounding \in [Names -> SUBSET Keys]
    /\ faulty \subseteq Names

\* The pending Note Off of an active note: its timer, or its waiting callback.
HasNoteOff(k) ==
    \/ \E t \in timers : t.key = k /\ t.gen = active[k].gen
    \/ [key |-> k, gen |-> active[k].gen] \in fired

\* "One owned timer for its Note Off": an unexpired timer always belongs to the
\* current generation of its key, and every active note still has a Note Off to
\* come, whatever panics, retriggers, failures and transitions came between.
TimersOwned ==
    /\ \A t \in timers : active[t.key].gen = t.gen
    /\ \A k \in Voices : HasNoteOff(k)

\* A synthesizer none of whose sends failed since its last full reset sounds
\* nothing but the scheduler's active notes, and nothing at all unless it is
\* the selected output: no retrigger, transition, panic, replug or shutdown
\* order leaves a hanging note behind as long as the sends succeed.
SilentUnlessActive ==
    \A n \in Names \ faulty :
        sounding[n] \subseteq (IF n = output THEN Voices ELSE {})

\* The published output never sounds a key that has no Note Off to come.
\* Holds while a port keeps its number (StablePorts).
NoHangingNote ==
    output # None => sounding[output] \subseteq Voices

\* Port numbers are stable: no replug gives a known number another name.
StablePorts ==
    \A e, f \in Enumerations :
        \A i \in DOMAIN e, j \in DOMAIN f : (i = j) <=> (e[i] = f[j])

\* Never more simultaneous voices than MaximumPolyphony, counting the accepted
\* note whose Note On is being sent.
PolyphonyBound ==
    Cardinality(Voices \cup (IF gate = "write" THEN {trig.key} ELSE {}))
        <= MaxPolyphony

\* Any MaxRate + 1 consecutive notes span at least the whole window, although
\* limits are checked before the Note On and failed notes are not counted.
RateBound ==
    \A i \in DOMAIN played :
        i + MaxRate \in DOMAIN played => played[i + MaxRate] >= played[i] + Window

\* When a Note On is about to be sent its key is silent on the output in use:
\* the Note Off of a retrigger and its Note On never straddle two outputs and
\* no second note is layered over a sounding one.
NoLayeredNote ==
    gate = "write" /\ output # None => trig.key \notin sounding[output]

\* The device the manager reports as connected is the port that is open.
ReportedDeviceIsOpen ==
    output # None => device.name = output

\* A failed Note Off is answered by All Notes Off on its channel: a step that
\* loses the output while taking one note down leaves that channel silent.
FallbackSilencesChannel ==
    [][\A c \in fired, n \in Names :
          (Stop(c) /\ active[c.key].gen = c.gen /\ output = n /\ output' = None)
              => \A k \in sounding'[n] : k[1] # c.key[1]]_vars

\* What a listener of the selected output hears.
Heard == IF output = None THEN {} ELSE sounding[output]

Bank == INSTANCE VoiceBank WITH voices <- Heard, shut <- closed

\* With stable ports the runtime implements the voice bank: notes heard on the
\* selected output start one at a time, only on silent keys and below the
\* polyphony limit; a device change brings no foreign note; and Close leaves
\* nothing to hear, for good.
ImplementsVoiceBank == Bank!Spec

\* Every note sounding on the selected output is taken down there, or that
\* output is abandoned.
NotesEnd ==
    \A n \in Names, k \in Keys :
        (output = n /\ k \in sounding[n]) ~> (output # n \/ k \notin sounding[n])
=============================================================================
