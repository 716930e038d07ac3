----------------------------- MODULE VoiceBank -----------------------------
(***************************************************************************)
(* What the MIDI runtime promises a listener of the selected synthesizer:  *)
(* a bank of at most MaxPolyphony voices in which a note starts only where *)
(* none sounds, notes end in any order and number (Note Off, panic, device *)
(* loss), and nothing sounds any more once the runtime is shut.            *)
(***************************************************************************)
EXTENDS Naturals, FiniteSets

CONSTANTS Keys, MaxPolyphony

VARIABLES voices, shut

Init == voices = {} /\ shut = FALSE

Attack(k) ==
    /\ ~shut
    /\ k \notin voices
    /\ Cardinality(voices) < MaxPolyphony
    /\ voices' = voices \cup {k}
    /\ UNCHANGED shut

Release ==
    /\ voices' \in SUBSET voices
    /\ UNCHANGED shut

Shut ==
    /\ ~shut
    /\ shut' = TRUE
    /\ voices' = {}

Next == (\E k \in Keys : Attack(k)) \/ Release \/ Shut

Spec == Init /\ [][Next]_<<voices, shut>>
=============================================================================
