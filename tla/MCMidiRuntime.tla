--------------------------- MODULE MCMidiRuntime ---------------------------
(***************************************************************************)
(* Small instances of MidiRuntime: two synthesizers, two channels with one *)
(* pitch each, notes of one or two ticks.                                  *)
(***************************************************************************)
EXTENDS MidiRuntime

CONSTANTS A, B

\* Ports that keep their numbers: B, the preferred one, is listed after A.
StableLists == {<<>>, <<A>>, <<A, B>>}

\* Ports that are renumbered when A is unplugged.
ShiftingLists == {<<>>, <<B>>, <<A, B>>}
\* One port that comes and goes.
OneList == {<<>>, <<A>>}
=============================================================================
