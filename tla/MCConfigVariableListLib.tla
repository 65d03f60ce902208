---------------------- MODULE MCConfigVariableListLib ----------------------
(***************************************************************************)
(* ConfigVariableListLib with 4-bit sizes and blocks of at least 3 bytes.  *)
(***************************************************************************)
EXTENDS ConfigVariableListLib

Block(size, data, names, ok) == [NameSize |-> size, DataSize |-> data, alike |-> names, crcOk |-> ok]
Knob(n) == {n}

\* Two names, blocks with too few bytes for a name and with a name that both begin with,
\* a bad CRC, a block that is larger than most buffers, and sizes whose sum exceeds
\* 4 bits: by a little, and by so much that it wraps to 3.
MCBlocks ==
  { Block(2, 0, Knob("knobA"), TRUE), Block(2, 1, Knob("knobB"), TRUE), Block(0, 0, Names, TRUE),
    Block(1, 2, Names, TRUE), Block(2, 0, Names, TRUE), Block(2, 0, Knob("knobA"), FALSE),
    Block(2, 6, Knob("knobB"), TRUE), Block(13, 0, Knob("knobA"), TRUE), Block(2, 14, Knob("knobB"), TRUE) }
=============================================================================
