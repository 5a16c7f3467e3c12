------------------------------ MODULE MCFileIO ------------------------------
(* Small instances of FileIO: a short piece of data and one that covers    *)
(* more than a block.                                                      *)
EXTENDS FileIO

CONSTANTS zero, x, y, junk

Bytes3 == {zero, x, y}
Pieces == {<<x>>, <<y, x, y>>}
LongPieces == {<<x, x, x>>}
PlainPieces == {<<x>>, <<x, x, x>>}
Pieces3 == {<<x>>, <<y, y>>, <<x, y, y>>}

AllHabits == {"append", "inside", "exclusive", "closed", "space"}
NotAppend == AllHabits \ {"append"}
NotInside == AllHabits \ {"inside"}
NotExclusive == AllHabits \ {"exclusive"}
Careless == {"closed"}
NotSpace == AllHabits \ {"space"}
=============================================================================
