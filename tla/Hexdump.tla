-------------------------------- MODULE Hexdump --------------------------------
(***************************************************************************)
(* utils.py: the palette that _dumpstruct makes from the sizes of the      *)
(* fields, and the rows of _hexdump, cell by cell.  Of the text, the       *)
(* colours are kept: what the terminal is switched to, and the colours     *)
(* that the number and the character of each byte come out in.             *)
(***************************************************************************)
EXTENDS Integers, SequencesExt

CONSTANTS
    RowWidth,       \* bytes in a row: the literal 16 of the code
    Colours,        \* how many colours _dumpstruct takes in turn
    FieldSizes,     \* what Instance._size returns for a field
    MaxListed,      \* bound on the fields
    MaxDumped,      \* bound on the bytes
    Unsized,        \* a field without an entry in _sizes: a KeyError
    Normal          \* no colour

ASSUME HexdumpAssumption == /\ RowWidth \in Nat \ {0}
                            /\ Colours \in Nat \ {0}
                            /\ FieldSizes \subseteq Nat \cup {Unsized}
                            /\ MaxListed \in Nat
                            /\ MaxDumped \in Nat
                            /\ Unsized \notin Nat
                            /\ Normal \notin Nat

VARIABLES
    sizes,          \* of the fields of the structure
    coloured,       \* dumpstruct's argument color
    length,         \* of the data
    palette,        \* <<size, colour>> of the fields whose turn is still to come
    listed,         \* fields _dumpstruct has gone through
    cell,           \* cells of the dump done, counted over all rows
    remaining, active,
    terminal,       \* the colour that the text has switched to
    painted         \* the two colours of each byte that was written

hexdumpVars == <<sizes, coloured, length, palette, listed, cell, remaining, active,
                 terminal, painted>>

HexdumpInit ==
    /\ sizes \in UNION {[1 .. n -> FieldSizes] : n \in 0 .. MaxListed}
    /\ coloured \in BOOLEAN
    /\ length \in 0 .. MaxDumped
    /\ palette = <<>>
    /\ listed = 0
    /\ cell = 0
    /\ remaining = 0
    /\ active = Normal
    /\ terminal = Normal
    /\ painted = <<>>

-----------------------------------------------------------------------------

\* An iteration of the loop of _dumpstruct; KeyError for a field without a size
ListField ==
    /\ listed < Len(sizes)
    /\ coloured => sizes[listed + 1] # Unsized
    /\ palette' = IF coloured
                  THEN Append(palette, <<sizes[listed + 1], listed % Colours>>)
                  ELSE palette
    /\ listed' = listed + 1
    /\ UNCHANGED <<sizes, coloured, length, cell, remaining, active, terminal, painted>>

Cells == ((length + RowWidth - 1) \div RowWidth) * RowWidth

\* The next entry of the palette, when the last one is used up
NextEntry == active = Normal /\ palette # <<>>

EntryActive == IF NextEntry THEN Head(palette)[2] ELSE active
EntryRemaining == IF NextEntry THEN Head(palette)[1] ELSE remaining

\* CellColour, if the colour were not repeated at the start of a row
CellColourOnce == IF NextEntry THEN EntryActive ELSE terminal

\* The text switches to the colour for a new entry, and at the start of a row.
CellColour ==
    IF NextEntry \/ (cell % RowWidth = 0 /\ active # Normal) THEN EntryActive
    ELSE terminal

LastOfRow == cell % RowWidth = RowWidth - 1

\* The characters that follow the row end their own colours.
CharactersColoured ==
    \E b \in DOMAIN painted : b > cell - (cell % RowWidth) /\ painted[b][2] # Normal

Dumping ==
    /\ listed = Len(sizes)
    /\ cell < Cells
    /\ cell' = cell + 1
    /\ palette' = IF NextEntry THEN Tail(palette) ELSE palette
    /\ UNCHANGED <<sizes, coloured, length, listed>>

\* PaintByte, if a row did not end its colour
PaintByteOn ==
    /\ Dumping
    /\ cell < length
    /\ painted' = Append(painted, <<CellColour, EntryActive>>)
    /\ remaining' = EntryRemaining - 1
    /\ active' = IF remaining' = 0 THEN Normal ELSE EntryActive
    /\ terminal' = IF remaining' = 0 THEN Normal ELSE CellColour

PaintByte ==
    /\ Dumping
    /\ cell < length
    /\ painted' = Append(painted, <<CellColour, EntryActive>>)
    /\ remaining' = EntryRemaining - 1
    /\ active' = IF remaining' = 0 THEN Normal ELSE EntryActive
    /\ terminal' = IF remaining' = 0 \/ LastOfRow THEN Normal ELSE CellColour

\* A cell after the last byte, which takes an entry of the palette all the same
PadCell ==
    /\ Dumping
    /\ cell >= length
    /\ active' = EntryActive
    /\ remaining' = EntryRemaining
    /\ terminal' = IF LastOfRow /\ CharactersColoured THEN Normal ELSE CellColour
    /\ UNCHANGED painted

HexdumpNext == ListField \/ PaintByte \/ PadCell

HexdumpSpec == HexdumpInit /\ [][HexdumpNext]_hexdumpVars

-----------------------------------------------------------------------------
(* Properties *)

(***************************************************************************)
(* utils.py: the loop variables of _dumpstruct and _hexdump.               *)
(***************************************************************************)
HexdumpTypeOK ==
    /\ listed \in 0 .. Len(sizes)
    /\ cell \in 0 .. Cells
    /\ Len(painted) <= length
    /\ \A c \in {active, terminal} \cup UNION {ToSet(p) : p \in ToSet(painted)} :
           c = Normal \/ c \in 0 .. Colours - 1
    /\ remaining \in Int

\* Where the fields end, the bytes before the first one being none
Ends == LET end[k \in 0 .. Len(sizes)] == IF k = 0 THEN 0 ELSE end[k - 1] + sizes[k]
        IN end

\* The fields have a byte at least, and all of their bytes are in the data.
Exact ==
    /\ \A k \in DOMAIN sizes : sizes[k] \notin {Unsized, 0}
    /\ Ends[Len(sizes)] <= length

Owners(b) == {k \in DOMAIN sizes : b > Ends[k - 1] /\ b <= Ends[k]}

\* The colour of the field that byte b belongs to
OwnColour(b) == IF coloured /\ Owners(b) # {} THEN (Max(Owners(b)) - 1) % Colours
                ELSE Normal

(***************************************************************************)
(* dumpstruct: the number and the character of a byte have the colour of   *)
(* the field it belongs to, in every row, and none if it belongs to none.  *)
(***************************************************************************)
BytesHaveTheirColour ==
    Exact => \A b \in DOMAIN painted : painted[b] = <<OwnColour(b), OwnColour(b)>>

(***************************************************************************)
(* _hexdump, when the sizes are exact: a row leaves the terminal as it     *)
(* found it, and what the program writes after the dump is not coloured.   *)
(* A field of no size may leave a colour on.                               *)
(***************************************************************************)
RowsEndNormal == Exact /\ cell % RowWidth = 0 => terminal = Normal

=============================================================================
