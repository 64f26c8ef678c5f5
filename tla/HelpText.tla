------------------------------ MODULE HelpText ------------------------------
(***************************************************************************)
(* Texts of the help page and how detail/format_help.hpp and               *)
(* detail/format_html.hpp translate them: widths, escape sequences, line   *)
(* wrapping.  Constant level.                                              *)
(*                                                                         *)
(* A text is a sequence of units.  A unit is a blank, an escape sequence   *)
(* or a run of other characters, of which only the length matters.         *)
(***************************************************************************)
EXTENDS Integers, Sequences, SequencesExt

CONSTANT Length                    \* the number of characters of each run

Run   == DOMAIN Length
Blank == " "

Bold     == "\\fB"
Italic   == "\\fI"
Previous == "\\fP"
Fonts    == {Bold, Italic, Previous}

Hyphen    == "\\-"
Backslash == "\\\\"
Escaped   == "\\x"                 \* a backslash and any other character

Unit == Run \cup {Blank} \cup Fonts \cup {Hyphen, Backslash, Escaped}
Text == Seq(Unit)

ASSUME LengthAssumption ==
    /\ Length \in [Run -> Nat \ {0}]
    /\ Run \cap ({Blank} \cup Fonts \cup {Hyphen, Backslash, Escaped}) = {}

----------------------------------------------------------------------------
(***************************************************************************)
(* to_text drops the fonts (on a terminal they become control sequences    *)
(* without width) and the backslash of "\-"; it prints the backslash of    *)
(* every other escape sequence.                                            *)
(***************************************************************************)
PrintedWidth(u) ==
    CASE u \in Fonts -> 0
      [] u \in {Hyphen, Blank} -> 1
      [] u \in {Backslash, Escaped} -> 2
      [] OTHER -> Length[u]

(***************************************************************************)
(* text_width counts an escaped character once, unless it is the last one  *)
(* and no backslash.                                                       *)
(***************************************************************************)
CountedWidth(text, i) ==
    CASE text[i] = Backslash -> 1
      [] text[i] = Escaped -> IF i = Len(text) THEN 2 ELSE 1
      [] OTHER -> PrintedWidth(text[i])

(***************************************************************************)
(* A title goes to the screen as it was given, backslashes included.       *)
(***************************************************************************)
RawWidth(u) ==
    CASE u \in Fonts -> 3
      [] u \in {Hyphen, Backslash, Escaped} -> 2
      [] u = Blank -> 1
      [] OTHER -> Length[u]

(***************************************************************************)
(* The cells of the screen a text fills, as it is or through to_text, and  *)
(* those text_width expects it to fill; the width is their number.         *)
(***************************************************************************)
raw_width(text) ==
    Cardinality(UNION {{i} \X (1..RawWidth(text[i])) : i \in DOMAIN text})

to_text_width(text) ==
    Cardinality(UNION {{i} \X (1..PrintedWidth(text[i])) : i \in DOMAIN text})

text_width(text) ==
    Cardinality(UNION {{i} \X (1..CountedWidth(text, i)) : i \in DOMAIN text})

(***************************************************************************)
(* std::istream_iterator<std::string>: the next word behind position r of  *)
(* a text, and the position of its end.                                    *)
(***************************************************************************)
UnreadFromLast(text, r) ==                        \* mutant
    {i \in Max({r, 1})..Len(text) : text[i] # Blank}

Unread(text, r) == {i \in (r + 1)..Len(text) : text[i] # Blank}

EndOfWord(text, r) ==
    Min({j \in Min(Unread(text, r))..Len(text) : j = Len(text) \/ text[j + 1] = Blank})

WordBehind(text, r) == SubSeq(text, Min(Unread(text, r)), EndOfWord(text, r))

WordsOf(text) ==
    {WordBehind(text, r) : r \in {r \in 0..Len(text) :
                                     /\ Unread(text, r) # {}
                                     /\ r = 0 \/ text[r + 1] = Blank}}

(***************************************************************************)
(* to_html keeps a stack of the tags of one text: \fB and \fI push, \fP    *)
(* pops (of an empty stack: an assertion, or undefined without it).        *)
(* open_tags is the height of the stack behind unit n, below zero if one   *)
(* too many was popped.                                                    *)
(***************************************************************************)
UnitsUpTo(text, n, units) == Cardinality({i \in 1..n : text[i] \in units})

open_tags(text, n) == UnitsUpTo(text, n, {Bold, Italic}) - UnitsUpTo(text, n, {Previous})

ClosesItsTags(text) ==
    /\ \A n \in DOMAIN text : open_tags(text, n) >= 0
    /\ open_tags(text, Len(text)) = 0

----------------------------------------------------------------------------
(***************************************************************************)
(* console_layout_struct                                                   *)
(***************************************************************************)
defaultScreenWidth == 80
maximalScreenWidth == 120
minimalScreenWidth == 40
leftPadding        == 4
centerPadding      == 2
rightPadding       == 2
leftColumnWidth    == 4
rightColumnTab     == leftPadding + leftColumnWidth + centerPadding

screenWidth(terminal_width) ==
    LET guessed == IF terminal_width > 0 THEN terminal_width ELSE defaultScreenWidth
    IN  Min({Max({guessed, minimalScreenWidth}), maximalScreenWidth}) - rightPadding

(***************************************************************************)
(* The screen as its reader sees it: the column of the cursor, the words   *)
(* of the current text on the current line, whether the line is still      *)
(* empty, the empty lines above it, the most empty lines the running print *)
(* call has put above one of its lines, and whether a word that had        *)
(* another one of its text to the left was printed across the right edge.  *)
(***************************************************************************)
Screen == [column : Nat, words : Nat, empty : BOOLEAN, above : Nat, gap : Nat,
           overfull : BOOLEAN]

ClearScreen ==
    [column |-> 0, words |-> 0, empty |-> TRUE, above |-> 0, gap |-> 0, overfull |-> FALSE]

Newline(scr) ==
    [scr EXCEPT !.column = 0, !.words = 0, !.empty = TRUE,
                !.above = IF scr.empty THEN @ + 1 ELSE 0]

Spaces(scr, n) == [scr EXCEPT !.column = @ + n]

PutCells(scr, width, edge) ==
    LET column == scr.column + width
        first  == scr.empty /\ column # scr.column
    IN  [scr EXCEPT !.column = column,
                    !.words = @ + 1,
                    !.empty = @ /\ ~first,
                    !.gap = IF first THEN Max({@, scr.above}) ELSE @,
                    !.overfull = @ \/ (scr.words > 0 /\ column > edge)]

Put(scr, text, edge) == PutCells(scr, to_text_width(text), edge)

Indented(scr, tab) == Spaces(Newline(scr), tab)
=============================================================================
