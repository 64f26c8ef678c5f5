------------------------------ MODULE HelpPage ------------------------------
(***************************************************************************)
(* How a page is printed.  parser::parse() runs the deferred add_* calls   *)
(* on the chosen format, which stores what it will show; then the parse()  *)
(* of the format makes its print calls, and format_help, format_html or    *)
(* format_man carries each of them out with a little state of its own.     *)
(*                                                                         *)
(* The output is not kept; its reader is: what a screen, a browser or man  *)
(* has seen so far.  The readers are history variables.                    *)
(***************************************************************************)
EXTENDS Page

CONSTANTS
    Programs,        \* the applications: their calls and their meta data
    TerminalWidths   \* what get_terminal_width can return

ASSUME ProgramsAssumption ==
    /\ Programs \subseteq Program
    /\ TerminalWidths \subseteq Nat

VARIABLES
    program,
    format,
    screen_width,          \* layout.screenWidth
    pc,
    next,                  \* the operation that is next
    stored,                \* the vectors of format_help_base
    spelled,               \* the elements of the synopsis that synopsis_line has
    synopsis_line,         \* the synopsis that is being generated
    page,                  \* the print calls parse() makes ...
    at,                    \* ... and the one that comes next
    prev_was_paragraph,    \* the member of format_help
    read, pos,             \* its print_text: what it has read of the text, and pos
    is_dl, is_p,           \* the members of format_html
    is_first_in_section,   \* the member of format_man
    screen,                \* reader of format_help
    open,                  \* reader of format_html: the open elements of the body
    roff                   \* reader of format_man

chosen  == <<program, format, screen_width>>
members == <<prev_was_paragraph, read, pos, is_dl, is_p, is_first_in_section>>
readers == <<screen, open, roff>>
built   == <<stored, spelled, synopsis_line, page>>
vars    == <<chosen, pc, next, built, at, members, readers>>

Derived == IF format \in {"html", "man"} THEN format ELSE "help"

NothingRead == [last |-> "nothing", run_on |-> FALSE, loose |-> FALSE]

Init ==
    /\ program \in Programs
    /\ format \in Formats
    /\ screen_width \in {screenWidth(w) : w \in IF Derived = "help" THEN TerminalWidths ELSE {0}}
    /\ pc = "operations" /\ next = 1
    /\ stored = NothingStored /\ spelled = {} /\ synopsis_line = <<>>
    /\ page = <<>> /\ at = 1
    /\ prev_was_paragraph = FALSE
    /\ read = 0 /\ pos = 0
    /\ is_dl = FALSE /\ is_p = FALSE
    /\ is_first_in_section = TRUE
    /\ screen = ClearScreen /\ open = <<>> /\ roff = NothingRead

----------------------------------------------------------------------------
(***************************************************************************)
(* The operations: add_option and add_flag store the list item and the     *)
(* synopsis element, each behind its own copy of the same condition.       *)
(***************************************************************************)
Operation == program.entries[next]

RunsNext(kinds) ==
    /\ pc = "operations"
    /\ next \in DOMAIN program.entries
    /\ Operation.kind \in kinds
    /\ next' = next + 1
    /\ UNCHANGED <<chosen, pc, spelled, synopsis_line, page, at, members, readers>>

AddOptionOrFlag ==
    /\ RunsNext({"option", "flag"})
    /\ stored' = store_synopsis(
                    store_help_page_element(stored, Operation, next, ShowsAdvanced(format)),
                    Operation, next, ShowsAdvanced(format))

AddPositionalOption ==
    /\ RunsNext({"positional"})
    /\ stored' = store_positional(stored, next)

AddText ==
    /\ RunsNext({"section", "subsection", "line", "item"})
    /\ stored' = store_help_page_element(stored, Operation, next, ShowsAdvanced(format))

(***************************************************************************)
(* parse() of the format.  A synopsis the application has set is kept;     *)
(* otherwise one is generated, unless there is nothing to put into it.     *)
(***************************************************************************)
PrintsSynopsis == format \notin {"version", "copyright"}

GeneratesSynopsis ==
    PrintsSynopsis /\ program.meta.synopsis = <<>> /\ stored.synopsis # <<>>

BeginParse ==
    /\ pc = "operations"
    /\ next \notin DOMAIN program.entries
    /\ \/ /\ GeneratesSynopsis
          /\ synopsis_line' = program.executable
          /\ pc' = "synopsis"
          /\ page' = page
       \/ /\ ~GeneratesSynopsis
          /\ page' = PageOf(format, program, stored, program.meta.synopsis)
          /\ pc' = "print"
          /\ synopsis_line' = synopsis_line
    /\ UNCHANGED <<chosen, next, stored, spelled, at, members, readers>>

Element(i) == program.entries[stored.synopsis[i]]

Unspelled == DOMAIN stored.synopsis \ spelled

AddToSynopsis ==
    /\ pc = "synopsis"
    /\ \E i \in Unspelled :
          /\ \A j \in Unspelled : Precedes(Element(i), i, Element(j), j)
          /\ synopsis_line' =
                synopsis_line
                \o Spelled(Element(i),
                           /\ Element(i).kind = "positional"
                           /\ \A j \in spelled : Element(j).kind # "positional")
          /\ spelled' = spelled \cup {i}
    /\ UNCHANGED <<chosen, pc, next, stored, page, at, members, readers>>

FinishSynopsis ==
    /\ pc = "synopsis"
    /\ Unspelled = {}
    /\ page' = PageOf(format, program, stored, <<synopsis_line>>)
    /\ pc' = "print"
    /\ UNCHANGED <<chosen, next, stored, spelled, synopsis_line, at, members, readers>>

----------------------------------------------------------------------------
TheCall == page[at]

Prints(derived, kinds) ==
    /\ pc = "print"
    /\ Derived = derived
    /\ TheCall.kind \in kinds
    /\ at' = at + 1
    /\ UNCHANGED <<chosen, next, built>>

NextOfPastTheEnd(n) ==                            \* mutant
    IF n > Len(page) THEN "done" ELSE "print"

NextOf(n) == IF n = Len(page) THEN "done" ELSE "print"

(***************************************************************************)
(* The insert of print_synopsis at a blank that is not there.              *)
(***************************************************************************)
SynopsisThrows ==
    /\ pc = "print"
    /\ TheCall.kind = "throw"
    /\ pc' = "thrown"
    /\ UNCHANGED <<chosen, next, built, at, members, readers>>

----------------------------------------------------------------------------
(***************************************************************************)
(* format_help                                                             *)
(***************************************************************************)
PrintsHelp(kinds) ==
    Prints("help", kinds) /\ UNCHANGED <<is_dl, is_p, is_first_in_section, open, roff>>

Begun == [screen EXCEPT !.gap = 0]

FullLine(scr, width) == Newline(PutCells(scr, width, screen_width))

\* The name and a rule below it; a block of the copyright page.
HelpHeader ==
    /\ PrintsHelp({"header", "block"})
    /\ screen' = FullLine(FullLine(Begun, raw_width(OwnText)), text_width(OwnText))
    /\ pc' = NextOf(at)
    /\ UNCHANGED <<prev_was_paragraph, read, pos>>

HelpHeading ==
    /\ PrintsHelp({"section", "subsection"})
    /\ LET indent == IF TheCall.kind = "section" THEN 0 ELSE leftPadding \div 2
       IN  screen' = FullLine(Spaces(Newline(Begun), indent), raw_width(TheCall.text))
    /\ prev_was_paragraph' = FALSE
    /\ pc' = NextOf(at)
    /\ UNCHANGED <<read, pos>>

BehindParagraphOnly == Newline(Begun)             \* mutant

BehindParagraph == IF prev_was_paragraph THEN Newline(Begun) ELSE Begun

\* print_text begins: the cursor is at column, the tab.
BeginText(column) ==
    /\ pc' = "text"
    /\ read' = 0
    /\ pos' = column

HelpLine ==
    /\ PrintsHelp({"line"})
    /\ screen' = [Spaces(BehindParagraph, leftPadding) EXCEPT !.words = 0]
    /\ prev_was_paragraph' = TheCall.paragraph
    /\ BeginText(leftPadding)

HelpListItem ==
    /\ PrintsHelp({"item"})
    /\ LET term   == Put(Spaces(BehindParagraph, leftPadding), TheCall.key, screen_width)
           column == leftPadding + text_width(TheCall.key)
           below  == column + centerPadding > rightColumnTab
           beside == IF below THEN Newline(term) ELSE term
           gutter == rightColumnTab - (IF below THEN 0 ELSE column)
       IN  \/ /\ TheCall.text # <<>>
              /\ screen' = [Spaces(beside, gutter) EXCEPT !.words = 0]
              /\ BeginText(rightColumnTab)
           \/ /\ TheCall.text = <<>>
              /\ screen' = beside
              /\ pc' = NextOf(at)
              /\ UNCHANGED <<read, pos>>
    /\ prev_was_paragraph' = FALSE

HelpFooter ==
    /\ PrintsHelp({"footer"})
    /\ pc' = NextOf(at)
    /\ UNCHANGED <<prev_was_paragraph, read, pos, screen>>

(***************************************************************************)
(* print_text, a word a step.  The first word always goes on the current   *)
(* line, another one on the next line if pos says that it does not fit.    *)
(***************************************************************************)
TheText == page[at - 1]

Tab(call) == IF call.kind = "item" THEN rightColumnTab ELSE leftPadding

PrintsWord ==
    /\ pc = "text"
    /\ Unread(TheText.text, read) # {}
    /\ read' = EndOfWord(TheText.text, read)
    /\ UNCHANGED <<chosen, pc, next, built, at, prev_was_paragraph, is_dl, is_p,
                   is_first_in_section, open, roff>>

Word == WordBehind(TheText.text, read)

IsFirstWord == Unread(SubSeq(TheText.text, 1, read), 0) = {}

FirstWord ==
    /\ PrintsWord
    /\ IsFirstWord
    /\ LET printed == Put(screen, Word, screen_width)
           width   == text_width(Word)
       IN  \/ /\ pos + width > screen_width
              /\ screen' = Indented(printed, Tab(TheText))
              /\ pos' = Tab(TheText)
           \/ /\ pos + width <= screen_width
              /\ screen' = printed
              /\ pos' = pos + width

NextWordWithoutBlank ==                           \* mutant
    /\ PrintsWord
    /\ ~IsFirstWord
    /\ \/ /\ pos + text_width(Word) > screen_width
          /\ screen' = Put(Indented(screen, Tab(TheText)), Word, screen_width)
          /\ pos' = Tab(TheText) + text_width(Word)
       \/ /\ pos + text_width(Word) <= screen_width
          /\ screen' = Put(Spaces(screen, 1), Word, screen_width)
          /\ pos' = pos + text_width(Word) + 1

NextWord ==
    /\ PrintsWord
    /\ ~IsFirstWord
    /\ \/ /\ pos + 1 + text_width(Word) > screen_width
          /\ screen' = Put(Indented(screen, Tab(TheText)), Word, screen_width)
          /\ pos' = Tab(TheText) + text_width(Word)
       \/ /\ pos + 1 + text_width(Word) <= screen_width
          /\ screen' = Put(Spaces(screen, 1), Word, screen_width)
          /\ pos' = pos + text_width(Word) + 1

EndText ==
    /\ pc = "text"
    /\ Unread(TheText.text, read) = {}
    /\ screen' = IF IsFirstWord THEN screen ELSE Newline(screen)
    /\ pc' = NextOf(at - 1)
    /\ UNCHANGED <<chosen, next, built, at, members, open, roff>>

----------------------------------------------------------------------------
(***************************************************************************)
(* format_html.  An element may only be opened where HTML allows it and    *)
(* only the innermost one may be closed; everything else breaks the page.  *)
(***************************************************************************)
PrintsHtml(kinds) ==
    /\ Prints("html", kinds)
    /\ UNCHANGED <<prev_was_paragraph, read, pos, is_first_in_section, screen, roff>>
    /\ pc' = NextOf(at)

Broken == <<"broken">>

Opened(elements, tag) ==
    IF elements = (IF tag \in {"dt", "dd"} THEN <<"dl">> ELSE <<>>) THEN Append(elements, tag)
    ELSE Broken

Closed(elements, tag) ==
    IF elements # <<>> /\ elements[Len(elements)] = tag
    THEN SubSeq(elements, 1, Len(elements) - 1)
    ELSE Broken

Whole(elements, tag) == Closed(Opened(elements, tag), tag)

maybe_close_list(elements) == IF is_dl THEN Closed(elements, "dl") ELSE elements

maybe_close_paragraph(elements) == IF is_p THEN Closed(elements, "p") ELSE elements

HtmlHeader ==
    /\ PrintsHtml({"header"})
    /\ open' = Whole(Whole(open, "h1"), "div")
    /\ UNCHANGED <<is_dl, is_p>>

HtmlHeadingInList ==                              \* mutant
    /\ PrintsHtml({"section", "subsection"})
    /\ open' = Whole(maybe_close_paragraph(open),
                     IF TheCall.kind = "section" THEN "h2" ELSE "h3")
    /\ is_p' = FALSE
    /\ UNCHANGED is_dl

HtmlHeading ==
    /\ PrintsHtml({"section", "subsection"})
    /\ open' = Whole(maybe_close_paragraph(maybe_close_list(open)),
                     IF TheCall.kind = "section" THEN "h2" ELSE "h3")
    /\ is_dl' = FALSE /\ is_p' = FALSE

HtmlLine ==
    /\ PrintsHtml({"line"})
    /\ LET listClosed == maybe_close_list(open)
           inside     == IF is_p THEN listClosed ELSE Opened(listClosed, "p")
       IN  open' = IF TheCall.paragraph THEN Closed(inside, "p") ELSE inside
    /\ is_dl' = FALSE
    /\ is_p' = ~TheCall.paragraph

HtmlListItem ==
    /\ PrintsHtml({"item"})
    /\ LET paragraphClosed == maybe_close_paragraph(open)
           inside == IF is_dl THEN paragraphClosed ELSE Opened(paragraphClosed, "dl")
       IN  open' = Whole(Whole(inside, "dt"), "dd")
    /\ is_dl' = TRUE
    /\ is_p' = FALSE

HtmlFooterClosingNothing ==                       \* mutant
    PrintsHtml({"footer"}) /\ UNCHANGED <<is_dl, is_p, open>>

HtmlFooter ==
    /\ PrintsHtml({"footer"})
    /\ open' = maybe_close_paragraph(open)
    /\ is_p' = FALSE
    /\ UNCHANGED is_dl

----------------------------------------------------------------------------
(***************************************************************************)
(* format_man.  man fills a text line up with the next one unless a        *)
(* request stands between them (run_on), and a request for space or for a  *)
(* break right below a heading would show (loose).                         *)
(***************************************************************************)
PrintsMan(kinds) ==
    /\ Prints("man", kinds)
    /\ UNCHANGED <<prev_was_paragraph, read, pos, is_dl, is_p, screen, open>>
    /\ pc' = NextOf(at)

Request(r, request) ==
    [r EXCEPT !.last = request,
              !.loose = @ \/ (request = "space" /\ r.last = "heading")]

TextLine(r) == [r EXCEPT !.last = "text", !.run_on = @ \/ r.last = "text"]

\* ".TH", ".SH NAME" and the name.
ManHeader ==
    /\ PrintsMan({"header"})
    /\ roff' = TextLine(Request(roff, "heading"))
    /\ UNCHANGED is_first_in_section

ManHeadingWithinSection ==                        \* mutant
    /\ PrintsMan({"section", "subsection"})
    /\ roff' = Request(roff, "heading")
    /\ UNCHANGED is_first_in_section

ManHeading ==
    /\ PrintsMan({"section", "subsection"})
    /\ roff' = Request(roff, "heading")
    /\ is_first_in_section' = TRUE

ManLine ==
    /\ PrintsMan({"line"})
    /\ roff' = TextLine(IF is_first_in_section THEN roff ELSE Request(roff, "space"))
    /\ is_first_in_section' = FALSE

\* ".TP", the term in a line of its own, the description.
ManListItem ==
    /\ PrintsMan({"item"})
    /\ roff' = [Request(roff, "tag") EXCEPT !.last = "text"]
    /\ is_first_in_section' = FALSE

ManFooter ==
    /\ PrintsMan({"footer"})
    /\ UNCHANGED <<is_first_in_section, roff>>

----------------------------------------------------------------------------
(***************************************************************************)
(* parse() of the format has returned or thrown.                           *)
(***************************************************************************)
Returned == pc \in {"done", "thrown"} /\ UNCHANGED vars

Next ==
    \/ AddOptionOrFlag
    \/ AddPositionalOption
    \/ AddText
    \/ BeginParse
    \/ AddToSynopsis
    \/ FinishSynopsis
    \/ SynopsisThrows
    \/ HelpHeader
    \/ HelpHeading
    \/ HelpLine
    \/ HelpListItem
    \/ HelpFooter
    \/ FirstWord
    \/ NextWord
    \/ EndText
    \/ HtmlHeader
    \/ HtmlHeading
    \/ HtmlLine
    \/ HtmlListItem
    \/ HtmlFooter
    \/ ManHeader
    \/ ManHeading
    \/ ManLine
    \/ ManListItem
    \/ ManFooter
    \/ Returned

(***************************************************************************)
(* The thread that called parse() runs until it returns.                   *)
(***************************************************************************)
Spec == Init /\ [][Next]_vars /\ WF_vars(Next)

----------------------------------------------------------------------------
(***************************************************************************)
(* The type of the state.                                                  *)
(***************************************************************************)
TypeOK ==
    /\ program \in Program
    /\ format \in Formats
    /\ screen_width \in (minimalScreenWidth - rightPadding)..(maximalScreenWidth - rightPadding)
    /\ pc \in {"operations", "synopsis", "print", "text", "done", "thrown"}
    /\ next \in Nat \ {0}
    /\ stored \in Stored
    /\ spelled \subseteq DOMAIN stored.synopsis
    /\ StoresEntries(program, stored)
    /\ synopsis_line \in Text
    /\ page \in Seq(Call)
    /\ at \in Nat \ {0}
    /\ pc = "print" => at \in DOMAIN page
    /\ pc = "text" => at - 1 \in DOMAIN page
    /\ read \in Nat /\ pos \in Nat
    /\ {prev_was_paragraph, is_dl, is_p, is_first_in_section} \subseteq BOOLEAN
    /\ screen \in Screen
    /\ roff \in [last : {"nothing", "heading", "space", "tag", "text"}, run_on : BOOLEAN,
                 loose : BOOLEAN]

(***************************************************************************)
(* Whatever is printed after whatever, the open HTML elements are those    *)
(* the two flags tell of, no heading stands inside a list or a paragraph,  *)
(* and no tag is closed that is not the innermost open one.  "Current <dl> *)
(* and <p> are mutually exclusive" (format_html.hpp:99, :110, :123 and     *)
(* :148, where the assertion is commented out).                            *)
(***************************************************************************)
OpenElements == IF is_dl THEN <<"dl">> ELSE IF is_p THEN <<"p">> ELSE <<>>

ElementsNest == ~(is_dl /\ is_p) /\ open = OpenElements

(***************************************************************************)
(* A finished HTML page has no open element, unless the list of citations  *)
(* is the last thing on it: print_footer closes a paragraph only.          *)
(***************************************************************************)
EndsInCitations == program.meta.citation # <<>> /\ ~program.meta.long_copyright

HtmlIsClosed ==
    pc = "done" /\ format = "html" /\ ~EndsInCitations => open = <<>>

(***************************************************************************)
(* If the application closes in each of its texts the fonts it opens and   *)
(* no other one, so does every text of the page, and to_html always finds  *)
(* the tag it closes: the formats put identifiers, types, defaults, the    *)
(* generated synopsis and the first word of every synopsis together from   *)
(* pieces, each with fonts of its own.                                     *)
(***************************************************************************)
TextsOf(p) ==
    {p.executable}
    \cup Range(p.meta.synopsis) \cup Range(p.meta.description) \cup Range(p.meta.examples)
    \cup Range(p.meta.citation)
    \cup UNION {{e.key, e.text, e.value, e.default_message, e.message} : e \in Range(p.entries)}

FontsAreClosed ==
    pc = "print" /\ (\A t \in TextsOf(program) : ClosesItsTags(t)) =>
        ClosesItsTags(TheCall.key) /\ ClosesItsTags(TheCall.text)

(***************************************************************************)
(* man neither runs two texts together nor puts space below a heading.     *)
(***************************************************************************)
ManKeepsTextsApart == ~roff.run_on /\ ~roff.loose

----------------------------------------------------------------------------
(***************************************************************************)
(* A text with a word ends its line, so that what follows begins on a line *)
(* of its own; and a text is below one empty line if it is a heading or    *)
(* follows a paragraph and below none otherwise (prev_was_paragraph,       *)
(* format_help.hpp:159 and :184).  Three kinds of texts are not covered by *)
(* the first or the second part: one without a word, which leaves the      *)
(* cursor where it is, against parser.hpp:582; a word or a title without   *)
(* width, whose line looks empty; and a first word that does not fit next  *)
(* to the indentation, behind which the code breaks the line twice.        *)
(***************************************************************************)
EndsItsLine(call) ==
    \/ call.kind \in {"header", "block", "section", "subsection"}
    \/ call.kind \in {"line", "item"} /\ WordsOf(call.text) # {}

IsHeading(call) == call.kind \in {"section", "subsection"}

LeavesNoEmptyLine(call) ==
    \/ call.kind = "header"
    \/ IsHeading(call) /\ call.text # <<>>
    \/ /\ call.kind \in {"line", "item"}
       /\ WordsOf(call.text) # {}
       /\ \A w \in WordsOf(call.text) : to_text_width(w) > 0
       /\ Tab(call) + text_width(WordBehind(call.text, 0)) <= screen_width

LineIsOver == at > 1 /\ EndsItsLine(page[at - 1]) => screen.column = 0

GapIsRight ==
    at > 2 /\ LeavesNoEmptyLine(page[at - 2]) /\ LeavesNoEmptyLine(page[at - 1]) =>
        LET above == page[at - 2]
            below == page[at - 1]
        IN  screen.gap = IF IsHeading(below) \/ (above.kind = "line" /\ above.paragraph)
                         THEN 1 ELSE 0

TextsAreSetApart == Derived = "help" /\ pc # "text" => LineIsOver /\ GapIsRight

(***************************************************************************)
(* No word is printed across the right edge of the screen if another word  *)
(* of its text stands to its left.  Two texts before it can shift a line:  *)
(* one with an escape sequence that is counted with a character less than  *)
(* to_text prints, and one without a word, which does not end its line.    *)
(***************************************************************************)
Miscounted(text) == text_width(text) # to_text_width(text)

ShiftsLine(call) ==
    /\ call.kind \in {"line", "item"}
    /\ \/ Unread(call.text, 0) = {}
       \/ Miscounted(call.key)
       \/ \E w \in WordsOf(call.text) : Miscounted(w)

LinesFit == screen.overfull => \E k \in 1..(at - 1) : ShiftsLine(page[k])

----------------------------------------------------------------------------
(***************************************************************************)
(* The synopsis of a page shows exactly the options, flags and positional  *)
(* options its lists show, and neither shows what is hidden.               *)
(***************************************************************************)
Shown(n) == \E k \in DOMAIN page : page[k].of = n

InSynopsis(n) == \E k \in DOMAIN stored.synopsis : stored.synopsis[k] = n

LaidOut == pc = "print" /\ at = 1

SynopsisAgreesWithPage ==
    LaidOut =>
        \A n \in DOMAIN program.entries :
            /\ program.entries[n].hidden => ~Shown(n) /\ ~InSynopsis(n)
            /\ format \in {"help", "advanced_help", "html", "man"}
               /\ program.entries[n].kind \in {"option", "flag", "positional"}
                  => (Shown(n) <=> InSynopsis(n))

(***************************************************************************)
(* What is shown keeps the order of the calls that added it, with the      *)
(* positional options in front of all others, and is shown once.           *)
(***************************************************************************)
EntriesKeepTheirOrder ==
    LaidOut => \A j, k \in DOMAIN page : j < k /\ page[j].of # 0 /\ page[k].of # 0 =>
        LET first  == program.entries[page[j].of].kind = "positional"
            second == program.entries[page[k].of].kind = "positional"
        IN  IF first = second THEN page[j].of < page[k].of ELSE first

(***************************************************************************)
(* parse() of the format ends.                                             *)
(***************************************************************************)
PageEnds == <>(pc \in {"done", "thrown"})
=============================================================================
