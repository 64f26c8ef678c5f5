--------------------------- MODULE HelpPage_proofs ---------------------------
(***************************************************************************)
(* Theorems about HelpPage, for every set of programs and terminal widths. *)
(***************************************************************************)
EXTENDS HelpPage, Page_proofs

FullFormats == {"help", "advanced_help", "html", "man"}

\* What is known of a page when it has been put together.
Builds(p, f, st, pg) ==
    IF f \in FullFormats THEN PageShape(p, st, pg)
    ELSE /\ pg \in Seq(Call) /\ Owners(pg) = {}
         /\ \A k \in 2..Len(pg) : pg[k].kind # "header"

\* What parse() of the format has to do with the calls before it.
Layout ==
    /\ StoredUpTo(program, stored, next)
    /\ pc \in {"operations", "synopsis"} => at = 1 /\ page = <<>>
    /\ pc \notin {"operations", "synopsis"} => Builds(program, format, stored, page)

LEMMA PageIsBuilt ==
    ASSUME NEW p \in Program, NEW f \in Formats, NEW st, NEW n, StoredUpTo(p, st, n),
           NEW synopsis \in Seq(Text)
    PROVE  /\ Builds(p, f, st, PageOf(f, p, st, synopsis))
           /\ PageOf(f, p, st, synopsis) \in Seq(Call)
           /\ 1 \in DOMAIN PageOf(f, p, st, synopsis)
<1> DEFINE pg == PageOf(f, p, st, synopsis)
<1>1. ASSUME pg \in Seq(Call), Len(pg) > 0
      PROVE  1 \in DOMAIN pg
  <2> HIDE DEF pg
  <2>1. QED
    BY <1>1
<1>2. CASE f \in FullFormats
  <2>1. f # "short_help" /\ f # "version" /\ f # "copyright"
    BY <1>2 DEF FullFormats
  <2>2. pg = FullPage(p, st, synopsis)
    BY <2>1, Zenon DEF PageOf
  <2>3. PageShape(p, st, FullPage(p, st, synopsis))
    <3>1. st \in Stored /\ Increasing(st.positional) /\ Increasing(st.set_up)
      BY DEF StoredUpTo
    <3>2. QED
      BY <3>1, StoredEntries, FullPageShape
  <2> HIDE DEF pg
  <2>4. pg \in Seq(Call) /\ Len(pg) > 0
    BY <2>2, <2>3 DEF PageShape
  <2>5. QED
    BY <1>1, <1>2, <2>2, <2>3, <2>4 DEF Builds, pg
<1>3. CASE f \notin FullFormats
  <2>1. f \in {"short_help", "version", "copyright"}
    BY <1>3 DEF FullFormats, Formats
  <2>2. /\ pg \in Seq(Call) /\ Len(pg) > 0 /\ Owners(pg) = {}
        /\ \A k \in 2..Len(pg) : pg[k].kind # "header"
    BY <2>1, ShortPages
  <2>3. QED
    BY <1>1, <1>3, <2>2 DEF Builds
<1>4. QED
  BY <1>2, <1>3

----------------------------------------------------------------------------
(***************************************************************************)
(* The screen.                                                             *)
(***************************************************************************)
LEMMA ScreenWidths ==
    ASSUME NEW w \in Nat
    PROVE  screenWidth(w) \in (minimalScreenWidth - rightPadding)..(maximalScreenWidth - rightPadding)
<1> DEFINE guessed == IF w > 0 THEN w ELSE defaultScreenWidth
           atLeast == Max({guessed, minimalScreenWidth})
           atMost == Min({atLeast, maximalScreenWidth})
<1>1. guessed \in Nat /\ minimalScreenWidth \in Nat /\ maximalScreenWidth \in Nat
  BY DEF defaultScreenWidth, minimalScreenWidth, maximalScreenWidth
<1>2. atLeast \in Nat /\ atLeast >= minimalScreenWidth
  <2> HIDE DEF guessed
  <2>1. CASE guessed >= minimalScreenWidth
    BY <1>1, <2>1 DEF Max
  <2>2. CASE minimalScreenWidth > guessed
    BY <1>1, <2>2 DEF Max
  <2>3. QED
    BY <1>1, <2>1, <2>2
<1>3. atMost \in Nat /\ atMost <= maximalScreenWidth /\ atMost >= minimalScreenWidth
  <2> HIDE DEF atLeast
  <2>1. {atLeast, maximalScreenWidth} \in SUBSET Nat /\ {atLeast, maximalScreenWidth} # {}
    BY <1>1, <1>2
  <2>2. atMost \in {atLeast, maximalScreenWidth} /\ atMost <= maximalScreenWidth
    BY <2>1, MinOfNaturals
  <2> HIDE DEF atMost
  <2>3. QED
    BY <1>1, <1>2, <2>2 DEF minimalScreenWidth, maximalScreenWidth
<1>4. screenWidth(w) = atMost - rightPadding
  BY DEF screenWidth
<1>5. QED
  <2> HIDE DEF atMost
  <2>1. QED
    BY <1>3, <1>4 DEF minimalScreenWidth, maximalScreenWidth, rightPadding

LEMMA ScreenFields ==
    ASSUME NEW scr \in Screen, NEW c \in Nat, NEW w \in Nat, NEW b \in BOOLEAN, NEW a \in Nat,
           NEW g \in Nat, NEW o \in BOOLEAN
    PROVE  /\ [scr EXCEPT !.column = c, !.words = w, !.empty = b, !.above = a] \in Screen
           /\ [scr EXCEPT !.column = c, !.words = w, !.empty = b, !.gap = g, !.overfull = o]
                 \in Screen
           /\ [scr EXCEPT !.column = c] \in Screen
           /\ [scr EXCEPT !.words = w] \in Screen
           /\ [scr EXCEPT !.gap = g] \in Screen
BY DEF Screen

LEMMA ScreenSteps ==
    ASSUME NEW scr \in Screen, NEW n \in Nat, NEW text \in Text, NEW edge \in Nat
    PROVE  /\ Newline(scr) \in Screen
           /\ Spaces(scr, n) \in Screen
           /\ Indented(scr, n) \in Screen
           /\ Put(scr, text, edge) \in Screen
           /\ PutCells(scr, n, edge) \in Screen
<1>1. ASSUME NEW s \in Screen
      PROVE  Newline(s) \in Screen /\ Spaces(s, n) \in Screen
  <2> DEFINE a == IF s.empty THEN s.above + 1 ELSE 0
             c == s.column + n
  <2>1. a \in Nat /\ c \in Nat /\ 0 \in Nat /\ TRUE \in BOOLEAN
    BY DEF Screen
  <2>2. /\ Newline(s) = [s EXCEPT !.column = 0, !.words = 0, !.empty = TRUE, !.above = a]
        /\ Spaces(s, n) = [s EXCEPT !.column = c]
    BY Zenon DEF Newline, Spaces
  <2> HIDE DEF a, c
  <2>3. [s EXCEPT !.column = 0, !.words = 0, !.empty = TRUE, !.above = a] \in Screen
    BY <2>1, ScreenFields, Zenon
  <2>4. [s EXCEPT !.column = c] \in Screen
    BY <2>1, ScreenFields, Zenon
  <2>5. QED
    BY <2>2, <2>3, <2>4, Zenon
<1>2. ASSUME NEW width \in Nat
      PROVE  PutCells(scr, width, edge) \in Screen
  <2> DEFINE column == scr.column + width
             first == scr.empty /\ column # scr.column
             words == scr.words + 1
             empty == scr.empty /\ ~first
             gap == IF first THEN Max({scr.gap, scr.above}) ELSE scr.gap
             overfull == scr.overfull \/ (scr.words > 0 /\ column > edge)
  <2>1. Max({scr.gap, scr.above}) \in Nat
    BY MaxOfTwo DEF Screen
  <2>2. column \in Nat /\ words \in Nat /\ gap \in Nat
    BY <1>2, <2>1 DEF Screen
  <2>3. empty \in BOOLEAN /\ overfull \in BOOLEAN
    BY Zenon DEF Screen
  <2>4. PutCells(scr, width, edge)
        = [scr EXCEPT !.column = column, !.words = words, !.empty = empty, !.gap = gap,
                      !.overfull = overfull]
    BY Zenon DEF PutCells
  <2> HIDE DEF column, words, empty, gap, overfull
  <2>5. [scr EXCEPT !.column = column, !.words = words, !.empty = empty, !.gap = gap,
                    !.overfull = overfull] \in Screen
    BY <2>2, <2>3, ScreenFields, Zenon
  <2>6. QED
    BY <2>4, <2>5, Zenon
<1>3. to_text_width(text) \in Nat
  BY TextWidths
<1>4. QED
  BY <1>1, <1>2, <1>3 DEF Indented, Put

----------------------------------------------------------------------------
(***************************************************************************)
(* Types.                                                                  *)
(***************************************************************************)
RoffReader == [last : {"nothing", "heading", "space", "tag", "text"}, run_on : BOOLEAN,
               loose : BOOLEAN]

LEMMA CallFields ==
    ASSUME TypeOK, NEW i \in DOMAIN page
    PROVE  /\ page[i].key \in Text /\ page[i].text \in Text /\ page[i].paragraph \in BOOLEAN
           /\ page[i].kind \in CallKinds
           /\ i \in Nat /\ Len(page) \in Nat /\ i <= Len(page) /\ i > 0
<1>1. page \in Seq(Call)
  BY DEF TypeOK
<1>2. page[i] \in Call /\ i \in 1..Len(page) /\ Len(page) \in Nat
  BY <1>1
<1>3. QED
  BY <1>2 DEF Call

LEMMA NextOfType ==
    ASSUME TypeOK, NEW i \in DOMAIN page
    PROVE  NextOf(i) \in {"print", "done"} /\ (NextOf(i) = "print" => i + 1 \in DOMAIN page)
<1>1. page \in Seq(Call)
  BY DEF TypeOK
<1>2. QED
  BY <1>1 DEF NextOf

\* The shape of every step that carries out a print call.
LEMMA CallsKeepTypes ==
    ASSUME TypeOK, Layout, pc \in {"print", "text"},
           UNCHANGED <<chosen, next, built>>,
           pc' \in {"print", "text", "done", "thrown"},
           at' \in Nat \ {0},
           pc' = "print" => at' \in DOMAIN page,
           pc' = "text" => at' - 1 \in DOMAIN page,
           read' \in Nat, pos' \in Nat,
           prev_was_paragraph' \in BOOLEAN, is_dl' \in BOOLEAN, is_p' \in BOOLEAN,
           is_first_in_section' \in BOOLEAN,
           screen' \in Screen, roff' \in RoffReader
    PROVE  TypeOK' /\ Layout'
<1>1. TypeOK'
  BY DEF TypeOK, RoffReader, chosen, built
<1>2. Layout'
  <2>1. /\ program' = program /\ format' = format /\ stored' = stored /\ page' = page
        /\ next' = next
    BY DEF chosen, built
  <2>2. Builds(program, format, stored, page)
    BY DEF Layout
  <2>3. pc' \notin {"operations", "synopsis"}
    OBVIOUS
  <2>4. QED
    BY <2>1, <2>2, <2>3 DEF Layout
<1>3. QED
  BY <1>1, <1>2

\* The same for a call that writes no text.
LEMMA PrintKeepsTypes ==
    ASSUME TypeOK, Layout, NEW derived, NEW kinds, Prints(derived, kinds),
           pc' = NextOf(at), read' \in Nat, pos' \in Nat,
           prev_was_paragraph' \in BOOLEAN, is_dl' \in BOOLEAN, is_p' \in BOOLEAN,
           is_first_in_section' \in BOOLEAN,
           screen' \in Screen, roff' \in RoffReader
    PROVE  TypeOK' /\ Layout'
<1>1. /\ pc = "print" /\ at' = at + 1 /\ UNCHANGED <<chosen, next, built>>
      /\ at \in DOMAIN page /\ at \in Nat
  BY DEF Prints, TypeOK
<1>2. pc' \in {"print", "done"} /\ (pc' = "print" => at' \in DOMAIN page)
  BY <1>1, NextOfType
<1>3. at' \in Nat \ {0}
  BY <1>1
<1>4. QED
  BY <1>1, <1>2, <1>3, CallsKeepTypes

LEMMA HtmlKeepsTypes ==
    TypeOK /\ Layout
    /\ (HtmlHeader \/ HtmlHeading \/ HtmlLine \/ HtmlListItem \/ HtmlFooter)
    => TypeOK' /\ Layout'
<1> SUFFICES ASSUME TypeOK, Layout,
                    HtmlHeader \/ HtmlHeading \/ HtmlLine \/ HtmlListItem \/ HtmlFooter
             PROVE  TypeOK' /\ Layout'
  OBVIOUS
<1>1. /\ read \in Nat /\ pos \in Nat /\ prev_was_paragraph \in BOOLEAN /\ is_dl \in BOOLEAN
      /\ is_p \in BOOLEAN /\ is_first_in_section \in BOOLEAN /\ screen \in Screen
      /\ roff \in RoffReader
  BY DEF TypeOK, RoffReader
<1>2. ASSUME NEW kinds, PrintsHtml(kinds), is_dl' \in BOOLEAN, is_p' \in BOOLEAN
      PROVE  TypeOK' /\ Layout'
  <2>1. /\ Prints("html", kinds) /\ pc' = NextOf(at)
        /\ UNCHANGED <<prev_was_paragraph, read, pos, is_first_in_section, screen, roff>>
    BY <1>2 DEF PrintsHtml
  <2>2. QED
    BY <1>1, <1>2, <2>1, PrintKeepsTypes
<1>3. CASE HtmlHeader
  BY <1>1, <1>2, <1>3 DEF HtmlHeader
<1>4. CASE HtmlHeading
  BY <1>2, <1>4 DEF HtmlHeading
<1>5. CASE HtmlLine
  BY <1>2, <1>5 DEF HtmlLine
<1>6. CASE HtmlListItem
  BY <1>2, <1>6 DEF HtmlListItem
<1>7. CASE HtmlFooter
  BY <1>1, <1>2, <1>7 DEF HtmlFooter
<1>8. QED
  BY <1>3, <1>4, <1>5, <1>6, <1>7

LEMMA ManKeepsTypes ==
    TypeOK /\ Layout
    /\ (ManHeader \/ ManHeading \/ ManLine \/ ManListItem \/ ManFooter)
    => TypeOK' /\ Layout'
<1> SUFFICES ASSUME TypeOK, Layout,
                    ManHeader \/ ManHeading \/ ManLine \/ ManListItem \/ ManFooter
             PROVE  TypeOK' /\ Layout'
  OBVIOUS
<1>1. /\ read \in Nat /\ pos \in Nat /\ prev_was_paragraph \in BOOLEAN /\ is_dl \in BOOLEAN
      /\ is_p \in BOOLEAN /\ is_first_in_section \in BOOLEAN /\ screen \in Screen
      /\ roff \in RoffReader
  BY DEF TypeOK, RoffReader
<1>2. ASSUME NEW kinds, PrintsMan(kinds), is_first_in_section' \in BOOLEAN, roff' \in RoffReader
      PROVE  TypeOK' /\ Layout'
  <2>1. /\ Prints("man", kinds) /\ pc' = NextOf(at)
        /\ UNCHANGED <<prev_was_paragraph, read, pos, is_dl, is_p, screen>>
    BY <1>2 DEF PrintsMan
  <2>2. QED
    BY <1>1, <1>2, <2>1, PrintKeepsTypes
<1>3. ASSUME NEW r \in RoffReader
      PROVE  /\ Request(r, "heading") \in RoffReader
             /\ Request(r, "space") \in RoffReader
             /\ [Request(r, "tag") EXCEPT !.last = "text"] \in RoffReader
             /\ TextLine(r) \in RoffReader
  <2>1. ASSUME NEW s \in RoffReader, NEW last \in {"heading", "space", "tag", "text"}, NEW b \in BOOLEAN
        PROVE  /\ [s EXCEPT !.last = last, !.loose = b] \in RoffReader
               /\ [s EXCEPT !.last = last, !.run_on = b] \in RoffReader
               /\ [s EXCEPT !.last = last] \in RoffReader
    BY <2>1 DEF RoffReader
  <2>2. ASSUME NEW last \in {"heading", "space", "tag"}
        PROVE  Request(r, last) \in RoffReader
    <3> DEFINE b == r.loose \/ (last = "space" /\ r.last = "heading")
    <3>1. b \in BOOLEAN /\ last \in {"heading", "space", "tag", "text"}
      BY Zenon DEF RoffReader
    <3>2. Request(r, last) = [r EXCEPT !.last = last, !.loose = b]
      BY Zenon DEF Request
    <3> HIDE DEF b
    <3>3. [r EXCEPT !.last = last, !.loose = b] \in RoffReader
      BY <2>1, <3>1
    <3>4. QED
      BY <3>2, <3>3, Zenon
  <2>3. TextLine(r) \in RoffReader
    <3> DEFINE b == r.run_on \/ r.last = "text"
    <3>1. b \in BOOLEAN /\ "text" \in {"heading", "space", "tag", "text"}
      BY Zenon DEF RoffReader
    <3>2. TextLine(r) = [r EXCEPT !.last = "text", !.run_on = b]
      BY Zenon DEF TextLine
    <3> HIDE DEF b
    <3>3. QED
      BY <2>1, <3>1, <3>2, Zenon
  <2>4. [Request(r, "tag") EXCEPT !.last = "text"] \in RoffReader
    <3>1. Request(r, "tag") \in RoffReader /\ "text" \in {"heading", "space", "tag", "text"}
      BY <2>2
    <3>2. QED
      BY <2>1, <3>1, Zenon
  <2>5. QED
    BY <2>2, <2>3, <2>4
<1>4. CASE ManHeader
  BY <1>1, <1>2, <1>3, <1>4 DEF ManHeader
<1>5. CASE ManHeading
  BY <1>1, <1>2, <1>3, <1>5 DEF ManHeading
<1>6. CASE ManLine
  BY <1>1, <1>2, <1>3, <1>6 DEF ManLine
<1>7. CASE ManListItem
  BY <1>1, <1>2, <1>3, <1>7 DEF ManListItem
<1>8. CASE ManFooter
  BY <1>1, <1>2, <1>8 DEF ManFooter
<1>9. QED
  BY <1>4, <1>5, <1>6, <1>7, <1>8

LEMMA HelpKeepsTypes ==
    TypeOK /\ Layout
    /\ (HelpHeader \/ HelpHeading \/ HelpLine \/ HelpListItem \/ HelpFooter)
    => TypeOK' /\ Layout'
<1> SUFFICES ASSUME TypeOK, Layout,
                    HelpHeader \/ HelpHeading \/ HelpLine \/ HelpListItem \/ HelpFooter
             PROVE  TypeOK' /\ Layout'
  OBVIOUS
<1>1. /\ read \in Nat /\ pos \in Nat /\ prev_was_paragraph \in BOOLEAN /\ is_dl \in BOOLEAN
      /\ is_p \in BOOLEAN /\ is_first_in_section \in BOOLEAN /\ screen \in Screen
      /\ roff \in RoffReader /\ screen_width \in Nat
  BY DEF TypeOK, RoffReader, minimalScreenWidth, maximalScreenWidth, rightPadding
<1>2. ASSUME NEW kinds, PrintsHelp(kinds), pc' = NextOf(at), read' \in Nat, pos' \in Nat,
             prev_was_paragraph' \in BOOLEAN, screen' \in Screen
      PROVE  TypeOK' /\ Layout'
  <2>1. Prints("help", kinds) /\ UNCHANGED <<is_dl, is_p, is_first_in_section, roff>>
    BY <1>2 DEF PrintsHelp
  <2>2. QED
    BY <1>1, <1>2, <2>1, PrintKeepsTypes
<1>3. ASSUME NEW kinds, PrintsHelp(kinds), NEW column \in Nat, BeginText(column),
             prev_was_paragraph' \in BOOLEAN, screen' \in Screen
      PROVE  TypeOK' /\ Layout'
  <2>1. /\ pc = "print" /\ at' = at + 1 /\ UNCHANGED <<chosen, next, built>>
        /\ at \in DOMAIN page /\ at \in Nat
        /\ UNCHANGED <<is_dl, is_p, is_first_in_section, roff>>
    BY <1>3 DEF PrintsHelp, Prints, TypeOK
  <2>2. pc' = "text" /\ read' = 0 /\ pos' = column
    BY <1>3 DEF BeginText
  <2>3. at' \in Nat \ {0} /\ at' - 1 = at
    BY <2>1
  <2>4. QED
    BY <1>1, <1>3, <2>1, <2>2, <2>3, CallsKeepTypes
<1>4. ASSUME NEW kinds, PrintsHelp(kinds)
      PROVE  TheCall.text \in Text /\ TheCall.key \in Text /\ TheCall.paragraph \in BOOLEAN
  <2>1. at \in DOMAIN page
    BY <1>4 DEF PrintsHelp, Prints, TypeOK
  <2>2. QED
    BY <2>1, CallFields DEF TheCall
<1>5. Begun \in Screen /\ Newline(Begun) \in Screen /\ BehindParagraph \in Screen
  <2>1. Begun \in Screen
    BY <1>1, ScreenFields, 0 \in Nat DEF Begun
  <2>2. QED
    BY <1>1, <2>1, ScreenSteps, UnitsAreTexts, 0 \in Nat DEF BehindParagraph
<1>6. ASSUME NEW s \in Screen, NEW t \in Text, NEW n \in Nat
      PROVE  /\ Spaces(s, n) \in Screen /\ Newline(s) \in Screen
             /\ Put(s, t, screen_width) \in Screen /\ FullLine(s, n) \in Screen
             /\ [s EXCEPT !.words = 0] \in Screen
  BY <1>1, ScreenSteps, ScreenFields, 0 \in Nat DEF FullLine
<1>7. OwnText \in Text /\ raw_width(OwnText) \in Nat /\ text_width(OwnText) \in Nat
  BY OwnUnits, UnitsAreTexts, TextWidths DEF OwnText
<1>8. leftPadding \in Nat /\ rightColumnTab \in Nat /\ 0 \in Nat
  BY DEF leftPadding, rightColumnTab, leftColumnWidth, centerPadding
<1>9. CASE HelpHeader
  <2>1. screen' \in Screen
    BY <1>5, <1>6, <1>7, <1>8, <1>9 DEF HelpHeader
  <2>2. QED
    BY <1>1, <1>2, <1>9, <2>1 DEF HelpHeader
<1>10. CASE HelpHeading
  <2> DEFINE indent == IF TheCall.kind = "section" THEN 0 ELSE leftPadding \div 2
  <2>1. indent \in Nat
    BY DEF leftPadding
  <2>2. screen' = FullLine(Spaces(Newline(Begun), indent), raw_width(TheCall.text))
    BY <1>10 DEF HelpHeading
  <2>3. TheCall.text \in Text /\ raw_width(TheCall.text) \in Nat
    BY <1>4, <1>10, TextWidths DEF HelpHeading
  <2> HIDE DEF indent
  <2>4. screen' \in Screen
    BY <1>5, <1>6, <1>7, <2>1, <2>2, <2>3
  <2>5. QED
    BY <1>1, <1>2, <1>10, <2>4 DEF HelpHeading
<1>11. CASE HelpLine
  <2>1. screen' = [Spaces(BehindParagraph, leftPadding) EXCEPT !.words = 0]
    BY <1>11 DEF HelpLine
  <2>2. Spaces(BehindParagraph, leftPadding) \in Screen
    BY <1>5, <1>6, <1>7, <1>8
  <2>3. screen' \in Screen
    BY <1>6, <1>7, <1>8, <2>1, <2>2
  <2>4. prev_was_paragraph' \in BOOLEAN
    BY <1>4, <1>11 DEF HelpLine
  <2>5. QED
    BY <1>3, <1>8, <1>11, <2>3, <2>4 DEF HelpLine
<1>12. CASE HelpListItem
  <2> DEFINE term == Put(Spaces(BehindParagraph, leftPadding), TheCall.key, screen_width)
             column == leftPadding + text_width(TheCall.key)
             below == column + centerPadding > rightColumnTab
             beside == IF below THEN Newline(term) ELSE term
             gutter == rightColumnTab - (IF below THEN 0 ELSE column)
  <2>1. TheCall.key \in Text
    BY <1>4, <1>12 DEF HelpListItem
  <2>2. column \in Nat
    BY <1>8, <2>1, TextWidths
  <2>3. gutter \in Nat
    <3> HIDE DEF column
    <3>1. QED
      BY <2>2 DEF rightColumnTab, leftPadding, leftColumnWidth, centerPadding
  <2>4. term \in Screen
    <3>1. Spaces(BehindParagraph, leftPadding) \in Screen
      BY <1>5, <1>6, <1>7, <1>8
    <3>2. QED
      BY <1>6, <1>8, <2>1, <3>1
  <2>5. beside \in Screen
    <3> HIDE DEF term, below
    <3>1. QED
      BY <1>6, <1>7, <1>8, <2>4
  <2>6. [Spaces(beside, gutter) EXCEPT !.words = 0] \in Screen
    <3> HIDE DEF beside, gutter
    <3>1. Spaces(beside, gutter) \in Screen
      BY <1>6, <1>7, <2>3, <2>5
    <3>2. QED
      BY <1>6, <1>7, <1>8, <3>1
  <2>7. /\ PrintsHelp({"item"}) /\ prev_was_paragraph' = FALSE
        /\ \/ screen' = [Spaces(beside, gutter) EXCEPT !.words = 0] /\ BeginText(rightColumnTab)
           \/ screen' = beside /\ pc' = NextOf(at) /\ UNCHANGED <<read, pos>>
    BY <1>12, Zenon DEF HelpListItem
  <2> HIDE DEF beside, gutter
  <2>8. CASE screen' = [Spaces(beside, gutter) EXCEPT !.words = 0] /\ BeginText(rightColumnTab)
    BY <1>3, <1>8, <2>6, <2>7, <2>8
  <2>9. CASE screen' = beside /\ pc' = NextOf(at) /\ UNCHANGED <<read, pos>>
    BY <1>1, <1>2, <2>5, <2>7, <2>9
  <2>10. QED
    BY <2>7, <2>8, <2>9
<1>13. CASE HelpFooter
  BY <1>1, <1>2, <1>13 DEF HelpFooter
<1>14. QED
  BY <1>9, <1>10, <1>11, <1>12, <1>13

LEMMA WordsKeepTypes ==
    TypeOK /\ Layout /\ (FirstWord \/ NextWord \/ EndText) => TypeOK' /\ Layout'
<1> SUFFICES ASSUME TypeOK, Layout, FirstWord \/ NextWord \/ EndText
             PROVE  TypeOK' /\ Layout'
  OBVIOUS
<1>1. /\ read \in Nat /\ pos \in Nat /\ prev_was_paragraph \in BOOLEAN /\ is_dl \in BOOLEAN
      /\ is_p \in BOOLEAN /\ is_first_in_section \in BOOLEAN /\ screen \in Screen
      /\ roff \in RoffReader /\ screen_width \in Nat /\ at \in Nat \ {0}
  BY DEF TypeOK, RoffReader, minimalScreenWidth, maximalScreenWidth, rightPadding
<1>2. pc = "text"
  BY DEF FirstWord, NextWord, EndText, PrintsWord
<1>3. at - 1 \in DOMAIN page
  BY <1>2 DEF TypeOK
<1>4. TheText.text \in Text
  BY <1>3, CallFields DEF TheText
<1>5. Tab(TheText) \in Nat
  BY DEF Tab, rightColumnTab, leftPadding, leftColumnWidth, centerPadding
<1>6. ASSUME NEW s \in Screen, NEW t \in Text, NEW n \in Nat
      PROVE  /\ Spaces(s, n) \in Screen /\ Newline(s) \in Screen /\ Indented(s, n) \in Screen
             /\ Put(s, t, screen_width) \in Screen
  BY <1>1, ScreenSteps
<1>7. ASSUME PrintsWord, pos' \in Nat, screen' \in Screen
      PROVE  TypeOK' /\ Layout'
  <2>1. Unread(TheText.text, read) # {} /\ read' = EndOfWord(TheText.text, read)
    BY <1>7 DEF PrintsWord
  <2>2. read' \in Nat
    <3> DEFINE text == TheText.text
    <3>1. text \in Text
      BY <1>4
    <3> HIDE DEF text
    <3>2. ASSUME Unread(text, read) # {}
          PROVE  EndOfWord(text, read) \in Nat
      <4>1. Min(Unread(text, read)) \in (read + 1)..Len(text) /\ Len(text) \in Nat
            /\ EndOfWord(text, read) \in Min(Unread(text, read))..Len(text)
        BY <1>1, <3>1, <3>2, NextWordIsRead DEF Text
      <4>2. QED
        BY <1>1, <4>1
    <3>3. QED
      BY <2>1, <3>2 DEF text
  <2>3. /\ UNCHANGED <<chosen, next, built>> /\ pc' = pc /\ at' = at
        /\ UNCHANGED <<prev_was_paragraph, is_dl, is_p, is_first_in_section, roff>>
    BY <1>7 DEF PrintsWord
  <2>4. QED
    BY <1>1, <1>2, <1>3, <1>7, <2>2, <2>3, CallsKeepTypes
<1>8. ASSUME PrintsWord
      PROVE  Word \in Text /\ text_width(Word) \in Nat
  <2>1. Unread(TheText.text, read) # {}
    BY <1>8 DEF PrintsWord
  <2>2. Word \in Text
    BY <1>1, <1>4, <2>1, WordIsText DEF Word
  <2>3. QED
    BY <2>2, TextWidths
<1>9. CASE FirstWord
  <2>1. PrintsWord
    BY <1>9 DEF FirstWord
  <2> DEFINE printed == Put(screen, Word, screen_width)
             width == text_width(Word)
  <2>2. printed \in Screen /\ Indented(printed, Tab(TheText)) \in Screen /\ width \in Nat
    BY <1>1, <1>5, <1>6, <1>8, <2>1
  <2>3. \/ screen' = Indented(printed, Tab(TheText)) /\ pos' = Tab(TheText)
        \/ screen' = printed /\ pos' = pos + width
    BY <1>9 DEF FirstWord
  <2> HIDE DEF printed, width
  <2>4. pos' \in Nat /\ screen' \in Screen
    BY <1>1, <1>5, <2>2, <2>3
  <2>5. QED
    BY <1>7, <2>1, <2>4
<1>10. CASE NextWord
  <2>1. PrintsWord
    BY <1>10 DEF NextWord
  <2> DEFINE below == Put(Indented(screen, Tab(TheText)), Word, screen_width)
             beside == Put(Spaces(screen, 1), Word, screen_width)
             width == text_width(Word)
  <2>2. Word \in Text /\ width \in Nat /\ 1 \in Nat
    BY <1>8, <2>1
  <2>3. below \in Screen /\ beside \in Screen
    <3>1. Indented(screen, Tab(TheText)) \in Screen /\ Spaces(screen, 1) \in Screen
      BY <1>1, <1>5, <1>6, <2>2
    <3>2. QED
      BY <1>5, <1>6, <2>2, <3>1
  <2>4. \/ screen' = below /\ pos' = Tab(TheText) + width
        \/ screen' = beside /\ pos' = pos + width + 1
    BY <1>10, Zenon DEF NextWord
  <2> HIDE DEF below, beside, width
  <2>5. pos' \in Nat /\ screen' \in Screen
    BY <1>1, <1>5, <2>2, <2>3, <2>4
  <2>6. QED
    BY <1>7, <2>1, <2>5
<1>11. CASE EndText
  <2>1. /\ UNCHANGED <<chosen, next, built, at>> /\ pc' = NextOf(at - 1)
        /\ UNCHANGED <<read, pos, prev_was_paragraph, is_dl, is_p, is_first_in_section, roff>>
        /\ screen' = IF IsFirstWord THEN screen ELSE Newline(screen)
    BY <1>11 DEF EndText, members
  <2>2. screen' \in Screen
    BY <1>1, <1>4, <1>5, <1>6, <2>1
  <2>3. pc' \in {"print", "done"} /\ (pc' = "print" => at' \in DOMAIN page)
    <3>1. NextOf(at - 1) \in {"print", "done"}
          /\ (NextOf(at - 1) = "print" => (at - 1) + 1 \in DOMAIN page)
      BY <1>3, NextOfType
    <3>2. (at - 1) + 1 = at
      BY <1>1
    <3>3. QED
      BY <2>1, <3>1, <3>2
  <2>4. QED
    BY <1>1, <1>2, <2>1, <2>2, <2>3, CallsKeepTypes
<1>12. QED
  BY <1>9, <1>10, <1>11

\* The shape of every step that runs an operation.
LEMMA OperationKeepsTypes ==
    ASSUME TypeOK, Layout, NEW kinds, RunsNext(kinds),
           StoredUpTo(program, stored', next + 1),
           DOMAIN stored.synopsis \subseteq DOMAIN stored'.synopsis
    PROVE  TypeOK' /\ Layout'
<1>1. /\ pc = "operations" /\ next' = next + 1
      /\ UNCHANGED <<chosen, pc, spelled, synopsis_line, page, at, members, readers>>
  BY DEF RunsNext
<1>2. StoresEntries(program, stored') /\ stored' \in Stored
  BY StoredEntries DEF StoredUpTo
<1>3. next' \in Nat \ {0}
  BY <1>1 DEF TypeOK
<1>4. TypeOK'
  BY <1>1, <1>2, <1>3 DEF TypeOK, chosen, members, readers
<1>5. Layout'
  BY <1>1 DEF Layout, chosen
<1>6. QED
  BY <1>4, <1>5

LEMMA OperationsKeepTypes ==
    TypeOK /\ Layout /\ (AddOptionOrFlag \/ AddPositionalOption \/ AddText) => TypeOK' /\ Layout'
<1> SUFFICES ASSUME TypeOK, Layout, AddOptionOrFlag \/ AddPositionalOption \/ AddText
             PROVE  TypeOK' /\ Layout'
  OBVIOUS
<1> DEFINE shown == IsShown(Operation, ShowsAdvanced(format))
<1>1. next \in DOMAIN program.entries
  BY DEF AddOptionOrFlag, AddPositionalOption, AddText, RunsNext
<1>2. StoredUpTo(program, stored, next) /\ program \in Program /\ Operation = program.entries[next]
  BY DEF Layout, TypeOK, Operation
<1>3. StoredUpTo(program, stored, next + 1)
  BY <1>1, <1>2, NothingStoredFor
<1>4. CASE AddOptionOrFlag
  <2>1. RunsNext({"option", "flag"}) /\ Operation.kind \in {"option", "flag"}
    BY <1>4 DEF AddOptionOrFlag, RunsNext
  <2>2. stored' = IF shown
                  THEN [stored EXCEPT !.set_up = Append(@, next), !.synopsis = Append(@, next)]
                  ELSE stored
    BY <1>2, <1>4 DEF AddOptionOrFlag, store_synopsis, store_help_page_element, StoredUpTo, Stored
  <2>3. CASE shown
    <3>1. ~Operation.hidden /\ Operation.kind # "positional"
      BY <2>1, <2>3 DEF IsShown
    <3>2. stored' = WithElement(program, stored, next)
      BY <1>2, <2>1, <2>2, <2>3, Zenon DEF WithElement
    <3>3. StoredUpTo(program, stored', next + 1)
          /\ DOMAIN stored.synopsis \subseteq DOMAIN stored'.synopsis
      BY <1>1, <1>2, <3>1, <3>2, ElementStored
    <3>4. QED
      BY <2>1, <3>3, OperationKeepsTypes
  <2>4. CASE ~shown
    <3>1. stored' = stored
      BY <2>2, <2>4
    <3>2. QED
      BY <1>3, <2>1, <3>1, OperationKeepsTypes
  <2>5. QED
    BY <2>3, <2>4
<1>5. CASE AddPositionalOption
  <2>1. /\ RunsNext({"positional"}) /\ Operation.kind = "positional"
        /\ stored' = store_positional(stored, next)
    BY <1>5 DEF AddPositionalOption, RunsNext
  <2>2. StoredUpTo(program, stored', next + 1)
        /\ DOMAIN stored.synopsis \subseteq DOMAIN stored'.synopsis
    BY <1>1, <1>2, <2>1, PositionalStored
  <2>3. QED
    BY <2>1, <2>2, OperationKeepsTypes
<1>6. CASE AddText
  <2>1. /\ RunsNext({"section", "subsection", "line", "item"})
        /\ Operation.kind \in {"section", "subsection", "line", "item"}
    BY <1>6 DEF AddText, RunsNext
  <2>2. stored' = IF shown THEN [stored EXCEPT !.set_up = Append(@, next)] ELSE stored
    BY <1>6 DEF AddText, store_help_page_element
  <2>3. CASE shown
    <3>1. ~Operation.hidden /\ Operation.kind # "positional" /\ Operation.kind \notin {"option", "flag"}
      BY <2>1, <2>3 DEF IsShown
    <3>2. stored' = WithElement(program, stored, next)
      BY <1>2, <2>2, <2>3, <3>1, Zenon DEF WithElement
    <3>3. StoredUpTo(program, stored', next + 1)
          /\ DOMAIN stored.synopsis \subseteq DOMAIN stored'.synopsis
      BY <1>1, <1>2, <3>1, <3>2, ElementStored
    <3>4. QED
      BY <2>1, <3>3, OperationKeepsTypes
  <2>4. CASE ~shown
    <3>1. stored' = stored
      BY <2>2, <2>4
    <3>2. QED
      BY <1>3, <2>1, <3>1, OperationKeepsTypes
  <2>5. QED
    BY <2>3, <2>4
<1>7. QED
  BY <1>4, <1>5, <1>6

\* The page is put together.
LEMMA PageKeepsTypes ==
    ASSUME TypeOK, Layout, pc \in {"operations", "synopsis"}, pc' = "print",
           NEW synopsis \in Seq(Text), page' = PageOf(format, program, stored, synopsis),
           UNCHANGED <<chosen, next, stored, spelled, synopsis_line, at, members, readers>>
    PROVE  TypeOK' /\ Layout'
<1>1. program \in Program /\ format \in Formats /\ StoredUpTo(program, stored, next) /\ at = 1
  BY DEF TypeOK, Layout
<1>2. Builds(program, format, stored, page') /\ page' \in Seq(Call) /\ 1 \in DOMAIN page'
  BY <1>1, PageIsBuilt
<1>3. TypeOK'
  BY <1>1, <1>2 DEF TypeOK, chosen, members, readers
<1>4. Layout'
  BY <1>1, <1>2 DEF Layout, chosen
<1>5. QED
  BY <1>3, <1>4

LEMMA ParseKeepsTypes ==
    TypeOK /\ Layout /\ (BeginParse \/ AddToSynopsis \/ FinishSynopsis \/ SynopsisThrows)
    => TypeOK' /\ Layout'
<1> SUFFICES ASSUME TypeOK, Layout, BeginParse \/ AddToSynopsis \/ FinishSynopsis \/ SynopsisThrows
             PROVE  TypeOK' /\ Layout'
  OBVIOUS
<1>1. program \in Program /\ program.meta.synopsis \in Seq(Text) /\ program.executable \in Text
  BY DEF TypeOK, Program, Meta
<1>2. CASE BeginParse
  <2>1. CASE GeneratesSynopsis
    <3>1. /\ pc = "operations" /\ pc' = "synopsis" /\ page' = page
          /\ synopsis_line' = program.executable
          /\ UNCHANGED <<chosen, next, stored, spelled, at, members, readers>>
      BY <1>2, <2>1 DEF BeginParse
    <3>2. TypeOK'
      BY <1>1, <3>1 DEF TypeOK, chosen, members, readers
    <3>3. Layout'
      BY <3>1 DEF Layout, chosen
    <3>4. QED
      BY <3>2, <3>3
  <2>2. CASE ~GeneratesSynopsis
    <3>1. /\ pc = "operations" /\ pc' = "print" /\ synopsis_line' = synopsis_line
          /\ page' = PageOf(format, program, stored, program.meta.synopsis)
          /\ UNCHANGED <<chosen, next, stored, spelled, at, members, readers>>
      BY <1>2, <2>2 DEF BeginParse
    <3>2. QED
      BY <1>1, <3>1, PageKeepsTypes
  <2>3. QED
    BY <2>1, <2>2
<1>3. CASE AddToSynopsis
  <2>1. /\ pc = "synopsis"
        /\ UNCHANGED <<chosen, pc, next, stored, page, at, members, readers>>
    BY <1>3 DEF AddToSynopsis
  <2>2. PICK i \in Unspelled :
           /\ synopsis_line' = synopsis_line
                \o Spelled(Element(i), /\ Element(i).kind = "positional"
                                       /\ \A j \in spelled : Element(j).kind # "positional")
           /\ spelled' = spelled \cup {i}
    BY <1>3 DEF AddToSynopsis
  <2>3. i \in DOMAIN stored.synopsis
    BY DEF Unspelled
  <2>4. /\ Element(i) \in Entry /\ Element(i).kind \in {"option", "flag", "positional"}
    <3>1. /\ stored.synopsis[i] \in DOMAIN program.entries
          /\ program.entries[stored.synopsis[i]].kind \in {"option", "flag", "positional"}
      BY <2>3 DEF TypeOK, StoresEntries
    <3>2. program.entries \in Seq(Entry)
      BY <1>1 DEF Program
    <3>3. QED
      BY <3>1, <3>2 DEF Element
  <2> DEFINE first == /\ Element(i).kind = "positional"
                      /\ \A j \in spelled : Element(j).kind # "positional"
  <2>5. first \in BOOLEAN
    BY Zenon
  <2> HIDE DEF first
  <2>6. Spelled(Element(i), first) \in Text
    BY <2>4, <2>5, SpelledIsText
  <2>7. synopsis_line' = synopsis_line \o Spelled(Element(i), first)
    BY <2>2 DEF first
  <2>8. synopsis_line' \in Text
    BY <2>6, <2>7, TextsConcatenate DEF TypeOK
  <2>9. TypeOK'
    BY <2>1, <2>2, <2>3, <2>8 DEF TypeOK, chosen, members, readers
  <2>10. Layout'
    BY <2>1 DEF Layout, chosen
  <2>11. QED
    BY <2>9, <2>10
<1>4. CASE FinishSynopsis
  <2>1. /\ pc = "synopsis" /\ pc' = "print"
        /\ page' = PageOf(format, program, stored, <<synopsis_line>>)
        /\ UNCHANGED <<chosen, next, stored, spelled, synopsis_line, at, members, readers>>
    BY <1>4 DEF FinishSynopsis
  <2>2. <<synopsis_line>> \in Seq(Text)
    BY DEF TypeOK
  <2>3. QED
    BY <2>1, <2>2, PageKeepsTypes
<1>5. CASE SynopsisThrows
  <2>1. /\ pc = "print" /\ pc' = "thrown"
        /\ UNCHANGED <<chosen, next, built, at, members, readers>>
    BY <1>5 DEF SynopsisThrows
  <2>2. TypeOK'
    BY <2>1 DEF TypeOK, chosen, built, members, readers
  <2>3. Layout'
    BY <2>1 DEF Layout, chosen, built
  <2>4. QED
    BY <2>2, <2>3
<1>6. QED
  BY <1>2, <1>3, <1>4, <1>5

LEMMA TypesHoldAtFirst == Init => TypeOK /\ Layout
<1> SUFFICES ASSUME Init
             PROVE  TypeOK /\ Layout
  OBVIOUS
<1>1. program \in Program /\ program.entries \in Seq(Entry)
  BY ProgramsAssumption DEF Init, Program
<1>2. screen_width \in (minimalScreenWidth - rightPadding)..(maximalScreenWidth - rightPadding)
  <2>1. PICK w \in Nat : screen_width = screenWidth(w)
    BY ProgramsAssumption DEF Init
  <2>2. QED
    BY <2>1, ScreenWidths
<1>3. stored = NothingStored /\ next = 1 /\ pc = "operations" /\ at = 1 /\ page = <<>>
  BY DEF Init
<1>4. stored \in Stored /\ StoredUpTo(program, stored, next)
  BY <1>3 DEF NothingStored, Stored, StoredUpTo, Among, Increasing
<1>5. StoresEntries(program, stored)
  BY <1>4, StoredEntries
<1>6. synopsis_line \in Text /\ page \in Seq(Call)
  BY <1>3, UnitsAreTexts DEF Init
<1>7. screen \in Screen /\ roff \in RoffReader
  BY DEF Init, ClearScreen, Screen, NothingRead, RoffReader
<1>8. /\ spelled = {} /\ format \in Formats /\ read = 0 /\ pos = 0
      /\ prev_was_paragraph = FALSE /\ is_dl = FALSE /\ is_p = FALSE /\ is_first_in_section = TRUE
  BY DEF Init
<1>9. TypeOK
  <2>1. spelled \subseteq DOMAIN stored.synopsis
        /\ {prev_was_paragraph, is_dl, is_p, is_first_in_section} \subseteq BOOLEAN
    BY <1>8, Zenon
  <2>3. next \in Nat \ {0} /\ at \in Nat \ {0} /\ read \in Nat /\ pos \in Nat
    BY <1>3, <1>8
  <2>2. pc \in {"operations", "synopsis", "print", "text", "done", "thrown"}
        /\ pc # "print" /\ pc # "text"
    BY <1>3
  <2>4. QED
    BY <1>1, <1>2, <1>4, <1>5, <1>6, <1>7, <1>8, <2>1, <2>2, <2>3, Zenon DEF TypeOK, RoffReader
<1>10. Layout
  BY <1>3, <1>4 DEF Layout
<1>11. QED
  BY <1>9, <1>10

LEMMA StepsKeepTypes == TypeOK /\ Layout /\ [Next]_vars => TypeOK' /\ Layout'
<1>1. TypeOK /\ Layout /\ UNCHANGED vars => TypeOK' /\ Layout'
  BY DEF TypeOK, Layout, vars, chosen, built, members, readers
<1>2. QED
  BY <1>1, OperationsKeepTypes, ParseKeepsTypes, HelpKeepsTypes, WordsKeepTypes, HtmlKeepsTypes,
     ManKeepsTypes, Zenon DEF Next, Returned

(***************************************************************************)
(* The type of the state of parse(), and with it that every print call     *)
(* and every text position it uses exists: FormatHelp::parse() and         *)
(* print_text never run past the end of what they print.                   *)
(***************************************************************************)
THEOREM TypeCorrect == Spec => []TypeOK
<1>1. Init => TypeOK /\ Layout
  BY TypesHoldAtFirst
<1>2. TypeOK /\ Layout /\ [Next]_vars => (TypeOK /\ Layout)'
  BY StepsKeepTypes
<1>3. QED
  BY <1>1, <1>2, PTL DEF Spec

\* What the other invariants rest on.
LEMMA LayoutHolds == Spec => [](TypeOK /\ Layout)
<1>1. QED
  BY TypesHoldAtFirst, StepsKeepTypes, PTL DEF Spec

----------------------------------------------------------------------------
(***************************************************************************)
(* What is shown, and in which order.                                      *)
(***************************************************************************)
\* The owners of the calls on a page are what the page shows.
LEMMA ShownAreOwners ==
    ASSUME Layout, TypeOK, pc = "print", NEW n \in DOMAIN program.entries
    PROVE  /\ Shown(n) <=> n \in Owners(page)
           /\ InSynopsis(n) <=>
                 \/ Among(n, stored.positional)
                 \/ Among(n, stored.set_up) /\ program.entries[n].kind \in {"option", "flag"}
           /\ Shown(n) => Among(n, stored.positional) \/ Among(n, stored.set_up)
           /\ format \in FullFormats /\ (Among(n, stored.positional) \/ Among(n, stored.set_up))
                 => Shown(n)
<1>1. n # 0
  BY DEF TypeOK, Program
<1>2. Shown(n) <=> n \in Owners(page)
  BY <1>1 DEF Shown, Owners
<1>3. InSynopsis(n) <=> Among(n, stored.synopsis)
  BY DEF InSynopsis, Among
<1>4. StoredUpTo(program, stored, next) /\ Builds(program, format, stored, page)
  BY DEF Layout
<1>5. CASE format \in FullFormats
  <2>1. n \in Owners(page) <=> Among(n, stored.positional) \/ Among(n, stored.set_up)
    BY <1>4, <1>5 DEF Builds, PageShape, Among
  <2>2. QED
    BY <1>2, <1>3, <1>4, <2>1 DEF StoredUpTo
<1>6. CASE format \notin FullFormats
  <2>1. n \notin Owners(page)
    BY <1>4, <1>6 DEF Builds
  <2>2. QED
    BY <1>2, <1>3, <1>4, <1>6, <2>1 DEF StoredUpTo
<1>7. QED
  BY <1>5, <1>6

(***************************************************************************)
(* The synopsis and the lists of a page agree on every option, flag and    *)
(* positional option, and neither shows a hidden one: the two conditions   *)
(* of store_help_page_element and of the add_* functions of                *)
(* format_help_base do not drift apart.                                    *)
(***************************************************************************)
THEOREM SynopsisAgreesWithPageHolds == Spec => []SynopsisAgreesWithPage
<1>1. TypeOK /\ Layout => SynopsisAgreesWithPage
  <2> SUFFICES ASSUME TypeOK, Layout, LaidOut, NEW n \in DOMAIN program.entries
               PROVE  /\ program.entries[n].hidden => ~Shown(n) /\ ~InSynopsis(n)
                      /\ format \in {"help", "advanced_help", "html", "man"}
                         /\ program.entries[n].kind \in {"option", "flag", "positional"}
                            => (Shown(n) <=> InSynopsis(n))
    BY Zenon DEF SynopsisAgreesWithPage
  <2>1. pc = "print"
    BY DEF LaidOut
  <2>2. Verified(program.entries[n])
    BY DEF TypeOK, Program
  <2>3. StoredUpTo(program, stored, next)
    BY DEF Layout
  <2>4. Among(n, stored.positional) => ~program.entries[n].hidden
    BY <2>2, <2>3 DEF StoredUpTo, Verified
  <2>5. Among(n, stored.set_up) => ~program.entries[n].hidden
                                   /\ program.entries[n].kind # "positional"
    BY <2>3 DEF StoredUpTo
  <2>6. QED
    BY <2>1, <2>4, <2>5, ShownAreOwners DEF FullFormats
<1>2. QED
  BY <1>1, LayoutHolds, PTL

(***************************************************************************)
(* What a page shows of the application keeps the order of the calls that  *)
(* added it, positional options first, and is shown once.                  *)
(***************************************************************************)
THEOREM EntriesKeepTheirOrderHolds == Spec => []EntriesKeepTheirOrder
<1>1. TypeOK /\ Layout => EntriesKeepTheirOrder
  <2> SUFFICES ASSUME TypeOK, Layout, LaidOut,
                      NEW j \in DOMAIN page, NEW k \in DOMAIN page,
                      j < k, page[j].of # 0, page[k].of # 0
               PROVE  Before(program, page[j].of, page[k].of)
    BY DEF EntriesKeepTheirOrder, Before
  <2>1. Builds(program, format, stored, page)
    BY DEF Layout, LaidOut
  <2>2. CASE format \in FullFormats
    BY <2>1, <2>2 DEF Builds, PageShape, InOrder
  <2>3. CASE format \notin FullFormats
    BY <2>1, <2>3 DEF Builds, Owners
  <2>4. QED
    BY <2>2, <2>3
<1>2. QED
  BY <1>1, LayoutHolds, PTL

----------------------------------------------------------------------------
(***************************************************************************)
(* Where the kinds of calls stand on a page of HTML or roff.               *)
(***************************************************************************)
LEMMA CallsOnPage ==
    ASSUME TypeOK, Layout, Derived # "help", pc = "print"
    PROVE  /\ format \in {"html", "man"} /\ Derived = format
           /\ at \in 1..Len(page) /\ Len(page) \in Nat
           /\ TheCall.kind \in {"header", "section", "subsection", "line", "item", "throw", "footer"}
           /\ TheCall.kind = "header" <=> at = 1
           /\ TheCall.kind = "footer" <=> at = Len(page)
           /\ at = 2 => TheCall.kind = "section"
           /\ at = Len(page) /\ ~EndsInCitations => at > 1 /\ page[at - 1].kind = "line"
<1>1. format \in {"html", "man"} /\ Derived = format
  BY DEF Derived
<1>2. PageShape(program, stored, page)
  BY <1>1 DEF Layout, Builds, FullFormats
<1>3. page \in Seq(Call) /\ Len(page) > 2 /\ at \in DOMAIN page
  BY <1>2 DEF PageShape, TypeOK
<1>4. at \in 1..Len(page) /\ Len(page) \in Nat /\ at \in Nat
  BY <1>3
<1>5. \A c \in Inner : c.kind \in {"section", "subsection", "line", "item", "throw"}
  BY DEF Inner
<1>6. at = 1 => TheCall.kind = "header"
  BY <1>2 DEF PageShape, TheCall
<1>7. at = Len(page) => TheCall.kind = "footer"
  BY <1>2 DEF PageShape, TheCall
<1>8. at # 1 /\ at # Len(page) => TheCall.kind \in {"section", "subsection", "line", "item", "throw"}
  <2>1. at # 1 /\ at # Len(page) => at \in 2..(Len(page) - 1)
    BY <1>4
  <2>2. QED
    BY <1>2, <1>5, <2>1 DEF PageShape, TheCall
<1>9. at = 2 => TheCall.kind = "section"
  BY <1>2 DEF PageShape, TheCall
<1>10. at = Len(page) /\ ~EndsInCitations => at > 1 /\ page[at - 1].kind = "line"
  <2>1. program.meta.long_copyright \in BOOLEAN
    BY DEF TypeOK, Program, Meta
  <2>2. QED
    BY <1>2, <1>3, <2>1 DEF PageShape, EndsInCitations
<1>11. QED
  BY <1>1, <1>3, <1>4, <1>6, <1>7, <1>8, <1>9, <1>10

\* What a step is to the readers of HTML and roff.
Quiet ==
    /\ UNCHANGED <<chosen, at, is_dl, is_p, is_first_in_section, open, roff>>
    /\ page' = page \/ at = 1
    /\ pc' = "done" => (pc = "done" /\ page' = page) \/ at = Len(page') + 1

PrintsOnScreen ==
    /\ pc = "print" /\ Derived = "help" /\ at' = at + 1
    /\ UNCHANGED <<chosen, page, is_dl, is_p, is_first_in_section, open, roff>>
    /\ pc' = "done" => at = Len(page)

PrintsElements == HtmlHeader \/ HtmlHeading \/ HtmlLine \/ HtmlListItem \/ HtmlFooter

PrintsRequests == ManHeader \/ ManHeading \/ ManLine \/ ManListItem \/ ManFooter

LEMMA StepsByReader ==
    TypeOK /\ Layout /\ [Next]_vars => Quiet \/ PrintsOnScreen \/ PrintsElements \/ PrintsRequests
<1> SUFFICES ASSUME TypeOK, Layout, [Next]_vars
             PROVE  Quiet \/ PrintsOnScreen \/ PrintsElements \/ PrintsRequests
  OBVIOUS
<1>1. CASE AddOptionOrFlag \/ AddPositionalOption \/ AddText
  <2>1. pc = "operations" /\ UNCHANGED <<chosen, pc, page, at, members, readers>>
    BY <1>1 DEF AddOptionOrFlag, AddPositionalOption, AddText, RunsNext
  <2>2. QED
    BY <2>1 DEF Quiet, members, readers
<1>2. CASE BeginParse \/ AddToSynopsis \/ FinishSynopsis
  <2>1. /\ pc \in {"operations", "synopsis"} /\ pc' # "done"
        /\ UNCHANGED <<chosen, at, members, readers>>
    BY <1>2 DEF BeginParse, AddToSynopsis, FinishSynopsis
  <2>2. at = 1
    BY <2>1 DEF Layout
  <2>3. QED
    BY <2>1, <2>2 DEF Quiet, members, readers
<1>3. CASE SynopsisThrows
  <2>1. pc' = "thrown" /\ UNCHANGED <<chosen, built, at, members, readers>>
    BY <1>3 DEF SynopsisThrows
  <2>2. QED
    BY <2>1 DEF Quiet, built, members, readers
<1>4. CASE HelpHeader \/ HelpHeading \/ HelpLine \/ HelpListItem \/ HelpFooter
  <2>1. PICK kinds : PrintsHelp(kinds)
    BY <1>4 DEF HelpHeader, HelpHeading, HelpLine, HelpListItem, HelpFooter
  <2>2. /\ pc = "print" /\ Derived = "help" /\ at' = at + 1
        /\ UNCHANGED <<chosen, built, is_dl, is_p, is_first_in_section, open, roff>>
    BY <2>1 DEF PrintsHelp, Prints
  <2>3. pc' = NextOf(at) \/ pc' = "text"
    BY <1>4, Zenon DEF HelpHeader, HelpHeading, HelpLine, HelpListItem, HelpFooter, BeginText
  <2>4. pc' = "done" => at = Len(page)
    BY <2>3 DEF NextOf
  <2>5. QED
    BY <2>2, <2>4 DEF PrintsOnScreen, built
<1>5. CASE FirstWord \/ NextWord
  <2>1. /\ pc = "text" /\ pc' = pc
        /\ UNCHANGED <<chosen, built, at, is_dl, is_p, is_first_in_section, open, roff>>
    BY <1>5 DEF FirstWord, NextWord, PrintsWord
  <2>2. QED
    BY <2>1 DEF Quiet, built
<1>6. CASE EndText
  <2>1. /\ pc = "text" /\ pc' = NextOf(at - 1)
        /\ UNCHANGED <<chosen, built, at, members, open, roff>>
    BY <1>6 DEF EndText
  <2>2. at \in Nat /\ Len(page) \in Nat
    BY DEF TypeOK
  <2>3. pc' = "done" => at = Len(page) + 1
    BY <2>1, <2>2 DEF NextOf
  <2>4. QED
    BY <2>1, <2>3 DEF Quiet, built, members
<1>7. CASE Returned \/ UNCHANGED vars
  BY <1>7 DEF Returned, Quiet, vars, chosen, built, members, readers
<1>8. QED
  BY <1>1, <1>2, <1>3, <1>4, <1>5, <1>6, <1>7, Zenon
     DEF Next, PrintsElements, PrintsRequests

----------------------------------------------------------------------------
(***************************************************************************)
(* HTML.                                                                   *)
(***************************************************************************)
HtmlInv ==
    /\ ElementsNest
    /\ at = 1 => ~is_dl /\ ~is_p
    /\ Derived = "html" /\ at > 1 =>
          /\ page[at - 1].kind = "line" => ~is_dl
          /\ page[at - 1].kind = "footer" => ~is_p /\ (~EndsInCitations => ~is_dl)
    /\ pc = "done" => at = Len(page) + 1

LEMMA Tags ==
    /\ Whole(<<>>, "h1") = <<>> /\ Whole(<<>>, "div") = <<>>
    /\ Whole(<<>>, "h2") = <<>> /\ Whole(<<>>, "h3") = <<>>
    /\ Whole(<<"dl">>, "dt") = <<"dl">> /\ Whole(<<"dl">>, "dd") = <<"dl">>
    /\ Opened(<<>>, "p") = <<"p">> /\ Opened(<<>>, "dl") = <<"dl">>
    /\ Closed(<<"p">>, "p") = <<>> /\ Closed(<<"dl">>, "dl") = <<>>
<1>1. ASSUME NEW tag \in {"h1", "div", "h2", "h3", "p", "dl"}
      PROVE  Opened(<<>>, tag) = <<tag>> /\ Closed(<<tag>>, tag) = <<>>
  BY DEF Opened, Closed
<1>2. ASSUME NEW tag \in {"dt", "dd"}
      PROVE  Whole(<<"dl">>, tag) = <<"dl">>
  <2> DEFINE e == Append(<<"dl">>, tag)
  <2>1. Opened(<<"dl">>, tag) = e
    BY Zenon DEF Opened
  <2>2. /\ e \in Seq({"dl", tag}) /\ Len(e) = 2 /\ e[1] = "dl" /\ e[2] = tag
    OBVIOUS
  <2> HIDE DEF e
  <2>3. SubSeq(e, 1, 1) = <<"dl">>
    <3>1. \A i \in 1..1 : e[i] \in {"dl"}
      BY <2>2
    <3>2. /\ SubSeq(e, 1, 1) \in Seq({"dl"}) /\ Len(SubSeq(e, 1, 1)) = 1
          /\ SubSeq(e, 1, 1)[1] = "dl"
      BY <2>2, <3>1, SubSeqProperties
    <3> DEFINE front == SubSeq(e, 1, 1)
               list == <<"dl">>
    <3>3. list \in Seq({"dl"}) /\ Len(list) = 1 /\ list[1] = "dl"
      OBVIOUS
    <3> HIDE DEF front, list
    <3>4. Len(front) = Len(list) /\ \A i \in 1..Len(front) : front[i] = list[i]
      BY <3>2, <3>3 DEF front
    <3>5. front = list
      BY <3>2, <3>3, <3>4, SeqEqual DEF front
    <3>6. QED
      BY <3>5 DEF front, list
  <2>4. Closed(e, tag) = SubSeq(e, 1, 1)
    BY <2>2 DEF Closed
  <2>5. QED
    BY <2>1, <2>3, <2>4 DEF Whole
<1>3. QED
  BY <1>1, <1>2 DEF Whole

LEMMA HtmlSteps ==
    TypeOK /\ Layout /\ HtmlInv /\ PrintsElements => HtmlInv'
<1> SUFFICES ASSUME TypeOK, Layout, HtmlInv, PrintsElements
             PROVE  HtmlInv'
  OBVIOUS
<1>1. PICK kinds : PrintsHtml(kinds)
  BY DEF PrintsElements, HtmlHeader, HtmlHeading, HtmlLine, HtmlListItem, HtmlFooter
<1>2. /\ pc = "print" /\ Derived = "html" /\ at' = at + 1
      /\ program' = program /\ format' = format /\ page' = page
      /\ pc' = NextOf(at) /\ at \in Nat \ {0}
  BY <1>1 DEF PrintsHtml, Prints, chosen, built, TypeOK
<1>3. /\ at \in 1..Len(page) /\ Len(page) \in Nat
      /\ TheCall.kind = "header" <=> at = 1
      /\ TheCall.kind = "footer" <=> at = Len(page)
      /\ at = Len(page) /\ ~EndsInCitations => at > 1 /\ page[at - 1].kind = "line"
  BY <1>2, CallsOnPage
<1>4. /\ ~(is_dl /\ is_p) /\ open = OpenElements /\ is_dl \in BOOLEAN /\ is_p \in BOOLEAN
      /\ at = 1 => ~is_dl /\ ~is_p
      /\ at > 1 /\ page[at - 1].kind = "line" => ~is_dl
  BY <1>2 DEF HtmlInv, ElementsNest, TypeOK
<1>5. /\ at' # 1 /\ (pc' = "done" => at' = Len(page') + 1)
      /\ page'[at' - 1] = TheCall /\ EndsInCitations' = EndsInCitations
  BY <1>2, <1>3 DEF NextOf, TheCall, EndsInCitations
<1>6. ASSUME ElementsNest', TheCall.kind = "line" => ~is_dl',
             TheCall.kind = "footer" => ~is_p' /\ (~EndsInCitations => ~is_dl')
      PROVE  HtmlInv'
  BY <1>2, <1>5, <1>6 DEF HtmlInv
<1>7. TheCall.paragraph \in BOOLEAN
  BY <1>2, CallFields DEF TheCall, TypeOK
<1>8. maybe_close_list(open) = IF is_dl THEN <<>> ELSE open
  BY <1>4, Tags DEF maybe_close_list, OpenElements
<1>9. maybe_close_paragraph(open) = IF is_p THEN <<>> ELSE open
  BY <1>4, Tags DEF maybe_close_paragraph, OpenElements
<1>10. CASE HtmlHeader
  <2>1. TheCall.kind = "header" /\ open' = Whole(Whole(open, "h1"), "div")
        /\ is_dl' = is_dl /\ is_p' = is_p
    BY <1>10 DEF HtmlHeader, PrintsHtml, Prints
  <2>2. open = <<>> /\ ~is_dl /\ ~is_p
    BY <1>3, <1>4, <2>1 DEF OpenElements
  <2>3. open' = <<>>
    BY <2>1, <2>2, Tags
  <2>4. ElementsNest'
    BY <2>1, <2>2, <2>3 DEF ElementsNest, OpenElements
  <2>5. QED
    BY <1>6, <2>1, <2>4
<1>11. CASE HtmlHeading
  <2> DEFINE tag == IF TheCall.kind = "section" THEN "h2" ELSE "h3"
  <2>1. /\ TheCall.kind \in {"section", "subsection"}
        /\ open' = Whole(maybe_close_paragraph(maybe_close_list(open)), tag)
        /\ is_dl' = FALSE /\ is_p' = FALSE
    BY <1>11 DEF HtmlHeading, PrintsHtml, Prints
  <2>2. maybe_close_paragraph(maybe_close_list(open)) = <<>>
    BY <1>4, <1>8, <1>9, Tags DEF maybe_close_paragraph, OpenElements
  <2>3. open' = <<>>
    BY <2>1, <2>2, Tags
  <2>4. ElementsNest'
    BY <2>1, <2>3 DEF ElementsNest, OpenElements
  <2>5. QED
    BY <1>6, <2>1, <2>4
<1>12. CASE HtmlLine
  <2> DEFINE closed == maybe_close_list(open)
             inside == IF is_p THEN closed ELSE Opened(closed, "p")
  <2>1. /\ open' = IF TheCall.paragraph THEN Closed(inside, "p") ELSE inside
        /\ TheCall.kind = "line"
        /\ is_dl' = FALSE /\ is_p' = ~TheCall.paragraph
    BY <1>12 DEF HtmlLine, PrintsHtml, Prints
  <2>2. inside = <<"p">>
    BY <1>4, <1>8, Tags DEF OpenElements
  <2>3. open' = IF TheCall.paragraph THEN <<>> ELSE <<"p">>
    <3> HIDE DEF inside
    <3>1. QED
      BY <2>1, <2>2, Tags
  <2>4. ElementsNest'
    BY <1>7, <2>1, <2>3 DEF ElementsNest, OpenElements
  <2>5. QED
    BY <1>6, <2>1, <2>4
<1>13. CASE HtmlListItem
  <2> DEFINE closed == maybe_close_paragraph(open)
             inside == IF is_dl THEN closed ELSE Opened(closed, "dl")
  <2>1. /\ open' = Whole(Whole(inside, "dt"), "dd")
        /\ TheCall.kind = "item"
        /\ is_dl' = TRUE /\ is_p' = FALSE
    BY <1>13 DEF HtmlListItem, PrintsHtml, Prints
  <2>2. inside = <<"dl">>
    BY <1>4, <1>9, Tags DEF OpenElements
  <2>3. open' = <<"dl">>
    <3> HIDE DEF inside
    <3>1. QED
      BY <2>1, <2>2, Tags
  <2>4. ElementsNest'
    BY <2>1, <2>3 DEF ElementsNest, OpenElements
  <2>5. QED
    BY <1>6, <2>1, <2>4
<1>14. CASE HtmlFooter
  <2>1. /\ TheCall.kind = "footer" /\ open' = maybe_close_paragraph(open)
        /\ is_p' = FALSE /\ is_dl' = is_dl
    BY <1>14 DEF HtmlFooter, PrintsHtml, Prints
  <2>2. ElementsNest'
    BY <1>4, <1>9, <2>1 DEF ElementsNest, OpenElements
  <2>3. ~EndsInCitations => ~is_dl
    BY <1>3, <1>4, <2>1
  <2>4. QED
    BY <1>6, <2>1, <2>2, <2>3
<1>15. QED
  BY <1>10, <1>11, <1>12, <1>13, <1>14 DEF PrintsElements

LEMMA HtmlInvHolds == Spec => [](TypeOK /\ Layout /\ HtmlInv)
<1>1. Init => HtmlInv
  BY DEF Init, HtmlInv, ElementsNest, OpenElements
<1>2. TypeOK /\ Layout /\ HtmlInv /\ [Next]_vars => HtmlInv'
  <2> SUFFICES ASSUME TypeOK, Layout, HtmlInv, [Next]_vars
               PROVE  HtmlInv'
    OBVIOUS
  <2>1. CASE Quiet
    <3>1. /\ at' = at /\ is_dl' = is_dl /\ is_p' = is_p /\ open' = open
          /\ format' = format /\ program' = program /\ (page' = page \/ at = 1)
      BY <2>1 DEF Quiet, chosen
    <3>2. ElementsNest' /\ (at' = 1 => ~is_dl' /\ ~is_p') /\ Derived' = Derived
          /\ EndsInCitations' = EndsInCitations
      BY <3>1 DEF HtmlInv, ElementsNest, OpenElements, Derived, EndsInCitations
    <3>3. pc' = "done" => at' = Len(page') + 1
      BY <2>1, <3>1 DEF Quiet, HtmlInv
    <3>4. at' > 1 => page' = page
      BY <3>1
    <3>5. QED
      BY <3>1, <3>2, <3>3, <3>4 DEF HtmlInv
  <2>2. CASE PrintsOnScreen
    <3>1. /\ at' = at + 1 /\ is_dl' = is_dl /\ is_p' = is_p /\ open' = open
          /\ format' = format /\ page' = page /\ Derived = "help" /\ at \in Nat \ {0}
      BY <2>2 DEF PrintsOnScreen, chosen, TypeOK
    <3>2. ElementsNest' /\ at' # 1 /\ Derived' = "help"
      BY <3>1 DEF HtmlInv, ElementsNest, OpenElements, Derived
    <3>3. pc' = "done" => at' = Len(page') + 1
      BY <2>2, <3>1 DEF PrintsOnScreen
    <3>4. QED
      BY <3>2, <3>3 DEF HtmlInv
  <2>3. CASE PrintsElements
    BY <2>3, HtmlSteps
  <2>4. CASE PrintsRequests
    <3>1. PICK kinds : PrintsMan(kinds)
      BY <2>4 DEF PrintsRequests, ManHeader, ManHeading, ManLine, ManListItem, ManFooter
    <3>2. /\ at' = at + 1 /\ is_dl' = is_dl /\ is_p' = is_p /\ open' = open
          /\ format' = format /\ page' = page /\ Derived = "man" /\ at \in Nat \ {0}
          /\ pc' = NextOf(at)
      BY <3>1 DEF PrintsMan, Prints, chosen, built, TypeOK
    <3>3. ElementsNest' /\ at' # 1 /\ Derived' = "man"
      BY <3>2 DEF HtmlInv, ElementsNest, OpenElements, Derived
    <3>4. pc' = "done" => at' = Len(page') + 1
      BY <3>2 DEF NextOf
    <3>5. QED
      BY <3>3, <3>4 DEF HtmlInv
  <2>5. QED
    BY <2>1, <2>2, <2>3, <2>4, StepsByReader
<1>3. QED
  BY <1>1, <1>2, LayoutHolds, PTL DEF Spec

(***************************************************************************)
(* Whatever an application prints after whatever, format_html closes each  *)
(* element where HTML allows it, and <dl> and <p> are mutually exclusive   *)
(* as its comments say.                                                    *)
(***************************************************************************)
THEOREM ElementsNestHolds == Spec => []ElementsNest
<1>1. HtmlInv => ElementsNest
  BY DEF HtmlInv
<1>2. QED
  BY <1>1, HtmlInvHolds, PTL

(***************************************************************************)
(* A finished page of HTML has no open element unless it ends in the list  *)
(* of citations.                                                           *)
(***************************************************************************)
THEOREM HtmlIsClosedHolds == Spec => []HtmlIsClosed
<1>1. TypeOK /\ Layout /\ HtmlInv => HtmlIsClosed
  <2> SUFFICES ASSUME TypeOK, Layout, HtmlInv, pc = "done", format = "html", ~EndsInCitations
               PROVE  open = <<>>
    BY DEF HtmlIsClosed
  <2>1. PageShape(program, stored, page)
    BY DEF Layout, Builds, FullFormats
  <2>2. page \in Seq(Call) /\ Len(page) > 2 /\ page[Len(page)].kind = "footer"
    BY <2>1 DEF PageShape
  <2>3. at = Len(page) + 1 /\ at > 1 /\ page[at - 1].kind = "footer" /\ Derived = "html"
    BY <2>2 DEF HtmlInv, Derived
  <2>4. ~is_p /\ ~is_dl
    BY <2>3 DEF HtmlInv
  <2>5. QED
    BY <2>4 DEF HtmlInv, ElementsNest, OpenElements
<1>2. QED
  BY <1>1, HtmlInvHolds, PTL

----------------------------------------------------------------------------
(***************************************************************************)
(* roff.                                                                   *)
(***************************************************************************)
ManInv ==
    /\ ManKeepsTextsApart
    /\ Derived # "man" => roff = NothingRead
    /\ at = 1 => roff = NothingRead
    /\ Derived = "man" /\ at = 2 => roff.last = "text"
    /\ Derived = "man" /\ at > 2 => roff.last = IF is_first_in_section THEN "heading" ELSE "text"

LEMMA ManSteps ==
    TypeOK /\ Layout /\ ManInv /\ PrintsRequests => ManInv'
<1> SUFFICES ASSUME TypeOK, Layout, ManInv, PrintsRequests
             PROVE  ManInv'
  OBVIOUS
<1>1. PICK kinds : PrintsMan(kinds)
  BY DEF PrintsRequests, ManHeader, ManHeading, ManLine, ManListItem, ManFooter
<1>2. /\ pc = "print" /\ Derived = "man" /\ at' = at + 1 /\ format' = format /\ at \in Nat \ {0}
  BY <1>1 DEF PrintsMan, Prints, chosen, TypeOK
<1>3. /\ TheCall.kind = "header" <=> at = 1
      /\ at = 2 => TheCall.kind = "section"
  BY <1>2, CallsOnPage
<1>4. /\ roff \in RoffReader /\ is_first_in_section \in BOOLEAN
      /\ ~roff.run_on /\ ~roff.loose
      /\ at = 2 => roff.last = "text"
      /\ at > 2 => roff.last = IF is_first_in_section THEN "heading" ELSE "text"
  BY <1>2 DEF TypeOK, RoffReader, ManInv, ManKeepsTextsApart
<1>5. Derived' = "man" /\ at' # 1 /\ (at' = 2 <=> at = 1) /\ (at' > 2 <=> at # 1)
  BY <1>2 DEF Derived
<1>6. ASSUME ~roff'.run_on, ~roff'.loose, at = 1 => roff'.last = "text",
             at # 1 => roff'.last = IF is_first_in_section' THEN "heading" ELSE "text"
      PROVE  ManInv'
  BY <1>5, <1>6 DEF ManInv, ManKeepsTextsApart
<1>7. ASSUME NEW r \in RoffReader
      PROVE  /\ Request(r, "heading").last = "heading" /\ Request(r, "space").last = "space"
             /\ [Request(r, "tag") EXCEPT !.last = "text"].last = "text"
             /\ TextLine(r).last = "text"
             /\ Request(r, "heading").run_on = r.run_on /\ Request(r, "space").run_on = r.run_on
             /\ [Request(r, "tag") EXCEPT !.last = "text"].run_on = r.run_on
             /\ TextLine(r).loose = r.loose
             /\ ~r.loose => ~Request(r, "heading").loose
             /\ ~r.loose => ~[Request(r, "tag") EXCEPT !.last = "text"].loose
             /\ ~r.loose /\ r.last # "heading" => ~Request(r, "space").loose
             /\ ~r.run_on /\ r.last # "text" => ~TextLine(r).run_on
             /\ Request(r, "heading") \in RoffReader /\ Request(r, "space") \in RoffReader
  <2>1. ASSUME NEW request \in {"heading", "space", "tag"}
        PROVE  /\ Request(r, request).last = request
               /\ Request(r, request).run_on = r.run_on
               /\ ~r.loose /\ ~(request = "space" /\ r.last = "heading") => ~Request(r, request).loose
               /\ Request(r, request) \in RoffReader
    <3> DEFINE b == r.loose \/ (request = "space" /\ r.last = "heading")
    <3>1. b \in BOOLEAN
      BY Zenon DEF RoffReader
    <3>2. Request(r, request) = [r EXCEPT !.last = request, !.loose = b]
      BY Zenon DEF Request
    <3>3. ~r.loose /\ ~(request = "space" /\ r.last = "heading") => ~b
      OBVIOUS
    <3> HIDE DEF b
    <3>4. /\ [r EXCEPT !.last = request, !.loose = b].last = request
          /\ [r EXCEPT !.last = request, !.loose = b].run_on = r.run_on
          /\ [r EXCEPT !.last = request, !.loose = b].loose = b
          /\ [r EXCEPT !.last = request, !.loose = b] \in RoffReader
      BY <3>1 DEF RoffReader
    <3>5. QED
      BY <3>2, <3>3, <3>4, Zenon
  <2>2. /\ TextLine(r).last = "text" /\ TextLine(r).loose = r.loose
        /\ ~r.run_on /\ r.last # "text" => ~TextLine(r).run_on
    <3> DEFINE b == r.run_on \/ r.last = "text"
    <3>1. b \in BOOLEAN
      BY Zenon DEF RoffReader
    <3>2. TextLine(r) = [r EXCEPT !.last = "text", !.run_on = b]
      BY Zenon DEF TextLine
    <3>3. ~r.run_on /\ r.last # "text" => ~b
      OBVIOUS
    <3> HIDE DEF b
    <3>4. /\ [r EXCEPT !.last = "text", !.run_on = b].last = "text"
          /\ [r EXCEPT !.last = "text", !.run_on = b].loose = r.loose
          /\ [r EXCEPT !.last = "text", !.run_on = b].run_on = b
      BY <3>1 DEF RoffReader
    <3>5. QED
      BY <3>2, <3>3, <3>4, Zenon
  <2>3. ASSUME NEW s \in RoffReader
        PROVE  /\ [s EXCEPT !.last = "text"].last = "text"
               /\ [s EXCEPT !.last = "text"].run_on = s.run_on
               /\ [s EXCEPT !.last = "text"].loose = s.loose
    BY DEF RoffReader
  <2>4. /\ [Request(r, "tag") EXCEPT !.last = "text"].last = "text"
        /\ [Request(r, "tag") EXCEPT !.last = "text"].run_on = r.run_on
        /\ ~r.loose => ~[Request(r, "tag") EXCEPT !.last = "text"].loose
    <3> DEFINE s == Request(r, "tag")
    <3>1. s \in RoffReader /\ s.run_on = r.run_on /\ (~r.loose => ~s.loose)
      BY <2>1
    <3> HIDE DEF s
    <3>2. /\ [s EXCEPT !.last = "text"].last = "text"
          /\ [s EXCEPT !.last = "text"].run_on = r.run_on
          /\ ~r.loose => ~[s EXCEPT !.last = "text"].loose
      BY <2>3, <3>1
    <3>3. QED
      BY <3>2, Zenon DEF s
  <2>5. QED
    BY <2>1, <2>2, <2>4
<1>8. CASE ManHeader
  <2>1. TheCall.kind = "header" /\ roff' = TextLine(Request(roff, "heading"))
    BY <1>8 DEF ManHeader, PrintsMan, Prints
  <2>2. /\ Request(roff, "heading") \in RoffReader /\ Request(roff, "heading").last = "heading"
        /\ ~Request(roff, "heading").run_on /\ ~Request(roff, "heading").loose
    BY <1>4, <1>7
  <2>3. roff'.last = "text" /\ ~roff'.run_on /\ ~roff'.loose
    BY <1>7, <2>1, <2>2
  <2>4. QED
    BY <1>3, <1>6, <2>1, <2>3
<1>9. CASE ManHeading
  <2>1. /\ TheCall.kind \in {"section", "subsection"} /\ roff' = Request(roff, "heading")
        /\ is_first_in_section' = TRUE
    BY <1>9 DEF ManHeading, PrintsMan, Prints
  <2>2. roff'.last = "heading" /\ ~roff'.run_on /\ ~roff'.loose
    BY <1>4, <1>7, <2>1
  <2>3. QED
    BY <1>3, <1>6, <2>1, <2>2
<1>10. CASE ManLine
  <2>1. /\ TheCall.kind = "line" /\ is_first_in_section' = FALSE
        /\ roff' = TextLine(IF is_first_in_section THEN roff ELSE Request(roff, "space"))
    BY <1>10 DEF ManLine, PrintsMan, Prints
  <2>2. at > 2
    BY <1>2, <1>3, <2>1
  <2>3. CASE is_first_in_section
    <3>1. roff' = TextLine(roff) /\ roff.last = "heading"
      BY <1>4, <2>1, <2>2, <2>3
    <3>2. roff'.last = "text" /\ ~roff'.run_on /\ ~roff'.loose
      BY <1>4, <1>7, <3>1
    <3>3. QED
      BY <1>6, <2>1, <2>2, <3>2
  <2>4. CASE ~is_first_in_section
    <3>1. roff' = TextLine(Request(roff, "space")) /\ roff.last = "text"
      BY <1>4, <2>1, <2>2, <2>4
    <3>2. /\ Request(roff, "space") \in RoffReader /\ Request(roff, "space").last = "space"
          /\ ~Request(roff, "space").run_on /\ ~Request(roff, "space").loose
      BY <1>4, <1>7, <3>1
    <3>3. roff'.last = "text" /\ ~roff'.run_on /\ ~roff'.loose
      BY <1>7, <3>1, <3>2
    <3>4. QED
      BY <1>6, <2>1, <2>2, <3>3
  <2>5. QED
    BY <2>3, <2>4
<1>11. CASE ManListItem
  <2>1. /\ TheCall.kind = "item" /\ is_first_in_section' = FALSE
        /\ roff' = [Request(roff, "tag") EXCEPT !.last = "text"]
    BY <1>11 DEF ManListItem, PrintsMan, Prints
  <2>2. roff'.last = "text" /\ ~roff'.run_on /\ ~roff'.loose
    BY <1>4, <1>7, <2>1
  <2>3. QED
    BY <1>3, <1>6, <2>1, <2>2
<1>12. CASE ManFooter
  <2>1. /\ TheCall.kind = "footer" /\ roff' = roff /\ is_first_in_section' = is_first_in_section
    BY <1>12 DEF ManFooter, PrintsMan, Prints
  <2>2. at > 2
    BY <1>2, <1>3, <2>1
  <2>3. QED
    BY <1>4, <1>6, <2>1, <2>2
<1>13. QED
  BY <1>8, <1>9, <1>10, <1>11, <1>12 DEF PrintsRequests

(***************************************************************************)
(* format_man keeps its texts apart: wherever print_line leaves out ".sp"  *)
(* a heading stands above, and everywhere else a request stands between    *)
(* two texts.                                                              *)
(***************************************************************************)
THEOREM ManKeepsTextsApartHolds == Spec => []ManKeepsTextsApart
<1>1. Init => ManInv
  BY DEF Init, ManInv, ManKeepsTextsApart, NothingRead
<1>2. TypeOK /\ Layout /\ ManInv /\ [Next]_vars => ManInv'
  <2> SUFFICES ASSUME TypeOK, Layout, ManInv, [Next]_vars
               PROVE  ManInv'
    OBVIOUS
  <2>1. CASE Quiet
    <3>1. /\ at' = at /\ format' = format /\ roff' = roff
          /\ is_first_in_section' = is_first_in_section
      BY <2>1 DEF Quiet, chosen
    <3>2. QED
      BY <3>1 DEF ManInv, ManKeepsTextsApart, Derived
  <2>2. CASE PrintsOnScreen
    <3>1. format' = format /\ roff' = roff /\ Derived = "help" /\ at' = at + 1 /\ at \in Nat \ {0}
      BY <2>2 DEF PrintsOnScreen, chosen, TypeOK
    <3>2. Derived' = "help" /\ at' # 1
      BY <3>1 DEF Derived
    <3>3. QED
      BY <3>1, <3>2 DEF ManInv, ManKeepsTextsApart
  <2>3. CASE PrintsElements
    <3>1. PICK kinds : PrintsHtml(kinds)
      BY <2>3 DEF PrintsElements, HtmlHeader, HtmlHeading, HtmlLine, HtmlListItem, HtmlFooter
    <3>2. format' = format /\ roff' = roff /\ Derived = "html" /\ at' = at + 1 /\ at \in Nat \ {0}
      BY <3>1 DEF PrintsHtml, Prints, chosen, TypeOK
    <3>3. Derived' = "html" /\ at' # 1
      BY <3>2 DEF Derived
    <3>4. QED
      BY <3>2, <3>3 DEF ManInv, ManKeepsTextsApart
  <2>4. CASE PrintsRequests
    BY <2>4, ManSteps
  <2>5. QED
    BY <2>1, <2>2, <2>3, <2>4, StepsByReader
<1>3. ManInv => ManKeepsTextsApart
  BY DEF ManInv
<1>4. QED
  BY <1>1, <1>2, <1>3, LayoutHolds, PTL DEF Spec

----------------------------------------------------------------------------
(***************************************************************************)
(* The right edge of the screen.                                           *)
(***************************************************************************)
LEMMA ScreenColumns ==
    ASSUME NEW scr \in Screen, NEW n \in Nat, NEW text \in Text, NEW edge \in Nat
    PROVE  /\ Newline(scr).column = 0 /\ Newline(scr).words = 0
           /\ ~scr.overfull => ~Newline(scr).overfull
           /\ Spaces(scr, n).column = scr.column + n /\ Spaces(scr, n).words = scr.words
           /\ ~scr.overfull => ~Spaces(scr, n).overfull
           /\ Put(scr, text, edge).column = scr.column + to_text_width(text)
           /\ ~scr.overfull /\ (scr.words = 0 \/ scr.column + to_text_width(text) <= edge)
                 => ~Put(scr, text, edge).overfull
           /\ ~scr.overfull /\ scr.words = 0 => ~PutCells(scr, n, edge).overfull
           /\ [scr EXCEPT !.words = 0].column = scr.column
           /\ [scr EXCEPT !.words = 0].words = 0
           /\ ~scr.overfull => ~[scr EXCEPT !.words = 0].overfull
           /\ [scr EXCEPT !.gap = 0].column = scr.column
           /\ [scr EXCEPT !.gap = 0].words = scr.words
           /\ ~scr.overfull => ~[scr EXCEPT !.gap = 0].overfull
<1> DEFINE Ended(a) == [scr EXCEPT !.column = 0, !.words = 0, !.empty = TRUE, !.above = a]
           Moved(c) == [scr EXCEPT !.column = c]
           Printed(c, w, b, g, o) ==
               [scr EXCEPT !.column = c, !.words = w, !.empty = b, !.gap = g, !.overfull = o]
<1>1. ASSUME NEW a \in Nat
      PROVE  Ended(a).column = 0 /\ Ended(a).words = 0 /\ Ended(a).overfull = scr.overfull
  BY DEF Screen
<1>2. ASSUME NEW c \in Nat
      PROVE  Moved(c).column = c /\ Moved(c).words = scr.words /\ Moved(c).overfull = scr.overfull
  BY DEF Screen
<1>3. ASSUME NEW c \in Nat, NEW w \in Nat, NEW b \in BOOLEAN, NEW g \in Nat, NEW o \in BOOLEAN
      PROVE  Printed(c, w, b, g, o).column = c /\ Printed(c, w, b, g, o).overfull = o
  BY DEF Screen
<1> HIDE DEF Ended, Moved, Printed
<1>4. /\ Newline(scr).column = 0 /\ Newline(scr).words = 0
      /\ Newline(scr).overfull = scr.overfull
  <2> DEFINE a == IF scr.empty THEN scr.above + 1 ELSE 0
  <2>1. a \in Nat
    BY DEF Screen
  <2>2. Newline(scr) = Ended(a)
    BY Zenon DEF Newline, Ended
  <2> HIDE DEF a
  <2>3. QED
    BY <1>1, <2>1, <2>2
<1>5. /\ Spaces(scr, n).column = scr.column + n /\ Spaces(scr, n).words = scr.words
      /\ Spaces(scr, n).overfull = scr.overfull
  <2> DEFINE c == scr.column + n
  <2>1. c \in Nat
    BY DEF Screen
  <2>2. Spaces(scr, n) = Moved(c)
    BY Zenon DEF Spaces, Moved
  <2> HIDE DEF c
  <2>3. Spaces(scr, n).column = c /\ Spaces(scr, n).words = scr.words
        /\ Spaces(scr, n).overfull = scr.overfull
    BY <1>2, <2>1, <2>2
  <2>4. QED
    BY <2>3 DEF c
<1>6. ASSUME NEW width \in Nat
      PROVE  /\ PutCells(scr, width, edge).column = scr.column + width
             /\ ~scr.overfull /\ (scr.words = 0 \/ scr.column + width <= edge)
                   => ~PutCells(scr, width, edge).overfull
  <2> DEFINE column == scr.column + width
             first == scr.empty /\ column # scr.column
             words == scr.words + 1
             empty == scr.empty /\ ~first
             gap == IF first THEN Max({scr.gap, scr.above}) ELSE scr.gap
             beyond == scr.words > 0 /\ column > edge
             overfull == scr.overfull \/ beyond
  <2>1. Max({scr.gap, scr.above}) \in Nat
    BY MaxOfTwo DEF Screen
  <2>2. column \in Nat /\ words \in Nat /\ gap \in Nat
    BY <1>6, <2>1 DEF Screen
  <2>3. empty \in BOOLEAN /\ overfull \in BOOLEAN
    BY Zenon DEF Screen
  <2>4. PutCells(scr, width, edge) = Printed(column, words, empty, gap, overfull)
    BY Zenon DEF PutCells, Printed
  <2>5. scr.words = 0 \/ column <= edge => ~beyond
    BY <2>2
  <2> HIDE DEF words, empty, gap, overfull, beyond, column
  <2>6. /\ PutCells(scr, width, edge).column = column
        /\ PutCells(scr, width, edge).overfull = overfull
    BY <1>3, <2>2, <2>3, <2>4
  <2>7. QED
    BY <2>5, <2>6, Zenon DEF column, overfull
<1>7. /\ [scr EXCEPT !.words = 0].column = scr.column /\ [scr EXCEPT !.words = 0].words = 0
      /\ [scr EXCEPT !.words = 0].overfull = scr.overfull
      /\ [scr EXCEPT !.gap = 0].column = scr.column /\ [scr EXCEPT !.gap = 0].words = scr.words
      /\ [scr EXCEPT !.gap = 0].overfull = scr.overfull
  BY DEF Screen
<1>8. to_text_width(text) \in Nat
  BY TextWidths
<1>9. /\ Put(scr, text, edge).column = scr.column + to_text_width(text)
      /\ ~scr.overfull /\ (scr.words = 0 \/ scr.column + to_text_width(text) <= edge)
            => ~Put(scr, text, edge).overfull
      /\ ~scr.overfull /\ scr.words = 0 => ~PutCells(scr, n, edge).overfull
  BY <1>6, <1>8, Zenon DEF Put
<1>10. QED
  BY <1>4, <1>5, <1>7, <1>9, Zenon

\* What print_text has read ends where a word ends.
EndsWord(text, r) == r = 0 \/ (r \in 1..Len(text) /\ (r = Len(text) \/ text[r + 1] = Blank))

\* The word that comes next is one of the words of the text, and once it has
\* been read another one is no longer the first; a text without a word
\* behind position r that has none in front of it has none.
LEMMA WordsAreRead ==
    ASSUME NEW text \in Text, NEW r \in Nat, EndsWord(text, r)
    PROVE  /\ Unread(text, r) # {} =>
                 /\ WordBehind(text, r) \in WordsOf(text)
                 /\ EndsWord(text, EndOfWord(text, r))
                 /\ Unread(SubSeq(text, 1, EndOfWord(text, r)), 0) # {}
           /\ Unread(text, r) = {} /\ Unread(SubSeq(text, 1, r), 0) = {} => Unread(text, 0) = {}
<1>1. Len(text) \in Nat /\ r \in 0..Len(text)
  <2>1. Len(text) \in Nat
    BY DEF Text
  <2>2. QED
    BY <2>1 DEF EndsWord
<1>2. ASSUME NEW n \in 0..Len(text)
      PROVE  Unread(SubSeq(text, 1, n), 0) = {i \in 1..n : text[i] # Blank}
  <2>1. \A i \in 1..n : text[i] \in Unit
    BY <1>1 DEF Text
  <2>2. n \in Int /\ 1 \in Int /\ n <= Len(text) /\ 1 <= n + 1
    BY <1>1
  <2>3. /\ Len(SubSeq(text, 1, n)) = n
        /\ \A i \in 1..n : SubSeq(text, 1, n)[i] = text[i]
    <3>1. text \in Seq(Unit) /\ n \in Nat
      BY <1>1 DEF Text
    <3>2. QED
      BY <1>1, <3>1
  <2>4. QED
    BY <2>2, <2>3 DEF Unread
<1>3. ASSUME Unread(text, r) # {}
      PROVE  /\ WordBehind(text, r) \in WordsOf(text)
             /\ EndsWord(text, EndOfWord(text, r))
             /\ Unread(SubSeq(text, 1, EndOfWord(text, r)), 0) # {}
  <2> DEFINE first == Min(Unread(text, r))
             last == EndOfWord(text, r)
  <2>1. /\ first \in (r + 1)..Len(text) /\ last \in first..Len(text) /\ text[first] # Blank
        /\ last = Len(text) \/ text[last + 1] = Blank
    BY <1>1, <1>3, NextWordIsRead
  <2> HIDE DEF first, last
  <2>2. r = 0 \/ text[r + 1] = Blank
    BY <1>1, <2>1 DEF EndsWord
  <2>3. WordBehind(text, r) \in WordsOf(text)
    BY <1>1, <1>3, <2>2, Zenon DEF WordsOf
  <2>4. last \in 1..Len(text) /\ last \in 0..Len(text) /\ first \in 1..last
    BY <1>1, <2>1
  <2>5. EndsWord(text, last)
    BY <2>1, <2>4 DEF EndsWord
  <2>6. first \in Unread(SubSeq(text, 1, last), 0)
    BY <1>2, <2>1, <2>4
  <2>7. QED
    BY <2>3, <2>5, <2>6 DEF last
<1>4. ASSUME Unread(text, r) = {}, Unread(SubSeq(text, 1, r), 0) = {}
      PROVE  Unread(text, 0) = {}
  <2>1. \A i \in 1..r : text[i] = Blank
    BY <1>1, <1>2, <1>4
  <2>2. \A i \in (r + 1)..Len(text) : text[i] = Blank
    BY <1>4 DEF Unread
  <2>3. \A i \in 1..Len(text) : i \in 1..r \/ i \in (r + 1)..Len(text)
    BY <1>1
  <2>4. QED
    BY <2>1, <2>2, <2>3 DEF Unread
<1>5. QED
  BY <1>3, <1>4

Shifted == \E k \in 1..(at - 1) : ShiftsLine(page[k])

AtLineStart(scr) == scr.column = 0 /\ scr.words = 0 /\ ~scr.overfull

\* As long as no text has shifted a line, every call finds the cursor at the
\* start of a line and pos is the column of the cursor.
LinesInv ==
    /\ pc = "text" => TheText.kind \in {"line", "item"} /\ EndsWord(TheText.text, read)
    /\ ~Shifted =>
          /\ ~screen.overfull
          /\ pc \in {"operations", "synopsis", "print"} => AtLineStart(screen)
          /\ pc = "text" => screen.column = pos /\ (IsFirstWord => screen.words = 0)

\* Steps that print nothing on the screen.
LEMMA LinesUntouched ==
    ASSUME TypeOK, LinesInv, screen' = screen, at' \in Nat, at' >= at, page' = page \/ at = 1,
           page' = page \/ at' = 1, pc' # "text",
           pc' \in {"operations", "synopsis", "print"} => pc \in {"operations", "synopsis", "print"}
    PROVE  LinesInv'
<1>1. at \in Nat
  BY DEF TypeOK
<1>2. Shifted => Shifted'
  <2>1. CASE page' = page
    <3>1. ASSUME NEW m \in Nat, NEW n \in Nat, n >= m, NEW k \in 1..(m - 1)
          PROVE  k \in 1..(n - 1)
      BY <3>1
    <3>2. \A k \in 1..(at - 1) : k \in 1..(at' - 1)
      BY <1>1, <3>1
    <3>3. QED
      BY <2>1, <3>2 DEF Shifted
  <2>2. CASE at = 1
    BY <2>2 DEF Shifted
  <2>3. QED
    BY <2>1, <2>2
<1>3. QED
  BY <1>2 DEF LinesInv, AtLineStart

LEMMA CallsKeepLines ==
    TypeOK /\ Layout /\ LinesInv
    /\ (HelpHeader \/ HelpHeading \/ HelpLine \/ HelpListItem \/ HelpFooter)
    => LinesInv'
<1> SUFFICES ASSUME TypeOK, Layout, LinesInv,
                    HelpHeader \/ HelpHeading \/ HelpLine \/ HelpListItem \/ HelpFooter
             PROVE  LinesInv'
  OBVIOUS
<1>1. PICK kinds : PrintsHelp(kinds)
  BY DEF HelpHeader, HelpHeading, HelpLine, HelpListItem, HelpFooter
<1>2. /\ pc = "print" /\ at' = at + 1 /\ page' = page
      /\ at \in Nat \ {0} /\ at \in DOMAIN page
  BY <1>1 DEF PrintsHelp, Prints, built, TypeOK
<1>3. /\ screen \in Screen /\ screen_width \in Nat
      /\ TheCall.text \in Text /\ TheCall.key \in Text
  <2>1. screen \in Screen /\ screen_width \in Nat
    BY DEF TypeOK, minimalScreenWidth, maximalScreenWidth, rightPadding
  <2>2. QED
    BY <1>2, <2>1, CallFields DEF TheCall
<1>4. ~Shifted' => ~Shifted /\ ~ShiftsLine(TheCall)
  <2>1. \A k \in 1..(at - 1) : k \in 1..(at' - 1)
    BY <1>2
  <2>2. at \in 1..(at' - 1)
    BY <1>2
  <2>3. QED
    BY <1>2, <2>1, <2>2 DEF Shifted, TheCall
<1>5. ~Shifted' => AtLineStart(screen)
  BY <1>2, <1>4 DEF LinesInv
<1>6. ASSUME pc' = NextOf(at), ~Shifted' => AtLineStart(screen')
      PROVE  LinesInv'
  <2>1. pc' \in {"print", "done"}
    BY <1>2, <1>6, NextOfType
  <2>2. QED
    BY <1>6, <2>1 DEF LinesInv, AtLineStart
<1>7. ASSUME TheCall.kind \in {"line", "item"}, NEW column \in Nat, BeginText(column),
             ~Shifted' => screen'.column = column /\ screen'.words = 0 /\ ~screen'.overfull
      PROVE  LinesInv'
  <2>1. TheText' = TheCall
    BY <1>2 DEF TheText, TheCall
  <2>2. pc' = "text" /\ read' = 0 /\ pos' = column
    BY <1>7 DEF BeginText
  <2>3. QED
    BY <1>7, <2>1, <2>2 DEF LinesInv, EndsWord
<1>8. /\ Begun \in Screen /\ Newline(Begun) \in Screen /\ BehindParagraph \in Screen
      /\ AtLineStart(screen) =>
            AtLineStart(Begun) /\ AtLineStart(Newline(Begun)) /\ AtLineStart(BehindParagraph)
  <2>1. Begun \in Screen /\ (AtLineStart(screen) => AtLineStart(Begun))
    BY <1>3, ScreenFields, ScreenColumns, 0 \in Nat DEF Begun, AtLineStart
  <2>2. Newline(Begun) \in Screen /\ (AtLineStart(Begun) => AtLineStart(Newline(Begun)))
    BY <1>3, <2>1, ScreenSteps, ScreenColumns, 0 \in Nat DEF AtLineStart
  <2>3. QED
    BY <2>1, <2>2 DEF BehindParagraph
<1>9. ASSUME NEW s \in Screen, s.words = 0, ~s.overfull, NEW n \in Nat
      PROVE  FullLine(s, n) \in Screen /\ AtLineStart(FullLine(s, n))
  <2>1. PutCells(s, n, screen_width) \in Screen /\ ~PutCells(s, n, screen_width).overfull
    BY <1>3, <1>9, UnitsAreTexts, ScreenSteps, ScreenColumns
  <2>2. QED
    BY <1>3, <2>1, UnitsAreTexts, ScreenSteps, ScreenColumns, 0 \in Nat DEF FullLine, AtLineStart
<1>10. /\ leftPadding \in Nat /\ rightColumnTab \in Nat
       /\ raw_width(OwnText) \in Nat /\ text_width(OwnText) \in Nat
  <2>1. leftPadding \in Nat /\ rightColumnTab \in Nat
    BY DEF leftPadding, rightColumnTab, leftColumnWidth, centerPadding
  <2>2. OwnText \in Text
    BY OwnUnits, UnitsAreTexts DEF OwnText
  <2>3. QED
    BY <2>1, <2>2, TextWidths
<1>11. CASE HelpHeader
  <2>1. pc' = NextOf(at) /\ screen' = FullLine(FullLine(Begun, raw_width(OwnText)), text_width(OwnText))
    BY <1>11 DEF HelpHeader
  <2>2. AtLineStart(screen) => AtLineStart(screen')
    BY <1>8, <1>9, <1>10, <2>1 DEF AtLineStart
  <2>3. QED
    BY <1>5, <1>6, <2>1, <2>2
<1>12. CASE HelpHeading
  <2> DEFINE indent == IF TheCall.kind = "section" THEN 0 ELSE leftPadding \div 2
  <2>1. indent \in Nat
    BY DEF leftPadding
  <2>2. pc' = NextOf(at) /\ screen' = FullLine(Spaces(Newline(Begun), indent), raw_width(TheCall.text))
    BY <1>12 DEF HelpHeading
  <2> HIDE DEF indent
  <2>3. /\ Spaces(Newline(Begun), indent) \in Screen
        /\ Spaces(Newline(Begun), indent).words = Newline(Begun).words
        /\ ~Newline(Begun).overfull => ~Spaces(Newline(Begun), indent).overfull
    BY <1>3, <1>8, <2>1, ScreenSteps, ScreenColumns
  <2>4. AtLineStart(screen) => AtLineStart(screen')
    BY <1>3, <1>8, <1>9, <2>2, <2>3, TextWidths DEF AtLineStart
  <2>5. QED
    BY <1>5, <1>6, <2>2, <2>4
<1>13. CASE HelpLine
  <2>1. /\ screen' = [Spaces(BehindParagraph, leftPadding) EXCEPT !.words = 0]
        /\ BeginText(leftPadding) /\ TheCall.kind = "line"
    BY <1>13 DEF HelpLine, PrintsHelp, Prints
  <2> DEFINE s == Spaces(BehindParagraph, leftPadding)
  <2>2. /\ s \in Screen /\ s.column = BehindParagraph.column + leftPadding
        /\ ~BehindParagraph.overfull => ~s.overfull
    BY <1>3, <1>8, <1>10, ScreenSteps, ScreenColumns
  <2>3. screen' = [s EXCEPT !.words = 0]
    BY <2>1
  <2> HIDE DEF s
  <2>4. /\ screen'.column = s.column /\ screen'.words = 0
        /\ ~s.overfull => ~screen'.overfull
    BY <1>3, <1>10, <2>2, <2>3, ScreenColumns
  <2>5. ~Shifted' => screen'.column = leftPadding /\ screen'.words = 0 /\ ~screen'.overfull
    BY <1>5, <1>8, <1>10, <2>2, <2>4 DEF AtLineStart
  <2>6. QED
    BY <1>7, <1>10, <2>1, <2>5
<1>14. CASE HelpListItem
  <2> DEFINE left == Spaces(BehindParagraph, leftPadding)
             term == Put(left, TheCall.key, screen_width)
             column == leftPadding + text_width(TheCall.key)
             below == column + centerPadding > rightColumnTab
             beside == IF below THEN Newline(term) ELSE term
             gutter == rightColumnTab - (IF below THEN 0 ELSE column)
             moved == Spaces(beside, gutter)
  <2>1. /\ TheCall.kind = "item"
        /\ \/ TheCall.text # <<>> /\ screen' = [moved EXCEPT !.words = 0] /\ BeginText(rightColumnTab)
           \/ TheCall.text = <<>> /\ pc' = NextOf(at)
    BY <1>14, Zenon DEF HelpListItem, PrintsHelp, Prints
  <2>2. text_width(TheCall.key) \in Nat /\ to_text_width(TheCall.key) \in Nat
    BY <1>3, TextWidths
  <2>3. column \in Nat /\ gutter \in Nat
    <3>1. column \in Nat
      BY <1>10, <2>2
    <3> HIDE DEF column
    <3>2. QED
      BY <3>1 DEF rightColumnTab, leftPadding, leftColumnWidth, centerPadding
  <2>4. /\ left \in Screen
        /\ AtLineStart(BehindParagraph) => left.column = leftPadding /\ left.words = 0 /\ ~left.overfull
    <3>1. /\ left \in Screen /\ left.column = BehindParagraph.column + leftPadding
          /\ left.words = BehindParagraph.words
          /\ ~BehindParagraph.overfull => ~left.overfull
      BY <1>3, <1>8, <1>10, ScreenSteps, ScreenColumns
    <3> HIDE DEF left
    <3> QED
      BY <1>8, <1>10, <3>1 DEF AtLineStart
  <2> HIDE DEF left
  <2>5. /\ term \in Screen /\ term.column = left.column + to_text_width(TheCall.key)
        /\ ~left.overfull /\ left.words = 0 => ~term.overfull
    BY <1>3, <1>10, <2>4, ScreenSteps, ScreenColumns
  <2> HIDE DEF term
  <2>6. /\ Newline(term) \in Screen /\ Newline(term).column = 0
        /\ ~term.overfull => ~Newline(term).overfull
    BY <1>3, <1>10, <2>5, ScreenSteps, ScreenColumns
  <2>7. /\ beside \in Screen /\ (~term.overfull => ~beside.overfull)
        /\ beside.column = IF below THEN 0 ELSE term.column
    <3> HIDE DEF below
    <3>1. QED
      BY <2>5, <2>6
  <2>8. gutter = rightColumnTab - (IF below THEN 0 ELSE column)
    OBVIOUS
  <2> HIDE DEF below, beside, gutter
  <2>9. /\ moved \in Screen /\ moved.column = beside.column + gutter
        /\ ~beside.overfull => ~moved.overfull
    BY <1>3, <2>3, <2>7, ScreenSteps, ScreenColumns
  <2> HIDE DEF moved
  <2>10. CASE TheCall.text = <<>> /\ pc' = NextOf(at)
    <3>1. Unread(TheCall.text, 0) = {}
      BY <2>10 DEF Unread
    <3>2. ShiftsLine(TheCall)
      BY <2>1, <3>1 DEF ShiftsLine
    <3>3. QED
      BY <1>4, <1>6, <2>10, <3>2
  <2>11. CASE screen' = [moved EXCEPT !.words = 0] /\ BeginText(rightColumnTab)
    <3>1. /\ screen'.column = moved.column /\ screen'.words = 0
          /\ ~moved.overfull => ~screen'.overfull
      BY <1>3, <1>10, <2>9, <2>11, ScreenColumns
    <3>2. ASSUME ~Shifted'
          PROVE  screen'.column = rightColumnTab /\ ~screen'.overfull
      <4>1. ~Miscounted(TheCall.key)
        BY <1>4, <2>1, <3>2 DEF ShiftsLine
      <4>2. AtLineStart(BehindParagraph)
        BY <1>5, <1>8, <3>2
      <4>3. term.column = column /\ ~term.overfull
        BY <2>2, <2>4, <2>5, <4>1, <4>2 DEF Miscounted
      <4> HIDE DEF column
      <4>4. moved.column = rightColumnTab /\ ~moved.overfull
        BY <1>10, <2>3, <2>7, <2>8, <2>9, <4>3
      <4>5. QED
        BY <3>1, <4>4
    <3>3. QED
      BY <1>7, <1>10, <2>1, <2>11, <3>1, <3>2
  <2>12. QED
    BY <2>1, <2>10, <2>11
<1>15. CASE HelpFooter
  <2>1. pc' = NextOf(at) /\ screen' = screen
    BY <1>15 DEF HelpFooter
  <2>2. QED
    BY <1>5, <1>6, <2>1
<1>16. QED
  BY <1>11, <1>12, <1>13, <1>14, <1>15

LEMMA WordsKeepLines ==
    TypeOK /\ Layout /\ LinesInv /\ (FirstWord \/ NextWord \/ EndText) => LinesInv'
<1> SUFFICES ASSUME TypeOK, Layout, LinesInv, FirstWord \/ NextWord \/ EndText
             PROVE  LinesInv'
  OBVIOUS
<1>1. pc = "text" /\ page' = page /\ at' = at
  BY DEF FirstWord, NextWord, EndText, PrintsWord, built
<1>2. at \in Nat \ {0} /\ at - 1 \in DOMAIN page /\ at - 1 \in 1..(at - 1)
  <2>1. at \in Nat \ {0} /\ at - 1 \in DOMAIN page
    BY <1>1 DEF TypeOK
  <2>2. at - 1 > 0
    BY <2>1, CallFields
  <2>3. QED
    BY <2>1, <2>2
<1>3. /\ screen \in Screen /\ screen_width \in Nat /\ read \in Nat /\ pos \in Nat
      /\ TheText.text \in Text /\ Tab(TheText) \in Nat
  <2>1. screen \in Screen /\ screen_width \in Nat /\ read \in Nat /\ pos \in Nat
    <3>1. screen \in Screen /\ read \in Nat /\ pos \in Nat
          /\ screen_width \in (minimalScreenWidth - rightPadding)..(maximalScreenWidth - rightPadding)
      BY DEF TypeOK
    <3>2. QED
      BY <3>1 DEF minimalScreenWidth, maximalScreenWidth, rightPadding
  <2>2. Tab(TheText) \in Nat
    BY DEF Tab, rightColumnTab, leftPadding, leftColumnWidth, centerPadding
  <2>3. QED
    BY <1>2, <2>1, <2>2, CallFields DEF TheText
<1>4. /\ TheText.kind \in {"line", "item"} /\ EndsWord(TheText.text, read)
      /\ ~Shifted => ~screen.overfull /\ screen.column = pos /\ (IsFirstWord => screen.words = 0)
  BY <1>1 DEF LinesInv
<1>5. TheText' = TheText /\ Shifted' = Shifted
  BY <1>1 DEF TheText, Shifted
<1>6. ~Shifted => ~ShiftsLine(TheText)
  BY <1>2 DEF Shifted, TheText
<1>7. ASSUME PrintsWord
      PROVE  /\ Word \in Text /\ text_width(Word) \in Nat
             /\ ~Shifted => to_text_width(Word) = text_width(Word)
             /\ EndsWord(TheText.text, read')
             /\ Unread(SubSeq(TheText.text, 1, read'), 0) # {}
             /\ pc' = "text"
  <2>1. /\ Unread(TheText.text, read) # {} /\ read' = EndOfWord(TheText.text, read)
        /\ pc' = pc
    BY <1>7 DEF PrintsWord
  <2>2. /\ Word \in WordsOf(TheText.text) /\ EndsWord(TheText.text, read')
        /\ Unread(SubSeq(TheText.text, 1, read'), 0) # {}
    BY <1>3, <1>4, <2>1, WordsAreRead DEF Word
  <2>3. Word \in Text
    BY <1>3, <2>1, WordIsText DEF Word
  <2>4. ~Shifted => ~Miscounted(Word)
    BY <1>4, <1>6, <2>2 DEF ShiftsLine
  <2>5. QED
    BY <1>1, <2>1, <2>2, <2>3, <2>4, TextWidths DEF Miscounted
<1>8. ASSUME PrintsWord, ~Shifted => ~screen'.overfull /\ screen'.column = pos'
      PROVE  LinesInv'
  <2>1. ~IsFirstWord'
    BY <1>5, <1>7, <1>8 DEF IsFirstWord
  <2>2. QED
    BY <1>4, <1>5, <1>7, <1>8, <2>1 DEF LinesInv
<1>9. CASE FirstWord
  <2> DEFINE printed == Put(screen, Word, screen_width)
             width == text_width(Word)
             below == Indented(printed, Tab(TheText))
  <2>1. PrintsWord /\ IsFirstWord
    BY <1>9 DEF FirstWord
  <2>2. \/ screen' = below /\ pos' = Tab(TheText)
        \/ screen' = printed /\ pos' = pos + width
    BY <1>9 DEF FirstWord
  <2>3. /\ printed \in Screen /\ printed.column = screen.column + to_text_width(Word)
        /\ ~screen.overfull /\ screen.words = 0 => ~printed.overfull
    BY <1>3, <1>7, <2>1, ScreenSteps, ScreenColumns
  <2> HIDE DEF printed
  <2>4. below.column = Tab(TheText) /\ (~printed.overfull => ~below.overfull)
    <3>1. /\ Newline(printed) \in Screen /\ Newline(printed).column = 0
          /\ ~printed.overfull => ~Newline(printed).overfull
      BY <1>3, <2>3, ScreenSteps, ScreenColumns
    <3>2. /\ Spaces(Newline(printed), Tab(TheText)).column
             = Newline(printed).column + Tab(TheText)
          /\ ~Newline(printed).overfull => ~Spaces(Newline(printed), Tab(TheText)).overfull
      BY <1>3, <3>1, ScreenColumns
    <3>3. QED
      BY <1>3, <3>1, <3>2 DEF Indented
  <2> HIDE DEF below
  <2>5. ~Shifted => ~screen'.overfull /\ screen'.column = pos'
    BY <1>4, <1>7, <2>1, <2>2, <2>3, <2>4
  <2>6. QED
    BY <1>8, <2>1, <2>5
<1>10. CASE NextWord
  <2> DEFINE nextLine == Indented(screen, Tab(TheText))
             below == Put(nextLine, Word, screen_width)
             apart == Spaces(screen, 1)
             beside == Put(apart, Word, screen_width)
             width == text_width(Word)
  <2>1. PrintsWord
    BY <1>10 DEF NextWord
  <2>2. \/ screen' = below /\ pos' = Tab(TheText) + width
        \/ pos + 1 + width <= screen_width /\ screen' = beside /\ pos' = pos + width + 1
    BY <1>10 DEF NextWord
  <2>3. /\ nextLine \in Screen /\ nextLine.column = Tab(TheText) /\ nextLine.words = 0
        /\ ~screen.overfull => ~nextLine.overfull
    <3>1. /\ Newline(screen) \in Screen /\ Newline(screen).column = 0 /\ Newline(screen).words = 0
          /\ ~screen.overfull => ~Newline(screen).overfull
      BY <1>3, ScreenSteps, ScreenColumns
    <3>2. /\ Spaces(Newline(screen), Tab(TheText)) \in Screen
          /\ Spaces(Newline(screen), Tab(TheText)).column
             = Newline(screen).column + Tab(TheText)
          /\ Spaces(Newline(screen), Tab(TheText)).words = Newline(screen).words
          /\ ~Newline(screen).overfull => ~Spaces(Newline(screen), Tab(TheText)).overfull
      BY <1>3, <3>1, ScreenSteps, ScreenColumns
    <3>3. QED
      BY <1>3, <3>1, <3>2 DEF Indented
  <2> HIDE DEF nextLine
  <2>4. /\ below.column = nextLine.column + to_text_width(Word)
        /\ ~nextLine.overfull => ~below.overfull
    BY <1>3, <1>7, <2>1, <2>3, ScreenColumns
  <2> HIDE DEF below
  <2>5. /\ apart \in Screen /\ apart.column = screen.column + 1
        /\ ~screen.overfull => ~apart.overfull
    BY <1>3, 1 \in Nat, ScreenSteps, ScreenColumns
  <2> HIDE DEF apart
  <2>6. /\ beside.column = apart.column + to_text_width(Word)
        /\ ~apart.overfull /\ apart.column + to_text_width(Word) <= screen_width
              => ~beside.overfull
    BY <1>3, <1>7, <2>1, <2>5, ScreenColumns
  <2> HIDE DEF beside
  <2>7. ASSUME ~Shifted
        PROVE  ~screen'.overfull /\ screen'.column = pos'
    <3>1. to_text_width(Word) = width /\ width \in Nat /\ ~screen.overfull /\ screen.column = pos
      BY <1>4, <1>7, <2>1, <2>7
    <3> HIDE DEF width
    <3>2. CASE screen' = below /\ pos' = Tab(TheText) + width
      BY <1>3, <2>3, <2>4, <3>1, <3>2
    <3>3. CASE pos + 1 + width <= screen_width /\ screen' = beside /\ pos' = pos + width + 1
      BY <1>3, <2>5, <2>6, <3>1, <3>3
    <3>4. QED
      BY <2>2, <3>2, <3>3 DEF width
  <2>8. QED
    BY <1>8, <2>1, <2>7
<1>11. CASE EndText
  <2>1. /\ Unread(TheText.text, read) = {} /\ pc' = NextOf(at - 1)
        /\ screen' = IF IsFirstWord THEN screen ELSE Newline(screen)
    BY <1>11 DEF EndText
  <2>2. pc' \in {"print", "done"}
    BY <1>2, <2>1, NextOfType
  <2>3. ASSUME ~Shifted
        PROVE  AtLineStart(screen')
    <3>1. Unread(TheText.text, 0) # {}
      BY <1>4, <1>6, <2>3 DEF ShiftsLine
    <3>2. ~IsFirstWord
      BY <1>3, <1>4, <2>1, <3>1, WordsAreRead DEF IsFirstWord
    <3>3. screen' = Newline(screen) /\ ~screen.overfull
      BY <1>4, <2>1, <2>3, <3>2
    <3>4. /\ Newline(screen).column = 0 /\ Newline(screen).words = 0
          /\ ~screen.overfull => ~Newline(screen).overfull
      BY <1>3, ScreenColumns
    <3>5. QED
      BY <3>3, <3>4 DEF AtLineStart
  <2>4. QED
    BY <1>5, <2>2, <2>3 DEF LinesInv, AtLineStart
<1>12. QED
  BY <1>9, <1>10, <1>11

LEMMA StepsKeepLines == TypeOK /\ Layout /\ LinesInv /\ [Next]_vars => LinesInv'
<1> SUFFICES ASSUME TypeOK, Layout, LinesInv, [Next]_vars
             PROVE  LinesInv'
  OBVIOUS
<1>1. at \in Nat \ {0}
  BY DEF TypeOK
<1>2. CASE AddOptionOrFlag \/ AddPositionalOption \/ AddText
  <2>1. pc = "operations" /\ pc' = pc /\ page' = page /\ at' = at /\ screen' = screen
    BY <1>2 DEF AddOptionOrFlag, AddPositionalOption, AddText, RunsNext, readers
  <2>2. QED
    BY <1>1, <2>1, LinesUntouched
<1>3. CASE BeginParse \/ AddToSynopsis \/ FinishSynopsis
  <2>1. /\ pc \in {"operations", "synopsis"} /\ pc' # "text"
        /\ at' = at /\ screen' = screen
    BY <1>3 DEF BeginParse, AddToSynopsis, FinishSynopsis, readers
  <2>2. at = 1
    BY <2>1 DEF Layout
  <2>3. QED
    BY <1>1, <2>1, <2>2, LinesUntouched
<1>4. CASE SynopsisThrows
  <2>1. pc' = "thrown" /\ page' = page /\ at' = at /\ screen' = screen
    BY <1>4 DEF SynopsisThrows, built, readers
  <2>2. QED
    BY <1>1, <2>1, LinesUntouched
<1>5. CASE PrintsElements \/ PrintsRequests
  <2>1. PICK kinds : PrintsHtml(kinds) \/ PrintsMan(kinds)
    BY <1>5 DEF PrintsElements, HtmlHeader, HtmlHeading, HtmlLine, HtmlListItem, HtmlFooter,
                PrintsRequests, ManHeader, ManHeading, ManLine, ManListItem, ManFooter
  <2>2. pc = "print" /\ pc' = NextOf(at) /\ page' = page /\ at' = at + 1 /\ screen' = screen
    BY <2>1 DEF PrintsHtml, PrintsMan, Prints, built
  <2>3. pc' \in {"print", "done"}
    BY <2>2, NextOfType DEF TypeOK
  <2>4. at' \in Nat /\ at' >= at
    BY <1>1, <2>2
  <2>5. QED
    BY <2>2, <2>3, <2>4, LinesUntouched
<1>6. CASE Returned \/ UNCHANGED vars
  <2>1. UNCHANGED vars
    BY <1>6 DEF Returned
  <2>2. UNCHANGED <<pc, page, at, screen, read, pos>>
    BY <2>1 DEF vars, built, members, readers
  <2>3. Shifted' = Shifted /\ TheText' = TheText /\ IsFirstWord' = IsFirstWord
    BY <2>2 DEF Shifted, TheText, IsFirstWord
  <2>4. QED
    BY <2>2, <2>3 DEF LinesInv, AtLineStart
<1>7. QED
  BY <1>2, <1>3, <1>4, <1>5, <1>6, CallsKeepLines, WordsKeepLines, Zenon
     DEF Next, PrintsElements, PrintsRequests

(***************************************************************************)
(* print_text never prints a word across the right edge if another word of *)
(* its text stands to its left, unless a text before it has an escape      *)
(* sequence that text_width counts short or has no word at all.            *)
(***************************************************************************)
THEOREM LinesFitHolds == Spec => []LinesFit
<1>1. Init => LinesInv
  BY DEF Init, LinesInv, AtLineStart, ClearScreen
<1>2. TypeOK /\ Layout /\ LinesInv /\ [Next]_vars => LinesInv'
  BY StepsKeepLines
<1>3. LinesInv => LinesFit
  BY DEF LinesInv, LinesFit, Shifted
<1>4. QED
  BY <1>1, <1>2, <1>3, LayoutHolds, PTL DEF Spec

----------------------------------------------------------------------------
(***************************************************************************)
(* Empty lines on the screen.                                              *)
(***************************************************************************)
LEMMA NewlineGap ==
    ASSUME NEW scr \in Screen
    PROVE  /\ Newline(scr).column = 0 /\ Newline(scr).empty
           /\ Newline(scr).above = IF scr.empty THEN scr.above + 1 ELSE 0
           /\ Newline(scr).gap = scr.gap
<1> DEFINE Ended(a) == [scr EXCEPT !.column = 0, !.words = 0, !.empty = TRUE, !.above = a]
           above == IF scr.empty THEN scr.above + 1 ELSE 0
<1>1. ASSUME NEW a \in Nat
      PROVE  /\ Ended(a).column = 0 /\ Ended(a).empty /\ Ended(a).above = a
             /\ Ended(a).gap = scr.gap
  BY DEF Screen
<1>2. above \in Nat
  BY DEF Screen
<1>3. Newline(scr) = Ended(above)
  BY Zenon DEF Newline
<1> HIDE DEF Ended, above
<1>4. /\ Ended(above).column = 0 /\ Ended(above).empty /\ Ended(above).above = above
      /\ Ended(above).gap = scr.gap
  BY <1>1, <1>2
<1> QED
  BY <1>3, <1>4 DEF above

LEMMA SpacesGap ==
    ASSUME NEW scr \in Screen, NEW n \in Nat
    PROVE  /\ Spaces(scr, n).empty = scr.empty /\ Spaces(scr, n).above = scr.above
           /\ Spaces(scr, n).gap = scr.gap
<1> DEFINE column == scr.column + n
<1>1. column \in Nat
  BY DEF Screen
<1>2. Spaces(scr, n) = [scr EXCEPT !.column = column]
  BY Zenon DEF Spaces
<1> HIDE DEF column
<1> QED
  BY <1>1, <1>2 DEF Screen

LEMMA PutGap ==
    ASSUME NEW scr \in Screen, NEW width \in Nat, NEW edge \in Nat
    PROVE  /\ width > 0 =>
                 /\ ~PutCells(scr, width, edge).empty
                 /\ PutCells(scr, width, edge).gap
                    = IF scr.empty THEN Max({scr.gap, scr.above}) ELSE scr.gap
           /\ width = 0 => /\ PutCells(scr, width, edge).empty = scr.empty
                          /\ PutCells(scr, width, edge).gap = scr.gap
           /\ PutCells(scr, width, edge).above = scr.above
<1> DEFINE Printed(c, w, b, g, o) ==
               [scr EXCEPT !.column = c, !.words = w, !.empty = b, !.gap = g, !.overfull = o]
           column == scr.column + width
           wide == column # scr.column
           first == scr.empty /\ wide
           words == scr.words + 1
           empty == scr.empty /\ ~first
           gap == IF first THEN Max({scr.gap, scr.above}) ELSE scr.gap
           overfull == scr.overfull \/ (scr.words > 0 /\ column > edge)
<1>1. ASSUME NEW c \in Nat, NEW w \in Nat, NEW b \in BOOLEAN, NEW g \in Nat, NEW o \in BOOLEAN
      PROVE  /\ Printed(c, w, b, g, o).empty = b /\ Printed(c, w, b, g, o).gap = g
             /\ Printed(c, w, b, g, o).above = scr.above
  BY DEF Screen
<1>2. Max({scr.gap, scr.above}) \in Nat /\ scr.column \in Nat
  BY MaxOfTwo DEF Screen
<1>3. column \in Nat /\ words \in Nat /\ gap \in Nat
  BY <1>2 DEF Screen
<1>4. empty \in BOOLEAN /\ overfull \in BOOLEAN
  BY Zenon DEF Screen
<1>5. PutCells(scr, width, edge) = Printed(column, words, empty, gap, overfull)
  BY Zenon DEF PutCells
<1>6. (width > 0 => wide) /\ (width = 0 => ~wide)
  BY <1>2
<1>7. (wide => ~empty) /\ (~wide => empty = scr.empty)
  <2>1. scr.empty \in BOOLEAN
    BY DEF Screen
  <2> HIDE DEF wide
  <2> QED
    BY <2>1
<1>8. /\ wide => gap = IF scr.empty THEN Max({scr.gap, scr.above}) ELSE scr.gap
      /\ ~wide => gap = scr.gap
  <2> HIDE DEF wide
  <2> QED
    BY Zenon
<1> HIDE DEF Printed, words, empty, gap, overfull, column, wide
<1>9. /\ PutCells(scr, width, edge).empty = empty /\ PutCells(scr, width, edge).gap = gap
      /\ PutCells(scr, width, edge).above = scr.above
  BY <1>1, <1>3, <1>4, <1>5
<1> QED
  BY <1>6, <1>7, <1>8, <1>9, Zenon

\* The cursor is at the start of a line that is not below an empty one.
AtFreshLine(scr) == scr.column = 0 /\ scr.empty /\ scr.above = 0

\* What the running call prints is, or will be, below g empty lines.
BelowGap(scr, g) ==
    \/ ~scr.empty /\ scr.gap = g
    \/ scr.empty /\ scr.gap = g /\ scr.above = 0
    \/ scr.empty /\ scr.gap = 0 /\ scr.above = g

LEMMA MovesKeepGap ==
    ASSUME NEW scr \in Screen, NEW n \in Nat, NEW g \in {0, 1}, BelowGap(scr, g)
    PROVE  Spaces(scr, n) \in Screen /\ BelowGap(Spaces(scr, n), g)
<1>1. Spaces(scr, n) \in Screen
  BY UnitsAreTexts, ScreenSteps
<1>2. BelowGap(Spaces(scr, n), g)
  BY SpacesGap, Zenon DEF BelowGap
<1> QED
  BY <1>1, <1>2

LEMMA TextBeginsBelowGap ==
    ASSUME NEW scr \in Screen, NEW g \in {0, 1}, BelowGap(scr, g)
    PROVE  BelowGap([scr EXCEPT !.words = 0], g)
<1> DEFINE begun == [scr EXCEPT !.words = 0]
<1>1. begun.empty = scr.empty /\ begun.above = scr.above /\ begun.gap = scr.gap
  BY DEF Screen
<1> HIDE DEF begun
<1>2. BelowGap(begun, g)
  BY <1>1, Zenon DEF BelowGap
<1> QED
  BY <1>2 DEF begun

LEMMA CellsKeepGap ==
    ASSUME NEW scr \in Screen, NEW width \in Nat, NEW edge \in Nat
    PROVE  /\ \A g \in {0, 1} : BelowGap(scr, g) => BelowGap(PutCells(scr, width, edge), g)
           /\ ~scr.empty \/ width > 0 => ~PutCells(scr, width, edge).empty
<1> DEFINE put == PutCells(scr, width, edge)
<1>1. /\ width > 0 =>
            /\ ~put.empty
            /\ put.gap = IF scr.empty THEN Max({scr.gap, scr.above}) ELSE scr.gap
      /\ width = 0 => put.empty = scr.empty /\ put.gap = scr.gap
      /\ put.above = scr.above
  BY PutGap
<1> HIDE DEF put
<1>2. ASSUME NEW g \in {0, 1}, BelowGap(scr, g)
      PROVE  BelowGap(put, g)
  <2>1. Max({g, 0}) = g /\ Max({0, g}) = g
    BY DEF Max
  <2>2. CASE width = 0
    BY <1>1, <1>2, <2>2, Zenon DEF BelowGap
  <2>3. CASE width > 0
    <3>1. ~put.empty /\ put.gap = g
      BY <1>1, <1>2, <2>1, <2>3 DEF BelowGap
    <3> QED
      BY <3>1 DEF BelowGap
  <2> QED
    BY <2>2, <2>3
<1>3. ~scr.empty \/ width > 0 => ~put.empty
  BY <1>1
<1> QED
  BY <1>2, <1>3 DEF put

LEMMA WordKeepsGap ==
    ASSUME NEW scr \in Screen, NEW text \in Text, NEW edge \in Nat, NEW g \in {0, 1},
           BelowGap(scr, g)
    PROVE  BelowGap(Put(scr, text, edge), g)
BY TextWidths, CellsKeepGap DEF Put

LEMMA WordsAreSeen ==
    ASSUME NEW scr \in Screen, NEW text \in Text, NEW edge \in Nat,
           ~scr.empty \/ to_text_width(text) > 0
    PROVE  ~Put(scr, text, edge).empty
BY TextWidths, CellsKeepGap DEF Put

LEMMA LineKeepsGap ==
    ASSUME NEW scr \in Screen, NEW g \in {0, 1}, ~scr.empty
    PROVE  /\ AtFreshLine(Newline(scr))
           /\ BelowGap(scr, g) => BelowGap(Newline(scr), g) /\ Newline(scr).gap = g
BY NewlineGap DEF AtFreshLine, BelowGap

LEMMA FreshLines ==
    ASSUME NEW scr \in Screen, AtFreshLine(scr)
    PROVE  /\ BelowGap([scr EXCEPT !.gap = 0], 0)
           /\ BelowGap(Newline([scr EXCEPT !.gap = 0]), 1)
<1> DEFINE begun == [scr EXCEPT !.gap = 0]
<1>1. begun \in Screen /\ begun.empty = scr.empty /\ begun.above = scr.above /\ begun.gap = 0
  BY DEF Screen
<1> HIDE DEF begun
<1>2. begun.empty /\ begun.above = 0
  BY <1>1 DEF AtFreshLine
<1>3. Newline(begun).empty /\ Newline(begun).above = 1 /\ Newline(begun).gap = 0
  BY <1>1, <1>2, NewlineGap
<1>4. BelowGap(begun, 0) /\ BelowGap(Newline(begun), 1)
  BY <1>1, <1>2, <1>3 DEF BelowGap
<1> QED
  BY <1>4 DEF begun

AsParagraph(call) == call.kind = "line" /\ call.paragraph

\* The call that was carried out last, or whose text is being printed, ends
\* its line; so does the one above it; the empty lines between them.
EndsBelow == at > 1 /\ LeavesNoEmptyLine(page[at - 1])
EndsAbove == at > 2 /\ LeavesNoEmptyLine(page[at - 2])
Wanted == IF IsHeading(page[at - 1]) \/ AsParagraph(page[at - 2]) THEN 1 ELSE 0

\* prev_was_paragraph tells of the call above.
FlagTells ==
    /\ at = 1 => ~prev_was_paragraph
    /\ at > 1 /\ page[at - 1].kind \notin {"footer", "block"} =>
          (prev_was_paragraph <=> AsParagraph(page[at - 1]))

\* A call that ends its line leaves the cursor on a fresh one.
LineIsEnded ==
    pc # "text" /\ EndsBelow => AtFreshLine(screen) /\ (EndsAbove => screen.gap = Wanted)

\* A text is at its start or has been printed.
TextIsBegun ==
    pc = "text" =>
        /\ IsFirstWord => read = 0 /\ pos = Tab(TheText)
        /\ EndsBelow =>
              (~IsFirstWord => ~screen.empty) /\ (EndsAbove => BelowGap(screen, Wanted))

GapInv == Derived = "help" => FlagTells /\ LineIsEnded /\ TextIsBegun

\* What a print call of format_help finds.
LEMMA CallFindsLine ==
    ASSUME TypeOK, Layout, GapInv, pc = "print", Derived = "help"
    PROVE  /\ at \in Nat \ {0} /\ at \in DOMAIN page /\ screen \in Screen /\ screen_width \in Nat
           /\ TheCall.text \in Text /\ TheCall.key \in Text
           /\ TheCall.kind = "header" => at = 1
           /\ EndsBelow => AtFreshLine(screen) /\ (prev_was_paragraph <=> AsParagraph(page[at - 1]))
           /\ prev_was_paragraph \in BOOLEAN
<1>1. /\ at \in Nat \ {0} /\ at \in DOMAIN page /\ screen \in Screen /\ screen_width \in Nat
      /\ prev_was_paragraph \in BOOLEAN
  BY DEF TypeOK, minimalScreenWidth, maximalScreenWidth, rightPadding
<1>2. TheCall.text \in Text /\ TheCall.key \in Text
  BY <1>1, CallFields DEF TheCall
<1>3. ASSUME at # 1
      PROVE  TheCall.kind # "header"
  <2>1. Builds(program, format, stored, page)
    BY DEF Layout
  <2>2. at \in 2..Len(page) /\ Len(page) \in Nat
    BY <1>1, <1>3, CallFields
  <2>3. CASE format \in FullFormats
    <3>1. PageShape(program, stored, page)
      BY <2>1, <2>3 DEF Builds
    <3>2. \A c \in Inner : c.kind # "header"
      BY DEF Inner
    <3>3. at \in 2..(Len(page) - 1) \/ at = Len(page)
      BY <2>2
    <3> QED
      BY <3>1, <3>2, <3>3 DEF PageShape, TheCall
  <2>4. CASE format \notin FullFormats
    BY <2>1, <2>2, <2>4 DEF Builds, TheCall
  <2> QED
    BY <2>3, <2>4
<1>4. EndsBelow => at > 1 /\ page[at - 1].kind \notin {"footer", "block"}
  BY DEF EndsBelow, LeavesNoEmptyLine, IsHeading
<1>5. EndsBelow => AtFreshLine(screen) /\ (prev_was_paragraph <=> AsParagraph(page[at - 1]))
  BY <1>4 DEF GapInv, FlagTells, LineIsEnded
<1> QED
  BY <1>1, <1>2, <1>3, <1>5

\* What a print call has to do for the invariant, whether or not it has a
\* text that is still to be printed.
LEMMA CallKeepsGap ==
    ASSUME TypeOK, Layout, GapInv, NEW kinds, PrintsHelp(kinds),
           TheCall.kind \notin {"footer", "block"} => (prev_was_paragraph' <=> AsParagraph(TheCall)),
           \/ /\ pc' = NextOf(at)
              /\ LeavesNoEmptyLine(TheCall) =>
                    /\ AtFreshLine(screen')
                    /\ EndsBelow =>
                          screen'.gap = IF IsHeading(TheCall) \/ prev_was_paragraph THEN 1 ELSE 0
           \/ /\ BeginText(Tab(TheCall))
              /\ LeavesNoEmptyLine(TheCall) /\ EndsBelow =>
                    BelowGap(screen', IF IsHeading(TheCall) \/ prev_was_paragraph THEN 1 ELSE 0)
    PROVE  GapInv'
<1>1. /\ pc = "print" /\ Derived = "help" /\ at' = at + 1 /\ page' = page
      /\ screen_width' = screen_width /\ format' = format
  BY DEF PrintsHelp, Prints, built, chosen
<1>2. /\ at \in Nat \ {0} /\ at \in DOMAIN page /\ TheCall.text \in Text
      /\ EndsBelow => (prev_was_paragraph <=> AsParagraph(page[at - 1]))
  BY <1>1, CallFindsLine
<1>3. at' > 1 /\ at' # 1 /\ at' - 1 = at /\ at' - 2 = at - 1 /\ (at' > 2 <=> at > 1)
  BY <1>1, <1>2
<1>4. page'[at' - 1] = TheCall /\ page'[at' - 2] = page[at - 1]
  BY <1>1, <1>3 DEF TheCall
<1>5. EndsBelow' <=> LeavesNoEmptyLine(TheCall)
  BY <1>1, <1>3, <1>4 DEF EndsBelow, LeavesNoEmptyLine, Tab
<1>6. EndsAbove' <=> EndsBelow
  BY <1>1, <1>3, <1>4 DEF EndsAbove, EndsBelow, LeavesNoEmptyLine, Tab
<1>7. EndsBelow => Wanted' = IF IsHeading(TheCall) \/ prev_was_paragraph THEN 1 ELSE 0
  BY <1>2, <1>4 DEF Wanted, IsHeading, AsParagraph
<1>8. TheText' = TheCall
  BY <1>4 DEF TheText
<1>9. FlagTells'
  BY <1>3, <1>4 DEF FlagTells, AsParagraph
<1>10. CASE pc' = NextOf(at)
            /\ (LeavesNoEmptyLine(TheCall) =>
                    /\ AtFreshLine(screen')
                    /\ EndsBelow =>
                          screen'.gap = IF IsHeading(TheCall) \/ prev_was_paragraph THEN 1 ELSE 0)
  <2>1. pc' # "text"
    BY <1>10 DEF NextOf
  <2>2. LineIsEnded'
    BY <1>5, <1>6, <1>7, <1>10 DEF LineIsEnded, AtFreshLine
  <2> QED
    BY <1>9, <2>1, <2>2 DEF GapInv, TextIsBegun
<1>11. CASE BeginText(Tab(TheCall))
            /\ (LeavesNoEmptyLine(TheCall) /\ EndsBelow =>
                    BelowGap(screen', IF IsHeading(TheCall) \/ prev_was_paragraph THEN 1 ELSE 0))
  <2>1. pc' = "text" /\ read' = 0 /\ pos' = Tab(TheCall)
    BY <1>11 DEF BeginText
  <2>2. pos' = Tab(TheText)'
    BY <1>8, <2>1 DEF Tab
  <2>3. IsFirstWord'
    <3>1. Len(SubSeq(TheCall.text, 1, 0)) = 0
      BY <1>2 DEF Text
    <3> QED
      BY <1>8, <2>1, <3>1 DEF IsFirstWord, Unread
  <2>4. (EndsBelow /\ EndsAbove => BelowGap(screen, Wanted))'
    BY <1>5, <1>6, <1>7, <1>11 DEF BelowGap
  <2>5. TextIsBegun'
    BY <2>1, <2>2, <2>3, <2>4, Zenon DEF TextIsBegun
  <2> QED
    BY <1>9, <2>1, <2>5 DEF GapInv, LineIsEnded
<1> QED
  BY <1>10, <1>11

\* The lines the calls of format_help begin.
LEMMA LinesEnded ==
    ASSUME NEW scr \in Screen, screen_width \in Nat, NEW width \in Nat, width > 0
    PROVE  /\ FullLine(scr, width) \in Screen /\ AtFreshLine(FullLine(scr, width))
           /\ BelowGap(scr, 1) => FullLine(scr, width).gap = 1
<1> DEFINE put == PutCells(scr, width, screen_width)
<1>1. put \in Screen /\ ~put.empty /\ (BelowGap(scr, 1) => BelowGap(put, 1))
  BY UnitsAreTexts, ScreenSteps, CellsKeepGap, 1 \in {0, 1}
<1> HIDE DEF put
<1>2. /\ Newline(put) \in Screen /\ AtFreshLine(Newline(put))
      /\ BelowGap(put, 1) => Newline(put).gap = 1
  BY <1>1, UnitsAreTexts, ScreenSteps, LineKeepsGap, 0 \in Nat, 1 \in {0, 1}
<1> QED
  BY <1>1, <1>2 DEF FullLine, put

LEMMA LineBehind ==
    ASSUME screen \in Screen, NEW text \in Text, prev_was_paragraph \in BOOLEAN
    PROVE  /\ Begun \in Screen /\ Newline(Begun) \in Screen /\ BehindParagraph \in Screen
           /\ AtFreshLine(screen) =>
                 /\ BelowGap(Newline(Begun), 1)
                 /\ BelowGap(BehindParagraph, IF prev_was_paragraph THEN 1 ELSE 0)
<1>1. Begun \in Screen
  BY DEF Begun, Screen
<1>2. Newline(Begun) \in Screen
  BY <1>1, ScreenSteps, 0 \in Nat
<1>3. AtFreshLine(screen) => BelowGap(Begun, 0) /\ BelowGap(Newline(Begun), 1)
  BY FreshLines DEF Begun
<1> QED
  BY <1>1, <1>2, <1>3 DEF BehindParagraph

LEMMA CallsKeepGaps ==
    TypeOK /\ Layout /\ GapInv
    /\ (HelpHeader \/ HelpHeading \/ HelpLine \/ HelpListItem \/ HelpFooter)
    => GapInv'
<1> SUFFICES ASSUME TypeOK, Layout, GapInv,
                    HelpHeader \/ HelpHeading \/ HelpLine \/ HelpListItem \/ HelpFooter
             PROVE  GapInv'
  OBVIOUS
<1>1. PICK kinds : PrintsHelp(kinds)
  BY DEF HelpHeader, HelpHeading, HelpLine, HelpListItem, HelpFooter
<1>2. pc = "print" /\ Derived = "help"
  BY <1>1 DEF PrintsHelp, Prints
<1>3. /\ screen \in Screen /\ screen_width \in Nat /\ at \in Nat \ {0}
      /\ TheCall.text \in Text /\ TheCall.key \in Text
      /\ TheCall.kind = "header" => at = 1
      /\ EndsBelow => AtFreshLine(screen)
      /\ prev_was_paragraph \in BOOLEAN
  BY <1>2, CallFindsLine
<1>4. /\ Begun \in Screen /\ Newline(Begun) \in Screen /\ BehindParagraph \in Screen
      /\ EndsBelow => /\ BelowGap(Newline(Begun), 1)
                      /\ BelowGap(BehindParagraph, IF prev_was_paragraph THEN 1 ELSE 0)
  BY <1>3, LineBehind
<1>5. leftPadding \in Nat /\ rightColumnTab \in Nat
  BY DEF leftPadding, rightColumnTab, leftColumnWidth, centerPadding
<1>6. CASE HelpHeader
  <2>1. /\ pc' = NextOf(at) /\ screen' = FullLine(FullLine(Begun, raw_width(OwnText)), text_width(OwnText))
        /\ TheCall.kind \in {"header", "block"} /\ prev_was_paragraph' = prev_was_paragraph
    BY <1>6 DEF HelpHeader, PrintsHelp, Prints
  <2>2. /\ raw_width(OwnText) \in Nat /\ raw_width(OwnText) > 0
        /\ text_width(OwnText) \in Nat /\ text_width(OwnText) > 0
    <3>1. OwnText \in Text /\ "own" \in Run
      BY OwnUnits, UnitsAreTexts, OwnRunsAssumption DEF OwnText
    <3>2. CountedWidth(OwnText, 1) = Length["own"] /\ Length["own"] > 0
      BY <3>1, LengthAssumption
         DEF PrintedWidth, CountedWidth, OwnText, Backslash, Escaped
    <3>3. 1 \in DOMAIN OwnText /\ OwnText[1] = "own"
      BY DEF OwnText
    <3> QED
      BY <3>1, <3>2, <3>3, TextWidths
  <2>3. AtFreshLine(screen')
    <3>1. FullLine(Begun, raw_width(OwnText)) \in Screen
      BY <1>3, <1>4, <2>2, LinesEnded
    <3> QED
      BY <1>3, <2>1, <2>2, <3>1, LinesEnded
  <2>4. LeavesNoEmptyLine(TheCall) => ~EndsBelow
    BY <1>3, <2>1 DEF LeavesNoEmptyLine, IsHeading, EndsBelow
  <2>5. TheCall.kind = "header" => ~prev_was_paragraph' /\ ~AsParagraph(TheCall)
    BY <1>2, <1>3, <2>1 DEF GapInv, FlagTells, AsParagraph
  <2>6. TheCall.kind \notin {"footer", "block"} => (prev_was_paragraph' <=> AsParagraph(TheCall))
    BY <2>1, <2>5
  <2> QED
    BY <1>1, <2>1, <2>3, <2>4, <2>6, CallKeepsGap
<1>7. CASE HelpHeading
  <2> DEFINE indent == IF TheCall.kind = "section" THEN 0 ELSE leftPadding \div 2
             s == Spaces(Newline(Begun), indent)
  <2>1. /\ pc' = NextOf(at) /\ screen' = FullLine(s, raw_width(TheCall.text))
        /\ TheCall.kind \in {"section", "subsection"} /\ ~prev_was_paragraph'
    BY <1>7 DEF HelpHeading, PrintsHelp, Prints
  <2>2. indent \in Nat
    BY DEF leftPadding
  <2> HIDE DEF indent
  <2>3. s \in Screen /\ (BelowGap(Newline(Begun), 1) => BelowGap(s, 1))
    BY <1>3, <1>4, <2>2, ScreenSteps, MovesKeepGap, 1 \in {0, 1}
  <2> HIDE DEF s
  <2>4. /\ raw_width(TheCall.text) \in Nat
        /\ LeavesNoEmptyLine(TheCall) => raw_width(TheCall.text) > 0
    BY <1>3, <2>1, TextWidths DEF LeavesNoEmptyLine
  <2>5. LeavesNoEmptyLine(TheCall) => AtFreshLine(screen') /\ (EndsBelow => screen'.gap = 1)
    BY <1>3, <1>4, <2>1, <2>3, <2>4, LinesEnded
  <2>6. IsHeading(TheCall) /\ ~AsParagraph(TheCall)
    BY <2>1 DEF IsHeading, AsParagraph
  <2> QED
    BY <1>1, <2>1, <2>5, <2>6, CallKeepsGap
<1>8. CASE HelpLine
  <2> DEFINE g == IF prev_was_paragraph THEN 1 ELSE 0
             s == Spaces(BehindParagraph, leftPadding)
  <2>1. /\ screen' = [s EXCEPT !.words = 0]
        /\ BeginText(leftPadding) /\ TheCall.kind = "line"
        /\ prev_was_paragraph' = TheCall.paragraph
    BY <1>8 DEF HelpLine, PrintsHelp, Prints
  <2>2. g \in {0, 1}
    OBVIOUS
  <2>3. (IF IsHeading(TheCall) \/ prev_was_paragraph THEN 1 ELSE 0) = g
    BY <2>1 DEF IsHeading
  <2>4. EndsBelow => BelowGap(BehindParagraph, g)
    BY <1>4
  <2> HIDE DEF g
  <2>5. s \in Screen /\ (BelowGap(BehindParagraph, g) => BelowGap(s, g))
    BY <1>3, <1>4, <1>5, <2>2, ScreenSteps, MovesKeepGap
  <2> HIDE DEF s
  <2>6. BelowGap(s, g) => BelowGap(screen', g)
    BY <2>1, <2>2, <2>5, TextBeginsBelowGap
  <2>7. BeginText(Tab(TheCall)) /\ (prev_was_paragraph' <=> AsParagraph(TheCall))
    BY <2>1 DEF Tab, AsParagraph
  <2>8. LeavesNoEmptyLine(TheCall) /\ EndsBelow =>
            BelowGap(screen', IF IsHeading(TheCall) \/ prev_was_paragraph THEN 1 ELSE 0)
    BY <2>3, <2>4, <2>5, <2>6
  <2> QED
    BY <1>1, <2>7, <2>8, CallKeepsGap
<1>9. CASE HelpListItem
  <2> DEFINE g == IF prev_was_paragraph THEN 1 ELSE 0
             left == Spaces(BehindParagraph, leftPadding)
             term == Put(left, TheCall.key, screen_width)
             column == leftPadding + text_width(TheCall.key)
             below == column + centerPadding > rightColumnTab
             beside == IF below THEN Newline(term) ELSE term
             gutter == rightColumnTab - (IF below THEN 0 ELSE column)
             moved == Spaces(beside, gutter)
  <2>1. /\ \/ screen' = [moved EXCEPT !.words = 0] /\ BeginText(rightColumnTab)
           \/ TheCall.text = <<>> /\ pc' = NextOf(at)
        /\ TheCall.kind = "item" /\ ~prev_was_paragraph'
    BY <1>9 DEF HelpListItem, PrintsHelp, Prints
  <2>2. text_width(TheCall.key) \in Nat /\ to_text_width(TheCall.key) \in Nat
    BY <1>3, TextWidths
  <2>3. gutter \in Nat
    BY <2>2 DEF rightColumnTab, leftPadding, leftColumnWidth, centerPadding
  <2>4. below => to_text_width(TheCall.key) > 0
    <3>1. below => text_width(TheCall.key) > 0
      BY <2>2 DEF rightColumnTab, leftPadding, leftColumnWidth, centerPadding
    <3> QED
      BY <1>3, <3>1, CountedIsPrinted
  <2>5. (IF IsHeading(TheCall) \/ prev_was_paragraph THEN 1 ELSE 0) = g
    BY <2>1 DEF IsHeading
  <2>6. g \in {0, 1} /\ (EndsBelow => BelowGap(BehindParagraph, g))
    BY <1>4
  <2> HIDE DEF g
  <2>7. left \in Screen /\ (BelowGap(BehindParagraph, g) => BelowGap(left, g))
    BY <1>3, <1>4, <1>5, <2>6, ScreenSteps, MovesKeepGap
  <2> HIDE DEF left
  <2>8. /\ term \in Screen /\ (BelowGap(left, g) => BelowGap(term, g))
        /\ below => ~term.empty
    <3> HIDE DEF below
    <3>1. term \in Screen /\ (to_text_width(TheCall.key) > 0 => ~term.empty)
      BY <1>3, <2>7, ScreenSteps, WordsAreSeen, 0 \in Nat
    <3>2. BelowGap(left, g) => BelowGap(term, g)
      BY <1>3, <2>6, <2>7, WordKeepsGap
    <3> QED
      BY <2>4, <3>1, <3>2
  <2> HIDE DEF term
  <2>9. Newline(term) \in Screen /\ (~term.empty /\ BelowGap(term, g) => BelowGap(Newline(term), g))
    BY <1>3, <2>6, <2>8, ScreenSteps, LineKeepsGap, 0 \in Nat
  <2>10. beside \in Screen /\ (BelowGap(term, g) => BelowGap(beside, g))
    <3> HIDE DEF below
    <3> QED
      BY <2>8, <2>9
  <2> HIDE DEF below, beside, gutter
  <2>11. moved \in Screen /\ (BelowGap(beside, g) => BelowGap(moved, g))
    BY <1>3, <2>3, <2>6, <2>10, ScreenSteps, MovesKeepGap
  <2> HIDE DEF moved
  <2>12. CASE TheCall.text = <<>> /\ pc' = NextOf(at)
    <3>1. WordsOf(TheCall.text) = {}
      BY <2>12 DEF WordsOf, Unread
    <3>2. ~LeavesNoEmptyLine(TheCall)
      BY <2>1, <3>1 DEF LeavesNoEmptyLine, IsHeading
    <3> QED
      BY <1>1, <2>1, <2>12, <3>2, CallKeepsGap DEF AsParagraph
  <2>13. CASE screen' = [moved EXCEPT !.words = 0] /\ BeginText(rightColumnTab)
    <3>1. BelowGap(moved, g) => BelowGap(screen', g)
      BY <2>6, <2>11, <2>13, TextBeginsBelowGap
    <3>2. BeginText(Tab(TheCall)) /\ ~AsParagraph(TheCall)
      BY <2>1, <2>13 DEF Tab, AsParagraph
    <3>3. LeavesNoEmptyLine(TheCall) /\ EndsBelow =>
              BelowGap(screen', IF IsHeading(TheCall) \/ prev_was_paragraph THEN 1 ELSE 0)
      BY <2>5, <2>6, <2>7, <2>8, <2>10, <2>11, <3>1
    <3> QED
      BY <1>1, <2>1, <3>2, <3>3, CallKeepsGap
  <2> QED
    BY <2>1, <2>12, <2>13
<1>10. CASE HelpFooter
  <2>1. pc' = NextOf(at) /\ TheCall.kind = "footer"
    BY <1>10 DEF HelpFooter, PrintsHelp, Prints
  <2>2. ~LeavesNoEmptyLine(TheCall)
    BY <2>1 DEF LeavesNoEmptyLine, IsHeading
  <2> QED
    BY <1>1, <2>1, <2>2, CallKeepsGap
<1> QED
  BY <1>6, <1>7, <1>8, <1>9, <1>10

LEMMA WordsKeepGaps ==
    TypeOK /\ Layout /\ LinesInv /\ GapInv /\ (FirstWord \/ NextWord \/ EndText) => GapInv'
<1> SUFFICES ASSUME TypeOK, Layout, LinesInv, GapInv, FirstWord \/ NextWord \/ EndText,
                    Derived' = "help"
             PROVE  FlagTells' /\ LineIsEnded' /\ TextIsBegun'
  BY DEF GapInv
<1>1. /\ pc = "text" /\ page' = page /\ at' = at /\ screen_width' = screen_width
      /\ format' = format /\ prev_was_paragraph' = prev_was_paragraph
  BY DEF FirstWord, NextWord, EndText, PrintsWord, built, chosen, members
<1>2. FlagTells /\ TextIsBegun
  BY <1>1 DEF GapInv, Derived
<1>3. FlagTells'
  BY <1>1, <1>2 DEF FlagTells, AsParagraph
<1>4. at \in Nat \ {0} /\ at - 1 \in DOMAIN page /\ at > 1
  <2>1. at \in Nat \ {0} /\ at - 1 \in DOMAIN page
    BY <1>1 DEF TypeOK
  <2>2. at - 1 > 0
    BY <2>1, CallFields
  <2> QED
    BY <2>1, <2>2
<1>5. /\ screen \in Screen /\ screen_width \in Nat /\ read \in Nat /\ pos \in Nat
      /\ TheText.text \in Text /\ Tab(TheText) \in Nat
  <2>1. screen \in Screen /\ screen_width \in Nat /\ read \in Nat /\ pos \in Nat
    BY DEF TypeOK, minimalScreenWidth, maximalScreenWidth, rightPadding
  <2>2. Tab(TheText) \in Nat
    BY DEF Tab, rightColumnTab, leftPadding, leftColumnWidth, centerPadding
  <2> QED
    BY <1>4, <2>1, <2>2, CallFields DEF TheText
<1>6. TheText.kind \in {"line", "item"} /\ EndsWord(TheText.text, read)
  BY <1>1 DEF LinesInv
<1>7. /\ EndsBelow' <=> EndsBelow
      /\ EndsAbove' <=> EndsAbove
      /\ Wanted' = Wanted /\ TheText' = TheText
  BY <1>1 DEF EndsBelow, EndsAbove, LeavesNoEmptyLine, Tab, Wanted, TheText
<1>8. Wanted \in {0, 1}
  BY DEF Wanted
<1>9. EndsBelow =>
          /\ \A w \in WordsOf(TheText.text) : to_text_width(w) > 0
          /\ WordsOf(TheText.text) # {}
          /\ Tab(TheText) + text_width(WordBehind(TheText.text, 0)) <= screen_width
  BY <1>6 DEF EndsBelow, LeavesNoEmptyLine, IsHeading, TheText
<1>10. ASSUME PrintsWord
       PROVE  /\ Word \in Text /\ text_width(Word) \in Nat
              /\ EndsBelow => to_text_width(Word) > 0
              /\ pc' = "text" /\ ~IsFirstWord'
  <2>1. /\ Unread(TheText.text, read) # {} /\ read' = EndOfWord(TheText.text, read)
        /\ pc' = pc
    BY <1>10 DEF PrintsWord
  <2>2. /\ Word \in WordsOf(TheText.text)
        /\ Unread(SubSeq(TheText.text, 1, read'), 0) # {}
    BY <1>5, <1>6, <2>1, WordsAreRead DEF Word
  <2>3. Word \in Text
    BY <1>5, <2>1, WordIsText DEF Word
  <2> QED
    BY <1>1, <1>7, <1>9, <2>1, <2>2, <2>3, TextWidths DEF IsFirstWord
<1>11. ASSUME PrintsWord, EndsBelow => ~screen'.empty /\ (EndsAbove => BelowGap(screen', Wanted))
       PROVE  FlagTells' /\ LineIsEnded' /\ TextIsBegun'
  <2>1. pc' = "text" /\ ~IsFirstWord'
    BY <1>10, <1>11
  <2>2. LineIsEnded'
    BY <2>1 DEF LineIsEnded
  <2>3. TextIsBegun'
    BY <1>7, <1>11, <2>1 DEF TextIsBegun, BelowGap
  <2> QED
    BY <1>3, <2>2, <2>3
<1>12. CASE FirstWord
  <2> DEFINE printed == Put(screen, Word, screen_width)
  <2>1. PrintsWord /\ IsFirstWord
    BY <1>12 DEF FirstWord
  <2>2. pos + text_width(Word) <= screen_width => screen' = printed
    BY <1>5, <1>10, <1>12, <2>1 DEF FirstWord
  <2>3. EndsBelow => screen' = printed
    <3>1. read = 0 /\ pos = Tab(TheText)
      BY <1>1, <1>2, <2>1 DEF TextIsBegun
    <3> QED
      BY <1>9, <2>2, <3>1 DEF Word
  <2>4. EndsBelow => ~printed.empty /\ (BelowGap(screen, Wanted) => BelowGap(printed, Wanted))
    BY <1>5, <1>8, <1>10, <2>1, WordsAreSeen, WordKeepsGap
  <2> HIDE DEF printed
  <2>5. EndsBelow => ~screen'.empty /\ (EndsAbove => BelowGap(screen', Wanted))
    BY <1>1, <1>2, <2>3, <2>4 DEF TextIsBegun
  <2> QED
    BY <1>11, <2>1, <2>5
<1>13. CASE NextWord
  <2> DEFINE nextLine == Spaces(Newline(screen), Tab(TheText))
             below == Put(nextLine, Word, screen_width)
             apart == Spaces(screen, 1)
             beside == Put(apart, Word, screen_width)
  <2>1. PrintsWord /\ ~IsFirstWord /\ (screen' = below \/ screen' = beside)
    BY <1>13 DEF NextWord, Indented
  <2>2. Word \in Text /\ (EndsBelow => to_text_width(Word) > 0)
    BY <1>10, <2>1
  <2>3. EndsBelow => ~screen.empty /\ (EndsAbove => BelowGap(screen, Wanted))
    BY <1>1, <1>2, <2>1 DEF TextIsBegun
  <2>4. /\ Newline(screen) \in Screen
        /\ ~screen.empty /\ BelowGap(screen, Wanted) => BelowGap(Newline(screen), Wanted)
    BY <1>5, <1>8, ScreenSteps, LineKeepsGap
  <2>5. /\ nextLine \in Screen
        /\ BelowGap(Newline(screen), Wanted) => BelowGap(nextLine, Wanted)
    BY <1>5, <1>8, <2>4, ScreenSteps, MovesKeepGap
  <2>6. apart \in Screen /\ (BelowGap(screen, Wanted) => BelowGap(apart, Wanted))
    BY <1>5, <1>8, 1 \in Nat, ScreenSteps, MovesKeepGap
  <2> HIDE DEF nextLine, apart
  <2>7. EndsBelow => ~below.empty /\ (BelowGap(nextLine, Wanted) => BelowGap(below, Wanted))
    BY <1>5, <1>8, <2>2, <2>5, WordsAreSeen, WordKeepsGap
  <2>8. EndsBelow => ~beside.empty /\ (BelowGap(apart, Wanted) => BelowGap(beside, Wanted))
    BY <1>5, <1>8, <2>2, <2>6, WordsAreSeen, WordKeepsGap
  <2> HIDE DEF below, beside
  <2>9. EndsBelow => ~screen'.empty /\ (EndsAbove => BelowGap(screen', Wanted))
    BY <2>1, <2>3, <2>4, <2>5, <2>6, <2>7, <2>8
  <2> QED
    BY <1>11, <2>1, <2>9
<1>14. CASE EndText
  <2>1. /\ Unread(TheText.text, read) = {} /\ pc' = NextOf(at - 1)
        /\ screen' = IF IsFirstWord THEN screen ELSE Newline(screen)
    BY <1>14 DEF EndText
  <2>2. pc' # "text"
    BY <2>1 DEF NextOf
  <2>3. ASSUME EndsBelow
        PROVE  AtFreshLine(screen') /\ (EndsAbove => screen'.gap = Wanted)
    <3>1. Unread(TheText.text, 0) # {}
      <4>1. PICK r \in 0..Len(TheText.text) : Unread(TheText.text, r) # {}
        BY <1>9, <2>3 DEF WordsOf
      <4>2. PICK i : i \in Unread(TheText.text, r)
        BY <4>1
      <4>3. i \in Unread(TheText.text, 0)
        BY <1>5, <4>1, <4>2 DEF Unread, Text
      <4> QED
        BY <4>3
    <3>2. ~IsFirstWord
      BY <1>5, <1>6, <2>1, <3>1, WordsAreRead DEF IsFirstWord
    <3>3. ~screen.empty /\ (EndsAbove => BelowGap(screen, Wanted))
      BY <1>1, <1>2, <2>3, <3>2 DEF TextIsBegun
    <3>4. /\ AtFreshLine(Newline(screen))
          /\ BelowGap(screen, Wanted) => Newline(screen).gap = Wanted
      BY <1>5, <1>8, <3>3, LineKeepsGap
    <3> QED
      BY <2>1, <3>2, <3>3, <3>4
  <2>4. LineIsEnded'
    BY <1>7, <2>3 DEF LineIsEnded, AtFreshLine
  <2> QED
    BY <1>3, <2>2, <2>4 DEF TextIsBegun
<1> QED
  BY <1>12, <1>13, <1>14

LEMMA StepsKeepGaps == TypeOK /\ Layout /\ LinesInv /\ GapInv /\ [Next]_vars => GapInv'
<1> SUFFICES ASSUME TypeOK, Layout, LinesInv, GapInv, [Next]_vars
             PROVE  GapInv'
  OBVIOUS
<1>1. CASE AddOptionOrFlag \/ AddPositionalOption \/ AddText \/ BeginParse \/ AddToSynopsis
           \/ FinishSynopsis
  <2>1. /\ pc \in {"operations", "synopsis"} /\ pc' # "text"
        /\ at' = at /\ prev_was_paragraph' = prev_was_paragraph /\ format' = format
    BY <1>1 DEF AddOptionOrFlag, AddPositionalOption, AddText, RunsNext, BeginParse,
                AddToSynopsis, FinishSynopsis, members, chosen
  <2>2. at = 1
    BY <2>1 DEF Layout
  <2> QED
    BY <2>1, <2>2 DEF GapInv, Derived, FlagTells, LineIsEnded, TextIsBegun, EndsBelow
<1>2. CASE SynopsisThrows
  <2>1. /\ pc = "print" /\ pc' = "thrown" /\ page' = page /\ at' = at /\ screen' = screen
        /\ prev_was_paragraph' = prev_was_paragraph
        /\ format' = format /\ screen_width' = screen_width
    BY <1>2 DEF SynopsisThrows, built, readers, members, chosen
  <2>2. EndsBelow' = EndsBelow /\ EndsAbove' = EndsAbove /\ Wanted' = Wanted
    BY <2>1 DEF EndsBelow, EndsAbove, LeavesNoEmptyLine, Tab, Wanted
  <2> QED
    BY <2>1, <2>2 DEF GapInv, Derived, FlagTells, LineIsEnded, TextIsBegun, AsParagraph,
                      AtFreshLine
<1>3. CASE PrintsElements \/ PrintsRequests
  <2>1. PICK kinds : PrintsHtml(kinds) \/ PrintsMan(kinds)
    BY <1>3 DEF PrintsElements, HtmlHeader, HtmlHeading, HtmlLine, HtmlListItem, HtmlFooter,
                PrintsRequests, ManHeader, ManHeading, ManLine, ManListItem, ManFooter
  <2>2. Derived # "help" /\ format' = format
    BY <2>1 DEF PrintsHtml, PrintsMan, Prints, chosen
  <2> QED
    BY <2>2 DEF GapInv, Derived
<1>4. CASE Returned \/ UNCHANGED vars
  <2>1. UNCHANGED vars
    BY <1>4 DEF Returned
  <2>2. UNCHANGED <<pc, page, at, screen, read, pos, prev_was_paragraph, format, screen_width>>
    BY <2>1 DEF vars, chosen, built, members, readers
  <2>3. /\ EndsBelow' = EndsBelow /\ EndsAbove' = EndsAbove /\ Wanted' = Wanted
        /\ TheText' = TheText /\ IsFirstWord' = IsFirstWord
    BY <2>2 DEF EndsBelow, EndsAbove, LeavesNoEmptyLine, Tab, Wanted, TheText, IsFirstWord
  <2> QED
    BY <2>2, <2>3 DEF GapInv, Derived, FlagTells, LineIsEnded, TextIsBegun, AsParagraph,
                      AtFreshLine, BelowGap, Tab
<1> QED
  BY <1>1, <1>2, <1>3, <1>4, CallsKeepGaps, WordsKeepGaps, Zenon
     DEF Next, PrintsElements, PrintsRequests

\* Behind a call that ends its line the cursor is at the start of one.
LineInv == Derived = "help" /\ pc # "text" => LineIsOver

LEMMA ScreenWidthIsNat == TypeOK => screen_width \in Nat
BY DEF TypeOK, minimalScreenWidth, maximalScreenWidth, rightPadding

LEMMA FullLineEnds ==
    ASSUME NEW scr \in Screen, NEW width \in Nat, screen_width \in Nat
    PROVE  FullLine(scr, width) \in Screen /\ FullLine(scr, width).column = 0
BY UnitsAreTexts, ScreenSteps, ScreenColumns DEF FullLine

LEMMA CallsEndLines ==
    TypeOK /\ Layout /\ (HelpHeader \/ HelpHeading \/ HelpLine \/ HelpListItem \/ HelpFooter)
    => LineInv'
<1> SUFFICES ASSUME TypeOK, Layout,
                    HelpHeader \/ HelpHeading \/ HelpLine \/ HelpListItem \/ HelpFooter
             PROVE  LineInv'
  OBVIOUS
<1>1. /\ pc = "print" /\ page' = page /\ at' = at + 1 /\ at \in Nat
  BY DEF HelpHeader, HelpHeading, HelpLine, HelpListItem, HelpFooter, PrintsHelp, Prints, built,
         TypeOK
<1>2. page'[at' - 1] = TheCall
  BY <1>1 DEF TheCall
<1>3. /\ Begun \in Screen /\ Newline(Begun) \in Screen /\ screen_width \in Nat
      /\ TheCall.text \in Text
  <2>1. Begun \in Screen
    BY DEF TypeOK, Begun, Screen
  <2>2. Newline(Begun) \in Screen
    BY <2>1, UnitsAreTexts, ScreenSteps, 0 \in Nat
  <2>3. screen_width \in Nat
    BY ScreenWidthIsNat
  <2>4. TheCall.text \in Text
    BY <1>1, CallFields DEF TypeOK, TheCall
  <2> QED
    BY <2>1, <2>2, <2>3, <2>4
<1>4. CASE HelpHeader
  <2>1. OwnText \in Text
    BY OwnUnits, UnitsAreTexts DEF OwnText
  <2>2. screen'.column = 0
    BY <1>3, <1>4, <2>1, TextWidths, FullLineEnds DEF HelpHeader
  <2> QED
    BY <2>2 DEF LineInv, LineIsOver
<1>5. CASE HelpHeading
  <2> DEFINE indent == IF TheCall.kind = "section" THEN 0 ELSE leftPadding \div 2
             s == Spaces(Newline(Begun), indent)
  <2>1. screen' = FullLine(s, raw_width(TheCall.text))
    BY <1>5 DEF HelpHeading
  <2>2. indent \in Nat
    BY DEF leftPadding
  <2> HIDE DEF indent
  <2>3. s \in Screen
    BY <1>3, <2>2, ScreenSteps
  <2> HIDE DEF s
  <2>4. screen'.column = 0
    BY <1>3, <2>1, <2>3, TextWidths, FullLineEnds
  <2> QED
    BY <2>4 DEF LineInv, LineIsOver
<1>6. CASE HelpLine
  BY <1>6 DEF HelpLine, BeginText, LineInv
<1>7. CASE HelpListItem
  <2>1. TheCall.kind = "item" /\ (pc' = "text" \/ TheCall.text = <<>>)
    BY <1>7 DEF HelpListItem, BeginText, PrintsHelp, Prints
  <2>2. TheCall.text = <<>> => ~EndsItsLine(TheCall)
    BY <2>1 DEF EndsItsLine, WordsOf, Unread
  <2> QED
    BY <1>2, <2>1, <2>2 DEF LineInv, LineIsOver, EndsItsLine
<1>8. CASE HelpFooter
  <2>1. TheCall.kind = "footer"
    BY <1>8 DEF HelpFooter, PrintsHelp, Prints
  <2> QED
    BY <1>2, <2>1 DEF LineInv, LineIsOver, EndsItsLine
<1> QED
  BY <1>4, <1>5, <1>6, <1>7, <1>8

\* A text with a word has printed it when it ends.
LEMMA WordsEndLines ==
    TypeOK /\ LinesInv /\ (FirstWord \/ NextWord \/ EndText) => LineInv'
<1> SUFFICES ASSUME TypeOK, LinesInv, FirstWord \/ NextWord \/ EndText
             PROVE  LineInv'
  OBVIOUS
<1>1. CASE FirstWord \/ NextWord
  <2>1. pc' = "text"
    BY <1>1 DEF FirstWord, NextWord, PrintsWord
  <2> QED
    BY <2>1 DEF LineInv
<1>2. CASE EndText
  <2>1. /\ pc = "text" /\ Unread(TheText.text, read) = {} /\ page' = page /\ at' = at
        /\ screen' = IF IsFirstWord THEN screen ELSE Newline(screen)
    BY <1>2 DEF EndText, built
  <2>2. at - 1 \in DOMAIN page /\ screen \in Screen /\ read \in Nat
    BY <2>1 DEF TypeOK
  <2>3. TheText.text \in Text
    BY <2>2, CallFields DEF TypeOK, TheText
  <2>4. TheText.kind \in {"line", "item"} /\ EndsWord(TheText.text, read)
    BY <2>1 DEF LinesInv
  <2>5. ASSUME WordsOf(TheText.text) # {}
        PROVE  screen'.column = 0
    <3>1. PICK r \in 0..Len(TheText.text) : Unread(TheText.text, r) # {}
      BY <2>5 DEF WordsOf
    <3>2. PICK i : i \in Unread(TheText.text, r)
      BY <3>1
    <3>3. i \in Unread(TheText.text, 0)
      BY <2>3, <3>1, <3>2 DEF Unread, Text
    <3>4. ~IsFirstWord
      BY <2>1, <2>2, <2>3, <2>4, <3>3, WordsAreRead DEF IsFirstWord
    <3> QED
      BY <2>1, <2>2, <3>4, UnitsAreTexts, ScreenColumns, 0 \in Nat
  <2>6. EndsItsLine(TheText) => WordsOf(TheText.text) # {}
    BY <2>4 DEF EndsItsLine
  <2> QED
    BY <2>1, <2>5, <2>6 DEF LineInv, LineIsOver, TheText
<1> QED
  BY <1>1, <1>2

LEMMA StepsEndLines == TypeOK /\ Layout /\ LinesInv /\ LineInv /\ [Next]_vars => LineInv'
<1> SUFFICES ASSUME TypeOK, Layout, LinesInv, LineInv, [Next]_vars
             PROVE  LineInv'
  OBVIOUS
<1>1. CASE AddOptionOrFlag \/ AddPositionalOption \/ AddText \/ BeginParse \/ AddToSynopsis
           \/ FinishSynopsis
  <2>1. pc \in {"operations", "synopsis"} /\ at' = at
    BY <1>1 DEF AddOptionOrFlag, AddPositionalOption, AddText, RunsNext, BeginParse,
                AddToSynopsis, FinishSynopsis
  <2>2. at = 1
    BY <2>1 DEF Layout
  <2> QED
    BY <2>1, <2>2 DEF LineInv, LineIsOver
<1>2. CASE SynopsisThrows
  <2>1. pc = "print" /\ UNCHANGED <<page, at, screen, format>>
    BY <1>2 DEF SynopsisThrows, built, readers, chosen
  <2> QED
    BY <2>1 DEF LineInv, LineIsOver, Derived
<1>3. CASE PrintsElements \/ PrintsRequests
  <2>1. PICK kinds : PrintsHtml(kinds) \/ PrintsMan(kinds)
    BY <1>3 DEF PrintsElements, HtmlHeader, HtmlHeading, HtmlLine, HtmlListItem, HtmlFooter,
                PrintsRequests, ManHeader, ManHeading, ManLine, ManListItem, ManFooter
  <2>2. Derived # "help" /\ format' = format
    BY <2>1 DEF PrintsHtml, PrintsMan, Prints, chosen
  <2> QED
    BY <2>2 DEF LineInv, Derived
<1>4. CASE Returned \/ UNCHANGED vars
  <2>1. UNCHANGED <<pc, page, at, screen, format>>
    BY <1>4 DEF Returned, vars, chosen, built, readers
  <2> QED
    BY <2>1 DEF LineInv, LineIsOver, Derived
<1> QED
  BY <1>1, <1>2, <1>3, <1>4, CallsEndLines, WordsEndLines, Zenon
     DEF Next, PrintsElements, PrintsRequests

(***************************************************************************)
(* On the screen a text with a word ends its line, whatever was printed    *)
(* before it, and so do the headings.  Between two texts whose lines are   *)
(* not empty and whose first word fits there is one empty line if the      *)
(* second one is a heading or the first one a paragraph and none           *)
(* otherwise: the only link between two print calls is the flag            *)
(* prev_was_paragraph.  Texts without a word are not covered; the code     *)
(* does not end their line.                                                *)
(***************************************************************************)
THEOREM TextsAreSetApartHolds == Spec => []TextsAreSetApart
<1>1. Init => LinesInv /\ LineInv /\ GapInv
  <2>1. Init => LinesInv
    BY DEF Init, LinesInv, AtLineStart, ClearScreen
  <2>2. Init => LineInv
    BY DEF Init, LineInv, LineIsOver
  <2>3. Init => GapInv
    BY DEF Init, GapInv, FlagTells, LineIsEnded, TextIsBegun, EndsBelow
  <2> QED
    BY <2>1, <2>2, <2>3
<1>2. TypeOK /\ Layout /\ LinesInv /\ LineInv /\ GapInv /\ [Next]_vars
      => LinesInv' /\ LineInv' /\ GapInv'
  BY StepsKeepLines, StepsEndLines, StepsKeepGaps
<1>3. TypeOK /\ LineInv /\ GapInv => TextsAreSetApart
  <2> SUFFICES ASSUME TypeOK, GapInv, Derived = "help", pc # "text", at > 2,
                      LeavesNoEmptyLine(page[at - 2]), LeavesNoEmptyLine(page[at - 1])
               PROVE  screen.gap = IF IsHeading(page[at - 1])
                                      \/ (page[at - 2].kind = "line" /\ page[at - 2].paragraph)
                                   THEN 1 ELSE 0
    BY DEF TextsAreSetApart, GapIsRight, LineInv
  <2>1. EndsBelow /\ EndsAbove
    BY DEF EndsBelow, EndsAbove, TypeOK
  <2>2. screen.gap = Wanted
    BY <2>1 DEF GapInv, LineIsEnded
  <2> QED
    BY <2>2 DEF Wanted, AsParagraph
<1> QED
  BY <1>1, <1>2, <1>3, LayoutHolds, PTL DEF Spec

----------------------------------------------------------------------------
(***************************************************************************)
(* Fonts.                                                                  *)
(***************************************************************************)
FontsInv == program \in ClosedProgram => synopsis_line \in ClosedText /\ page \in ClosedPart

\* A program whose texts close their tags, piece by piece.
LEMMA TextsOfProgram ==
    ASSUME NEW p \in Program, \A t \in TextsOf(p) : ClosesItsTags(t)
    PROVE  p \in ClosedProgram
<1>1. /\ p.entries \in Seq(Entry) /\ p.executable \in Text
      /\ p.meta.synopsis \in Seq(Text) /\ p.meta.description \in Seq(Text)
      /\ p.meta.examples \in Seq(Text) /\ p.meta.citation \in Seq(Text)
  BY DEF Program, Meta
<1>2. ASSUME NEW texts \in Seq(Text), Range(texts) \subseteq TextsOf(p)
      PROVE  texts \in Seq(ClosedText)
  <2>1. \A k \in DOMAIN texts : texts[k] \in ClosedText
    <3> SUFFICES ASSUME NEW k \in DOMAIN texts
                 PROVE  texts[k] \in ClosedText
      OBVIOUS
    <3>1. texts[k] \in Text
      OBVIOUS
    <3>2. texts[k] \in TextsOf(p)
      BY <1>2 DEF Range
    <3>3. QED
      BY <3>1, <3>2 DEF ClosedText
  <2>2. QED
    BY <2>1
<1>3. /\ Range(p.meta.synopsis) \subseteq TextsOf(p) /\ Range(p.meta.description) \subseteq TextsOf(p)
      /\ Range(p.meta.examples) \subseteq TextsOf(p) /\ Range(p.meta.citation) \subseteq TextsOf(p)
      /\ p.executable \in TextsOf(p)
  BY DEF TextsOf
<1>4. ASSUME NEW k \in DOMAIN p.entries
      PROVE  p.entries[k] \in ClosedEntry
  <2> DEFINE e == p.entries[k]
             own == {e.key, e.text, e.value, e.default_message, e.message}
  <2>1. e \in Entry
    BY <1>1
  <2>2. e \in Range(p.entries)
    BY DEF Range
  <2>3. own \subseteq TextsOf(p)
    BY <2>2 DEF TextsOf
  <2>4. own \subseteq Text
    BY <2>1 DEF Entry
  <2> HIDE DEF own
  <2>5. own \subseteq ClosedText
    BY <2>3, <2>4 DEF ClosedText
  <2> HIDE DEF e
  <2>6. e \in ClosedEntry
    BY <2>1, <2>5 DEF ClosedEntry, own
  <2>7. QED
    BY <2>6 DEF e
<1>5. p.entries \in Seq(ClosedEntry)
  <2> DEFINE es == p.entries
  <2>1. es \in Seq(Entry) /\ \A k \in DOMAIN es : es[k] \in ClosedEntry
    BY <1>1, <1>4
  <2> HIDE DEF es
  <2>2. es \in Seq(ClosedEntry)
    BY <2>1
  <2>3. QED
    BY <2>2 DEF es
<1>6. p.executable \in ClosedText
  BY <1>1, <1>3 DEF ClosedText
<1>7. QED
  BY <1>1, <1>2, <1>3, <1>5, <1>6 DEF ClosedProgram

LEMMA SynopsisKeepsFonts ==
    TypeOK /\ FontsInv /\ (BeginParse \/ AddToSynopsis \/ FinishSynopsis) => FontsInv'
<1> SUFFICES ASSUME TypeOK, FontsInv, BeginParse \/ AddToSynopsis \/ FinishSynopsis,
                    program \in ClosedProgram
             PROVE  synopsis_line' \in ClosedText /\ page' \in ClosedPart
  <2>1. BeginParse \/ AddToSynopsis \/ FinishSynopsis => program' = program
    BY DEF BeginParse, AddToSynopsis, FinishSynopsis, chosen
  <2>2. program' = program => (FontsInv' <=> (program \in ClosedProgram =>
                                synopsis_line' \in ClosedText /\ page' \in ClosedPart))
    BY DEF FontsInv
  <2>3. QED
    BY <2>1, <2>2, Zenon
<1>1. /\ program.executable \in ClosedText /\ program.meta.synopsis \in Seq(ClosedText)
      /\ synopsis_line \in ClosedText /\ page \in ClosedPart
  BY DEF ClosedProgram, FontsInv
<1>2. stored \in Stored /\ StoresEntries(program, stored) /\ format \in Formats
  BY DEF TypeOK
<1>3. \A synopsis \in Seq(ClosedText) : PageOf(format, program, stored, synopsis) \in ClosedPart
  BY <1>2, PageIsClosed
<1>4. CASE BeginParse
  <2>1. \/ synopsis_line' = program.executable /\ page' = page
        \/ /\ page' = PageOf(format, program, stored, program.meta.synopsis)
           /\ synopsis_line' = synopsis_line
    BY <1>4 DEF BeginParse
  <2>2. QED
    BY <1>1, <1>3, <2>1
<1>5. CASE AddToSynopsis
  <2>1. page' = page
    BY <1>5 DEF AddToSynopsis
  <2>2. PICK i \in Unspelled :
           synopsis_line' = synopsis_line
                \o Spelled(Element(i), /\ Element(i).kind = "positional"
                                       /\ \A j \in spelled : Element(j).kind # "positional")
    BY <1>5 DEF AddToSynopsis
  <2>3. /\ Element(i) \in Entry /\ Element(i).kind \in {"option", "flag", "positional"}
    <3>1. /\ stored.synopsis[i] \in DOMAIN program.entries
          /\ program.entries[stored.synopsis[i]].kind \in {"option", "flag", "positional"}
      BY <1>2 DEF StoresEntries, Unspelled
    <3>2. program.entries \in Seq(Entry)
      BY DEF ClosedProgram, Program
    <3>3. QED
      BY <3>1, <3>2 DEF Element
  <2> DEFINE first == /\ Element(i).kind = "positional"
                      /\ \A j \in spelled : Element(j).kind # "positional"
  <2>4. first \in BOOLEAN
    BY Zenon
  <2> HIDE DEF first
  <2>5. Spelled(Element(i), first) \in ClosedText
    BY <2>3, <2>4, SpelledIsClosed
  <2>6. synopsis_line' = synopsis_line \o Spelled(Element(i), first)
    BY <2>2 DEF first
  <2>7. QED
    BY <1>1, <2>1, <2>5, <2>6, ClosedConcatenate
<1>6. CASE FinishSynopsis
  <2>1. page' = PageOf(format, program, stored, <<synopsis_line>>) /\ synopsis_line' = synopsis_line
    BY <1>6 DEF FinishSynopsis
  <2>2. <<synopsis_line>> \in Seq(ClosedText)
    BY <1>1
  <2>3. QED
    BY <1>1, <1>3, <2>1, <2>2
<1>7. QED
  BY <1>4, <1>5, <1>6

LEMMA OthersKeepFonts ==
    [Next]_vars /\ ~(BeginParse \/ AddToSynopsis \/ FinishSynopsis)
    => UNCHANGED <<program, synopsis_line, page>>
<1>1. AddOptionOrFlag \/ AddPositionalOption \/ AddText => UNCHANGED <<program, synopsis_line, page>>
  BY DEF AddOptionOrFlag, AddPositionalOption, AddText, RunsNext, chosen
<1>2. SynopsisThrows \/ EndText => UNCHANGED <<program, synopsis_line, page>>
  BY DEF SynopsisThrows, EndText, chosen, built
<1>3. HelpHeader \/ HelpHeading \/ HelpLine \/ HelpListItem \/ HelpFooter
      => UNCHANGED <<program, synopsis_line, page>>
  BY DEF HelpHeader, HelpHeading, HelpLine, HelpListItem, HelpFooter, PrintsHelp, Prints, chosen, built
<1>4. FirstWord \/ NextWord => UNCHANGED <<program, synopsis_line, page>>
  BY DEF FirstWord, NextWord, PrintsWord, chosen, built
<1>5. PrintsElements => UNCHANGED <<program, synopsis_line, page>>
  BY DEF PrintsElements, HtmlHeader, HtmlHeading, HtmlLine, HtmlListItem, HtmlFooter, PrintsHtml,
         Prints, chosen, built
<1>6. PrintsRequests => UNCHANGED <<program, synopsis_line, page>>
  BY DEF PrintsRequests, ManHeader, ManHeading, ManLine, ManListItem, ManFooter, PrintsMan,
         Prints, chosen, built
<1>7. Returned \/ UNCHANGED vars => UNCHANGED <<program, synopsis_line, page>>
  BY DEF Returned, vars, chosen, built
<1>8. QED
  BY <1>1, <1>2, <1>3, <1>4, <1>5, <1>6, <1>7, Zenon DEF Next, PrintsElements, PrintsRequests

(***************************************************************************)
(* Whatever an application adds and whichever format prints it: if each    *)
(* of the application's texts closes the fonts it opens, to_html finds     *)
(* every tag it closes, and closes every one it opens.                     *)
(***************************************************************************)
THEOREM FontsAreClosedHolds == Spec => []FontsAreClosed
<1>1. Init => FontsInv
  <2>1. <<>> \in ClosedText /\ <<>> \in ClosedPart
    BY PlainIsClosed, SmallClosedParts
  <2>2. QED
    BY <2>1 DEF Init, FontsInv
<1>2. TypeOK /\ FontsInv /\ [Next]_vars => FontsInv'
  <2>1. FontsInv /\ UNCHANGED <<program, synopsis_line, page>> => FontsInv'
    BY DEF FontsInv
  <2>2. QED
    BY <2>1, SynopsisKeepsFonts, OthersKeepFonts, Zenon
<1>3. TypeOK /\ FontsInv => FontsAreClosed
  <2> SUFFICES ASSUME TypeOK, FontsInv, pc = "print", \A t \in TextsOf(program) : ClosesItsTags(t)
               PROVE  ClosesItsTags(TheCall.key) /\ ClosesItsTags(TheCall.text)
    BY DEF FontsAreClosed
  <2>1. program \in ClosedProgram
    BY TextsOfProgram DEF TypeOK
  <2>2. page \in Seq(ClosedCall) /\ at \in DOMAIN page
    BY <2>1 DEF FontsInv, TypeOK, ClosedPart
  <2>3. TheCall \in ClosedCall
    BY <2>2 DEF TheCall
  <2>4. QED
    BY <2>3 DEF ClosedCall, ClosedText
<1>4. QED
  BY <1>1, <1>2, <1>3, LayoutHolds, PTL DEF Spec
=============================================================================
