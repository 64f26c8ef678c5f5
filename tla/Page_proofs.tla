----------------------------- MODULE Page_proofs -----------------------------
(***************************************************************************)
(* Facts about texts and words, for every set of runs and every length,    *)
(* and about the texts and pages of Page, for every program.               *)
(***************************************************************************)
EXTENDS Page, FiniteSetTheorems, SequenceTheorems, WellFoundedInduction, TLAPS

----------------------------------------------------------------------------
(***************************************************************************)
(* Texts, words and lines.                                                 *)
(***************************************************************************)
\* A nonempty set of natural numbers has a least element.
LEMMA MinOfNaturals ==
    ASSUME NEW S \in SUBSET Nat, S # {}
    PROVE  Min(S) \in S /\ \A x \in S : Min(S) <= x
<1>1. PICK x \in S : \A y \in S : ~(<<y, x>> \in OpToRel(<, Nat))
  BY NatLessThanWellFounded, WFMin
<1>2. ASSUME NEW y \in S PROVE ~(y < x)
  <2>1. x \in Nat /\ y \in Nat
    OBVIOUS
  <2>2. QED
    BY <1>1, <2>1, Zenon DEF OpToRel
<1>3. \A y \in S : x <= y
  BY <1>2
<1>4. QED
  BY <1>3 DEF Min

\* The larger one of two natural numbers is one of them.
LEMMA MaxOfTwo ==
    ASSUME NEW a \in Nat, NEW b \in Nat
    PROVE  Max({a, b}) \in Nat
<1>1. CASE a >= b
  BY <1>1 DEF Max
<1>2. CASE b > a
  BY <1>2 DEF Max
<1>3. QED
  BY <1>1, <1>2

\* Every unit of a text has a width, printed and counted.
LEMMA UnitWidths ==
    ASSUME NEW text \in Text, NEW i \in DOMAIN text
    PROVE  /\ PrintedWidth(text[i]) \in Nat /\ CountedWidth(text, i) \in Nat
           /\ RawWidth(text[i]) \in Nat \ {0}
<1>1. text[i] \in Unit
  BY DEF Text
<1>2. PrintedWidth(text[i]) \in Nat
  BY <1>1, LengthAssumption DEF PrintedWidth, Unit, Run, Fonts
<1>3. RawWidth(text[i]) \in Nat \ {0}
  BY <1>1, LengthAssumption DEF RawWidth, Unit, Run, Fonts
<1>4. QED
  BY <1>2, <1>3 DEF CountedWidth

\* The cells of a text are finitely many.
LEMMA CellsAreFinite ==
    ASSUME NEW n \in Nat, NEW width \in [1..n -> Nat]
    PROVE  LET cells == UNION {{i} \X (1..width[i]) : i \in 1..n}
           IN  /\ Cardinality(cells) \in Nat
               /\ Cardinality(cells) > 0 <=> \E i \in 1..n : width[i] > 0
<1> DEFINE Cells == [i \in 1..n |-> {i} \X (1..width[i])]
           All == {Cells[i] : i \in 1..n}
<1>1. IsFiniteSet(All)
  <2>1. Cells \in Surjection(1..n, All)
    BY DEF Surjection
  <2>2. QED
    BY <2>1, FS_Surjection, FS_Interval
<1>2. ASSUME NEW i \in 1..n
      PROVE  IsFiniteSet(Cells[i])
  <2>1. width[i] \in Int /\ 1 \in Int
    OBVIOUS
  <2>2. IsFiniteSet(1..width[i]) /\ IsFiniteSet({i})
    BY <2>1, FS_Singleton, FS_Interval
  <2>3. IsFiniteSet({i} \X (1..width[i]))
    BY <2>2, FS_Product
  <2>4. QED
    BY <2>3
<1>3. IsFiniteSet(UNION All)
  BY <1>1, <1>2, FS_UNION
<1>4. UNION All = UNION {{i} \X (1..width[i]) : i \in 1..n}
  OBVIOUS
<1>5. UNION All # {} <=> \E i \in 1..n : width[i] > 0
  <2>1. ASSUME NEW i \in 1..n, width[i] > 0
        PROVE  <<i, 1>> \in Cells[i] /\ Cells[i] \in All
    BY <2>1
  <2>2. ASSUME NEW i \in 1..n, Cells[i] # {}
        PROVE  width[i] > 0
    <3>1. PICK k \in 1..width[i] : TRUE
      BY <2>2
    <3>2. QED
      BY <3>1
  <2>3. UNION All # {} => \E i \in 1..n : Cells[i] # {}
    OBVIOUS
  <2>4. (\E i \in 1..n : width[i] > 0) => UNION All # {}
    <3> HIDE DEF Cells, All
    <3> QED
      BY <2>1
  <2> QED
    BY <2>2, <2>3, <2>4, Zenon
<1>6. Cardinality(UNION All) \in Nat /\ (Cardinality(UNION All) = 0 <=> UNION All = {})
  BY <1>3, FS_CardinalityType, FS_EmptySet
<1>7. Cardinality(UNION All) > 0 <=> UNION All # {}
  BY <1>6
<1> QED
  BY <1>4, <1>5, <1>6, <1>7

\* The widths of a text are natural numbers, and it has a width if one of its
\* units has.
LEMMA TextWidths ==
    ASSUME NEW text \in Text
    PROVE  /\ to_text_width(text) \in Nat /\ text_width(text) \in Nat
           /\ to_text_width(text) > 0 <=> \E i \in DOMAIN text : PrintedWidth(text[i]) > 0
           /\ text_width(text) > 0 <=> \E i \in DOMAIN text : CountedWidth(text, i) > 0
           /\ raw_width(text) \in Nat /\ (raw_width(text) > 0 <=> text # <<>>)
<1>1. Len(text) \in Nat /\ DOMAIN text = 1..Len(text)
  BY DEF Text
<1>2. to_text_width(text) \in Nat /\ (to_text_width(text) > 0 <=> \E i \in DOMAIN text : PrintedWidth(text[i]) > 0)
  <2> DEFINE width == [i \in 1..Len(text) |-> PrintedWidth(text[i])]
             cells == UNION {{i} \X (1..width[i]) : i \in 1..Len(text)}
  <2>1. width \in [1..Len(text) -> Nat]
    BY <1>1, UnitWidths
  <2>2. /\ Cardinality(cells) \in Nat
        /\ Cardinality(cells) > 0 <=> \E i \in 1..Len(text) : width[i] > 0
    <3> HIDE DEF width
    <3> QED
      BY <1>1, <2>1, CellsAreFinite, Zenon
  <2>3. {{i} \X (1..width[i]) : i \in 1..Len(text)}
        = {{i} \X (1..PrintedWidth(text[i])) : i \in DOMAIN text}
    BY <1>1
  <2>4. (\E i \in 1..Len(text) : width[i] > 0) <=> \E i \in DOMAIN text : PrintedWidth(text[i]) > 0
    BY <1>1
  <2> QED
    BY <2>2, <2>3, <2>4 DEF to_text_width
<1>3. text_width(text) \in Nat /\ (text_width(text) > 0 <=> \E i \in DOMAIN text : CountedWidth(text, i) > 0)
  <2> DEFINE width == [i \in 1..Len(text) |-> CountedWidth(text, i)]
             cells == UNION {{i} \X (1..width[i]) : i \in 1..Len(text)}
  <2>1. width \in [1..Len(text) -> Nat]
    BY <1>1, UnitWidths
  <2>2. /\ Cardinality(cells) \in Nat
        /\ Cardinality(cells) > 0 <=> \E i \in 1..Len(text) : width[i] > 0
    <3> HIDE DEF width
    <3> QED
      BY <1>1, <2>1, CellsAreFinite, Zenon
  <2>3. {{i} \X (1..width[i]) : i \in 1..Len(text)}
        = {{i} \X (1..CountedWidth(text, i)) : i \in DOMAIN text}
    BY <1>1
  <2>4. (\E i \in 1..Len(text) : width[i] > 0) <=> \E i \in DOMAIN text : CountedWidth(text, i) > 0
    BY <1>1
  <2> QED
    BY <2>2, <2>3, <2>4 DEF text_width
<1>4. raw_width(text) \in Nat /\ (raw_width(text) > 0 <=> text # <<>>)
  <2> DEFINE width == [i \in 1..Len(text) |-> RawWidth(text[i])]
             cells == UNION {{i} \X (1..width[i]) : i \in 1..Len(text)}
  <2>1. width \in [1..Len(text) -> Nat]
    BY <1>1, UnitWidths
  <2>2. /\ Cardinality(cells) \in Nat
        /\ Cardinality(cells) > 0 <=> \E i \in 1..Len(text) : width[i] > 0
    <3> HIDE DEF width
    <3> QED
      BY <1>1, <2>1, CellsAreFinite, Zenon
  <2>3. {{i} \X (1..width[i]) : i \in 1..Len(text)}
        = {{i} \X (1..RawWidth(text[i])) : i \in DOMAIN text}
    BY <1>1
  <2>4. (\E i \in 1..Len(text) : width[i] > 0) <=> text # <<>>
    <3>1. \A i \in 1..Len(text) : width[i] > 0
      BY <1>1, UnitWidths
    <3>2. text # <<>> <=> 1 \in 1..Len(text)
      BY <1>1 DEF Text
    <3>3. 1..Len(text) # {} => 1 \in 1..Len(text)
      BY <1>1
    <3> HIDE DEF width
    <3> QED
      BY <3>1, <3>2, <3>3
  <2> QED
    BY <2>2, <2>3, <2>4 DEF raw_width
<1> QED
  BY <1>2, <1>3, <1>4

\* What text_width counts is printed.
LEMMA CountedIsPrinted ==
    ASSUME NEW text \in Text, text_width(text) > 0
    PROVE  to_text_width(text) > 0
<1>1. PICK i \in DOMAIN text : CountedWidth(text, i) > 0
  BY TextWidths
<1>2. PrintedWidth(text[i]) > 0
  <2>1. CASE text[i] \in {Backslash, Escaped}
    BY <2>1 DEF PrintedWidth, Fonts, Bold, Italic, Previous, Hyphen, Blank, Backslash, Escaped
  <2>2. CASE text[i] \notin {Backslash, Escaped}
    BY <1>1, <2>2 DEF CountedWidth
  <2> QED
    BY <2>1, <2>2
<1> QED
  BY <1>2, TextWidths

\* The next word behind position r ends behind r, inside the text and in
\* front of a blank or the end; what was read is then no longer blank.
LEMMA NextWordIsRead ==
    ASSUME NEW text \in Text, NEW r \in Nat, Unread(text, r) # {}
    PROVE  /\ Min(Unread(text, r)) \in (r + 1)..Len(text)
           /\ EndOfWord(text, r) \in Min(Unread(text, r))..Len(text)
           /\ text[Min(Unread(text, r))] # Blank
           /\ EndOfWord(text, r) = Len(text) \/ text[EndOfWord(text, r) + 1] = Blank
<1>0. Len(text) \in Nat
  BY DEF Text
<1>1. Unread(text, r) \in SUBSET Nat
  BY <1>0 DEF Unread
<1>2. Min(Unread(text, r)) \in Unread(text, r)
  BY <1>1, MinOfNaturals
<1>3. Min(Unread(text, r)) \in (r + 1)..Len(text) /\ text[Min(Unread(text, r))] # Blank
  BY <1>2 DEF Unread
<1> DEFINE first == Min(Unread(text, r))
           ends == {j \in first..Len(text) : j = Len(text) \/ text[j + 1] = Blank}
<1>4. Len(text) \in ends /\ ends \in SUBSET Nat
  <2>1. first \in Nat /\ Len(text) \in first..Len(text)
    BY <1>0, <1>3
  <2> HIDE DEF first
  <2>2. QED
    BY <1>0, <2>1
<1>5. Min(ends) \in ends
  <2> HIDE DEF ends
  <2>1. QED
    BY <1>4, MinOfNaturals
<1>6. EndOfWord(text, r) = Min(ends)
  BY DEF EndOfWord
<1>7. EndOfWord(text, r) \in ends
  BY <1>5, <1>6
<1>8. QED
  BY <1>3, <1>7

\* A word of a text is a text.
LEMMA WordIsText ==
    ASSUME NEW text \in Text, NEW r \in Nat, Unread(text, r) # {}
    PROVE  WordBehind(text, r) \in Text
<1> DEFINE m == Min(Unread(text, r))
           n == EndOfWord(text, r)
<1>1. m \in (r + 1)..Len(text) /\ n \in m..Len(text) /\ Len(text) \in Nat
  BY NextWordIsRead DEF Text
<1>2. SubSeq(text, m, n) \in Seq(Unit)
  <2> HIDE DEF m, n
  <2>1. m \in Int /\ n \in Int /\ 1 <= m /\ n <= Len(text)
    BY <1>1
  <2>2. \A i \in m..n : text[i] \in Unit
    BY <1>1 DEF Text
  <2>3. QED
    BY <1>1, <2>1, <2>2, SubSeqProperties DEF Text
<1>3. QED
  BY <1>2 DEF WordBehind, Text

----------------------------------------------------------------------------
(***************************************************************************)
(* Fonts.  The units of a concatenation are counted piece by piece, so a   *)
(* text made of pieces that close their tags closes its tags.              *)
(***************************************************************************)
LEMMA TextLengths ==
    ASSUME NEW s \in Text, NEW t \in Text
    PROVE  /\ s \o t \in Text
           /\ Len(s) \in Nat /\ DOMAIN s = 1..Len(s)
           /\ Len(s \o t) = Len(s) + Len(t) /\ DOMAIN (s \o t) = 1..Len(s \o t)
BY DEF Text

LEMMA CountIsNatural ==
    ASSUME NEW text, NEW n \in Nat, NEW units
    PROVE  UnitsUpTo(text, n, units) \in Nat
<1> DEFINE counted == {i \in 1..n : text[i] \in units}
<1>1. IsFiniteSet(1..n)
  BY FS_Interval
<1>2. IsFiniteSet(counted)
  <2>1. counted \in SUBSET (1..n)
    OBVIOUS
  <2> HIDE DEF counted
  <2>2. QED
    BY <1>1, <2>1, FS_Subset
<1> HIDE DEF counted
<1>3. Cardinality(counted) \in Nat
  BY <1>2, FS_CardinalityType
<1>4. QED
  BY <1>3 DEF UnitsUpTo, counted

LEMMA CountInFront ==
    ASSUME NEW s \in Text, NEW t \in Text, NEW n \in 0..Len(s), NEW units
    PROVE  UnitsUpTo(s \o t, n, units) = UnitsUpTo(s, n, units)
<1>1. \A i \in 1..n : (s \o t)[i] = s[i]
  BY DEF Text
<1>2. {i \in 1..n : (s \o t)[i] \in units} = {i \in 1..n : s[i] \in units}
  BY <1>1
<1>3. QED
  BY <1>2 DEF UnitsUpTo

LEMMA CountBehind ==
    ASSUME NEW s \in Text, NEW t \in Text, NEW n \in 0..Len(t), NEW units
    PROVE  UnitsUpTo(s \o t, Len(s) + n, units)
           = UnitsUpTo(s, Len(s), units) + UnitsUpTo(t, n, units)
<1> DEFINE all    == {i \in 1..(Len(s) + n) : (s \o t)[i] \in units}
           front  == {i \in 1..Len(s) : s[i] \in units}
           back   == {i \in 1..n : t[i] \in units}
           behind == {i \in (Len(s) + 1)..(Len(s) + n) : t[i - Len(s)] \in units}
           shift  == [i \in back |-> Len(s) + i]
<1>1. Len(s) \in Nat /\ n \in Nat /\ n <= Len(t) /\ Len(t) \in Nat
  BY DEF Text
<1>2. \A i \in 1..Len(s) : (s \o t)[i] = s[i]
  BY DEF Text
<1>3. \A i \in (Len(s) + 1)..(Len(s) + n) : (s \o t)[i] = t[i - Len(s)]
  BY <1>1 DEF Text
<1>4. all = front \cup behind
  BY <1>1, <1>2, <1>3
<1>5. front \cap behind = {}
  BY <1>1
<1>6. IsFiniteSet(front) /\ IsFiniteSet(back)
  <2>1. front \in SUBSET (1..Len(s)) /\ back \in SUBSET (1..n)
    OBVIOUS
  <2>2. IsFiniteSet(1..Len(s)) /\ IsFiniteSet(1..n)
    BY <1>1, FS_Interval
  <2> HIDE DEF front, back
  <2>3. QED
    BY <2>1, <2>2, FS_Subset
<1>7. ExistsBijection(back, behind)
  <2>1. shift \in [back -> behind]
    BY <1>1
  <2>2. \A i, j \in back : shift[i] = shift[j] => i = j
    BY <1>1
  <2>3. \A k \in behind : \E i \in back : shift[i] = k
    <3> SUFFICES ASSUME NEW k \in behind
                 PROVE  \E i \in back : shift[i] = k
      OBVIOUS
    <3>1. k - Len(s) \in back /\ shift[k - Len(s)] = k
      BY <1>1
    <3>2. QED
      BY <3>1
  <2> HIDE DEF shift, back, behind
  <2>4. shift \in Bijection(back, behind)
    BY <2>1, <2>2, <2>3 DEF Bijection, Injection, Surjection, IsInjective
  <2>5. QED
    BY <2>4 DEF ExistsBijection
<1> HIDE DEF all, front, back, behind, shift
<1>8. IsFiniteSet(behind) /\ Cardinality(behind) = Cardinality(back)
  BY <1>6, <1>7, FS_Bijection
<1>9. Cardinality(all) = Cardinality(front) + Cardinality(behind) - Cardinality({})
  BY <1>4, <1>5, <1>6, <1>8, FS_Union
<1>10. Cardinality({}) = 0
  BY FS_EmptySet
<1>11. Cardinality(front) \in Nat /\ Cardinality(back) \in Nat
  BY <1>6, FS_CardinalityType
<1>12. Cardinality(all) = Cardinality(front) + Cardinality(back)
  BY <1>8, <1>9, <1>10, <1>11
<1>13. QED
  BY <1>12 DEF UnitsUpTo, all, front, back

\* The open tags of a concatenation, within its first text and behind it.
LEMMA TagsConcatenate ==
    ASSUME NEW s \in Text, NEW t \in Text
    PROVE  /\ \A n \in 0..Len(s) : /\ open_tags(s \o t, n) = open_tags(s, n)
                                   /\ open_tags(s, n) \in Int
           /\ \A n \in 0..Len(t) : /\ open_tags(s \o t, Len(s) + n)
                                      = open_tags(s, Len(s)) + open_tags(t, n)
                                   /\ open_tags(t, n) \in Int
<1>1. ASSUME NEW n \in 0..Len(s)
      PROVE  open_tags(s \o t, n) = open_tags(s, n) /\ open_tags(s, n) \in Int
  <2>1. n \in Nat
    OBVIOUS
  <2>2. UnitsUpTo(s, n, {Bold, Italic}) \in Nat /\ UnitsUpTo(s, n, {Previous}) \in Nat
    BY <2>1, CountIsNatural
  <2>3. QED
    BY <2>2, CountInFront DEF open_tags
<1>2. ASSUME NEW n \in 0..Len(t)
      PROVE  /\ open_tags(s \o t, Len(s) + n) = open_tags(s, Len(s)) + open_tags(t, n)
             /\ open_tags(t, n) \in Int
  <2>1. n \in Nat /\ Len(s) \in Nat
    BY DEF Text
  <2> DEFINE a == UnitsUpTo(s, Len(s), {Bold, Italic})
             b == UnitsUpTo(s, Len(s), {Previous})
             c == UnitsUpTo(t, n, {Bold, Italic})
             d == UnitsUpTo(t, n, {Previous})
             e == UnitsUpTo(s \o t, Len(s) + n, {Bold, Italic})
             f == UnitsUpTo(s \o t, Len(s) + n, {Previous})
  <2>2. a \in Nat /\ b \in Nat /\ c \in Nat /\ d \in Nat
    BY <2>1, CountIsNatural
  <2>3. e = a + c /\ f = b + d
    BY CountBehind
  <2>4. /\ open_tags(s \o t, Len(s) + n) = e - f
        /\ open_tags(s, Len(s)) = a - b /\ open_tags(t, n) = c - d
    BY DEF open_tags
  <2> HIDE DEF a, b, c, d, e, f
  <2>5. QED
    BY <2>2, <2>3, <2>4
<1>3. QED
  BY <1>1, <1>2

\* Texts that close the tags they open, and no other ones.
ClosedText == {t \in Text : ClosesItsTags(t)}

LEMMA ClosedConcatenate ==
    ASSUME NEW s \in ClosedText, NEW t \in ClosedText
    PROVE  s \o t \in ClosedText
<1>1. s \in Text /\ t \in Text /\ s \o t \in Text
  BY DEF ClosedText, Text
<1>2. /\ Len(s) \in Nat /\ DOMAIN s = 1..Len(s)
      /\ Len(t) \in Nat /\ DOMAIN t = 1..Len(t)
      /\ DOMAIN (s \o t) = 1..(Len(s) + Len(t)) /\ Len(s \o t) = Len(s) + Len(t)
  BY <1>1 DEF Text
<1>3. /\ \A n \in 1..Len(s) : open_tags(s, n) >= 0
      /\ \A n \in 1..Len(t) : open_tags(t, n) >= 0
      /\ open_tags(s, Len(s)) = 0 /\ open_tags(t, Len(t)) = 0
  BY <1>2 DEF ClosedText, ClosesItsTags
<1>4. /\ \A n \in 0..Len(s) : open_tags(s \o t, n) = open_tags(s, n)
      /\ \A n \in 0..Len(t) : /\ open_tags(s \o t, Len(s) + n) = 0 + open_tags(t, n)
                              /\ open_tags(t, n) \in Int
  BY <1>1, <1>3, TagsConcatenate
<1>5. \A n \in 1..(Len(s) + Len(t)) : open_tags(s \o t, n) >= 0
  <2> SUFFICES ASSUME NEW n \in 1..(Len(s) + Len(t))
               PROVE  open_tags(s \o t, n) >= 0
    OBVIOUS
  <2>1. CASE n <= Len(s)
    BY <1>2, <1>3, <1>4, <2>1
  <2>2. CASE n > Len(s)
    <3>1. n - Len(s) \in 1..Len(t) /\ Len(s) + (n - Len(s)) = n
      BY <1>2, <2>2
    <3>2. open_tags(s \o t, Len(s) + (n - Len(s))) = 0 + open_tags(t, n - Len(s))
          /\ open_tags(t, n - Len(s)) \in Int
      BY <1>4, <3>1
    <3>3. open_tags(t, n - Len(s)) >= 0
      BY <1>3, <3>1
    <3>4. QED
      BY <3>1, <3>2, <3>3
  <2>3. QED
    BY <1>2, <2>1, <2>2
<1>6. open_tags(s \o t, Len(s) + Len(t)) = 0
  BY <1>2, <1>3, <1>4
<1>7. QED
  BY <1>1, <1>2, <1>5, <1>6 DEF ClosedText, ClosesItsTags

\* A text without fonts opens no tag.
LEMMA FontlessIsClosed ==
    ASSUME NEW t \in Text, \A i \in DOMAIN t : t[i] \notin Fonts
    PROVE  t \in ClosedText
<1>1. Len(t) \in Nat /\ DOMAIN t = 1..Len(t)
  BY DEF Text
<1>2. ASSUME NEW n \in 0..Len(t)
      PROVE  open_tags(t, n) = 0
  <2>1. {i \in 1..n : t[i] \in {Bold, Italic}} = {} /\ {i \in 1..n : t[i] \in {Previous}} = {}
    BY <1>1 DEF Fonts
  <2>2. Cardinality({}) = 0
    BY FS_EmptySet
  <2>3. UnitsUpTo(t, n, {Bold, Italic}) = 0 /\ UnitsUpTo(t, n, {Previous}) = 0
    BY <2>1, <2>2, Zenon DEF UnitsUpTo
  <2>4. QED
    BY <2>3 DEF open_tags
<1>3. QED
  BY <1>1, <1>2 DEF ClosedText, ClosesItsTags

\* A font and its end may stand in any closed text, the end behind the font.
LEMMA WrappedIsClosed ==
    ASSUME NEW font \in {Bold, Italic}, NEW s \in Text, NEW t \in Text, s \o t \in ClosedText
    PROVE  <<font>> \o s \o <<Previous>> \o t \in ClosedText
<1> DEFINE f == <<font>>
           p == <<Previous>>
           w == f \o s \o p \o t
<1>1. f \in Text /\ p \in Text /\ Len(f) = 1 /\ Len(p) = 1
  BY DEF Text, Unit, Fonts
<1>2. open_tags(f, 1) = 1 /\ open_tags(f, 0) = 0 /\ open_tags(p, 1) = -1 /\ open_tags(p, 0) = 0
  <2>1. /\ {i \in 1..1 : f[i] \in {Bold, Italic}} = {1} /\ {i \in 1..1 : f[i] \in {Previous}} = {}
        /\ {i \in 1..1 : p[i] \in {Bold, Italic}} = {} /\ {i \in 1..1 : p[i] \in {Previous}} = {1}
    BY DEF Bold, Italic, Previous
  <2>2. /\ {i \in 1..0 : f[i] \in {Bold, Italic}} = {} /\ {i \in 1..0 : f[i] \in {Previous}} = {}
        /\ {i \in 1..0 : p[i] \in {Bold, Italic}} = {} /\ {i \in 1..0 : p[i] \in {Previous}} = {}
    OBVIOUS
  <2>3. Cardinality({}) = 0 /\ Cardinality({1}) = 1
    BY FS_EmptySet, FS_Singleton
  <2> HIDE DEF f, p
  <2>4. QED
    BY <2>1, <2>2, <2>3 DEF open_tags, UnitsUpTo
<1> HIDE DEF f, p
<1>3. /\ f \o s \in Text /\ f \o s \o p \in Text /\ w \in Text /\ s \o t \in Text
  BY <1>1, TextLengths, Zenon
<1>4. /\ Len(s) \in Nat /\ Len(t) \in Nat
      /\ Len(f \o s) = 1 + Len(s) /\ Len(f \o s \o p) = 2 + Len(s)
      /\ Len(w) = 2 + Len(s) + Len(t) /\ DOMAIN w = 1..(2 + Len(s) + Len(t))
      /\ DOMAIN (s \o t) = 1..(Len(s) + Len(t)) /\ Len(s \o t) = Len(s) + Len(t)
  <2>1. /\ Len(s) \in Nat /\ Len(t) \in Nat
        /\ Len(f \o s) = Len(f) + Len(s)
        /\ Len(f \o s \o p) = Len(f \o s) + Len(p)
        /\ Len(w) = Len(f \o s \o p) + Len(t) /\ DOMAIN w = 1..Len(w)
        /\ DOMAIN (s \o t) = 1..Len(s \o t) /\ Len(s \o t) = Len(s) + Len(t)
    BY <1>1, <1>3, TextLengths, Zenon
  <2>2. Len(w) = 2 + Len(s) + Len(t) /\ Len(f \o s \o p) = 2 + Len(s) /\ Len(f \o s) = 1 + Len(s)
    BY <1>1, <2>1
  <2>3. QED
    BY <2>1, <2>2
<1>5. /\ \A n \in 1..(Len(s) + Len(t)) : open_tags(s \o t, n) >= 0
      /\ open_tags(s \o t, Len(s) + Len(t)) = 0
  BY <1>4 DEF ClosedText, ClosesItsTags
<1>6. \A n \in 0..Len(s) : /\ open_tags(s, n) \in Int
                           /\ open_tags(s \o t, n) = open_tags(s, n)
                           /\ open_tags(f \o s, 1 + n) = 1 + open_tags(s, n)
                           /\ open_tags(f \o s \o p, 1 + n) = 1 + open_tags(s, n)
                           /\ open_tags(w, 1 + n) = 1 + open_tags(s, n)
  <2> SUFFICES ASSUME NEW n \in 0..Len(s)
               PROVE  /\ open_tags(s, n) \in Int
                      /\ open_tags(s \o t, n) = open_tags(s, n)
                      /\ open_tags(f \o s, 1 + n) = 1 + open_tags(s, n)
                      /\ open_tags(f \o s \o p, 1 + n) = 1 + open_tags(s, n)
                      /\ open_tags(w, 1 + n) = 1 + open_tags(s, n)
    OBVIOUS
  <2>1. open_tags(s \o t, n) = open_tags(s, n) /\ open_tags(s, n) \in Int
    BY TagsConcatenate
  <2>2. open_tags(f \o s, 1 + n) = 1 + open_tags(s, n)
    <3>1. open_tags(f \o s, Len(f) + n) = open_tags(f, Len(f)) + open_tags(s, n)
      BY <1>1, TagsConcatenate, Zenon
    <3>2. QED
      BY <1>1, <1>2, <3>1
  <2>3. 1 + n \in 0..Len(f \o s) /\ 1 + n \in 0..Len(f \o s \o p)
    BY <1>4
  <2>4. open_tags(f \o s \o p, 1 + n) = open_tags(f \o s, 1 + n)
    BY <1>1, <1>3, <2>3, TagsConcatenate
  <2>5. open_tags(w, 1 + n) = open_tags(f \o s \o p, 1 + n)
    BY <1>3, <2>3, TagsConcatenate
  <2>6. QED
    BY <2>1, <2>2, <2>4, <2>5
<1>7. open_tags(f \o s \o p, 2 + Len(s)) = open_tags(s, Len(s))
  <2>1. open_tags(f \o s \o p, (1 + Len(s)) + 1) = open_tags(f \o s, 1 + Len(s)) + -1
    <3>1. 1 \in 0..Len(p)
      BY <1>1
    <3>2. open_tags(f \o s \o p, Len(f \o s) + 1) = open_tags(f \o s, Len(f \o s)) + open_tags(p, 1)
      BY <1>1, <1>3, <3>1, TagsConcatenate, Zenon
    <3>3. QED
      BY <1>2, <1>4, <3>2
  <2>2. Len(s) \in 0..Len(s) /\ (1 + Len(s)) + 1 = 2 + Len(s)
    BY <1>4
  <2>3. open_tags(f \o s, 1 + Len(s)) = 1 + open_tags(s, Len(s)) /\ open_tags(s, Len(s)) \in Int
    BY <1>6, <2>2
  <2>4. QED
    BY <2>1, <2>2, <2>3
<1>8. \A n \in 0..Len(t) : /\ open_tags(w, 2 + Len(s) + n) = open_tags(s \o t, Len(s) + n)
                           /\ open_tags(s \o t, Len(s) + n) \in Int
  <2> SUFFICES ASSUME NEW n \in 0..Len(t)
               PROVE  /\ open_tags(w, 2 + Len(s) + n) = open_tags(s \o t, Len(s) + n)
                      /\ open_tags(s \o t, Len(s) + n) \in Int
    OBVIOUS
  <2>1. Len(s) \in 0..Len(s)
    BY <1>4
  <2>2. open_tags(s, Len(s)) \in Int
    BY <1>6, <2>1
  <2>3. open_tags(w, 2 + Len(s) + n) = open_tags(f \o s \o p, 2 + Len(s)) + open_tags(t, n)
    <3>1. open_tags(w, Len(f \o s \o p) + n)
          = open_tags(f \o s \o p, Len(f \o s \o p)) + open_tags(t, n)
      BY <1>3, TagsConcatenate, Zenon
    <3>2. QED
      BY <1>4, <3>1
  <2>4. open_tags(s \o t, Len(s) + n) = open_tags(s, Len(s)) + open_tags(t, n)
        /\ open_tags(t, n) \in Int
    BY TagsConcatenate
  <2>5. QED
    BY <1>7, <2>2, <2>3, <2>4
<1>9. open_tags(s, 0) = 0
  <2>1. {i \in 1..0 : s[i] \in {Bold, Italic}} = {} /\ {i \in 1..0 : s[i] \in {Previous}} = {}
    OBVIOUS
  <2>2. QED
    BY <2>1, FS_EmptySet DEF open_tags, UnitsUpTo
<1>10. \A n \in 1..(2 + Len(s) + Len(t)) : open_tags(w, n) >= 0
  <2> SUFFICES ASSUME NEW n \in 1..(2 + Len(s) + Len(t))
               PROVE  open_tags(w, n) >= 0
    OBVIOUS
  <2>1. CASE n <= 1 + Len(s)
    <3>1. n - 1 \in 0..Len(s) /\ 1 + (n - 1) = n
      BY <1>4, <2>1
    <3>2. open_tags(w, 1 + (n - 1)) = 1 + open_tags(s, n - 1) /\ open_tags(s, n - 1) \in Int
          /\ open_tags(s \o t, n - 1) = open_tags(s, n - 1)
      BY <1>6, <3>1
    <3>3. open_tags(s, n - 1) >= 0
      <4>1. CASE n - 1 = 0
        BY <1>9, <4>1
      <4>2. CASE n - 1 # 0
        <5>1. n - 1 \in 1..(Len(s) + Len(t))
          BY <1>4, <3>1, <4>2
        <5>2. QED
          BY <1>5, <3>2, <5>1
      <4>3. QED
        BY <4>1, <4>2
    <3>4. QED
      BY <3>1, <3>2, <3>3
  <2>2. CASE n > 1 + Len(s)
    <3> DEFINE m == n - 2 - Len(s)
    <3>1. m \in 0..Len(t) /\ 2 + Len(s) + m = n
      BY <1>4, <2>2
    <3> HIDE DEF m
    <3>2. open_tags(w, 2 + Len(s) + m) = open_tags(s \o t, Len(s) + m)
      BY <1>8, <3>1
    <3>3. open_tags(s \o t, Len(s) + m) >= 0
      <4>1. CASE Len(s) + m = 0
        <5>1. 0 \in 0..Len(s)
          BY <1>4
        <5>2. open_tags(s \o t, 0) = open_tags(s, 0)
          BY <1>6, <5>1
        <5>3. QED
          BY <1>9, <4>1, <5>2
      <4>2. CASE Len(s) + m # 0
        <5>1. Len(s) + m \in 1..(Len(s) + Len(t))
          BY <1>4, <3>1, <4>2
        <5>2. QED
          BY <1>5, <5>1
      <4>3. QED
        BY <4>1, <4>2
    <3>4. QED
      BY <3>1, <3>2, <3>3
  <2>3. QED
    BY <1>4, <2>1, <2>2
<1>11. open_tags(w, 2 + Len(s) + Len(t)) = 0
  <2>1. Len(t) \in 0..Len(t)
    BY <1>4
  <2>2. QED
    BY <1>5, <1>8, <2>1
<1>12. w \in ClosedText
  BY <1>3, <1>4, <1>10, <1>11 DEF ClosedText, ClosesItsTags
<1>13. QED
  BY <1>12 DEF w, f, p

----------------------------------------------------------------------------
(***************************************************************************)
(* The texts a page is made of.                                            *)
(***************************************************************************)
\* Every unit is a text of its own, and so are all short sequences of units.
LEMMA UnitsAreTexts ==
    /\ <<>> \in Text
    /\ \A u \in Unit : <<u>> \in Text
    /\ \A u, v \in Unit : <<u, v>> \in Text
    /\ \A u, v, w \in Unit : <<u, v, w>> \in Text
BY DEF Text

\* Two texts in a row are a text.
LEMMA TextsConcatenate ==
    ASSUME NEW s \in Text, NEW t \in Text
    PROVE  s \o t \in Text
BY DEF Text

\* The runs, blanks, fonts and escape sequences the formats use are units.
LEMMA OwnUnits ==
    /\ {"(", ")", "[", "]", "...", "|", ",", ".", "-", "--", "of", "List", "Default:",
        "ARGUMENT-n", "[n]", "--own", "own", "text"} \subseteq Unit
    /\ {Blank, Bold, Italic, Previous} \subseteq Unit
    /\ Run \subseteq Unit
<1>1. {"(", ")", "[", "]", "...", "|", ",", ".", "-", "--", "of", "List", "Default:",
       "ARGUMENT-n", "[n]", "--own", "own", "text"} \subseteq Run
  BY OwnRunsAssumption
<1>2. Run \subseteq Unit /\ {Blank, Bold, Italic, Previous} \subseteq Unit
  BY DEF Unit, Fonts
<1>3. QED
  BY <1>1, <1>2

\* The fields of an entry.
LEMMA EntryFields ==
    ASSUME NEW e \in Entry
    PROVE  /\ e.short = NoId \/ e.short \in Unit
           /\ e.long = NoId \/ e.long \in Unit
           /\ e.type \in Unit
           /\ {e.key, e.text, e.value, e.default_message, e.message} \subseteq Text
           /\ e.kind \in Kinds
           /\ {e.list, e.required, e.advanced, e.hidden, e.paragraph} \subseteq BOOLEAN
BY OwnUnits DEF Entry

LEMMA InFontIsText ==
    ASSUME NEW font \in Fonts, NEW t \in Text
    PROVE  InFont(font, t) \in Text
<1>1. font \in Unit /\ Previous \in Unit
  BY DEF Unit, Fonts
<1>2. <<font>> \in Text /\ <<Previous>> \in Text
  BY <1>1, UnitsAreTexts
<1>3. QED
  BY <1>2, TextsConcatenate DEF InFont

LEMMA IdentifiersAreText ==
    ASSUME NEW e \in Entry, NEW separator \in Text
    PROVE  prep_id_for_help(e, separator) \in Text
<1>1. Bold \in Fonts
  BY DEF Fonts
<1>2. (IF e.short = NoId THEN <<>> ELSE InFont(Bold, <<e.short>>)) \in Text
  BY <1>1, EntryFields, UnitsAreTexts, InFontIsText
<1>3. (IF e.short # NoId /\ e.long # NoId THEN separator ELSE <<>>) \in Text
  BY UnitsAreTexts
<1>4. (IF e.long = NoId THEN <<>> ELSE InFont(Bold, <<e.long>>)) \in Text
  BY <1>1, EntryFields, UnitsAreTexts, InFontIsText
<1>5. QED
  BY <1>2, <1>3, <1>4, TextsConcatenate DEF prep_id_for_help

LEMMA TypeInfoIsText ==
    ASSUME NEW e \in Entry
    PROVE  option_type_and_list_info(e) \in Text
<1>1. Italic \in Fonts
  BY DEF Fonts
<1>2. InFont(Italic, <<"List">>) \in Text /\ InFont(Italic, <<e.type>>) \in Text
  BY <1>1, EntryFields, OwnUnits, UnitsAreTexts, InFontIsText
<1>3. <<"(">> \in Text /\ <<")">> \in Text /\ <<Blank, "of", Blank>> \in Text /\ <<>> \in Text
  BY OwnUnits, UnitsAreTexts
<1>4. (IF e.list THEN InFont(Italic, <<"List">>) \o <<Blank, "of", Blank>> ELSE <<>>) \in Text
  BY <1>2, <1>3, TextsConcatenate
<1>5. QED
  BY <1>2, <1>3, <1>4, TextsConcatenate DEF option_type_and_list_info

LEMMA InfoIsText ==
    ASSUME NEW e \in Entry
    PROVE  Info(e) \in Text
<1>1. <<>> \in Text /\ <<".", Blank>> \in Text /\ <<Blank, "Default:", Blank>> \in Text
  BY OwnUnits, UnitsAreTexts
<1>2. ASSUME NEW t \in Text
      PROVE  get_default_message(t) \in Text
  BY <1>1, TextsConcatenate DEF get_default_message
<1>3. DefaultOf(e) \in Text
  BY <1>1, <1>2, EntryFields DEF DefaultOf
<1>4. MessageOf(e) \in Text
  BY <1>1, EntryFields, TextsConcatenate DEF MessageOf
<1>5. QED
  BY <1>3, <1>4, EntryFields, TextsConcatenate DEF Info

\* What an option, flag or positional option adds to the synopsis is a text.
LEMMA SpelledIsText ==
    ASSUME NEW e \in Entry, e.kind \in {"option", "flag", "positional"}, NEW first \in BOOLEAN
    PROVE  Spelled(e, first) \in Text
<1>1. /\ <<>> \in Text /\ <<"[">> \in Text /\ <<"]">> \in Text /\ <<"...">> \in Text
      /\ <<"|">> \in Text /\ <<Blank>> \in Text /\ <<Blank, "[">> \in Text
      /\ <<"]", "...">> \in Text
  BY OwnUnits, UnitsAreTexts
<1>2. <<Blank, "[", Bold, "--", Previous, "]">> \in Text
  <2>1. <<Blank, "[", Bold, "--", Previous, "]">>
        = <<Blank, "[", Bold>> \o <<"--", Previous, "]">>
    OBVIOUS
  <2>2. <<Blank, "[", Bold>> \in Text /\ <<"--", Previous, "]">> \in Text
    BY OwnUnits, UnitsAreTexts
  <2>3. QED
    BY <2>1, <2>2, TextsConcatenate
<1>3. prep_id_for_help(e, <<"|">>) \in Text
  BY <1>1, IdentifiersAreText
<1>4. InFont(Italic, <<e.type>>) \in Text
  BY EntryFields, UnitsAreTexts, InFontIsText DEF Fonts
<1>5. prep_id_for_help(e, <<"|">>) \o <<Blank>> \o InFont(Italic, <<e.type>>) \in Text
  BY <1>1, <1>3, <1>4, TextsConcatenate
<1>6. ElementText(e) \in Text
  <2>1. CASE e.kind = "flag"
    BY <2>1, <1>1, <1>3, TextsConcatenate DEF ElementText
  <2>2. CASE e.kind = "option" /\ ~e.required
    BY <2>2, <1>1, <1>5, TextsConcatenate DEF ElementText
  <2>3. CASE e.kind = "option" /\ e.required /\ e.list
    BY <2>3, <1>1, <1>5, TextsConcatenate DEF ElementText
  <2>4. CASE e.kind = "option" /\ e.required /\ ~e.list
    BY <2>4, <1>5 DEF ElementText
  <2>5. CASE e.kind = "positional"
    BY <2>5, <1>1, <1>4, TextsConcatenate DEF ElementText
  <2>6. QED
    BY <2>1, <2>2, <2>3, <2>4, <2>5
<1>7. QED
  BY <1>1, <1>2, <1>6, TextsConcatenate DEF Spelled

LEMMA BoldWordIsText ==
    ASSUME NEW t \in Text, FirstBlank(t) # {}
    PROVE  InBoldUpToBlank(t) \in Text
<1> DEFINE i == Min(FirstBlank(t))
<1>1. Len(t) \in Nat /\ DOMAIN t = 1..Len(t)
  BY DEF Text
<1>2. FirstBlank(t) \in SUBSET Nat
  BY <1>1 DEF FirstBlank
<1>3. i \in 1..Len(t)
  BY <1>1, <1>2, MinOfNaturals DEF FirstBlank
<1>4. SubSeq(t, 1, i - 1) \in Text /\ SubSeq(t, i, Len(t)) \in Text
  <2> HIDE DEF i
  <2>1. QED
    BY <1>1, <1>3, SubSeqProperties DEF Text
<1>5. <<Bold>> \in Text /\ <<Previous>> \in Text
  BY OwnUnits, UnitsAreTexts
<1>6. QED
  BY <1>4, <1>5, TextsConcatenate DEF InBoldUpToBlank

----------------------------------------------------------------------------
(***************************************************************************)
(* Calls and pages.                                                        *)
(***************************************************************************)
\* What the parts of a page between its header and its footer are made of.
Inner == {c \in Call : c.kind \in {"section", "subsection", "line", "item", "throw"}}

\* Calls of the format's own or of the application.
LEMMA EmitIsCall ==
    ASSUME NEW kind \in CallKinds, NEW key \in Text, NEW text \in Text, NEW paragraph \in BOOLEAN
    PROVE  /\ Emit(kind, key, text, paragraph) \in Call
           /\ Emit(kind, key, text, paragraph).kind = kind
           /\ Emit(kind, key, text, paragraph).of = 0
BY DEF Emit, Call

LEMMA OwnCalls ==
    /\ OwnSection \in Inner /\ OwnSection.kind = "section" /\ OwnSection.of = 0
    /\ OwnItem \in Inner /\ OwnItem.kind = "item" /\ OwnItem.of = 0
    /\ \A t \in Text, b \in BOOLEAN :
          Line(t, b) \in Inner /\ Line(t, b).kind = "line" /\ Line(t, b).of = 0
    /\ \A b \in BOOLEAN : OwnLine(b) \in Inner /\ OwnLine(b).kind = "line" /\ OwnLine(b).of = 0
    /\ \A t \in Text :
          LET c == Emit("item", InFont(Bold, <<"[n]">>), t, FALSE)
          IN  c \in Inner /\ c.kind = "item" /\ c.of = 0
    /\ \A k \in {"header", "footer", "block", "subsection", "throw"}, t \in {<<>>, <<"own">>} :
          LET c == Emit(k, <<>>, t, FALSE)
          IN  c \in Call /\ c.kind = k /\ c.of = 0
<1>1. <<>> \in Text /\ <<"own">> \in Text /\ OwnText \in Text
  BY OwnUnits, UnitsAreTexts DEF OwnText
<1>2. InFont(Bold, <<"--own">>) \in Text /\ InFont(Bold, <<"[n]">>) \in Text
  BY OwnUnits, UnitsAreTexts, InFontIsText DEF Fonts
<1>0. /\ "header" \in CallKinds /\ "footer" \in CallKinds /\ "block" \in CallKinds
      /\ "section" \in CallKinds /\ "subsection" \in CallKinds /\ "line" \in CallKinds
      /\ "item" \in CallKinds /\ "throw" \in CallKinds /\ FALSE \in BOOLEAN
  BY DEF CallKinds
<1>3. /\ \A key, text \in Text : Emit("section", key, text, FALSE) \in Inner
      /\ \A key, text \in Text, b \in BOOLEAN : Emit("line", key, text, b) \in Inner
      /\ \A key, text \in Text : Emit("item", key, text, FALSE) \in Inner
      /\ \A kind, key, text, b : /\ Emit(kind, key, text, b).kind = kind
                                  /\ Emit(kind, key, text, b).of = 0
  <2>1. \A kind, key, text, b : /\ Emit(kind, key, text, b).kind = kind
                                /\ Emit(kind, key, text, b).of = 0
    BY DEF Emit
  <2>2. ASSUME NEW key \in Text, NEW text \in Text, NEW b \in BOOLEAN
        PROVE  Emit("line", key, text, b) \in Call
    BY <1>0, EmitIsCall
  <2>3. \A c \in Call : c.kind \in {"section", "line", "item"} => c \in Inner
    BY DEF Inner
  <2>4. ASSUME NEW key \in Text, NEW text \in Text
        PROVE  Emit("section", key, text, FALSE) \in Inner
    <3>1. Emit("section", key, text, FALSE) \in Call
      BY <1>0, EmitIsCall
    <3>2. Emit("section", key, text, FALSE).kind = "section"
      BY DEF Emit
    <3>3. QED
      BY <2>3, <3>1, <3>2
  <2>5. ASSUME NEW key \in Text, NEW text \in Text, NEW b \in BOOLEAN
        PROVE  Emit("line", key, text, b) \in Inner
    BY <2>1, <2>2, <2>3
  <2>6. ASSUME NEW key \in Text, NEW text \in Text
        PROVE  Emit("item", key, text, FALSE) \in Inner
    <3>1. Emit("item", key, text, FALSE) \in Call
      BY <1>0, EmitIsCall
    <3>2. Emit("item", key, text, FALSE).kind = "item"
      BY DEF Emit
    <3>3. QED
      BY <2>3, <3>1, <3>2
  <2>7. QED
    BY <2>1, <2>4, <2>5, <2>6
<1>4. OwnSection \in Inner /\ OwnSection.kind = "section" /\ OwnSection.of = 0
  BY <1>1, <1>3 DEF OwnSection, Section
<1>5. OwnItem \in Inner /\ OwnItem.kind = "item" /\ OwnItem.of = 0
  BY <1>1, <1>2, <1>3 DEF OwnItem
<1>6. \A t \in Text, b \in BOOLEAN :
          Line(t, b) \in Inner /\ Line(t, b).kind = "line" /\ Line(t, b).of = 0
  BY <1>1, <1>3 DEF Line
<1>7. \A b \in BOOLEAN : OwnLine(b) \in Inner /\ OwnLine(b).kind = "line" /\ OwnLine(b).of = 0
  BY <1>1, <1>6 DEF OwnLine
<1>8. \A t \in Text :
          LET c == Emit("item", InFont(Bold, <<"[n]">>), t, FALSE)
          IN  c \in Inner /\ c.kind = "item" /\ c.of = 0
  BY <1>2, <1>3
<1>9. \A k \in {"header", "footer", "block", "subsection", "throw"}, t \in {<<>>, <<"own">>} :
          LET c == Emit(k, <<>>, t, FALSE)
          IN  c \in Call /\ c.kind = k /\ c.of = 0
  <2>1. ASSUME NEW k \in CallKinds, NEW t \in Text
        PROVE  Emit(k, <<>>, t, FALSE) \in Call
    BY <1>0, <1>1, EmitIsCall
  <2>2. ASSUME NEW k \in {"header", "footer", "block", "subsection", "throw"},
               NEW t \in {<<>>, <<"own">>}
        PROVE  LET c == Emit(k, <<>>, t, FALSE)
               IN  c \in Call /\ c.kind = k /\ c.of = 0
    <3>1. k \in CallKinds /\ t \in Text
      BY <1>0, <1>1
    <3>2. Emit(k, <<>>, t, FALSE).kind = k /\ Emit(k, <<>>, t, FALSE).of = 0
      BY DEF Emit
    <3>3. QED
      BY <2>1, <3>1, <3>2
  <2>3. QED
    BY <2>2
<1>10. QED
  BY <1>4, <1>5, <1>6, <1>7, <1>8, <1>9

\* The call that is stored for an entry keeps the entry.
LEMMA CallOfEntry ==
    ASSUME NEW entries \in Seq(Entry), NEW n \in DOMAIN entries
    PROVE  CallOf(entries, n) \in Inner /\ CallOf(entries, n).of = n
<1> DEFINE e == entries[n]
<1>1. e \in Entry /\ n \in Nat
  OBVIOUS
<1>2. /\ prep_id_for_help(e, <<",", Blank>>) \in Text
      /\ option_type_and_list_info(e) \in Text
      /\ Info(e) \in Text
      /\ <<Blank>> \in Text
      /\ InFont(Bold, <<"ARGUMENT-n">>) \in Text
  <2> HIDE DEF e
  <2>1. QED
    BY <1>1, OwnUnits, UnitsAreTexts, IdentifiersAreText, TypeInfoIsText, InfoIsText,
       InFontIsText DEF Fonts
<1>3. /\ prep_id_for_help(e, <<",", Blank>>) \o <<Blank>> \o option_type_and_list_info(e) \in Text
      /\ InFont(Bold, <<"ARGUMENT-n">>) \o <<Blank>> \o option_type_and_list_info(e) \in Text
  <2> HIDE DEF e
  <2>1. QED
    BY <1>2, TextsConcatenate
<1>4. {e.key, e.text} \subseteq Text /\ e.paragraph \in BOOLEAN /\ e.kind \in Kinds
  BY <1>1, EntryFields
<1>5. ASSUME NEW kind \in {"section", "subsection", "line", "item"}, NEW key \in Text,
             NEW text \in Text, NEW paragraph \in BOOLEAN
      PROVE  /\ [Emit(kind, key, text, paragraph) EXCEPT !.of = n] \in Inner
             /\ [Emit(kind, key, text, paragraph) EXCEPT !.of = n].of = n
  BY <1>1 DEF Emit, Call, CallKinds, Inner
<1>6. CASE e.kind = "option"
  BY <1>2, <1>3, <1>5, <1>6 DEF CallOf
<1>7. CASE e.kind = "flag"
  BY <1>2, <1>4, <1>5, <1>7 DEF CallOf
<1>8. CASE e.kind = "positional"
  <2> DEFINE key == InFont(Bold, <<"ARGUMENT-n">>) \o <<Blank>> \o option_type_and_list_info(e)
  <2>1. CallOf(entries, n) = [Emit("item", key, Info(e), FALSE) EXCEPT !.of = n]
    <3>1. e.kind # "option" /\ e.kind # "flag"
      BY <1>8
    <3>2. QED
      BY <1>8, <3>1, Zenon DEF CallOf
  <2>2. key \in Text /\ Info(e) \in Text
    BY <1>2, <1>3
  <2> HIDE DEF key, e
  <2>3. QED
    BY <2>1, <2>2, <1>5
<1>9. CASE e.kind \in {"section", "subsection", "line", "item"}
  <2>1. CallOf(entries, n) = [Emit(e.kind, e.key, e.text, e.paragraph) EXCEPT !.of = n]
    <3>1. e.kind # "option" /\ e.kind # "flag" /\ e.kind # "positional"
      BY <1>9
    <3>2. QED
      BY <3>1, Zenon DEF CallOf
  <2>2. /\ e.key \in Text /\ e.text \in Text /\ e.paragraph \in BOOLEAN
        /\ e.kind \in {"section", "subsection", "line", "item"}
    BY <1>4, <1>9
  <2> HIDE DEF e
  <2>3. QED
    BY <2>1, <2>2, <1>5
<1>10. QED
  BY <1>4, <1>6, <1>7, <1>8, <1>9 DEF Kinds
----------------------------------------------------------------------------
(***************************************************************************)
(* The parts of a page.  Owners are the entries the calls of a part were   *)
(* stored for.                                                             *)
(***************************************************************************)
Part == Seq(Inner)

StartsSection(x) == x = <<>> \/ x[1].kind = "section"

EndsWithLine(x) == x # <<>> /\ x[Len(x)].kind = "line"

Owners(x) == {x[k].of : k \in DOMAIN x} \ {0}

Opening(x) ==
    /\ x \in Seq(Call)
    /\ Len(x) > 0
    /\ x[1].kind = "header"
    /\ \A k \in 2..Len(x) : x[k] \in Inner

\* A function on an initial segment of the naturals is a part.
LEMMA FunctionIsPart ==
    ASSUME NEW n \in Nat, NEW f \in [1..n -> Inner]
    PROVE  f \in Part /\ Len(f) = n /\ DOMAIN f = 1..n
BY DEF Part

\* A function on the positions of a sequence is a part as long as it.
LEMMA ImageIsPart ==
    ASSUME NEW S, NEW s \in Seq(S), NEW f \in [DOMAIN s -> Inner]
    PROVE  f \in Part /\ Len(f) = Len(s) /\ DOMAIN f = DOMAIN s
<1>1. DOMAIN s = 1..Len(s) /\ Len(s) \in Nat
  OBVIOUS
<1>2. QED
  BY <1>1, FunctionIsPart

\* Small parts.
LEMMA SmallParts ==
    /\ <<>> \in Part /\ Owners(<<>>) = {}
    /\ \A c \in Inner :
          <<c>> \in Part /\ Len(<<c>>) = 1 /\ <<c>>[1] = c /\ (c.of = 0 => Owners(<<c>>) = {})
<1>1. <<>> \in Part /\ Owners(<<>>) = {}
  BY DEF Part, Owners
<1>2. ASSUME NEW c \in Inner
      PROVE  <<c>> \in Part /\ Len(<<c>>) = 1 /\ <<c>>[1] = c /\ (c.of = 0 => Owners(<<c>>) = {})
  BY DEF Part, Owners
<1>3. QED
  BY <1>1, <1>2

\* The positions of a concatenation.
LEMMA CallsFollow ==
    ASSUME NEW x \in Seq(Call), NEW y \in Seq(Call)
    PROVE  /\ x \o y \in Seq(Call)
           /\ Len(x \o y) = Len(x) + Len(y)
           /\ Len(x) \in Nat /\ Len(y) \in Nat
           /\ \A k \in 1..Len(x) : (x \o y)[k] = x[k]
           /\ \A k \in 1..Len(y) : (x \o y)[Len(x) + k] = y[k]
OBVIOUS

\* The concatenation of two sequences of calls.
LEMMA CallsConcatenate ==
    ASSUME NEW x \in Seq(Call), NEW y \in Seq(Call)
    PROVE  /\ x \o y \in Seq(Call)
           /\ Len(x \o y) = Len(x) + Len(y)
           /\ Owners(x \o y) = Owners(x) \cup Owners(y)
           /\ EndsWithLine(y) => EndsWithLine(x \o y)
           /\ y = <<>> => x \o y = x
<1>1. /\ x \o y \in Seq(Call)
      /\ Len(x \o y) = Len(x) + Len(y)
      /\ Len(x) \in Nat /\ Len(y) \in Nat
      /\ \A k \in 1..Len(x) : (x \o y)[k] = x[k]
      /\ \A k \in 1..Len(y) : (x \o y)[Len(x) + k] = y[k]
  BY CallsFollow
<1>2. \A k \in 1..Len(x \o y) :
         (k \in 1..Len(x) /\ (x \o y)[k] = x[k])
         \/ \E j \in 1..Len(y) : k = Len(x) + j /\ (x \o y)[k] = y[j]
  <2> SUFFICES ASSUME NEW k \in 1..Len(x \o y), ~(k \in 1..Len(x))
               PROVE  \E j \in 1..Len(y) : k = Len(x) + j /\ (x \o y)[k] = y[j]
    BY <1>1
  <2>1. k - Len(x) \in 1..Len(y) /\ k = Len(x) + (k - Len(x))
    BY <1>1
  <2>2. QED
    BY <1>1, <2>1
<1>3. Owners(x \o y) \subseteq Owners(x) \cup Owners(y)
  BY <1>1, <1>2 DEF Owners
<1>4. Owners(x) \subseteq Owners(x \o y)
  BY <1>1 DEF Owners
<1>5. Owners(y) \subseteq Owners(x \o y)
  <2>1. ASSUME NEW k \in 1..Len(y)
        PROVE  Len(x) + k \in 1..Len(x \o y) /\ (x \o y)[Len(x) + k] = y[k]
    BY <1>1
  <2>2. ASSUME NEW k \in DOMAIN y
        PROVE  \E j \in DOMAIN (x \o y) : (x \o y)[j].of = y[k].of
    <3>1. k \in 1..Len(y)
      OBVIOUS
    <3>2. Len(x) + k \in DOMAIN (x \o y)
      BY <1>1, <2>1, <3>1
    <3>3. QED
      BY <2>1, <3>1, <3>2
  <2>3. QED
    BY <2>2 DEF Owners
<1>6. ASSUME EndsWithLine(y)
      PROVE  EndsWithLine(x \o y)
  <2>1. Len(y) \in 1..Len(y) /\ y[Len(y)].kind = "line"
    BY <1>1, <1>6 DEF EndsWithLine
  <2>2. (x \o y)[Len(x) + Len(y)] = y[Len(y)] /\ Len(x \o y) # 0
    BY <1>1, <2>1
  <2>3. QED
    BY <1>1, <2>1, <2>2 DEF EndsWithLine
<1>7. y = <<>> => x \o y = x
  OBVIOUS
<1>8. QED
  BY <1>1, <1>3, <1>4, <1>5, <1>6, <1>7

\* The concatenation of two parts.
LEMMA PartsConcatenate ==
    ASSUME NEW x \in Part, NEW y \in Part
    PROVE  /\ x \o y \in Part
           /\ Len(x \o y) = Len(x) + Len(y)
           /\ Owners(x \o y) = Owners(x) \cup Owners(y)
           /\ EndsWithLine(y) => EndsWithLine(x \o y)
           /\ x # <<>> => (x \o y)[1] = x[1] /\ x \o y # <<>>
<1>1. Inner \subseteq Call
  BY DEF Inner
<1>2. x \in Seq(Call) /\ y \in Seq(Call)
  BY <1>1 DEF Part
<1>3. x \o y \in Part
  BY DEF Part
<1>4. x # <<>> => (x \o y)[1] = x[1] /\ x \o y # <<>>
  BY <1>2
<1>5. QED
  BY <1>2, <1>3, <1>4, CallsConcatenate

\* A page grows by parts behind its header.
LEMMA OpeningGrows ==
    ASSUME NEW x, Opening(x), NEW y \in Part
    PROVE  /\ Opening(x \o y)
           /\ Len(x \o y) = Len(x) + Len(y)
           /\ Owners(x \o y) = Owners(x) \cup Owners(y)
           /\ EndsWithLine(y) => EndsWithLine(x \o y)
           /\ y = <<>> => x \o y = x
           /\ Len(x) > 1 => (x \o y)[2] = x[2]
           /\ Len(x) = 1 /\ y # <<>> => (x \o y)[2] = y[1]
<1>1. x \in Seq(Call) /\ y \in Seq(Call)
  BY DEF Part, Inner, Opening
<1>2. /\ \A k \in 1..Len(x) : (x \o y)[k] = x[k]
      /\ \A k \in 1..Len(y) : (x \o y)[Len(x) + k] = y[k]
      /\ Len(x) \in Nat /\ Len(y) \in Nat
      /\ x \o y \in Seq(Call) /\ Len(x \o y) = Len(x) + Len(y)
  BY <1>1
<1>3. \A k \in 2..Len(x \o y) : (x \o y)[k] \in Inner
  <2> SUFFICES ASSUME NEW k \in 2..Len(x \o y)
               PROVE  (x \o y)[k] \in Inner
    OBVIOUS
  <2>1. CASE k \in 1..Len(x)
    BY <1>2, <2>1 DEF Opening
  <2>2. CASE k \notin 1..Len(x)
    <3>1. k - Len(x) \in 1..Len(y) /\ k = Len(x) + (k - Len(x))
      BY <1>2, <2>2
    <3>2. (x \o y)[k] = y[k - Len(x)]
      BY <1>2, <3>1
    <3>3. y[k - Len(x)] \in Inner
      BY <3>1 DEF Part
    <3>4. QED
      BY <3>2, <3>3
  <2>3. QED
    BY <2>1, <2>2
<1>4. Opening(x \o y)
  BY <1>2, <1>3 DEF Opening
<1>5. Len(x) > 1 => (x \o y)[2] = x[2]
  BY <1>2
<1>6. Len(x) = 1 /\ y # <<>> => (x \o y)[2] = y[1]
  <2> SUFFICES ASSUME Len(x) = 1, y # <<>>
               PROVE  (x \o y)[2] = y[1]
    OBVIOUS
  <2>1. 1 \in 1..Len(y) /\ Len(x) + 1 = 2
    BY <1>1, <1>2
  <2>2. QED
    BY <1>2, <2>1
<1>7. QED
  BY <1>1, <1>4, <1>5, <1>6, CallsConcatenate

----------------------------------------------------------------------------
(***************************************************************************)
(* Parts that stand for no entry.                                          *)
(***************************************************************************)
OwnPart == {x \in Part : Owners(x) = {}}

\* Own parts concatenate.
LEMMA OwnPartsConcatenate ==
    ASSUME NEW x \in OwnPart, NEW y \in OwnPart
    PROVE  /\ x \o y \in OwnPart
           /\ EndsWithLine(y) => EndsWithLine(x \o y)
           /\ x # <<>> => (x \o y)[1] = x[1] /\ x \o y # <<>>
BY PartsConcatenate DEF OwnPart

\* Calls that stand for no entry make an own part.
LEMMA OwnCallsAreOwnPart ==
    ASSUME NEW x \in Part, \A k \in DOMAIN x : x[k].of = 0
    PROVE  x \in OwnPart
BY DEF OwnPart, Owners

LEMMA SingleOwnCall ==
    ASSUME NEW c \in Inner, c.of = 0
    PROVE  /\ <<c>> \in OwnPart /\ <<c>> # <<>> /\ <<c>>[1] = c
           /\ c.kind = "line" => EndsWithLine(<<c>>)
<1>1. <<c>> \in Part /\ Len(<<c>>) = 1 /\ <<c>>[1] = c /\ Owners(<<c>>) = {}
  BY SmallParts
<1>2. <<c>> # <<>>
  OBVIOUS
<1>3. QED
  BY <1>1, <1>2 DEF OwnPart, EndsWithLine

\* <<>> is an own part.
LEMMA NothingIsOwnPart == <<>> \in OwnPart
BY SmallParts DEF OwnPart

LEMMA LinesAreOwnPart ==
    ASSUME NEW texts \in Seq(Text)
    PROVE  Lines(texts) \in OwnPart
<1>1. \A k \in DOMAIN texts : texts[k] \in Text
  OBVIOUS
<1>2. \A k \in DOMAIN texts : Line(texts[k], TRUE) \in Inner /\ Line(texts[k], TRUE).of = 0
  BY <1>1, OwnCalls
<1>3. Lines(texts) \in [DOMAIN texts -> Inner]
  BY <1>2 DEF Lines
<1>4. Lines(texts) \in Part /\ DOMAIN Lines(texts) = DOMAIN texts
  BY <1>3, ImageIsPart
<1>5. \A k \in DOMAIN texts : Lines(texts)[k].of = 0
  BY <1>2 DEF Lines
<1>6. QED
  BY <1>4, <1>5, OwnCallsAreOwnPart

LEMMA SynopsisIsOwnPart ==
    ASSUME NEW synopsis \in Seq(Text)
    PROVE  print_synopsis(synopsis) \in OwnPart
<1> DEFINE call(k) == IF FirstBlank(synopsis[k]) = {} THEN Emit("throw", <<>>, <<>>, FALSE)
                      ELSE Line(InBoldUpToBlank(synopsis[k]), FALSE)
           calls == [k \in DOMAIN synopsis |-> call(k)]
<1>1. ASSUME NEW k \in DOMAIN synopsis
      PROVE  call(k) \in Inner /\ call(k).of = 0
  <2>1. synopsis[k] \in Text
    OBVIOUS
  <2>2. CASE FirstBlank(synopsis[k]) = {}
    <3>1. /\ Emit("throw", <<>>, <<>>, FALSE) \in Call
          /\ Emit("throw", <<>>, <<>>, FALSE).kind = "throw"
          /\ Emit("throw", <<>>, <<>>, FALSE).of = 0
      BY OwnCalls
    <3>2. QED
      BY <2>2, <3>1 DEF Inner
  <2>3. CASE FirstBlank(synopsis[k]) # {}
    <3>1. InBoldUpToBlank(synopsis[k]) \in Text
      BY <2>1, <2>3, BoldWordIsText
    <3>2. Line(InBoldUpToBlank(synopsis[k]), FALSE) \in Inner
          /\ Line(InBoldUpToBlank(synopsis[k]), FALSE).of = 0
      BY <3>1, OwnCalls
    <3>3. QED
      BY <2>3, <3>2
  <2>4. QED
    BY <2>2, <2>3
<1>2. calls \in [DOMAIN synopsis -> Inner] /\ \A k \in DOMAIN synopsis : calls[k].of = 0
  <2> HIDE DEF call
  <2>1. QED
    BY <1>1
<1>3. calls \in OwnPart
  <2> HIDE DEF calls
  <2>1. QED
    BY <1>2, ImageIsPart, OwnCallsAreOwnPart
<1>4. print_synopsis(synopsis) = <<>> \/ print_synopsis(synopsis) = calls
  BY Zenon DEF print_synopsis
<1>5. QED
  BY <1>3, <1>4, NothingIsOwnPart

\* A part below a title.
LEMMA UnderTitle ==
    ASSUME NEW title \in Inner, title.of = 0, NEW x \in Part
    PROVE  /\ Under(title, x) \in Part
           /\ Owners(Under(title, x)) = Owners(x)
           /\ title.kind = "section" => StartsSection(Under(title, x))
           /\ x = <<>> => Under(title, x) = <<>>
<1>1. CASE x = <<>>
  BY <1>1 DEF Under, StartsSection
<1>2. CASE x # <<>>
  <2>1. /\ <<title>> \in Part /\ <<title>> # <<>> /\ <<title>>[1] = title
        /\ Owners(<<title>>) = {}
    BY SmallParts
  <2>2. /\ <<title>> \o x \in Part
        /\ Owners(<<title>> \o x) = Owners(x)
        /\ (<<title>> \o x)[1] = title
    <3> DEFINE head == <<title>>
    <3> HIDE DEF head
    <3>1. head \in Part /\ head # <<>> /\ head[1] = title /\ Owners(head) = {}
      BY <2>1 DEF head
    <3>2. /\ head \o x \in Part
          /\ Owners(head \o x) = Owners(head) \cup Owners(x)
          /\ (head \o x)[1] = head[1]
      BY <3>1, PartsConcatenate
    <3>3. Owners(head) \cup Owners(x) = Owners(x)
      BY <3>1
    <3>4. QED
      BY <3>1, <3>2, <3>3 DEF head
  <2>3. Under(title, x) = <<title>> \o x
    BY <1>2 DEF Under
  <2>4. QED
    BY <1>2, <2>2, <2>3 DEF StartsSection
<1>3. QED
  BY <1>1, <1>2

LEMMA UnderOwnSection ==
    ASSUME NEW x \in Part
    PROVE  /\ Under(OwnSection, x) \in Part
           /\ Owners(Under(OwnSection, x)) = Owners(x)
           /\ StartsSection(Under(OwnSection, x))
BY OwnCalls, UnderTitle

LEMMA SubcommandsAreOwnPart ==
    ASSUME NEW p \in Program
    PROVE  Subcommands(p) \in OwnPart /\ StartsSection(Subcommands(p))
<1> DEFINE call(k) == Line(<<"-", Blank>> \o InFont(Bold, <<p.subcommands[k]>>), FALSE)
           calls == [k \in DOMAIN p.subcommands |-> call(k)]
           head == <<OwnSection, OwnLine(FALSE)>>
           tail == <<OwnLine(TRUE), OwnLine(TRUE)>>
<1>1. p.subcommands \in Seq(Run)
  BY DEF Program
<1>2. ASSUME NEW k \in DOMAIN p.subcommands
      PROVE  call(k) \in Inner /\ call(k).of = 0
  <2>1. <<p.subcommands[k]>> \in Text
    <3>1. p.subcommands[k] \in Run
      BY <1>1
    <3>2. p.subcommands[k] \in Unit
      BY <3>1, OwnUnits
    <3>3. QED
      BY <3>2, UnitsAreTexts
  <2>2. <<"-", Blank>> \o InFont(Bold, <<p.subcommands[k]>>) \in Text
    BY <2>1, OwnUnits, UnitsAreTexts, InFontIsText, TextsConcatenate DEF Fonts
  <2>3. QED
    BY <2>2, OwnCalls
<1>3. calls \in [DOMAIN p.subcommands -> Inner]
      /\ \A k \in DOMAIN p.subcommands : calls[k].of = 0
  <2> HIDE DEF call
  <2>1. QED
    BY <1>2
<1>4. calls \in OwnPart
  <2> HIDE DEF calls
  <2>1. QED
    BY <1>1, <1>3, ImageIsPart, OwnCallsAreOwnPart
<1>5. /\ OwnSection \in Inner /\ OwnSection.of = 0 /\ OwnSection.kind = "section"
      /\ OwnLine(FALSE) \in Inner /\ OwnLine(FALSE).of = 0
      /\ OwnLine(TRUE) \in Inner /\ OwnLine(TRUE).of = 0
  BY OwnCalls
<1>6. head \in OwnPart /\ tail \in OwnPart /\ head[1] = OwnSection /\ head # <<>>
  <2>1. ASSUME NEW c \in Inner, NEW d \in Inner, c.of = 0, d.of = 0
        PROVE  <<c, d>> \in OwnPart
    BY <2>1 DEF OwnPart, Part, Owners
  <2>2. QED
    BY <1>5, <2>1
<1>7. /\ head \o calls \o tail \in OwnPart
      /\ (head \o calls \o tail)[1] = OwnSection
  <2> HIDE DEF head, calls, tail
  <2>1. head \o calls \in OwnPart /\ (head \o calls)[1] = OwnSection /\ head \o calls # <<>>
    BY <1>4, <1>6, OwnPartsConcatenate
  <2>2. QED
    BY <1>6, <2>1, OwnPartsConcatenate
<1>8. Subcommands(p) = <<>> \/ Subcommands(p) = head \o calls \o tail
  BY Zenon DEF Subcommands
<1>9. QED
  <2> HIDE DEF head, calls, tail
  <2>1. QED
    BY <1>5, <1>7, <1>8, NothingIsOwnPart DEF StartsSection

LEMMA CommonOptionsAreOwnPart ==
    ASSUME NEW p
    PROVE  CommonOptions(p) \in OwnPart
<1> DEFINE n == 5 + IF p.version_updates THEN 1 ELSE 0
           items == [k \in 1..n |-> OwnItem]
           title == Emit("subsection", <<>>, <<"own">>, FALSE)
<1>1. n \in Nat
  OBVIOUS
<1>2. items \in [1..n -> Inner] /\ \A k \in 1..n : items[k].of = 0
  BY OwnCalls
<1>3. items \in OwnPart
  <2> HIDE DEF n, items
  <2>1. QED
    BY <1>1, <1>2, FunctionIsPart, OwnCallsAreOwnPart
<1>4. title \in Inner /\ title.of = 0
  <2>1. title \in Call /\ title.kind = "subsection" /\ title.of = 0
    BY OwnCalls
  <2> HIDE DEF title
  <2>2. QED
    BY <2>1 DEF Inner
<1>5. <<title>> \o items \in OwnPart
  <2> HIDE DEF title, items
  <2>1. QED
    BY <1>3, <1>4, SingleOwnCall, OwnPartsConcatenate
<1>6. QED
  BY <1>5 DEF CommonOptions

LEMMA VersionIsOwnPart ==
    ASSUME NEW p
    PROVE  print_version(p) \in OwnPart /\ EndsWithLine(print_version(p))
<1>1. /\ OwnSection \in Inner /\ OwnSection.of = 0
      /\ OwnLine(FALSE) \in Inner /\ OwnLine(FALSE).of = 0 /\ OwnLine(FALSE).kind = "line"
  BY OwnCalls
<1>2. ASSUME NEW c \in Inner, NEW d \in Inner, c.of = 0, d.of = 0, d.kind = "line"
      PROVE  /\ <<c, d, d, d>> \in OwnPart /\ EndsWithLine(<<c, d, d, d>>)
             /\ <<c, d>> \in OwnPart /\ EndsWithLine(<<c, d>>)
  BY <1>2 DEF OwnPart, Part, Owners, EndsWithLine
<1> DEFINE first == <<OwnSection, OwnLine(FALSE), OwnLine(FALSE), OwnLine(FALSE)>>
           second == <<OwnSection, OwnLine(FALSE)>>
<1>3. first \in OwnPart /\ second \in OwnPart /\ EndsWithLine(first) /\ EndsWithLine(second)
  BY <1>1, <1>2
<1>4. print_version(p) = first \o second \/ print_version(p) = first \o <<>>
  BY Zenon DEF print_version, Optional
<1>5. first \o <<>> = first
  OBVIOUS
<1>6. QED
  <2> HIDE DEF first, second
  <2>1. QED
    BY <1>3, <1>4, <1>5, OwnPartsConcatenate

LEMMA OptionalLine ==
    ASSUME NEW c \in Inner, c.of = 0, c.kind = "line", NEW condition \in BOOLEAN
    PROVE  /\ Optional(condition, <<c>>) \in OwnPart
           /\ condition => EndsWithLine(Optional(condition, <<c>>))
           /\ ~condition => Optional(condition, <<c>>) = <<>>
BY SingleOwnCall, NothingIsOwnPart DEF Optional

\* print_legal ends with a line unless the citations are the last thing.
LEMMA LegalIsOwnPart ==
    ASSUME NEW p \in Program
    PROVE  /\ print_legal(p) \in OwnPart
           /\ p.meta.citation = <<>> \/ p.meta.long_copyright =>
                 print_legal(p) = <<>> \/ EndsWithLine(print_legal(p))
<1> DEFINE m == p.meta
           call(k) == Emit("item", InFont(Bold, <<"[n]">>), m.citation[k], FALSE)
           citations == [k \in DOMAIN m.citation |-> call(k)]
           some == m.short_copyright \/ m.long_copyright \/ m.citation # <<>>
                   \/ m.author \/ m.email
           below == Under(OwnLine(FALSE), citations)
           long == Optional(m.long_copyright, <<OwnLine(FALSE)>>)
           short == Optional(m.short_copyright, <<OwnLine(FALSE)>>)
           author == Optional(m.author, <<OwnLine(FALSE)>>)
           email == Optional(m.email, <<OwnLine(FALSE)>>)
           line == <<OwnLine(FALSE)>>
           title == <<OwnSection>>
           body == title \o short \o author \o email \o line \o below \o long
<1>1. /\ m.citation \in Seq(Text)
      /\ m.short_copyright \in BOOLEAN /\ m.long_copyright \in BOOLEAN
      /\ m.author \in BOOLEAN /\ m.email \in BOOLEAN
  BY DEF Program, Meta
<1>2. /\ OwnSection \in Inner /\ OwnSection.of = 0
      /\ OwnLine(FALSE) \in Inner /\ OwnLine(FALSE).of = 0 /\ OwnLine(FALSE).kind = "line"
  BY OwnCalls
<1>3. citations \in OwnPart /\ (m.citation = <<>> => citations = <<>>)
  <2>1. ASSUME NEW k \in DOMAIN m.citation
        PROVE  call(k) \in Inner /\ call(k).of = 0
    <3>1. m.citation[k] \in Text
      BY <1>1
    <3>2. QED
      BY <3>1, OwnCalls
  <2>2. citations \in [DOMAIN m.citation -> Inner] /\ \A k \in DOMAIN m.citation : citations[k].of = 0
    <3> HIDE DEF call
    <3>1. QED
      BY <2>1
  <2>3. citations \in Part /\ DOMAIN citations = DOMAIN m.citation /\ Len(citations) = Len(m.citation)
    <3> HIDE DEF citations, m
    <3>1. QED
      BY <1>1, <2>2, ImageIsPart
  <2>4. citations \in OwnPart
    <3> HIDE DEF citations
    <3>1. QED
      BY <2>2, <2>3, OwnCallsAreOwnPart
  <2>5. m.citation = <<>> => citations = <<>>
    OBVIOUS
  <2>6. QED
    BY <2>4, <2>5
<1>4. below \in OwnPart /\ (m.citation = <<>> => below = <<>>)
  <2> HIDE DEF citations
  <2>1. citations \in Part /\ Owners(citations) = {}
    BY <1>3 DEF OwnPart
  <2>2. below \in Part /\ Owners(below) = Owners(citations) /\ (citations = <<>> => below = <<>>)
    BY <1>2, <2>1, UnderTitle
  <2>3. QED
    BY <1>3, <2>1, <2>2 DEF OwnPart
<1>5. /\ short \in OwnPart /\ author \in OwnPart /\ email \in OwnPart /\ long \in OwnPart
      /\ m.long_copyright => EndsWithLine(long)
      /\ ~m.long_copyright => long = <<>>
  BY <1>1, <1>2, OptionalLine
<1>6. title \in OwnPart /\ line \in OwnPart /\ EndsWithLine(line)
  BY <1>2, SingleOwnCall
<1>7. /\ body \in OwnPart
      /\ m.citation = <<>> \/ m.long_copyright => EndsWithLine(body)
  <2> DEFINE upToLine == title \o short \o author \o email \o line
  <2>1. upToLine \in OwnPart /\ EndsWithLine(upToLine)
    <3> HIDE DEF title, short, author, email, line
    <3>1. QED
      BY <1>5, <1>6, OwnPartsConcatenate
  <2>2. /\ upToLine \o below \in OwnPart
        /\ m.citation = <<>> => EndsWithLine(upToLine \o below)
    <3>1. upToLine \o <<>> = upToLine
      <4> HIDE DEF upToLine
      <4>1. QED
        BY <2>1 DEF OwnPart, Part
    <3> HIDE DEF upToLine, below
    <3>2. QED
      BY <1>4, <2>1, <3>1, OwnPartsConcatenate
  <2>3. /\ upToLine \o below \o long \in OwnPart
        /\ m.long_copyright => EndsWithLine(upToLine \o below \o long)
        /\ ~m.long_copyright => upToLine \o below \o long = upToLine \o below
    <3>1. upToLine \o below \o <<>> = upToLine \o below
      <4> HIDE DEF upToLine, below
      <4>1. QED
        BY <2>2 DEF OwnPart, Part
    <3> HIDE DEF upToLine, below, long
    <3>2. QED
      BY <1>5, <2>2, <3>1, OwnPartsConcatenate
  <2>4. QED
    <3> HIDE DEF below, long, m
    <3>1. QED
      BY <2>2, <2>3
<1>8. print_legal(p) = IF some THEN body ELSE <<>>
  BY Zenon DEF print_legal, Optional
<1>9. QED
  <2> HIDE DEF body, some
  <2>1. QED
    BY <1>7, <1>8, NothingIsOwnPart

\* The calls of stored entries.
LEMMA CallsOfEntries ==
    ASSUME NEW entries \in Seq(Entry), NEW v \in Seq(Nat), \A k \in DOMAIN v : v[k] \in DOMAIN entries
    PROVE  /\ CallsOf(entries, v) \in Part
           /\ DOMAIN CallsOf(entries, v) = DOMAIN v
           /\ \A k \in DOMAIN v : CallsOf(entries, v)[k].of = v[k]
           /\ Owners(CallsOf(entries, v)) = {v[k] : k \in DOMAIN v}
<1>1. \A k \in DOMAIN v : CallOf(entries, v[k]) \in Inner /\ CallOf(entries, v[k]).of = v[k]
  BY CallOfEntry
<1>2. CallsOf(entries, v) \in [DOMAIN v -> Inner]
  BY <1>1 DEF CallsOf
<1>3. CallsOf(entries, v) \in Part /\ DOMAIN CallsOf(entries, v) = DOMAIN v
  BY <1>2, ImageIsPart
<1>4. \A k \in DOMAIN v : CallsOf(entries, v)[k].of = v[k]
  BY <1>1 DEF CallsOf
<1>5. \A k \in DOMAIN v : v[k] # 0
  OBVIOUS
<1>6. QED
  BY <1>3, <1>4, <1>5 DEF Owners

----------------------------------------------------------------------------
(***************************************************************************)
(* The order of the entries of a page: positional options first, then      *)
(* everything else, each in the order of the calls that added it.          *)
(***************************************************************************)
Before(p, m, n) ==
    LET first  == p.entries[m].kind = "positional"
        second == p.entries[n].kind = "positional"
    IN  IF first = second THEN m < n ELSE first

InOrder(p, x) ==
    \A j, k \in DOMAIN x :
        j < k /\ x[j].of # 0 /\ x[k].of # 0 => Before(p, x[j].of, x[k].of)

Increasing(v) == \A j, k \in DOMAIN v : j < k => v[j] < v[k]

\* Two sequences of calls in order, the entries of one before the other's.
LEMMA OrdersConcatenate ==
    ASSUME NEW p, NEW x \in Seq(Call), NEW y \in Seq(Call), InOrder(p, x), InOrder(p, y),
           \A m \in Owners(x), n \in Owners(y) : Before(p, m, n)
    PROVE  InOrder(p, x \o y)
<1> SUFFICES ASSUME NEW j \in DOMAIN (x \o y), NEW k \in DOMAIN (x \o y), j < k,
                    (x \o y)[j].of # 0, (x \o y)[k].of # 0
             PROVE  Before(p, (x \o y)[j].of, (x \o y)[k].of)
  BY DEF InOrder
<1>1. /\ Len(x) \in Nat /\ Len(y) \in Nat /\ Len(x \o y) = Len(x) + Len(y)
      /\ DOMAIN x = 1..Len(x) /\ DOMAIN y = 1..Len(y) /\ DOMAIN (x \o y) = 1..Len(x \o y)
      /\ \A i \in 1..Len(x) : (x \o y)[i] = x[i]
      /\ \A i \in 1..Len(y) : (x \o y)[Len(x) + i] = y[i]
  OBVIOUS
<1>2. ASSUME NEW i \in DOMAIN (x \o y), i \notin 1..Len(x)
      PROVE  i - Len(x) \in 1..Len(y) /\ (x \o y)[i] = y[i - Len(x)]
  <2>1. i - Len(x) \in 1..Len(y) /\ i = Len(x) + (i - Len(x))
    BY <1>1, <1>2
  <2>2. QED
    BY <1>1, <2>1
<1>3. CASE j \in 1..Len(x) /\ k \in 1..Len(x)
  BY <1>1, <1>3 DEF InOrder
<1>4. CASE j \in 1..Len(x) /\ k \notin 1..Len(x)
  <2>1. (x \o y)[j] = x[j] /\ (x \o y)[k] = y[k - Len(x)] /\ k - Len(x) \in DOMAIN y
    BY <1>1, <1>2, <1>4
  <2>2. x[j].of \in Owners(x) /\ y[k - Len(x)].of \in Owners(y)
    BY <1>1, <1>4, <2>1 DEF Owners
  <2>3. QED
    BY <2>1, <2>2
<1>5. CASE j \notin 1..Len(x)
  <2>1. k \notin 1..Len(x)
    BY <1>1, <1>5
  <2>2. /\ j - Len(x) \in DOMAIN y /\ k - Len(x) \in DOMAIN y /\ j - Len(x) < k - Len(x)
        /\ (x \o y)[j] = y[j - Len(x)] /\ (x \o y)[k] = y[k - Len(x)]
    BY <1>1, <1>2, <1>5, <2>1
  <2>3. QED
    BY <2>2 DEF InOrder
<1>6. QED
  BY <1>3, <1>4, <1>5

\* A page to which parts have been added in order.
LEMMA PageGrowsByOwnPart ==
    ASSUME NEW p, NEW x, Opening(x), InOrder(p, x), NEW y \in OwnPart
    PROVE  /\ Opening(x \o y) /\ InOrder(p, x \o y)
           /\ Owners(x \o y) = Owners(x)
           /\ Len(x \o y) = Len(x) + Len(y)
           /\ EndsWithLine(y) => EndsWithLine(x \o y)
           /\ y = <<>> => x \o y = x
           /\ Len(x) > 1 => (x \o y)[2] = x[2]
           /\ Len(x) = 1 /\ y # <<>> => (x \o y)[2] = y[1]
<1>1. y \in Part /\ Owners(y) = {}
  BY DEF OwnPart
<1>2. x \in Seq(Call) /\ y \in Seq(Call)
  BY <1>1 DEF Opening, Part, Inner
<1>3. InOrder(p, y)
  BY <1>1 DEF InOrder, Owners
<1>4. \A m \in Owners(x), n \in Owners(y) : Before(p, m, n)
  BY <1>1
<1>5. InOrder(p, x \o y)
  BY <1>2, <1>3, <1>4, OrdersConcatenate
<1>6. Owners(x) \cup Owners(y) = Owners(x)
  BY <1>1
<1>7. QED
  BY <1>1, <1>5, <1>6, OpeningGrows

\* The stored entries of one kind are listed in their order.
LEMMA CallsInOrder ==
    ASSUME NEW p \in Program, NEW v \in Seq(Nat), \A k \in DOMAIN v : v[k] \in DOMAIN p.entries,
           Increasing(v),
           \A k, j \in DOMAIN v : (p.entries[v[k]].kind = "positional")
                                     = (p.entries[v[j]].kind = "positional")
    PROVE  InOrder(p, CallsOf(p.entries, v))
<1>1. p.entries \in Seq(Entry)
  BY DEF Program
<1>2. /\ DOMAIN CallsOf(p.entries, v) = DOMAIN v
      /\ \A k \in DOMAIN v : CallsOf(p.entries, v)[k].of = v[k]
  BY <1>1, CallsOfEntries
<1>3. QED
  BY <1>2 DEF InOrder, Before, Increasing

LEMMA SectionInOrder ==
    ASSUME NEW p, NEW x \in Part, InOrder(p, x)
    PROVE  InOrder(p, Under(OwnSection, x))
<1> DEFINE title == <<OwnSection>>
<1>1. title \in Seq(Call) /\ InOrder(p, title) /\ Owners(title) = {}
  <2>1. OwnSection \in Inner /\ OwnSection.of = 0
    BY OwnCalls
  <2>2. title \in Part /\ Owners(title) = {}
    BY <2>1, SmallParts
  <2>3. InOrder(p, title)
    BY <2>1 DEF InOrder
  <2>4. QED
    BY <2>2, <2>3 DEF Part, Inner
<1>2. x \in Seq(Call)
  BY DEF Part, Inner
<1>3. \A m \in Owners(title), n \in Owners(x) : Before(p, m, n)
  BY <1>1
<1>4. InOrder(p, title \o x)
  <2> HIDE DEF title
  <2>1. QED
    BY <1>1, <1>2, <1>3, OrdersConcatenate
<1>5. QED
  BY <1>4 DEF Under, InOrder

LEMMA SingleCall ==
    ASSUME NEW c \in Call
    PROVE  <<c>> \in Seq(Call) /\ Len(<<c>>) = 1 /\ <<c>>[1] = c
OBVIOUS

\* A sequence of calls with one more call at its end.
LEMMA LastCall ==
    ASSUME NEW x \in Seq(Call), NEW y \in Seq(Call), Len(y) = 1
    PROVE  /\ x \o y \in Seq(Call)
           /\ Len(x \o y) = Len(x) + 1
           /\ Len(x) \in Nat
           /\ \A k \in 1..Len(x) : (x \o y)[k] = x[k]
           /\ (x \o y)[Len(x) + 1] = y[1]
<1>1. /\ x \o y \in Seq(Call) /\ Len(x \o y) = Len(x) + Len(y) /\ Len(x) \in Nat
      /\ \A k \in 1..Len(x) : (x \o y)[k] = x[k]
      /\ \A k \in 1..Len(y) : (x \o y)[Len(x) + k] = y[k]
  BY CallsFollow
<1>2. 1 \in 1..Len(y)
  OBVIOUS
<1>3. QED
  BY <1>1, <1>2

\* What the page of a program is made of.
PageShape(p, st, page) ==
    /\ page \in Seq(Call)
    /\ Len(page) > 2
    /\ page[1].kind = "header" /\ page[2].kind = "section"
    /\ \A k \in 2..(Len(page) - 1) : page[k] \in Inner
    /\ page[Len(page)].kind = "footer"
    /\ p.meta.citation = <<>> \/ p.meta.long_copyright => page[Len(page) - 1].kind = "line"
    /\ Owners(page) = {st.positional[k] : k \in DOMAIN st.positional}
                      \cup {st.set_up[k] : k \in DOMAIN st.set_up}
    /\ InOrder(p, page)

LEMMA FullPageShape ==
    ASSUME NEW p \in Program, NEW st \in Stored, StoresEntries(p, st),
           Increasing(st.positional), Increasing(st.set_up), NEW synopsis \in Seq(Text)
    PROVE  PageShape(p, st, FullPage(p, st, synopsis))
<1> DEFINE header == <<Emit("header", <<>>, <<>>, FALSE)>>
           footer == <<Emit("footer", <<>>, <<>>, FALSE)>>
           title == <<OwnSection>>
           y1 == Under(OwnSection, print_synopsis(synopsis))
           y2 == Under(OwnSection, Lines(p.meta.description))
           y3 == Subcommands(p)
           y4 == Under(OwnSection, CallsOf(p.entries, st.positional))
           y6 == CallsOf(p.entries, st.set_up)
           y7 == CommonOptions(p)
           y8 == Under(OwnSection, Lines(p.meta.examples))
           y9 == print_version(p)
           y10 == print_legal(p)
           P == {st.positional[k] : k \in DOMAIN st.positional}
           S == {st.set_up[k] : k \in DOMAIN st.set_up}
           Two(x) == Len(x) = 1 \/ (Len(x) > 1 /\ x[2].kind = "section")
           closed == p.meta.citation = <<>> \/ p.meta.long_copyright
<1>1. /\ p.entries \in Seq(Entry)
      /\ p.meta.description \in Seq(Text) /\ p.meta.examples \in Seq(Text)
      /\ st.positional \in Seq(Nat) /\ st.set_up \in Seq(Nat)
  BY DEF Program, Meta, Stored
<1>2. /\ y1 \in OwnPart /\ StartsSection(y1)
      /\ y2 \in OwnPart /\ StartsSection(y2)
      /\ y3 \in OwnPart /\ StartsSection(y3)
      /\ y7 \in OwnPart /\ y8 \in OwnPart
  <2>1. ASSUME NEW x \in OwnPart
        PROVE  Under(OwnSection, x) \in OwnPart /\ StartsSection(Under(OwnSection, x))
    BY UnderOwnSection DEF OwnPart
  <2>2. print_synopsis(synopsis) \in OwnPart /\ Lines(p.meta.description) \in OwnPart
        /\ Lines(p.meta.examples) \in OwnPart
    BY <1>1, SynopsisIsOwnPart, LinesAreOwnPart
  <2>3. QED
    BY <2>1, <2>2, SubcommandsAreOwnPart, CommonOptionsAreOwnPart
<1>3. /\ title \in OwnPart /\ StartsSection(title) /\ title # <<>>
  <2>1. OwnSection \in Inner /\ OwnSection.of = 0 /\ OwnSection.kind = "section"
    BY OwnCalls
  <2>2. title \in OwnPart /\ title # <<>> /\ title[1] = OwnSection
    BY <2>1, SingleOwnCall
  <2>3. QED
    BY <2>1, <2>2 DEF StartsSection
<1>4. /\ y4 \in Part /\ StartsSection(y4) /\ Owners(y4) = P /\ InOrder(p, y4)
  <2> DEFINE calls == CallsOf(p.entries, st.positional)
  <2>1. calls \in Part /\ Owners(calls) = P
    BY <1>1, CallsOfEntries DEF StoresEntries
  <2>2. InOrder(p, calls)
    BY <1>1, CallsInOrder DEF StoresEntries
  <2>3. y4 = Under(OwnSection, calls)
    OBVIOUS
  <2> HIDE DEF calls, y4
  <2>4. /\ Under(OwnSection, calls) \in Part /\ Owners(Under(OwnSection, calls)) = Owners(calls)
        /\ StartsSection(Under(OwnSection, calls)) /\ InOrder(p, Under(OwnSection, calls))
    BY <2>1, <2>2, SectionInOrder, UnderOwnSection
  <2>5. QED
    BY <2>1, <2>3, <2>4
<1>5. /\ y6 \in Part /\ Owners(y6) = S /\ InOrder(p, y6)
  <2>1. \A k, j \in DOMAIN st.set_up :
           (p.entries[st.set_up[k]].kind = "positional") = (p.entries[st.set_up[j]].kind = "positional")
    BY DEF StoresEntries
  <2>2. \A k \in DOMAIN st.set_up : st.set_up[k] \in DOMAIN p.entries
    BY DEF StoresEntries
  <2>3. InOrder(p, y6)
    BY <1>1, <2>1, <2>2, CallsInOrder
  <2>4. QED
    BY <1>1, <2>2, <2>3, CallsOfEntries
<1>6. \A m \in P, n \in S : Before(p, m, n)
  BY DEF StoresEntries, Before
<1>7. y9 \in OwnPart /\ EndsWithLine(y9)
  BY VersionIsOwnPart
<1>8. y10 \in OwnPart /\ (closed => y10 = <<>> \/ EndsWithLine(y10))
  BY LegalIsOwnPart
<1>9. /\ header \in Seq(Call) /\ Len(header) = 1 /\ header[1].kind = "header"
      /\ header[1].of = 0
      /\ footer \in Seq(Call) /\ Len(footer) = 1 /\ footer[1].kind = "footer"
      /\ footer[1].of = 0
  <2>1. /\ Emit("header", <<>>, <<>>, FALSE) \in Call /\ Emit("header", <<>>, <<>>, FALSE).kind = "header"
        /\ Emit("header", <<>>, <<>>, FALSE).of = 0
        /\ Emit("footer", <<>>, <<>>, FALSE) \in Call /\ Emit("footer", <<>>, <<>>, FALSE).kind = "footer"
        /\ Emit("footer", <<>>, <<>>, FALSE).of = 0
    BY OwnCalls
  <2>2. QED
    BY <2>1, SingleCall
<1>10. Opening(header) /\ InOrder(p, header) /\ Owners(header) = {} /\ Two(header)
  <2> HIDE DEF header
  <2>1. DOMAIN header = {1}
    BY <1>9
  <2>2. QED
    BY <1>9, <2>1 DEF Opening, InOrder, Owners
<1>11. ASSUME NEW x, Opening(x), InOrder(p, x), Two(x), NEW y \in OwnPart, StartsSection(y)
       PROVE  Opening(x \o y) /\ InOrder(p, x \o y) /\ Two(x \o y) /\ Owners(x \o y) = Owners(x)
  <2>1. /\ Opening(x \o y) /\ InOrder(p, x \o y) /\ Owners(x \o y) = Owners(x)
        /\ Len(x \o y) = Len(x) + Len(y)
        /\ y = <<>> => x \o y = x
        /\ Len(x) > 1 => (x \o y)[2] = x[2]
        /\ Len(x) = 1 /\ y # <<>> => (x \o y)[2] = y[1]
    BY <1>11, PageGrowsByOwnPart
  <2>2. Len(x) \in Nat /\ Len(y) \in Nat /\ (y # <<>> => Len(y) > 0)
    BY <1>11 DEF Opening, OwnPart, Part
  <2>3. Two(x \o y)
    <3>1. CASE y = <<>>
      BY <1>11, <2>1, <3>1
    <3>2. CASE y # <<>> /\ Len(x) = 1
      <4>1. (x \o y)[2] = y[1] /\ y[1].kind = "section" /\ Len(x \o y) > 1
        BY <1>11, <2>1, <2>2, <3>2 DEF StartsSection
      <4>2. QED
        BY <4>1
    <3>3. CASE Len(x) > 1
      BY <1>11, <2>1, <2>2, <3>3
    <3>4. QED
      BY <1>11, <3>1, <3>2, <3>3
  <2> HIDE DEF Two
  <2>4. QED
    BY <2>1, <2>3
<1>12. ASSUME NEW x, Opening(x), InOrder(p, x), NEW y \in Part, InOrder(p, y),
              \A m \in Owners(x), n \in Owners(y) : Before(p, m, n)
       PROVE  /\ Opening(x \o y) /\ InOrder(p, x \o y) /\ Owners(x \o y) = Owners(x) \cup Owners(y)
              /\ Two(x) /\ (StartsSection(y) \/ Len(x) > 1) => Two(x \o y)
              /\ Len(x) > 1 => Len(x \o y) > 1
  <2>1. /\ Opening(x \o y) /\ Owners(x \o y) = Owners(x) \cup Owners(y)
        /\ Len(x \o y) = Len(x) + Len(y)
        /\ y = <<>> => x \o y = x
        /\ Len(x) > 1 => (x \o y)[2] = x[2]
        /\ Len(x) = 1 /\ y # <<>> => (x \o y)[2] = y[1]
    BY <1>12, OpeningGrows
  <2>2. x \in Seq(Call) /\ y \in Seq(Call)
    BY <1>12 DEF Opening, Part, Inner
  <2>3. InOrder(p, x \o y)
    BY <1>12, <2>2, OrdersConcatenate
  <2>4. Len(x) \in Nat /\ Len(y) \in Nat /\ (y # <<>> => Len(y) > 0)
    BY <2>2
  <2>5. ASSUME Two(x), StartsSection(y) \/ Len(x) > 1
        PROVE  Two(x \o y)
    <3>1. CASE y = <<>>
      BY <2>1, <2>5, <3>1
    <3>2. CASE y # <<>> /\ Len(x) = 1
      <4>1. (x \o y)[2] = y[1] /\ y[1].kind = "section" /\ Len(x \o y) > 1
        BY <2>1, <2>4, <2>5, <3>2 DEF StartsSection
      <4>2. QED
        BY <4>1
    <3>3. CASE Len(x) > 1
      BY <2>1, <2>4, <2>5, <3>3
    <3>4. QED
      BY <2>5, <3>1, <3>2, <3>3
  <2>6. Len(x) > 1 => Len(x \o y) > 1
    BY <2>1, <2>4
  <2> HIDE DEF Two
  <2>7. QED
    BY <2>1, <2>3, <2>5, <2>6
<1> DEFINE x1 == header \o y1
           x2 == x1 \o y2
           x3 == x2 \o y3
           x4 == x3 \o y4
           x5 == x4 \o title
           x6 == x5 \o y6
           x7 == x6 \o y7
           x8 == x7 \o y8
           x9 == x8 \o y9
           x10 == x9 \o y10
<1>13. Opening(x3) /\ InOrder(p, x3) /\ Two(x3) /\ Owners(x3) = {}
  <2> HIDE DEF header, y1, y2, y3, Two
  <2>1. Opening(x1) /\ InOrder(p, x1) /\ Two(x1) /\ Owners(x1) = {}
    BY <1>2, <1>10, <1>11
  <2> HIDE DEF x1
  <2>2. Opening(x2) /\ InOrder(p, x2) /\ Two(x2) /\ Owners(x2) = {}
    BY <1>2, <2>1, <1>11
  <2> HIDE DEF x2
  <2>3. QED
    BY <1>2, <2>2, <1>11
<1> HIDE DEF x3
<1>14. Opening(x4) /\ InOrder(p, x4) /\ Two(x4) /\ Owners(x4) = P
  <2>1. \A m \in Owners(x3), n \in Owners(y4) : Before(p, m, n)
    BY <1>13
  <2> HIDE DEF y4, Two, P
  <2>2. Opening(x4) /\ InOrder(p, x4) /\ Two(x4) /\ Owners(x4) = Owners(x3) \cup Owners(y4)
    BY <1>4, <1>12, <1>13, <2>1
  <2>3. QED
    BY <1>4, <1>13, <2>2
<1> HIDE DEF x4
<1>15. Opening(x5) /\ InOrder(p, x5) /\ Two(x5) /\ Owners(x5) = P /\ Len(x5) > 1
  <2> HIDE DEF title, P
  <2>1. Len(x5) = Len(x4) + Len(title)
    BY <1>3, <1>14, PageGrowsByOwnPart
  <2>2. Len(title) > 0 /\ Len(title) \in Nat /\ Len(x4) > 0 /\ Len(x4) \in Nat
    BY <1>3, <1>14 DEF OwnPart, Part, Opening
  <2>3. Len(x5) > 1
    BY <2>1, <2>2
  <2> HIDE DEF Two
  <2>4. QED
    BY <1>3, <1>11, <1>14, <2>3
<1> HIDE DEF x5
<1>16. Opening(x6) /\ InOrder(p, x6) /\ Two(x6) /\ Owners(x6) = P \cup S /\ Len(x6) > 1
  <2>1. \A m \in Owners(x5), n \in Owners(y6) : Before(p, m, n)
    BY <1>5, <1>6, <1>15
  <2> HIDE DEF y6, Two, P, S
  <2>2. QED
    BY <1>5, <1>12, <1>15, <2>1
<1> HIDE DEF x6
<1>17. ASSUME NEW x, Opening(x), InOrder(p, x), Two(x), Len(x) > 1, NEW y \in OwnPart
       PROVE  /\ Opening(x \o y) /\ InOrder(p, x \o y) /\ Two(x \o y) /\ Len(x \o y) > 1
              /\ Owners(x \o y) = Owners(x)
              /\ EndsWithLine(y) => EndsWithLine(x \o y)
              /\ y = <<>> => x \o y = x
  <2>1. Len(x) \in Nat /\ Len(y) \in Nat
    BY <1>17 DEF Opening, OwnPart, Part
  <2>2. QED
    BY <1>17, <2>1, PageGrowsByOwnPart
<1>18. /\ Opening(x9) /\ InOrder(p, x9) /\ Two(x9) /\ Owners(x9) = P \cup S /\ Len(x9) > 1
       /\ EndsWithLine(x9)
  <2> HIDE DEF y7, y8, y9, Two, P, S
  <2>1. Opening(x7) /\ InOrder(p, x7) /\ Two(x7) /\ Owners(x7) = P \cup S /\ Len(x7) > 1
    BY <1>2, <1>16, <1>17
  <2> HIDE DEF x7
  <2>2. Opening(x8) /\ InOrder(p, x8) /\ Two(x8) /\ Owners(x8) = P \cup S /\ Len(x8) > 1
    BY <1>2, <2>1, <1>17
  <2> HIDE DEF x8
  <2>3. QED
    BY <1>7, <2>2, <1>17
<1> HIDE DEF x9
<1>19. /\ Opening(x10) /\ InOrder(p, x10) /\ Two(x10) /\ Owners(x10) = P \cup S /\ Len(x10) > 1
       /\ closed => EndsWithLine(x10)
  <2> HIDE DEF y10, Two, P, S, closed
  <2>1. QED
    BY <1>8, <1>18, <1>17
<1> HIDE DEF x10
<1>20. FullPage(p, st, synopsis) = x10 \o footer
  BY Zenon DEF FullPage, x10, x9, x6, x5, x4, x3
<1>21. /\ x10 \o footer \in Seq(Call)
       /\ Len(x10 \o footer) = Len(x10) + 1
       /\ Len(x10) \in Nat /\ Len(x10) > 1
       /\ \A k \in 1..Len(x10) : (x10 \o footer)[k] = x10[k]
       /\ (x10 \o footer)[Len(x10) + 1].kind = "footer"
  <2> HIDE DEF footer
  <2>1. x10 \in Seq(Call) /\ footer \in Seq(Call) /\ Len(footer) = 1 /\ footer[1].kind = "footer"
    BY <1>9, <1>19 DEF Opening
  <2>2. QED
    BY <1>19, <2>1, LastCall
<1>22. Owners(x10 \o footer) = P \cup S /\ InOrder(p, x10 \o footer)
  <2> HIDE DEF footer, P, S
  <2>1. DOMAIN footer = {1}
    BY <1>9
  <2>2. Owners(footer) = {} /\ InOrder(p, footer)
    BY <1>9, <2>1 DEF Owners, InOrder
  <2>3. x10 \in Seq(Call) /\ footer \in Seq(Call)
    BY <1>9, <1>19 DEF Opening
  <2>4. Owners(x10 \o footer) = Owners(x10) \cup Owners(footer)
    BY <2>3, CallsConcatenate
  <2>5. \A m \in Owners(x10), n \in Owners(footer) : Before(p, m, n)
    BY <2>2
  <2>6. QED
    BY <1>19, <2>2, <2>3, <2>4, <2>5, OrdersConcatenate
<1>23. QED
  <2> HIDE DEF footer, P, S
  <2> DEFINE page == x10 \o footer
  <2>1. page[1].kind = "header" /\ page[2].kind = "section"
    BY <1>19, <1>21 DEF Opening
  <2>2. \A k \in 2..(Len(page) - 1) : page[k] \in Inner
    BY <1>19, <1>21 DEF Opening
  <2>3. closed => page[Len(page) - 1].kind = "line"
    BY <1>19, <1>21 DEF EndsWithLine
  <2>4. Len(page) > 2 /\ page[Len(page)].kind = "footer" /\ page \in Seq(Call)
    BY <1>21
  <2>5. Owners(page) = P \cup S /\ InOrder(p, page)
    BY <1>22
  <2> HIDE DEF page
  <2>6. PageShape(p, st, page)
    BY <2>1, <2>2, <2>3, <2>4, <2>5 DEF PageShape, P, S
  <2>7. QED
    BY <1>20, <2>6 DEF page

----------------------------------------------------------------------------
(***************************************************************************)
(* What has been stored when operation n is next.                          *)
(***************************************************************************)
Among(m, v) == \E k \in DOMAIN v : v[k] = m

StoredUpTo(p, st, n) ==
    /\ st \in Stored
    /\ \A m : Among(m, st.set_up) =>
          /\ m \in DOMAIN p.entries /\ m < n
          /\ p.entries[m].kind # "positional" /\ ~p.entries[m].hidden
    /\ \A m : Among(m, st.positional) =>
          /\ m \in DOMAIN p.entries /\ m < n
          /\ p.entries[m].kind = "positional"
    /\ \A m : Among(m, st.synopsis) <=>
          \/ Among(m, st.positional)
          \/ Among(m, st.set_up) /\ p.entries[m].kind \in {"option", "flag"}
    /\ Increasing(st.set_up)
    /\ Increasing(st.positional)

LEMMA StoredEntries ==
    ASSUME NEW p, NEW st, NEW n, StoredUpTo(p, st, n)
    PROVE  StoresEntries(p, st)
BY DEF StoredUpTo, StoresEntries, Among

\* One more index at the end of a vector.
LEMMA AppendedIndex ==
    ASSUME NEW v \in Seq(Nat), NEW n \in Nat
    PROVE  /\ Append(v, n) \in Seq(Nat)
           /\ DOMAIN v \subseteq DOMAIN Append(v, n)
           /\ \A m : Among(m, Append(v, n)) <=> Among(m, v) \/ m = n
           /\ Increasing(v) /\ (\A m : Among(m, v) => m < n) => Increasing(Append(v, n))
<1>1. /\ Append(v, n) \in Seq(Nat) /\ Len(Append(v, n)) = Len(v) + 1 /\ Len(v) \in Nat
      /\ DOMAIN v = 1..Len(v) /\ DOMAIN Append(v, n) = 1..(Len(v) + 1)
      /\ \A k \in 1..Len(v) : Append(v, n)[k] = v[k]
      /\ Append(v, n)[Len(v) + 1] = n
  OBVIOUS
<1>2. \A m : Among(m, Append(v, n)) => Among(m, v) \/ m = n
  <2>1. \A k \in 1..(Len(v) + 1) : k \in 1..Len(v) \/ k = Len(v) + 1
    BY <1>1
  <2>2. QED
    BY <1>1, <2>1 DEF Among
<1>3. \A m : Among(m, v) \/ m = n => Among(m, Append(v, n))
  <2>1. Len(v) + 1 \in DOMAIN Append(v, n) /\ DOMAIN v \subseteq DOMAIN Append(v, n)
    BY <1>1
  <2>2. QED
    BY <1>1, <2>1 DEF Among
<1>4. ASSUME Increasing(v), \A m : Among(m, v) => m < n
      PROVE  Increasing(Append(v, n))
  <2> SUFFICES ASSUME NEW j \in DOMAIN Append(v, n), NEW k \in DOMAIN Append(v, n), j < k
               PROVE  Append(v, n)[j] < Append(v, n)[k]
    BY DEF Increasing
  <2>1. j \in 1..Len(v)
    BY <1>1
  <2>2. Append(v, n)[j] = v[j] /\ v[j] < n
    BY <1>1, <1>4, <2>1 DEF Among
  <2>3. CASE k \in 1..Len(v)
    BY <1>1, <1>4, <2>1, <2>3 DEF Increasing
  <2>4. CASE k = Len(v) + 1
    BY <1>1, <2>2, <2>4
  <2>5. QED
    BY <1>1, <2>3, <2>4
<1>5. QED
  BY <1>1, <1>2, <1>3, <1>4

\* Nothing is stored for the operation.
LEMMA NothingStoredFor ==
    ASSUME NEW p \in Program, NEW n \in DOMAIN p.entries, NEW st, StoredUpTo(p, st, n)
    PROVE  StoredUpTo(p, st, n + 1)
<1>1. n \in Nat
  BY DEF Program
<1>2. DOMAIN p.entries \subseteq Nat
  BY DEF Program
<1>3. \A m \in DOMAIN p.entries : m < n => m < n + 1
  BY <1>1, <1>2
<1>4. QED
  BY <1>3 DEF StoredUpTo

\* The help page element of an option, flag or text is stored.
WithElement(p, st, n) ==
    IF p.entries[n].kind \in {"option", "flag"}
    THEN [st EXCEPT !.set_up = Append(@, n), !.synopsis = Append(@, n)]
    ELSE [st EXCEPT !.set_up = Append(@, n)]

LEMMA ElementStored ==
    ASSUME NEW p \in Program, NEW n \in DOMAIN p.entries, NEW st, StoredUpTo(p, st, n),
           p.entries[n].kind # "positional", ~p.entries[n].hidden
    PROVE  /\ StoredUpTo(p, WithElement(p, st, n), n + 1)
           /\ DOMAIN st.synopsis \subseteq DOMAIN WithElement(p, st, n).synopsis
<1> DEFINE s == WithElement(p, st, n)
<1>1. n \in Nat /\ st \in Stored /\ n < n + 1
  BY DEF Program, StoredUpTo
<1>2. st.set_up \in Seq(Nat) /\ st.positional \in Seq(Nat) /\ st.synopsis \in Seq(Nat)
  BY <1>1 DEF Stored
<1>3. /\ s \in Stored /\ s.set_up = Append(st.set_up, n) /\ s.positional = st.positional
      /\ s.synopsis = IF p.entries[n].kind \in {"option", "flag"} THEN Append(st.synopsis, n)
                      ELSE st.synopsis
  <2>1. Append(st.set_up, n) \in Seq(Nat) /\ Append(st.synopsis, n) \in Seq(Nat)
    BY <1>1, <1>2
  <2>2. QED
    BY <1>1, <2>1 DEF Stored, WithElement
<1> HIDE DEF s
<1>4. StoredUpTo(p, st, n + 1)
  BY NothingStoredFor
<1>5. /\ \A m : Among(m, s.set_up) <=> Among(m, st.set_up) \/ m = n
      /\ Increasing(s.set_up)
      /\ \A m : Among(m, Append(st.synopsis, n)) <=> Among(m, st.synopsis) \/ m = n
      /\ DOMAIN st.synopsis \subseteq DOMAIN s.synopsis
  <2>1. Increasing(st.set_up) /\ \A m : Among(m, st.set_up) => m < n
    BY DEF StoredUpTo
  <2>2. QED
    BY <1>1, <1>2, <1>3, <2>1, AppendedIndex
<1>6. \A m : Among(m, s.set_up) =>
          /\ m \in DOMAIN p.entries /\ m < n + 1
          /\ p.entries[m].kind # "positional" /\ ~p.entries[m].hidden
  BY <1>1, <1>4, <1>5 DEF StoredUpTo
<1>7. \A m : Among(m, s.positional) =>
          /\ m \in DOMAIN p.entries /\ m < n + 1
          /\ p.entries[m].kind = "positional"
  BY <1>3, <1>4 DEF StoredUpTo
<1>8. \A m : Among(m, s.synopsis) <=>
          \/ Among(m, s.positional)
          \/ Among(m, s.set_up) /\ p.entries[m].kind \in {"option", "flag"}
  BY <1>3, <1>4, <1>5 DEF StoredUpTo
<1>9. Increasing(s.positional)
  BY <1>3, <1>4 DEF StoredUpTo
<1>10. QED
  BY <1>3, <1>5, <1>6, <1>7, <1>8, <1>9 DEF StoredUpTo, s

\* A positional option is stored.
LEMMA PositionalStored ==
    ASSUME NEW p \in Program, NEW n \in DOMAIN p.entries, NEW st, StoredUpTo(p, st, n),
           p.entries[n].kind = "positional"
    PROVE  /\ StoredUpTo(p, store_positional(st, n), n + 1)
           /\ DOMAIN st.synopsis \subseteq DOMAIN store_positional(st, n).synopsis
<1> DEFINE s == store_positional(st, n)
<1>1. n \in Nat /\ st \in Stored /\ n < n + 1
  BY DEF Program, StoredUpTo
<1>2. st.set_up \in Seq(Nat) /\ st.positional \in Seq(Nat) /\ st.synopsis \in Seq(Nat)
  BY <1>1 DEF Stored
<1>3. /\ s \in Stored /\ s.positional = Append(st.positional, n) /\ s.set_up = st.set_up
      /\ s.synopsis = Append(st.synopsis, n)
  <2>1. Append(st.positional, n) \in Seq(Nat) /\ Append(st.synopsis, n) \in Seq(Nat)
    BY <1>1, <1>2
  <2>2. QED
    BY <1>1, <2>1 DEF Stored, store_positional
<1> HIDE DEF s
<1>4. StoredUpTo(p, st, n + 1)
  BY NothingStoredFor
<1>5. /\ \A m : Among(m, s.positional) <=> Among(m, st.positional) \/ m = n
      /\ Increasing(s.positional)
      /\ \A m : Among(m, s.synopsis) <=> Among(m, st.synopsis) \/ m = n
      /\ DOMAIN st.synopsis \subseteq DOMAIN s.synopsis
  <2>1. Increasing(st.positional) /\ \A m : Among(m, st.positional) => m < n
    BY DEF StoredUpTo
  <2>2. QED
    BY <1>1, <1>2, <1>3, <2>1, AppendedIndex
<1>6. \A m : Among(m, s.set_up) =>
          /\ m \in DOMAIN p.entries /\ m < n + 1
          /\ p.entries[m].kind # "positional" /\ ~p.entries[m].hidden
  BY <1>3, <1>4 DEF StoredUpTo
<1>7. \A m : Among(m, s.positional) =>
          /\ m \in DOMAIN p.entries /\ m < n + 1
          /\ p.entries[m].kind = "positional"
  BY <1>1, <1>4, <1>5 DEF StoredUpTo
<1>8. \A m : Among(m, s.synopsis) <=>
          \/ Among(m, s.positional)
          \/ Among(m, s.set_up) /\ p.entries[m].kind \in {"option", "flag"}
  BY <1>3, <1>4, <1>5 DEF StoredUpTo
<1>9. Increasing(s.set_up)
  BY <1>3, <1>4 DEF StoredUpTo
<1>10. QED
  BY <1>3, <1>5, <1>6, <1>7, <1>8, <1>9 DEF StoredUpTo, s

\* The pages that list no options.
LEMMA ShortPages ==
    ASSUME NEW p \in Program, NEW st, NEW synopsis \in Seq(Text),
           NEW format \in {"short_help", "version", "copyright"}
    PROVE  LET page == PageOf(format, p, st, synopsis)
           IN  /\ page \in Seq(Call) /\ Len(page) > 0 /\ Owners(page) = {}
               /\ \A k \in 2..Len(page) : page[k].kind # "header"
<1> DEFINE header == <<Emit("header", <<>>, <<>>, FALSE)>>
           line == <<OwnLine(TRUE)>>
<1>1. /\ header \in Seq(Call) /\ Len(header) = 1 /\ header[1].kind = "header"
      /\ header[1].of = 0
  <2>1. /\ Emit("header", <<>>, <<>>, FALSE) \in Call /\ Emit("header", <<>>, <<>>, FALSE).kind = "header"
        /\ Emit("header", <<>>, <<>>, FALSE).of = 0
    BY OwnCalls
  <2>2. QED
    BY <2>1, SingleCall
<1>2. Opening(header) /\ Owners(header) = {}
  <2> HIDE DEF header
  <2>1. DOMAIN header = {1}
    BY <1>1
  <2>2. QED
    BY <1>1, <2>1 DEF Opening, Owners
<1>3. ASSUME NEW x, Opening(x), Owners(x) = {}, NEW y \in OwnPart
      PROVE  Opening(x \o y) /\ Owners(x \o y) = {}
  BY <1>3, OpeningGrows DEF OwnPart
<1>4. \A x : Opening(x) => /\ x \in Seq(Call) /\ Len(x) > 0
                         /\ \A k \in 2..Len(x) : x[k].kind # "header"
  BY DEF Opening, Inner
<1>5. CASE format = "short_help"
  <2>1. print_synopsis(synopsis) \in OwnPart /\ line \in OwnPart
    <3>1. OwnLine(TRUE) \in Inner /\ OwnLine(TRUE).of = 0
      BY OwnCalls
    <3>2. QED
      BY <3>1, SynopsisIsOwnPart, SingleOwnCall
  <2>2. PageOf(format, p, st, synopsis) = header \o print_synopsis(synopsis) \o line
    BY <1>5 DEF PageOf
  <2> HIDE DEF header, line
  <2>3. Opening(header \o print_synopsis(synopsis)) /\ Owners(header \o print_synopsis(synopsis)) = {}
    BY <1>2, <1>3, <2>1
  <2>4. QED
    BY <1>3, <1>4, <2>1, <2>2, <2>3
<1>6. CASE format = "version"
  <2>1. print_version(p) \in OwnPart
    BY VersionIsOwnPart
  <2>2. PageOf(format, p, st, synopsis) = header \o print_version(p)
    BY <1>6 DEF PageOf
  <2> HIDE DEF header
  <2>3. QED
    BY <1>2, <1>3, <1>4, <2>1, <2>2
<1>7. CASE format = "copyright"
  <2> DEFINE block == Emit("block", <<>>, <<>>, FALSE)
             blocks == [k \in 1..3 |-> block]
  <2>1. block \in Call /\ block.of = 0 /\ block.kind = "block"
    BY OwnCalls
  <2>2. PageOf(format, p, st, synopsis) = blocks
    BY <1>7 DEF PageOf
  <2> HIDE DEF block
  <2>3. /\ blocks \in Seq(Call) /\ Len(blocks) > 0 /\ Owners(blocks) = {}
        /\ \A k \in 2..Len(blocks) : blocks[k].kind # "header"
    BY <2>1 DEF Owners
  <2>4. QED
    BY <2>2, <2>3
<1>8. QED
  BY <1>5, <1>6, <1>7

----------------------------------------------------------------------------
(***************************************************************************)
(* Fonts.  What the formats put together from texts that close their tags  *)
(* closes its tags.                                                        *)
(***************************************************************************)
LEMMA ClosedIsText == ClosedText \subseteq Text
BY DEF ClosedText

\* Units that are no fonts, alone and in a row.
Plain == Unit \ Fonts

LEMMA PlainIsClosed ==
    /\ <<>> \in ClosedText
    /\ \A u \in Plain : <<u>> \in ClosedText
    /\ \A u, v \in Plain : <<u, v>> \in ClosedText
    /\ \A u, v, w \in Plain : <<u, v, w>> \in ClosedText
<1>1. ASSUME NEW t \in Seq(Plain)
      PROVE  t \in ClosedText
  <2>1. t \in Text /\ \A i \in DOMAIN t : t[i] \notin Fonts
    BY DEF Text, Plain
  <2>2. QED
    BY <2>1, FontlessIsClosed
<1>2. /\ <<>> \in Seq(Plain)
      /\ \A u \in Plain : <<u>> \in Seq(Plain)
      /\ \A u, v \in Plain : <<u, v>> \in Seq(Plain)
      /\ \A u, v, w \in Plain : <<u, v, w>> \in Seq(Plain)
  OBVIOUS
<1>3. QED
  BY <1>1, <1>2

LEMMA OwnUnitsArePlain ==
    /\ {"(", ")", "[", "]", "...", "|", ",", ".", "-", "--", "of", "List", "Default:",
        "ARGUMENT-n", "[n]", "--own", "own", "text"} \subseteq Plain
    /\ Blank \in Plain
    /\ Run \subseteq Plain
<1>1. Run \subseteq Plain
  <2>1. Run \cap Fonts = {}
    BY LengthAssumption
  <2>2. QED
    BY <2>1 DEF Plain, Unit
<1>2. Blank \in Plain
  BY DEF Plain, Unit, Fonts, Blank, Bold, Italic, Previous
<1>3. QED
  BY <1>1, <1>2, OwnRunsAssumption

LEMMA InFontIsClosed ==
    ASSUME NEW font \in {Bold, Italic}, NEW t \in ClosedText
    PROVE  InFont(font, t) \in ClosedText
<1>1. t \in Text /\ <<>> \in Text
  BY ClosedIsText, UnitsAreTexts
<1>2. t \o <<>> = t /\ t \o <<>> \in ClosedText
  BY <1>1 DEF Text
<1>3. <<font>> \o t \o <<Previous>> \o <<>> \in ClosedText
  BY <1>1, <1>2, WrappedIsClosed
<1>4. <<font>> \o t \o <<Previous>> \in Text
  BY <1>1, InFontIsText DEF InFont, Fonts
<1>5. <<font>> \o t \o <<Previous>> \o <<>> = <<font>> \o t \o <<Previous>>
  <2> DEFINE w == <<font>> \o t \o <<Previous>>
  <2>1. w \in Text
    BY <1>4
  <2> HIDE DEF w
  <2>2. w \o <<>> = w
    BY <2>1 DEF Text
  <2>3. QED
    BY <2>2 DEF w
<1>6. QED
  BY <1>3, <1>5 DEF InFont

\* An entry whose own texts close their tags.
ClosedEntry == {e \in Entry : {e.key, e.text, e.value, e.default_message, e.message} \subseteq ClosedText}

LEMMA IdentifiersAreClosed ==
    ASSUME NEW e \in Entry, NEW separator \in ClosedText
    PROVE  prep_id_for_help(e, separator) \in ClosedText
<1>1. (e.short = NoId \/ e.short \in Plain) /\ (e.long = NoId \/ e.long \in Plain)
  BY OwnUnitsArePlain DEF Entry
<1>2. (IF e.short = NoId THEN <<>> ELSE InFont(Bold, <<e.short>>)) \in ClosedText
  BY <1>1, PlainIsClosed, InFontIsClosed
<1>3. (IF e.short # NoId /\ e.long # NoId THEN separator ELSE <<>>) \in ClosedText
  BY PlainIsClosed
<1>4. (IF e.long = NoId THEN <<>> ELSE InFont(Bold, <<e.long>>)) \in ClosedText
  BY <1>1, PlainIsClosed, InFontIsClosed
<1>5. QED
  BY <1>2, <1>3, <1>4, ClosedConcatenate DEF prep_id_for_help

LEMMA TypeIsClosed ==
    ASSUME NEW e \in Entry
    PROVE  InFont(Italic, <<e.type>>) \in ClosedText
<1>1. e.type \in Plain
  BY OwnUnitsArePlain DEF Entry
<1>2. QED
  BY <1>1, PlainIsClosed, InFontIsClosed

LEMMA TypeInfoIsClosed ==
    ASSUME NEW e \in Entry
    PROVE  option_type_and_list_info(e) \in ClosedText
<1>1. /\ <<"(">> \in ClosedText /\ <<")">> \in ClosedText /\ <<"List">> \in ClosedText
      /\ <<Blank, "of", Blank>> \in ClosedText /\ <<>> \in ClosedText
  BY OwnUnitsArePlain, PlainIsClosed
<1>2. InFont(Italic, <<"List">>) \in ClosedText /\ InFont(Italic, <<e.type>>) \in ClosedText
  BY <1>1, InFontIsClosed, TypeIsClosed
<1>3. (IF e.list THEN InFont(Italic, <<"List">>) \o <<Blank, "of", Blank>> ELSE <<>>) \in ClosedText
  BY <1>1, <1>2, ClosedConcatenate
<1>4. QED
  BY <1>1, <1>2, <1>3, ClosedConcatenate DEF option_type_and_list_info

LEMMA InfoIsClosed ==
    ASSUME NEW e \in ClosedEntry
    PROVE  Info(e) \in ClosedText
<1>1. /\ <<>> \in ClosedText /\ <<".", Blank>> \in ClosedText
      /\ <<Blank, "Default:", Blank>> \in ClosedText
  BY OwnUnitsArePlain, PlainIsClosed
<1>2. ASSUME NEW t \in ClosedText
      PROVE  get_default_message(t) \in ClosedText
  BY <1>1, ClosedConcatenate DEF get_default_message
<1>3. /\ e.text \in ClosedText /\ e.value \in ClosedText
      /\ e.default_message \in ClosedText /\ e.message \in ClosedText
  BY DEF ClosedEntry
<1>4. DefaultOf(e) \in ClosedText
  BY <1>1, <1>2, <1>3 DEF DefaultOf
<1>5. MessageOf(e) \in ClosedText
  BY <1>1, <1>3, ClosedConcatenate DEF MessageOf
<1>6. QED
  BY <1>3, <1>4, <1>5, ClosedConcatenate DEF Info

\* What an element adds to the synopsis closes its tags.
LEMMA SpelledIsClosed ==
    ASSUME NEW e \in Entry, e.kind \in {"option", "flag", "positional"}, NEW first \in BOOLEAN
    PROVE  Spelled(e, first) \in ClosedText
<1>1. /\ <<>> \in ClosedText /\ <<"[">> \in ClosedText /\ <<"]">> \in ClosedText
      /\ <<"...">> \in ClosedText /\ <<"|">> \in ClosedText /\ <<Blank>> \in ClosedText
      /\ <<Blank, "[">> \in ClosedText /\ <<"]", "...">> \in ClosedText /\ <<"--">> \in ClosedText
  BY OwnUnitsArePlain, PlainIsClosed
<1>2. <<Blank, "[", Bold, "--", Previous, "]">> \in ClosedText
  <2>1. InFont(Bold, <<"--">>) \in ClosedText
    BY <1>1, InFontIsClosed
  <2>2. <<Blank, "[", Bold, "--", Previous, "]">> = <<Blank, "[">> \o InFont(Bold, <<"--">>) \o <<"]">>
    BY DEF InFont
  <2>3. <<Blank, "[">> \o InFont(Bold, <<"--">>) \in ClosedText
    BY <1>1, <2>1, ClosedConcatenate
  <2>4. <<Blank, "[">> \o InFont(Bold, <<"--">>) \o <<"]">> \in ClosedText
    BY <1>1, <2>3, ClosedConcatenate
  <2>5. QED
    BY <2>2, <2>4, Zenon
<1>3. prep_id_for_help(e, <<"|">>) \in ClosedText
  BY <1>1, IdentifiersAreClosed
<1>4. InFont(Italic, <<e.type>>) \in ClosedText
  BY TypeIsClosed
<1>5. prep_id_for_help(e, <<"|">>) \o <<Blank>> \o InFont(Italic, <<e.type>>) \in ClosedText
  BY <1>1, <1>3, <1>4, ClosedConcatenate
<1>6. ElementText(e) \in ClosedText
  <2>1. CASE e.kind = "flag"
    BY <2>1, <1>1, <1>3, ClosedConcatenate DEF ElementText
  <2>2. CASE e.kind = "option" /\ ~e.required
    BY <2>2, <1>1, <1>5, ClosedConcatenate DEF ElementText
  <2>3. CASE e.kind = "option" /\ e.required /\ e.list
    BY <2>3, <1>1, <1>5, ClosedConcatenate DEF ElementText
  <2>4. CASE e.kind = "option" /\ e.required /\ ~e.list
    BY <2>4, <1>5 DEF ElementText
  <2>5. CASE e.kind = "positional"
    BY <2>5, <1>1, <1>4, ClosedConcatenate DEF ElementText
  <2>6. QED
    BY <2>1, <2>2, <2>3, <2>4, <2>5
<1>7. QED
  BY <1>1, <1>2, <1>6, ClosedConcatenate DEF Spelled

\* The bold around the first word fits into every synopsis that closes its
\* tags, wherever in it the fonts of the application stand.
LEMMA BoldWordIsClosed ==
    ASSUME NEW t \in ClosedText, FirstBlank(t) # {}
    PROVE  InBoldUpToBlank(t) \in ClosedText
<1> DEFINE i == Min(FirstBlank(t))
           word == SubSeq(t, 1, i - 1)
           rest == SubSeq(t, i, Len(t))
<1>1. t \in Text /\ Len(t) \in Nat /\ DOMAIN t = 1..Len(t)
  BY ClosedIsText DEF Text
<1>2. FirstBlank(t) \in SUBSET Nat
  BY <1>1 DEF FirstBlank
<1>3. i \in 1..Len(t)
  BY <1>1, <1>2, MinOfNaturals DEF FirstBlank
<1>4. word \in Text /\ rest \in Text /\ word \o rest = t
  <2> HIDE DEF i
  <2>1. word \in Text /\ rest \in Text
    BY <1>1, <1>3, SubSeqProperties DEF Text
  <2>2. 1 \in 1..(Len(t) + 1) /\ i - 1 \in 0..Len(t) /\ Len(t) \in (i - 1)..Len(t)
    BY <1>1, <1>3
  <2>3. (i - 1) + 1 = i /\ 1 - 1 = 0
    BY <1>3
  <2>4. SubSeq(t, 1, i - 1) \o SubSeq(t, (i - 1) + 1, Len(t)) = SubSeq(t, 1, Len(t))
    BY <1>1, <2>2, <2>3, ConcatAdjacentSubSeq DEF Text
  <2>5. SubSeq(t, 1, Len(t)) = t
    BY <1>1, SubSeqFull DEF Text
  <2>6. QED
    BY <2>1, <2>3, <2>4, <2>5
<1> HIDE DEF word, rest
<1>5. <<Bold>> \o word \o <<Previous>> \o rest \in ClosedText
  BY <1>4, WrappedIsClosed
<1>6. QED
  BY <1>5 DEF InBoldUpToBlank, word, rest

\* Calls whose texts close their tags.
ClosedCall == [kind : CallKinds, key : ClosedText, text : ClosedText, paragraph : BOOLEAN, of : Nat]

LEMMA EmitIsClosed ==
    ASSUME NEW kind \in CallKinds, NEW key \in ClosedText, NEW text \in ClosedText,
           NEW paragraph \in BOOLEAN
    PROVE  /\ Emit(kind, key, text, paragraph) \in ClosedCall
           /\ \A n \in Nat : [Emit(kind, key, text, paragraph) EXCEPT !.of = n] \in ClosedCall
BY DEF Emit, ClosedCall

LEMMA OwnCallsAreClosed ==
    /\ OwnSection \in ClosedCall /\ OwnItem \in ClosedCall
    /\ \A t \in ClosedText, b \in BOOLEAN : Line(t, b) \in ClosedCall
    /\ \A b \in BOOLEAN : OwnLine(b) \in ClosedCall
    /\ \A t \in ClosedText : Emit("item", InFont(Bold, <<"[n]">>), t, FALSE) \in ClosedCall
    /\ \A k \in CallKinds : Emit(k, <<>>, <<>>, FALSE) \in ClosedCall
    /\ Emit("subsection", <<>>, <<"own">>, FALSE) \in ClosedCall
<1>1. <<>> \in ClosedText /\ <<"own">> \in ClosedText /\ OwnText \in ClosedText
      /\ <<"--own">> \in ClosedText /\ <<"[n]">> \in ClosedText
  BY OwnUnitsArePlain, PlainIsClosed DEF OwnText
<1>2. InFont(Bold, <<"--own">>) \in ClosedText /\ InFont(Bold, <<"[n]">>) \in ClosedText
  BY <1>1, InFontIsClosed
<1>3. {"section", "line", "item", "subsection"} \subseteq CallKinds /\ FALSE \in BOOLEAN
  BY DEF CallKinds
<1>4. OwnSection \in ClosedCall /\ OwnItem \in ClosedCall
  BY <1>1, <1>2, <1>3, EmitIsClosed DEF OwnSection, OwnItem, Section
<1>5. \A t \in ClosedText, b \in BOOLEAN : Line(t, b) \in ClosedCall
  BY <1>1, <1>3, EmitIsClosed DEF Line
<1>6. \A b \in BOOLEAN : OwnLine(b) \in ClosedCall
  BY <1>1, <1>5 DEF OwnLine
<1>7. \A t \in ClosedText : Emit("item", InFont(Bold, <<"[n]">>), t, FALSE) \in ClosedCall
  BY <1>2, <1>3, EmitIsClosed
<1>8. \A k \in CallKinds : Emit(k, <<>>, <<>>, FALSE) \in ClosedCall
  BY <1>1, <1>3, EmitIsClosed
<1>9. Emit("subsection", <<>>, <<"own">>, FALSE) \in ClosedCall
  BY <1>1, <1>3, EmitIsClosed
<1>10. QED
  BY <1>4, <1>5, <1>6, <1>7, <1>8, <1>9

LEMMA CallOfEntryIsClosed ==
    ASSUME NEW entries \in Seq(ClosedEntry), NEW n \in DOMAIN entries
    PROVE  CallOf(entries, n) \in ClosedCall
<1> DEFINE e == entries[n]
           info == option_type_and_list_info(e)
           named == prep_id_for_help(e, <<",", Blank>>)
           argument == InFont(Bold, <<"ARGUMENT-n">>)
<1>1. e \in ClosedEntry /\ e \in Entry /\ n \in Nat
  BY DEF ClosedEntry
<1>2. /\ e.key \in ClosedText /\ e.text \in ClosedText /\ e.paragraph \in BOOLEAN
      /\ e.kind \in Kinds
  BY <1>1 DEF ClosedEntry, Entry
<1>3. named \in ClosedText /\ info \in ClosedText /\ Info(e) \in ClosedText
      /\ <<Blank>> \in ClosedText /\ argument \in ClosedText
  <2> HIDE DEF e
  <2>1. <<",", Blank>> \in ClosedText /\ <<Blank>> \in ClosedText /\ <<"ARGUMENT-n">> \in ClosedText
    BY OwnUnitsArePlain, PlainIsClosed
  <2>2. QED
    BY <1>1, <2>1, IdentifiersAreClosed, TypeInfoIsClosed, InfoIsClosed, InFontIsClosed
<1> HIDE DEF info, named, argument
<1> DEFINE option == named \o <<Blank>> \o info
           operand == argument \o <<Blank>> \o info
<1>4. option \in ClosedText /\ operand \in ClosedText
  BY <1>3, ClosedConcatenate
<1> HIDE DEF option, operand
<1>5. ASSUME NEW kind \in CallKinds, NEW key \in ClosedText, NEW text \in ClosedText,
             NEW paragraph \in BOOLEAN
      PROVE  [Emit(kind, key, text, paragraph) EXCEPT !.of = n] \in ClosedCall
  BY <1>1, EmitIsClosed
<1>6. "item" \in CallKinds /\ {"section", "subsection", "line", "item"} \subseteq CallKinds
      /\ FALSE \in BOOLEAN
  BY DEF CallKinds
<1>7. CASE e.kind = "option"
  <2>1. CallOf(entries, n) = [Emit("item", option, Info(e), FALSE) EXCEPT !.of = n]
    BY <1>7 DEF CallOf, option, named, info
  <2> HIDE DEF e
  <2>2. QED
    BY <1>3, <1>4, <1>5, <1>6, <2>1
<1>8. CASE e.kind = "flag"
  <2>1. CallOf(entries, n) = [Emit("item", named, e.text, FALSE) EXCEPT !.of = n]
    BY <1>8 DEF CallOf, named
  <2> HIDE DEF e
  <2>2. QED
    BY <1>2, <1>3, <1>5, <1>6, <2>1
<1>9. CASE e.kind = "positional"
  <2>1. e.kind # "option" /\ e.kind # "flag"
    BY <1>9
  <2>2. CallOf(entries, n) = [Emit("item", operand, Info(e), FALSE) EXCEPT !.of = n]
    BY <1>9, <2>1, Zenon DEF CallOf, operand, argument, info
  <2> HIDE DEF e
  <2>3. [Emit("item", operand, Info(e), FALSE) EXCEPT !.of = n] \in ClosedCall
    BY <1>3, <1>4, <1>5, <1>6
  <2>4. QED
    BY <2>2, <2>3
<1>10. CASE e.kind \in {"section", "subsection", "line", "item"}
  <2>1. e.kind # "option" /\ e.kind # "flag" /\ e.kind # "positional"
    BY <1>10
  <2>2. CallOf(entries, n) = [Emit(e.kind, e.key, e.text, e.paragraph) EXCEPT !.of = n]
    BY <2>1, Zenon DEF CallOf
  <2>3. e.kind \in CallKinds
    BY <1>6, <1>10
  <2> HIDE DEF e
  <2>4. QED
    BY <1>2, <1>5, <2>2, <2>3
<1>11. QED
  BY <1>2, <1>7, <1>8, <1>9, <1>10 DEF Kinds

\* Sequences of such calls.
ClosedPart == Seq(ClosedCall)

LEMMA ClosedPartsConcatenate ==
    ASSUME NEW x \in ClosedPart, NEW y \in ClosedPart
    PROVE  x \o y \in ClosedPart
BY DEF ClosedPart

LEMMA SmallClosedParts ==
    /\ <<>> \in ClosedPart
    /\ \A c \in ClosedCall : <<c>> \in ClosedPart
    /\ \A c, d \in ClosedCall : <<c, d>> \in ClosedPart
    /\ \A c, d \in ClosedCall : <<c, d, d, d>> \in ClosedPart
BY DEF ClosedPart

LEMMA ImageIsClosedPart ==
    ASSUME NEW S, NEW s \in Seq(S), NEW f \in [DOMAIN s -> ClosedCall]
    PROVE  f \in ClosedPart
<1>1. DOMAIN s = 1..Len(s) /\ Len(s) \in Nat
  OBVIOUS
<1>2. QED
  BY <1>1 DEF ClosedPart

LEMMA UnderIsClosed ==
    ASSUME NEW title \in ClosedCall, NEW x \in ClosedPart
    PROVE  Under(title, x) \in ClosedPart
BY SmallClosedParts, ClosedPartsConcatenate DEF Under

LEMMA OptionalIsClosed ==
    ASSUME NEW x \in ClosedPart, NEW condition
    PROVE  Optional(condition, x) \in ClosedPart
BY SmallClosedParts DEF Optional

\* The application's own texts close their tags.
ClosedProgram ==
    {p \in Program : /\ p.entries \in Seq(ClosedEntry)
                     /\ p.executable \in ClosedText
                     /\ p.meta.synopsis \in Seq(ClosedText)
                     /\ p.meta.description \in Seq(ClosedText)
                     /\ p.meta.examples \in Seq(ClosedText)
                     /\ p.meta.citation \in Seq(ClosedText)}

LEMMA LinesAreClosed ==
    ASSUME NEW texts \in Seq(ClosedText)
    PROVE  Lines(texts) \in ClosedPart
<1>1. ASSUME NEW k \in DOMAIN texts
      PROVE  Line(texts[k], TRUE) \in ClosedCall
  <2>1. texts[k] \in ClosedText
    OBVIOUS
  <2>2. QED
    BY <2>1, OwnCallsAreClosed
<1>2. Lines(texts) \in [DOMAIN texts -> ClosedCall]
  BY <1>1 DEF Lines
<1>3. QED
  BY <1>2, ImageIsClosedPart

LEMMA SynopsisIsClosed ==
    ASSUME NEW synopsis \in Seq(ClosedText)
    PROVE  print_synopsis(synopsis) \in ClosedPart
<1> DEFINE call(k) == IF FirstBlank(synopsis[k]) = {} THEN Emit("throw", <<>>, <<>>, FALSE)
                      ELSE Line(InBoldUpToBlank(synopsis[k]), FALSE)
           calls == [k \in DOMAIN synopsis |-> call(k)]
<1>1. ASSUME NEW k \in DOMAIN synopsis
      PROVE  call(k) \in ClosedCall
  <2>1. synopsis[k] \in ClosedText
    OBVIOUS
  <2>2. Emit("throw", <<>>, <<>>, FALSE) \in ClosedCall
    BY OwnCallsAreClosed DEF CallKinds
  <2>3. ASSUME FirstBlank(synopsis[k]) # {}
        PROVE  Line(InBoldUpToBlank(synopsis[k]), FALSE) \in ClosedCall
    BY <2>1, <2>3, BoldWordIsClosed, OwnCallsAreClosed
  <2>4. QED
    BY <2>2, <2>3
<1>2. calls \in [DOMAIN synopsis -> ClosedCall]
  <2> HIDE DEF call
  <2>1. QED
    BY <1>1
<1>3. calls \in ClosedPart
  <2> HIDE DEF calls
  <2>1. QED
    BY <1>2, ImageIsClosedPart
<1>4. print_synopsis(synopsis) = <<>> \/ print_synopsis(synopsis) = calls
  BY Zenon DEF print_synopsis
<1>5. QED
  BY <1>3, <1>4, SmallClosedParts

LEMMA SubcommandsAreClosed ==
    ASSUME NEW p \in Program
    PROVE  Subcommands(p) \in ClosedPart
<1> DEFINE call(k) == Line(<<"-", Blank>> \o InFont(Bold, <<p.subcommands[k]>>), FALSE)
           calls == [k \in DOMAIN p.subcommands |-> call(k)]
           head == <<OwnSection, OwnLine(FALSE)>>
           tail == <<OwnLine(TRUE), OwnLine(TRUE)>>
<1>1. p.subcommands \in Seq(Run)
  BY DEF Program
<1>2. ASSUME NEW k \in DOMAIN p.subcommands
      PROVE  call(k) \in ClosedCall
  <2>1. p.subcommands[k] \in Plain
    <3>1. p.subcommands[k] \in Run
      BY <1>1
    <3>2. QED
      BY <3>1, OwnUnitsArePlain
  <2>2. InFont(Bold, <<p.subcommands[k]>>) \in ClosedText /\ <<"-", Blank>> \in ClosedText
    BY <2>1, OwnUnitsArePlain, PlainIsClosed, InFontIsClosed
  <2>3. <<"-", Blank>> \o InFont(Bold, <<p.subcommands[k]>>) \in ClosedText
    BY <2>2, ClosedConcatenate
  <2>4. QED
    BY <2>3, OwnCallsAreClosed
<1>3. calls \in [DOMAIN p.subcommands -> ClosedCall]
  <2> HIDE DEF call
  <2>1. QED
    BY <1>2
<1>4. calls \in ClosedPart
  <2> HIDE DEF calls
  <2>1. QED
    BY <1>1, <1>3, ImageIsClosedPart
<1>5. head \in ClosedPart /\ tail \in ClosedPart
  BY OwnCallsAreClosed, SmallClosedParts
<1>6. Subcommands(p) = <<>> \/ Subcommands(p) = head \o calls \o tail
  BY Zenon DEF Subcommands
<1>7. QED
  <2> HIDE DEF head, calls, tail
  <2>1. QED
    BY <1>4, <1>5, <1>6, SmallClosedParts, ClosedPartsConcatenate

LEMMA CommonOptionsAreClosed ==
    ASSUME NEW p
    PROVE  CommonOptions(p) \in ClosedPart
<1> DEFINE n == 5 + IF p.version_updates THEN 1 ELSE 0
           items == [k \in 1..n |-> OwnItem]
           title == Emit("subsection", <<>>, <<"own">>, FALSE)
<1>1. n \in Nat
  OBVIOUS
<1>2. items \in ClosedPart
  <2>1. OwnItem \in ClosedCall
    BY OwnCallsAreClosed
  <2> HIDE DEF n
  <2>2. QED
    BY <1>1, <2>1 DEF ClosedPart
<1>3. <<title>> \in ClosedPart
  BY OwnCallsAreClosed, SmallClosedParts
<1>4. CommonOptions(p) = <<title>> \o items
  BY DEF CommonOptions
<1>5. QED
  <2> HIDE DEF title, items
  <2>1. QED
    BY <1>2, <1>3, <1>4, ClosedPartsConcatenate

LEMMA VersionIsClosed ==
    ASSUME NEW p
    PROVE  print_version(p) \in ClosedPart
<1>1. /\ <<OwnSection, OwnLine(FALSE), OwnLine(FALSE), OwnLine(FALSE)>> \in ClosedPart
      /\ <<OwnSection, OwnLine(FALSE)>> \in ClosedPart
  BY OwnCallsAreClosed, SmallClosedParts
<1>2. Optional(p.meta.url, <<OwnSection, OwnLine(FALSE)>>) \in ClosedPart
  BY <1>1, OptionalIsClosed
<1>3. QED
  BY <1>1, <1>2, ClosedPartsConcatenate DEF print_version

LEMMA LegalIsClosed ==
    ASSUME NEW p, p.meta.citation \in Seq(ClosedText)
    PROVE  print_legal(p) \in ClosedPart
<1> DEFINE m == p.meta
           call(k) == Emit("item", InFont(Bold, <<"[n]">>), m.citation[k], FALSE)
           citations == [k \in DOMAIN m.citation |-> call(k)]
           some == m.short_copyright \/ m.long_copyright \/ m.citation # <<>>
                   \/ m.author \/ m.email
           line(b) == Optional(b, <<OwnLine(FALSE)>>)
           body == <<OwnSection>> \o line(m.short_copyright) \o line(m.author) \o line(m.email)
                   \o <<OwnLine(FALSE)>> \o Under(OwnLine(FALSE), citations)
                   \o line(m.long_copyright)
<1>1. <<OwnSection>> \in ClosedPart /\ <<OwnLine(FALSE)>> \in ClosedPart
      /\ OwnLine(FALSE) \in ClosedCall
  BY OwnCallsAreClosed, SmallClosedParts
<1>2. \A b : line(b) \in ClosedPart
  BY <1>1, OptionalIsClosed
<1>3. citations \in ClosedPart
  <2>1. \A k \in DOMAIN m.citation : call(k) \in ClosedCall
    <3> SUFFICES ASSUME NEW k \in DOMAIN m.citation
                 PROVE  call(k) \in ClosedCall
      OBVIOUS
    <3>1. m.citation[k] \in ClosedText
      OBVIOUS
    <3>2. QED
      BY <3>1, OwnCallsAreClosed
  <2> HIDE DEF call
  <2>2. citations \in [DOMAIN m.citation -> ClosedCall]
    BY <2>1
  <2> HIDE DEF citations
  <2>3. QED
    BY <2>2, ImageIsClosedPart
<1>4. Under(OwnLine(FALSE), citations) \in ClosedPart
  <2> HIDE DEF citations
  <2>1. QED
    BY <1>1, <1>3, UnderIsClosed
<1>5. body \in ClosedPart
  <2> HIDE DEF line, citations
  <2>1. QED
    BY <1>1, <1>2, <1>4, ClosedPartsConcatenate
<1>6. print_legal(p) = Optional(some, body)
  BY Zenon DEF print_legal
<1>7. QED
  <2> HIDE DEF body, some
  <2>1. QED
    BY <1>5, <1>6, OptionalIsClosed

LEMMA CallsOfEntriesAreClosed ==
    ASSUME NEW entries \in Seq(ClosedEntry), NEW v \in Seq(Nat),
           \A k \in DOMAIN v : v[k] \in DOMAIN entries
    PROVE  CallsOf(entries, v) \in ClosedPart
<1>1. \A k \in DOMAIN v : CallOf(entries, v[k]) \in ClosedCall
  BY CallOfEntryIsClosed
<1>2. CallsOf(entries, v) \in [DOMAIN v -> ClosedCall]
  BY <1>1 DEF CallsOf
<1>3. QED
  BY <1>2, ImageIsClosedPart

\* Every page of such a program, with a synopsis that closes its tags.
LEMMA PageIsClosed ==
    ASSUME NEW p \in ClosedProgram, NEW st \in Stored, StoresEntries(p, st),
           NEW synopsis \in Seq(ClosedText), NEW format \in Formats
    PROVE  PageOf(format, p, st, synopsis) \in ClosedPart
<1> DEFINE header == <<Emit("header", <<>>, <<>>, FALSE)>>
           footer == <<Emit("footer", <<>>, <<>>, FALSE)>>
<1>1. /\ header \in ClosedPart /\ footer \in ClosedPart
      /\ <<OwnSection>> \in ClosedPart /\ <<OwnLine(TRUE)>> \in ClosedPart
      /\ OwnSection \in ClosedCall
  BY OwnCallsAreClosed, SmallClosedParts DEF CallKinds
<1>2. /\ p \in Program /\ p.entries \in Seq(ClosedEntry)
      /\ p.meta.description \in Seq(ClosedText) /\ p.meta.examples \in Seq(ClosedText)
      /\ p.meta.citation \in Seq(ClosedText)
  BY DEF ClosedProgram
<1>3. print_synopsis(synopsis) \in ClosedPart
  BY SynopsisIsClosed
<1>4. print_version(p) \in ClosedPart
  BY VersionIsClosed
<1>5. FullPage(p, st, synopsis) \in ClosedPart
  <2>1. /\ st.positional \in Seq(Nat) /\ st.set_up \in Seq(Nat)
        /\ \A k \in DOMAIN st.positional : st.positional[k] \in DOMAIN p.entries
        /\ \A k \in DOMAIN st.set_up : st.set_up[k] \in DOMAIN p.entries
    BY DEF Stored, StoresEntries
  <2>2. /\ CallsOf(p.entries, st.positional) \in ClosedPart
        /\ CallsOf(p.entries, st.set_up) \in ClosedPart
    BY <1>2, <2>1, CallsOfEntriesAreClosed
  <2>3. /\ Lines(p.meta.description) \in ClosedPart /\ Lines(p.meta.examples) \in ClosedPart
    BY <1>2, LinesAreClosed
  <2>4. /\ Under(OwnSection, print_synopsis(synopsis)) \in ClosedPart
        /\ Under(OwnSection, Lines(p.meta.description)) \in ClosedPart
        /\ Under(OwnSection, CallsOf(p.entries, st.positional)) \in ClosedPart
        /\ Under(OwnSection, Lines(p.meta.examples)) \in ClosedPart
    BY <1>1, <1>3, <2>2, <2>3, UnderIsClosed
  <2>5. Subcommands(p) \in ClosedPart /\ CommonOptions(p) \in ClosedPart /\ print_legal(p) \in ClosedPart
    BY <1>2, SubcommandsAreClosed, CommonOptionsAreClosed, LegalIsClosed
  <2> HIDE DEF header, footer
  <2> DEFINE above == header \o Under(OwnSection, print_synopsis(synopsis))
                      \o Under(OwnSection, Lines(p.meta.description)) \o Subcommands(p)
                      \o Under(OwnSection, CallsOf(p.entries, st.positional))
             middle == above \o <<OwnSection>> \o CallsOf(p.entries, st.set_up) \o CommonOptions(p)
  <2>6. above \in ClosedPart
    BY <1>1, <2>4, <2>5, ClosedPartsConcatenate
  <2>7. FullPage(p, st, synopsis) =
           middle \o Under(OwnSection, Lines(p.meta.examples))
           \o print_version(p) \o print_legal(p) \o footer
    BY Zenon DEF FullPage, header, footer, above, middle
  <2>8. middle \in ClosedPart
    <3> HIDE DEF above
    <3>1. QED
      BY <1>1, <2>2, <2>5, <2>6, ClosedPartsConcatenate
  <2> HIDE DEF middle
  <2>9. QED
    BY <1>1, <1>4, <2>4, <2>5, <2>7, <2>8, ClosedPartsConcatenate
<1>6. CASE format = "short_help"
  <2>1. PageOf(format, p, st, synopsis) = header \o print_synopsis(synopsis) \o <<OwnLine(TRUE)>>
    BY <1>6 DEF PageOf
  <2> HIDE DEF header
  <2>2. QED
    BY <1>1, <1>3, <2>1, ClosedPartsConcatenate
<1>7. CASE format = "version"
  <2>1. PageOf(format, p, st, synopsis) = header \o print_version(p)
    BY <1>7 DEF PageOf
  <2> HIDE DEF header
  <2>2. QED
    BY <1>1, <1>4, <2>1, ClosedPartsConcatenate
<1>8. CASE format = "copyright"
  <2> DEFINE block == Emit("block", <<>>, <<>>, FALSE)
  <2>1. block \in ClosedCall
    BY OwnCallsAreClosed DEF CallKinds
  <2>2. PageOf(format, p, st, synopsis) = [k \in 1..3 |-> block]
    BY <1>8 DEF PageOf
  <2> HIDE DEF block
  <2>3. QED
    BY <2>1, <2>2 DEF ClosedPart
<1>9. CASE format \notin {"short_help", "version", "copyright"}
  <2>1. format # "short_help" /\ format # "version" /\ format # "copyright"
    BY <1>9
  <2>2. PageOf(format, p, st, synopsis) = FullPage(p, st, synopsis)
    BY <2>1, Zenon DEF PageOf
  <2>3. QED
    BY <1>5, <2>2
<1>10. QED
  BY <1>6, <1>7, <1>8, <1>9
=============================================================================
