------------------------ MODULE PosixReading_proofs ------------------------
(***************************************************************************)
(* parse() implements the reading of PosixReading, for every well-formed   *)
(* setup and every command line: where it begins the relation of the two   *)
(* holds, and every step keeps it.                                         *)
(***************************************************************************)
EXTENDS PosixReading, FormatParse_proofs

----------------------------------------------------------------------------
(***************************************************************************)
(* What an argument that begins with an identifier looks like, symbol by   *)
(* symbol.                                                                 *)
(***************************************************************************)
BeginsWithShort(c, arg) ==
    c.short # NoId /\ Len(arg) >= 2 /\ arg[1] = "-" /\ arg[2] = c.short

BeginsWithLong(c, arg) ==
    /\ c.long # NoId /\ Len(arg) >= 3 /\ arg[1] = "-" /\ arg[2] = "-" /\ arg[3] = c.long
    /\ Len(arg) = 3 \/ arg[4] = "="

BeginsWithId(c, arg) == BeginsWithShort(c, arg) \/ BeginsWithLong(c, arg)

\* Where the text begins that is glued to an identifier.
TextStart(c, arg) == IF BeginsWithLong(c, arg) THEN 5 ELSE IF arg[3] = "=" THEN 4 ELSE 3

GluedTextOf(c, arg) == SubSeq(arg, TextStart(c, arg), Len(arg))

GluesText(c, arg) == BeginsWithId(c, arg) /\ Len(arg) >= 3 /\ Len(arg) >= TextStart(c, arg)

IdentifierPair == [short : Identifier, long : Identifier]

IsNamed(c) == c.short \in Identifier \ {"-"} /\ c.long \in Identifier

\* A prefix, symbol by symbol.
LEMMA PrefixSymbols ==
    ASSUME NEW arg \in Argument, NEW dash \in Argument
    PROVE  IsPrefix(dash, arg) <=> /\ Len(dash) <= Len(arg)
                                   /\ \A i \in 1..Len(dash) : arg[i] = dash[i]
<1>. DEFINE n == Len(dash)
<1>1. arg \in Seq(Symbol) /\ dash \in Seq(Symbol) /\ n \in Nat /\ Len(arg) \in Nat
  BY DEF Argument
<1>. HIDE DEF n
<1>2. ASSUME n <= Len(arg)
      PROVE  SubSeq(dash, 1, n) = SubSeq(arg, 1, n) <=> \A i \in 1..n : arg[i] = dash[i]
  <2>1. n <= Len(dash)
    BY DEF n
  <2>2. /\ SubSeq(dash, 1, n) \in Seq(Symbol) /\ SubSeq(arg, 1, n) \in Seq(Symbol)
        /\ Len(SubSeq(dash, 1, n)) = n /\ Len(SubSeq(arg, 1, n)) = n
        /\ \A i \in 1..n : SubSeq(dash, 1, n)[i] = dash[i] /\ SubSeq(arg, 1, n)[i] = arg[i]
    BY <1>1, <1>2, <2>1
  <2>3. ASSUME \A i \in 1..n : arg[i] = dash[i]
        PROVE  SubSeq(dash, 1, n) = SubSeq(arg, 1, n)
    BY <2>2, <2>3, SeqEqual
  <2>4. ASSUME SubSeq(dash, 1, n) = SubSeq(arg, 1, n)
        PROVE  \A i \in 1..n : arg[i] = dash[i]
    BY <2>2, <2>4
  <2>5. QED
    BY <2>3, <2>4
<1>3. QED
  BY <1>1, <1>2 DEF IsPrefix, n

\* What stands in front of a text, and what the text is then.
LEMMA ConcatSplits ==
    ASSUME NEW arg \in Argument, NEW dash \in Argument, NEW text \in Argument
    PROVE  arg = dash \o text <=> /\ IsPrefix(dash, arg)
                                  /\ text = SubSeq(arg, Len(dash) + 1, Len(arg))
<1>. DEFINE n == Len(dash)
<1>1. arg \in Seq(Symbol) /\ dash \in Seq(Symbol) /\ text \in Seq(Symbol)
      /\ n \in Nat /\ Len(arg) \in Nat /\ Len(text) \in Nat
  BY DEF Argument
<1>2. ASSUME arg = dash \o text
      PROVE  IsPrefix(dash, arg) /\ text = SubSeq(arg, n + 1, Len(arg))
  <2>1. /\ Len(arg) = n + Len(text)
        /\ \A i \in 1..(n + Len(text)) : arg[i] = IF i <= n THEN dash[i] ELSE text[i - n]
    BY <1>1, <1>2, ConcatProperties
  <2>2. IsPrefix(dash, arg)
    <3>1. n <= Len(arg) /\ \A i \in 1..n : arg[i] = dash[i]
      BY <1>1, <2>1
    <3>2. QED
      BY <3>1, PrefixSymbols
  <2>. HIDE DEF n
  <2>3. /\ SubSeq(arg, n + 1, Len(arg)) \in Seq(Symbol)
        /\ Len(SubSeq(arg, n + 1, Len(arg))) = Len(text)
        /\ \A i \in 1..Len(text) : SubSeq(arg, n + 1, Len(arg))[i] = arg[n + i]
    <3>1. \A i \in (n + 1)..Len(arg) : arg[i] \in Symbol
      BY <1>1, <2>1
    <3>2. Len(arg) - (n + 1) + 1 = Len(text) /\ (n + 1 <= Len(arg) <=> Len(text) # 0)
      BY <1>1, <2>1
    <3>3. QED
      BY <1>1, <3>1, <3>2, SubSeqProperties
  <2>4. \A i \in 1..Len(text) : arg[n + i] = text[i]
    BY <1>1, <2>1
  <2>5. QED
    BY <1>1, <2>2, <2>3, <2>4, SeqEqual
<1>3. ASSUME IsPrefix(dash, arg), text = SubSeq(arg, n + 1, Len(arg))
      PROVE  arg = dash \o text
  BY <1>3, PrefixSplits
<1>4. QED
  BY <1>2, <1>3

\* One more symbol behind an argument.
LEMMA AppendsSymbol ==
    ASSUME NEW arg \in Seq(Symbol), NEW x \in Symbol
    PROVE  /\ Append(arg, x) \in Seq(Symbol) /\ Len(Append(arg, x)) = Len(arg) + 1
           /\ \A i \in 1..Len(arg) : Append(arg, x)[i] = arg[i]
           /\ Append(arg, x)[Len(arg) + 1] = x
OBVIOUS

\* The dashes in front of identifiers are symbols, and an identifier is one.
LEMMA IdSymbols ==
    ASSUME NEW c \in Identifier, c # NoId
    PROVE  /\ c \in Symbol /\ "-" \in Symbol /\ "=" \in Symbol
           /\ prepend_dash_short(c) = <<"-", c>> /\ <<"-", c>> \in Argument
           /\ prepend_dash_long(c) = <<"-", "-", c>> /\ <<"-", "-", c>> \in Argument
           /\ Append(prepend_dash_short(c), "=") = <<"-", c, "=">> /\ <<"-", c, "=">> \in Argument
           /\ Append(prepend_dash_long(c), "=") = <<"-", "-", c, "=">>
           /\ <<"-", "-", c, "=">> \in Argument
<1>1. c \in Symbol /\ "-" \in Symbol /\ "=" \in Symbol
  BY SymbolAssumption DEF Identifier
<1>2. prepend_dash_short(c) = <<"-", c>> /\ prepend_dash_long(c) = <<"-", "-", c>>
  BY DEF prepend_dash_short, prepend_dash_long
<1>3. /\ <<"-", c>> \in Seq(Symbol) /\ <<"-", "-", c>> \in Seq(Symbol)
      /\ <<"-", c, "=">> \in Seq(Symbol) /\ <<"-", "-", c, "=">> \in Seq(Symbol)
  BY <1>1
<1>4. Append(<<"-", c>>, "=") = <<"-", c, "=">>
  <2>. DEFINE d == <<"-", c>>
              e == <<"-", c, "=">>
  <2>1. d \in Seq(Symbol) /\ Len(d) = 2 /\ d[1] = "-" /\ d[2] = c
    BY <1>3
  <2>2. e \in Seq(Symbol) /\ Len(e) = 3 /\ e[1] = "-" /\ e[2] = c /\ e[3] = "="
    BY <1>3
  <2>. HIDE DEF d, e
  <2>3. /\ Append(d, "=") \in Seq(Symbol) /\ Len(Append(d, "=")) = 3
        /\ \A i \in 1..3 : Append(d, "=")[i] = e[i]
    <3>1. 1..2 = {1, 2} /\ 1..3 = {1, 2, 3}
      OBVIOUS
    <3>2. /\ Append(d, "=") \in Seq(Symbol) /\ Len(Append(d, "=")) = Len(d) + 1
          /\ \A i \in 1..Len(d) : Append(d, "=")[i] = d[i]
          /\ Append(d, "=")[Len(d) + 1] = "="
      BY <1>1, <2>1, AppendsSymbol
    <3>3. QED
      BY <2>1, <2>2, <3>1, <3>2
  <2>4. QED
    BY <2>2, <2>3, SeqEqual DEF d, e
<1>5. Append(<<"-", "-", c>>, "=") = <<"-", "-", c, "=">>
  <2>. DEFINE d == <<"-", "-", c>>
              e == <<"-", "-", c, "=">>
  <2>1. d \in Seq(Symbol) /\ Len(d) = 3 /\ d[1] = "-" /\ d[2] = "-" /\ d[3] = c
    BY <1>3
  <2>2. /\ e \in Seq(Symbol) /\ Len(e) = 4
        /\ e[1] = "-" /\ e[2] = "-" /\ e[3] = c /\ e[4] = "="
    BY <1>3
  <2>. HIDE DEF d, e
  <2>3. /\ Append(d, "=") \in Seq(Symbol) /\ Len(Append(d, "=")) = 4
        /\ \A i \in 1..4 : Append(d, "=")[i] = e[i]
    <3>1. 1..3 = {1, 2, 3} /\ 1..4 = {1, 2, 3, 4}
      OBVIOUS
    <3>2. /\ Append(d, "=") \in Seq(Symbol) /\ Len(Append(d, "=")) = Len(d) + 1
          /\ \A i \in 1..Len(d) : Append(d, "=")[i] = d[i]
          /\ Append(d, "=")[Len(d) + 1] = "="
      BY <1>1, <2>1, AppendsSymbol
    <3>3. QED
      BY <2>1, <2>2, <3>1, <3>2
  <2>4. QED
    BY <2>2, <2>3, SeqEqual DEF d, e
<1>6. QED
  BY <1>1, <1>2, <1>3, <1>4, <1>5 DEF Argument

\* An option is identified by its short identifier where an argument begins with it.
LEMMA IdentifiedByShort ==
    ASSUME NEW arg \in Argument, NEW c, c.short \in Identifier
    PROVE  IdentifiedBy(arg, OnlyShort(c.short)) <=> BeginsWithShort(c, arg)
<1>1. IdentifiedBy(arg, OnlyShort(c.short))
        <=> c.short # NoId /\ IsPrefix(prepend_dash_short(c.short), arg)
  BY DEF IdentifiedBy, OnlyShort
<1>2. ASSUME c.short # NoId
      PROVE  IsPrefix(prepend_dash_short(c.short), arg)
               <=> Len(arg) >= 2 /\ arg[1] = "-" /\ arg[2] = c.short
  <2>. DEFINE d == <<"-", c.short>>
  <2>1. d \in Argument /\ prepend_dash_short(c.short) = d
    BY <1>2, IdSymbols
  <2>2. Len(d) = 2 /\ d[1] = "-" /\ d[2] = c.short /\ Len(arg) \in Nat
    BY DEF Argument
  <2>. HIDE DEF d
  <2>3. 1..2 = {1, 2}
    OBVIOUS
  <2>4. IsPrefix(d, arg) <=> Len(d) <= Len(arg) /\ \A i \in 1..Len(d) : arg[i] = d[i]
    BY <2>1, PrefixSymbols
  <2>5. QED
    BY <2>1, <2>2, <2>3, <2>4
<1>3. QED
  BY <1>1, <1>2 DEF BeginsWithShort

\* The same for the long one.
LEMMA IdentifiedByLong ==
    ASSUME NEW arg \in Argument, NEW c, c.long \in Identifier
    PROVE  IdentifiedBy(arg, OnlyLong(c.long)) <=> BeginsWithLong(c, arg)
<1>1. IdentifiedBy(arg, OnlyLong(c.long))
        <=> /\ c.long # NoId
            /\ \/ arg = prepend_dash_long(c.long)
               \/ IsPrefix(Append(prepend_dash_long(c.long), "="), arg)
  BY DEF IdentifiedBy, OnlyLong
<1>2. ASSUME c.long # NoId
      PROVE  /\ arg = prepend_dash_long(c.long)
                  <=> Len(arg) = 3 /\ arg[1] = "-" /\ arg[2] = "-" /\ arg[3] = c.long
             /\ IsPrefix(Append(prepend_dash_long(c.long), "="), arg)
                  <=> /\ Len(arg) >= 4 /\ arg[1] = "-" /\ arg[2] = "-" /\ arg[3] = c.long
                      /\ arg[4] = "="
  <2>. DEFINE d == <<"-", "-", c.long>>
              e == <<"-", "-", c.long, "=">>
  <2>1. /\ d \in Argument /\ prepend_dash_long(c.long) = d
        /\ e \in Argument /\ Append(prepend_dash_long(c.long), "=") = e
    BY <1>2, IdSymbols
  <2>2. /\ Len(d) = 3 /\ d[1] = "-" /\ d[2] = "-" /\ d[3] = c.long /\ Len(arg) \in Nat
        /\ Len(e) = 4 /\ e[1] = "-" /\ e[2] = "-" /\ e[3] = c.long /\ e[4] = "="
    BY DEF Argument
  <2>. HIDE DEF d, e
  <2>3. IsPrefix(e, arg) <=> /\ Len(arg) >= 4 /\ arg[1] = "-" /\ arg[2] = "-" /\ arg[3] = c.long
                             /\ arg[4] = "="
    <3>1. 1..4 = {1, 2, 3, 4}
      OBVIOUS
    <3>2. IsPrefix(e, arg) <=> Len(e) <= Len(arg) /\ \A i \in 1..Len(e) : arg[i] = e[i]
      BY <2>1, PrefixSymbols
    <3>3. QED
      BY <2>2, <3>1, <3>2
  <2>4. arg = d <=> Len(arg) = 3 /\ arg[1] = "-" /\ arg[2] = "-" /\ arg[3] = c.long
    <3>1. ASSUME Len(arg) = 3, arg[1] = "-", arg[2] = "-", arg[3] = c.long PROVE arg = d
      <4>1. \A i \in 1..Len(arg) : arg[i] = d[i]
        BY <2>2, <3>1
      <4>2. QED
        BY <2>1, <2>2, <3>1, <4>1, SeqEqual DEF Argument
    <3>2. QED
      BY <2>2, <3>1
  <2>5. QED
    BY <2>1, <2>3, <2>4
<1>3. Len(arg) \in Nat
  BY DEF Argument
<1>4. CASE c.long # NoId
  <2>1. ASSUME NEW n \in Nat, NEW P \in BOOLEAN, NEW Q \in BOOLEAN
        PROVE  ((n = 3 /\ P) \/ (n >= 4 /\ P /\ Q)) <=> (n >= 3 /\ P /\ (n = 3 \/ Q))
    OBVIOUS
  <2>. DEFINE P == arg[1] = "-" /\ arg[2] = "-" /\ arg[3] = c.long
              Q == arg[4] = "="
  <2>2. IdentifiedBy(arg, OnlyLong(c.long))
          <=> (Len(arg) = 3 /\ P) \/ (Len(arg) >= 4 /\ P /\ Q)
    BY <1>1, <1>2, <1>4
  <2>3. BeginsWithLong(c, arg) <=> Len(arg) >= 3 /\ P /\ (Len(arg) = 3 \/ Q)
    BY <1>4 DEF BeginsWithLong
  <2>4. P \in BOOLEAN /\ Q \in BOOLEAN
    OBVIOUS
  <2>. HIDE DEF P, Q
  <2>5. QED
    BY <1>3, <2>1, <2>2, <2>3, <2>4
<1>5. CASE c.long = NoId
  BY <1>1, <1>5 DEF BeginsWithLong
<1>6. QED
  BY <1>4, <1>5

\* An argument that is an identifier.
LEMMA SpellsShape ==
    ASSUME NEW arg \in Argument, NEW c, IsNamed(c)
    PROVE  Spells(c, arg) <=> \/ BeginsWithShort(c, arg) /\ Len(arg) = 2
                              \/ BeginsWithLong(c, arg) /\ Len(arg) = 3
<1>1. ASSUME NEW d \in Argument
      PROVE  arg = d <=> Len(arg) = Len(d) /\ \A i \in 1..Len(d) : arg[i] = d[i]
  BY <1>1, SeqEqual DEF Argument
<1>2. ASSUME c.short # NoId
      PROVE  arg = prepend_dash_short(c.short) <=> Len(arg) = 2 /\ arg[1] = "-" /\ arg[2] = c.short
  <2>. DEFINE d == <<"-", c.short>>
  <2>1. d \in Argument /\ prepend_dash_short(c.short) = d
    BY <1>2, IdSymbols DEF IsNamed
  <2>2. Len(d) = 2 /\ d[1] = "-" /\ d[2] = c.short /\ 1..2 = {1, 2}
    OBVIOUS
  <2>. HIDE DEF d
  <2>3. arg = d <=> Len(arg) = Len(d) /\ \A i \in 1..Len(d) : arg[i] = d[i]
    BY <1>1, <2>1
  <2>4. QED
    BY <2>1, <2>2, <2>3
<1>3. ASSUME c.long # NoId
      PROVE  arg = prepend_dash_long(c.long)
               <=> Len(arg) = 3 /\ arg[1] = "-" /\ arg[2] = "-" /\ arg[3] = c.long
  <2>. DEFINE d == <<"-", "-", c.long>>
  <2>1. d \in Argument /\ prepend_dash_long(c.long) = d
    BY <1>3, IdSymbols DEF IsNamed
  <2>2. Len(d) = 3 /\ d[1] = "-" /\ d[2] = "-" /\ d[3] = c.long /\ 1..3 = {1, 2, 3}
    OBVIOUS
  <2>. HIDE DEF d
  <2>3. arg = d <=> Len(arg) = Len(d) /\ \A i \in 1..Len(d) : arg[i] = d[i]
    BY <1>1, <2>1
  <2>4. QED
    BY <2>1, <2>2, <2>3
<1>4. QED
  BY <1>2, <1>3 DEF Spells, BeginsWithShort, BeginsWithLong

\* The end of an argument.
LEMMA EndOfArgument ==
    ASSUME NEW arg \in Argument, NEW k \in Nat \ {0}
    PROVE  /\ SubSeq(arg, k, Len(arg)) \in Argument
           /\ SubSeq(arg, k, Len(arg)) # <<>> <=> Len(arg) >= k
           /\ Len(arg) >= k => SubSeq(arg, k, Len(arg))[1] = arg[k]
<1>. DEFINE n == Len(arg)
            text == SubSeq(arg, k, n)
<1>1. arg \in Seq(Symbol) /\ n \in Nat /\ \A i \in k..n : arg[i] \in Symbol
  BY DEF Argument
<1>2. /\ text \in Seq(Symbol)
      /\ Len(text) = IF k <= n THEN n - k + 1 ELSE 0
      /\ \A i \in 1..(n - k + 1) : text[i] = arg[k + i - 1]
  <2>. HIDE DEF n
  <2>1. QED
    BY <1>1, SubSeqProperties
<1>. HIDE DEF text, n
<1>3. text # <<>> <=> n >= k
  BY <1>1, <1>2
<1>4. ASSUME n >= k PROVE text[1] = arg[k]
  <2>1. 1 \in 1..(n - k + 1) /\ k + 1 - 1 = k
    BY <1>1, <1>4
  <2>2. QED
    BY <1>2, <2>1
<1>5. QED
  BY <1>2, <1>3, <1>4 DEF text, n, Argument

\* An argument that an identifier is glued to.
LEMMA GluesShape ==
    ASSUME NEW arg \in Argument, NEW c, IsNamed(c), NEW text \in Argument, text # <<>>
    PROVE  Glues(c, arg, text) <=> GluesText(c, arg) /\ text = GluedTextOf(c, arg)
<1>1. Len(arg) \in Nat /\ c.short # "-"
  BY DEF Argument, IsNamed
<1>2. ASSUME NEW k \in 3..5 PROVE /\ SubSeq(arg, k, Len(arg)) # <<>> <=> Len(arg) >= k
                                  /\ Len(arg) >= k => SubSeq(arg, k, Len(arg))[1] = arg[k]
  BY EndOfArgument
<1>3. ASSUME c.short # NoId
      PROVE  arg = prepend_dash_short(c.short) \o text
               <=> /\ Len(arg) >= 2 /\ arg[1] = "-" /\ arg[2] = c.short
                   /\ text = SubSeq(arg, 3, Len(arg))
  <2>. DEFINE d == <<"-", c.short>>
  <2>1. d \in Argument /\ prepend_dash_short(c.short) = d
    BY <1>3, IdSymbols DEF IsNamed
  <2>2. Len(d) = 2 /\ d[1] = "-" /\ d[2] = c.short /\ 1..2 = {1, 2}
    OBVIOUS
  <2>. HIDE DEF d
  <2>3. arg = d \o text <=> IsPrefix(d, arg) /\ text = SubSeq(arg, 3, Len(arg))
    <3>1. arg = d \o text <=> IsPrefix(d, arg) /\ text = SubSeq(arg, Len(d) + 1, Len(arg))
      BY <2>1, ConcatSplits
    <3>2. Len(d) + 1 = 3
      BY <2>2
    <3>3. QED
      BY <3>1, <3>2
  <2>4. IsPrefix(d, arg) <=> Len(d) <= Len(arg) /\ \A i \in 1..Len(d) : arg[i] = d[i]
    BY <2>1, PrefixSymbols
  <2>5. QED
    BY <1>1, <2>1, <2>2, <2>3, <2>4
<1>4. ASSUME c.short # NoId
      PROVE  arg = Append(prepend_dash_short(c.short), "=") \o text
               <=> /\ Len(arg) >= 3 /\ arg[1] = "-" /\ arg[2] = c.short /\ arg[3] = "="
                   /\ text = SubSeq(arg, 4, Len(arg))
  <2>. DEFINE d == <<"-", c.short, "=">>
  <2>1. d \in Argument /\ Append(prepend_dash_short(c.short), "=") = d
    BY <1>4, IdSymbols DEF IsNamed
  <2>2. Len(d) = 3 /\ d[1] = "-" /\ d[2] = c.short /\ d[3] = "=" /\ 1..3 = {1, 2, 3}
    OBVIOUS
  <2>. HIDE DEF d
  <2>3. arg = d \o text <=> IsPrefix(d, arg) /\ text = SubSeq(arg, 4, Len(arg))
    <3>1. arg = d \o text <=> IsPrefix(d, arg) /\ text = SubSeq(arg, Len(d) + 1, Len(arg))
      BY <2>1, ConcatSplits
    <3>2. Len(d) + 1 = 4
      BY <2>2
    <3>3. QED
      BY <3>1, <3>2
  <2>4. IsPrefix(d, arg) <=> Len(d) <= Len(arg) /\ \A i \in 1..Len(d) : arg[i] = d[i]
    BY <2>1, PrefixSymbols
  <2>5. QED
    BY <1>1, <2>1, <2>2, <2>3, <2>4
<1>5. ASSUME c.long # NoId
      PROVE  arg = Append(prepend_dash_long(c.long), "=") \o text
               <=> /\ Len(arg) >= 4 /\ arg[1] = "-" /\ arg[2] = "-" /\ arg[3] = c.long
                   /\ arg[4] = "=" /\ text = SubSeq(arg, 5, Len(arg))
  <2>. DEFINE d == <<"-", "-", c.long, "=">>
  <2>1. d \in Argument /\ Append(prepend_dash_long(c.long), "=") = d
    BY <1>5, IdSymbols DEF IsNamed
  <2>2. /\ Len(d) = 4 /\ d[1] = "-" /\ d[2] = "-" /\ d[3] = c.long /\ d[4] = "="
        /\ 1..4 = {1, 2, 3, 4}
    OBVIOUS
  <2>. HIDE DEF d
  <2>3. arg = d \o text <=> IsPrefix(d, arg) /\ text = SubSeq(arg, 5, Len(arg))
    <3>1. arg = d \o text <=> IsPrefix(d, arg) /\ text = SubSeq(arg, Len(d) + 1, Len(arg))
      BY <2>1, ConcatSplits
    <3>2. Len(d) + 1 = 5
      BY <2>2
    <3>3. QED
      BY <3>1, <3>2
  <2>4. IsPrefix(d, arg) <=> Len(d) <= Len(arg) /\ \A i \in 1..Len(d) : arg[i] = d[i]
    BY <2>1, PrefixSymbols
  <2>5. QED
    BY <1>1, <2>1, <2>2, <2>3, <2>4
<1>. DEFINE Short == c.short # NoId /\ Len(arg) >= 2 /\ arg[1] = "-" /\ arg[2] = c.short
            Long  == c.long # NoId /\ Len(arg) >= 4 /\ arg[1] = "-" /\ arg[2] = "-"
                     /\ arg[3] = c.long /\ arg[4] = "="
            T3 == SubSeq(arg, 3, Len(arg))
            T4 == SubSeq(arg, 4, Len(arg))
            T5 == SubSeq(arg, 5, Len(arg))
<1>6. Glues(c, arg, text)
        <=> \/ Short /\ Len(arg) >= 3 /\ arg[3] # "=" /\ text = T3
            \/ Short /\ Len(arg) >= 4 /\ arg[3] = "=" /\ text = T4
            \/ Long /\ Len(arg) >= 5 /\ text = T5
  <2>1. /\ text = T3 => Len(arg) >= 3 /\ text[1] = arg[3]
        /\ text = T4 => Len(arg) >= 4
        /\ text = T5 => Len(arg) >= 5
    BY <1>1, <1>2
  <2>. HIDE DEF T3, T4, T5
  <2>2. Glues(c, arg, text)
          <=> \/ Short /\ text[1] # "=" /\ text = T3
              \/ Short /\ Len(arg) >= 3 /\ arg[3] = "=" /\ text = T4
              \/ Long /\ text = T5
    <3>. DEFINE A3 == arg = prepend_dash_short(c.short) \o text
                A4 == arg = Append(prepend_dash_short(c.short), "=") \o text
                A5 == arg = Append(prepend_dash_long(c.long), "=") \o text
    <3>1. Glues(c, arg, text)
            <=> \/ c.short # NoId /\ text[1] # "=" /\ A3
                \/ c.short # NoId /\ A4
                \/ c.long # NoId /\ A5
      BY DEF Glues
    <3>2. c.short # NoId => (A3 <=> Short /\ text = T3)
      BY <1>3 DEF T3
    <3>3. c.short # NoId => (A4 <=> Short /\ Len(arg) >= 3 /\ arg[3] = "=" /\ text = T4)
      BY <1>1, <1>4 DEF T4
    <3>4. c.long # NoId => (A5 <=> Long /\ text = T5)
      BY <1>5 DEF T5
    <3>. HIDE DEF A3, A4, A5
    <3>5. (Short => c.short # NoId) /\ (Long => c.long # NoId)
      OBVIOUS
    <3>. HIDE DEF Short, Long
    <3>6. QED
      BY <3>1, <3>2, <3>3, <3>4, <3>5
  <2>. HIDE DEF Short, Long
  <2>3. QED
    BY <1>1, <2>1, <2>2
<1>7. GluesText(c, arg) /\ text = GluedTextOf(c, arg)
        <=> \/ Short /\ Len(arg) >= 3 /\ arg[3] # "=" /\ text = T3
            \/ Short /\ Len(arg) >= 4 /\ arg[3] = "=" /\ text = T4
            \/ Long /\ Len(arg) >= 5 /\ text = T5
  <2>1. /\ BeginsWithShort(c, arg) <=> Short
        /\ BeginsWithLong(c, arg) /\ Len(arg) >= 5 <=> Long /\ Len(arg) >= 5
        /\ ~(BeginsWithShort(c, arg) /\ BeginsWithLong(c, arg))
        /\ Long => BeginsWithLong(c, arg)
    BY <1>1 DEF BeginsWithShort, BeginsWithLong
  <2>. HIDE DEF T3, T4, T5, Short, Long
  <2>2. CASE BeginsWithLong(c, arg)
    <3>1. TextStart(c, arg) = 5 /\ GluedTextOf(c, arg) = T5
      BY <2>2 DEF TextStart, GluedTextOf, T5
    <3>2. QED
      BY <1>1, <2>1, <2>2, <3>1 DEF GluesText, BeginsWithId
  <2>3. CASE ~BeginsWithLong(c, arg)
    <3>1. /\ arg[3] = "=" => TextStart(c, arg) = 4 /\ GluedTextOf(c, arg) = T4
          /\ arg[3] # "=" => TextStart(c, arg) = 3 /\ GluedTextOf(c, arg) = T3
      BY <2>3 DEF TextStart, GluedTextOf, T3, T4
    <3>2. QED
      BY <1>1, <2>1, <2>3, <3>1 DEF GluesText, BeginsWithId
  <2>4. QED
    BY <2>2, <2>3
<1>8. QED
  BY <1>6, <1>7

\* The texts that the reading takes from an argument: none or one.
LEMMA GluedTextsAre ==
    ASSUME NEW arg \in Argument, NEW c, IsNamed(c)
    PROVE  /\ GluedTexts(c, arg) = IF GluesText(c, arg) THEN {GluedTextOf(c, arg)} ELSE {}
           /\ GluesText(c, arg) => GluedTextOf(c, arg) \in Argument
<1>1. Len(arg) \in Nat /\ TextStart(c, arg) \in 3..5
  BY DEF Argument, TextStart
<1>2. /\ GluedTextOf(c, arg) \in Argument
      /\ GluedTextOf(c, arg) # <<>> <=> Len(arg) >= TextStart(c, arg)
  <2>. DEFINE k == TextStart(c, arg)
  <2>1. k \in Nat \ {0} /\ GluedTextOf(c, arg) = SubSeq(arg, k, Len(arg))
    BY <1>1 DEF GluedTextOf
  <2>. HIDE DEF k
  <2>2. /\ SubSeq(arg, k, Len(arg)) \in Argument
        /\ SubSeq(arg, k, Len(arg)) # <<>> <=> Len(arg) >= k
    BY <2>1, EndOfArgument
  <2>3. QED
    BY <2>1, <2>2 DEF k
<1>3. GluesText(c, arg) => GluedTextOf(c, arg) \in Suffixes(arg) /\ GluedTextOf(c, arg) # <<>>
  <2>1. GluesText(c, arg) => TextStart(c, arg) \in 1..Len(arg)
    BY <1>1 DEF GluesText
  <2>2. QED
    BY <1>1, <1>2, <2>1 DEF Suffixes, GluedTextOf, GluesText
<1>4. \A text \in Suffixes(arg) : text \in Argument
  <2>1. \A l \in 1..Len(arg) : SubSeq(arg, l, Len(arg)) \in Argument
    BY EndOfArgument
  <2>2. QED
    BY <2>1, ErasedType DEF Suffixes, Erased
<1>5. \A text \in Suffixes(arg) : text # <<>> =>
          (Glues(c, arg, text) <=> GluesText(c, arg) /\ text = GluedTextOf(c, arg))
  BY <1>4, GluesShape
<1>6. QED
  BY <1>2, <1>3, <1>5 DEF GluedTexts

----------------------------------------------------------------------------
(***************************************************************************)
(* In a well-formed setup an argument begins with an identifier of one     *)
(* option at most, and such an argument names no flag.                     *)
(***************************************************************************)
\* The calls of a setup are numbered, and no identifier of them is the dash.
LEMMA CallsAreNamed ==
    ASSUME NEW s \in Setup, WellFormed(s)
    PROVE  /\ \A o \in DOMAIN s.options : IsNamed(s.options[o]) /\ o \in Nat \ {0}
           /\ \A f \in DOMAIN s.flags : IsNamed(s.flags[f]) /\ f \in Nat \ {0}
<1>1. s.options \in Seq(OptionCall) /\ s.flags \in Seq(FlagCall)
  BY DEF Setup
<1>2. ASSUME NEW o \in DOMAIN s.options PROVE IsNamed(s.options[o]) /\ o \in Nat \ {0}
  <2>1. s.options[o] \in OptionCall /\ o \in Nat \ {0}
    BY <1>1, ElementOfSeq, LenProperties
  <2>2. s.options[o].short # "-"
    BY DEF WellFormed, DashIsNoIdentifier
  <2>3. QED
    BY <2>1, <2>2 DEF OptionCall, IsNamed
<1>3. ASSUME NEW f \in DOMAIN s.flags PROVE IsNamed(s.flags[f]) /\ f \in Nat \ {0}
  <2>1. s.flags[f] \in FlagCall /\ f \in Nat \ {0}
    BY <1>1, ElementOfSeq, LenProperties
  <2>2. s.flags[f].short # "-"
    BY DEF WellFormed, DashIsNoIdentifier
  <2>3. QED
    BY <2>1, <2>2 DEF FlagCall, IsNamed
<1>4. QED
  BY <1>2, <1>3

\* No argument begins with identifiers of two options.
LEMMA OneOptionBegins ==
    ASSUME NEW s \in Setup, WellFormed(s), NEW arg \in Argument,
           NEW m \in DOMAIN s.options, NEW o \in DOMAIN s.options,
           BeginsWithId(s.options[m], arg), BeginsWithId(s.options[o], arg)
    PROVE  m = o
<1>1. s.options[m].short # "-" /\ s.options[o].short # "-"
  BY CallsAreNamed DEF IsNamed
<1>2. SamePair(s.options[m], s.options[o])
  BY <1>1 DEF BeginsWithId, BeginsWithShort, BeginsWithLong, SamePair
<1>3. QED
  BY <1>2 DEF WellFormed, CallsAreDistinct

\* What the reading makes of an argument that begins with an identifier.
LEMMA SpelledAndGlued ==
    ASSUME NEW s \in Setup, WellFormed(s), NEW arg \in Argument
    PROVE  /\ \A o \in DOMAIN s.options : Spells(s.options[o], arg) =>
                  /\ OptionsSpelled(s, arg) = {o} /\ The(OptionsSpelled(s, arg)) = o
                  /\ BeginsWithId(s.options[o], arg) /\ ~GluesText(s.options[o], arg)
                  /\ OptionsGlued(s, arg) = {}
           /\ \A o \in DOMAIN s.options : GluesText(s.options[o], arg) =>
                  /\ OptionsGlued(s, arg) = {o} /\ The(OptionsGlued(s, arg)) = o
                  /\ The(GluedTexts(s.options[o], arg)) = GluedTextOf(s.options[o], arg)
                  /\ GluedTextOf(s.options[o], arg) \in Argument
                  /\ BeginsWithId(s.options[o], arg) /\ ~Spells(s.options[o], arg)
                  /\ OptionsSpelled(s, arg) = {}
           /\ (\A o \in DOMAIN s.options : ~Spells(s.options[o], arg)) <=> OptionsSpelled(s, arg) = {}
           /\ (\A o \in DOMAIN s.options : ~GluesText(s.options[o], arg)) <=> OptionsGlued(s, arg) = {}
<1>1. Len(arg) \in Nat
  BY DEF Argument
<1>2. \A x : The({x}) = x
  BY DEF The
<1>3. ASSUME NEW o \in DOMAIN s.options
      PROVE  /\ Spells(s.options[o], arg) =>
                   BeginsWithId(s.options[o], arg) /\ ~GluesText(s.options[o], arg)
             /\ GluesText(s.options[o], arg) => BeginsWithId(s.options[o], arg)
             /\ GluedTexts(s.options[o], arg) =
                   IF GluesText(s.options[o], arg) THEN {GluedTextOf(s.options[o], arg)} ELSE {}
             /\ GluesText(s.options[o], arg) => GluedTextOf(s.options[o], arg) \in Argument
  <2>. DEFINE c == s.options[o]
  <2>1. IsNamed(c)
    BY CallsAreNamed
  <2>. HIDE DEF c
  <2>2. /\ GluedTexts(c, arg) = IF GluesText(c, arg) THEN {GluedTextOf(c, arg)} ELSE {}
        /\ GluesText(c, arg) => GluedTextOf(c, arg) \in Argument
    BY <2>1, GluedTextsAre
  <2>3. Spells(c, arg) <=> \/ BeginsWithShort(c, arg) /\ Len(arg) = 2
                           \/ BeginsWithLong(c, arg) /\ Len(arg) = 3
    BY <2>1, SpellsShape
  <2>4. /\ Len(arg) = 2 => ~GluesText(c, arg)
        /\ BeginsWithLong(c, arg) /\ Len(arg) = 3 => ~GluesText(c, arg)
    <3>1. BeginsWithLong(c, arg) => TextStart(c, arg) = 5
      BY DEF TextStart
    <3>2. GluesText(c, arg) => Len(arg) >= 3 /\ Len(arg) >= TextStart(c, arg)
      BY DEF GluesText
    <3>3. ASSUME GluesText(c, arg), Len(arg) = 2 PROVE FALSE
      BY <1>1, <3>2, <3>3
    <3>4. ASSUME GluesText(c, arg), BeginsWithLong(c, arg), Len(arg) = 3 PROVE FALSE
      BY <1>1, <3>1, <3>2, <3>4
    <3>5. QED
      BY <3>3, <3>4
  <2>5. QED
    BY <2>2, <2>3, <2>4 DEF BeginsWithId, GluesText, c
<1>4. \A m, o \in DOMAIN s.options :
         BeginsWithId(s.options[m], arg) /\ BeginsWithId(s.options[o], arg) => m = o
  BY OneOptionBegins
<1>5. \A o \in DOMAIN s.options : /\ o \in OptionsSpelled(s, arg) <=> Spells(s.options[o], arg)
                                  /\ o \in OptionsGlued(s, arg) <=> GluesText(s.options[o], arg)
  BY <1>3 DEF OptionsSpelled, OptionsGlued
<1>6. OptionsSpelled(s, arg) \subseteq DOMAIN s.options /\ OptionsGlued(s, arg) \subseteq DOMAIN s.options
  BY DEF OptionsSpelled, OptionsGlued
<1>7. ASSUME NEW o \in DOMAIN s.options, Spells(s.options[o], arg)
      PROVE  OptionsSpelled(s, arg) = {o} /\ OptionsGlued(s, arg) = {}
  BY <1>3, <1>4, <1>5, <1>6, <1>7
<1>8. ASSUME NEW o \in DOMAIN s.options, GluesText(s.options[o], arg)
      PROVE  OptionsSpelled(s, arg) = {} /\ OptionsGlued(s, arg) = {o}
             /\ ~Spells(s.options[o], arg)
  BY <1>3, <1>4, <1>5, <1>6, <1>8
<1>9. QED
  BY <1>2, <1>3, <1>5, <1>6, <1>7, <1>8

\* An argument identifies an option where it begins with one of its identifiers.
LEMMA IdentifiesWhereItBegins ==
    ASSUME NEW s \in Setup, WellFormed(s), NEW arg \in Argument
    PROVE  IdentifiesOption(s, arg) <=> \E o \in DOMAIN s.options : BeginsWithId(s.options[o], arg)
<1>1. ASSUME NEW o \in DOMAIN s.options
      PROVE  IdentifiedBy(arg, [short |-> s.options[o].short, long |-> s.options[o].long])
               <=> BeginsWithId(s.options[o], arg)
  <2>. DEFINE c == s.options[o]
  <2>1. c.short \in Identifier /\ c.long \in Identifier
    BY CallsAreNamed DEF IsNamed
  <2>. HIDE DEF c
  <2>2. /\ IdentifiedBy(arg, OnlyShort(c.short)) <=> BeginsWithShort(c, arg)
        /\ IdentifiedBy(arg, OnlyLong(c.long)) <=> BeginsWithLong(c, arg)
    BY <2>1, IdentifiedByShort, IdentifiedByLong
  <2>3. IdentifiedBy(arg, [short |-> c.short, long |-> c.long])
          <=> IdentifiedBy(arg, OnlyShort(c.short)) \/ IdentifiedBy(arg, OnlyLong(c.long))
    BY DEF IdentifiedBy, OnlyShort, OnlyLong
  <2>4. QED
    BY <2>2, <2>3 DEF BeginsWithId, c
<1>2. QED
  BY <1>1 DEF IdentifiesOption

\* What an argument that begins with an identifier is not.
LEMMA OptionNamesNoFlag ==
    ASSUME NEW s \in Setup, WellFormed(s), NEW arg \in Argument,
           NEW o \in DOMAIN s.options, BeginsWithId(s.options[o], arg)
    PROVE  /\ ~NamesFlags(s, arg) /\ MayBeIdentifier(arg) /\ arg # EndOfOptions
           /\ \A f \in DOMAIN s.flags : ~IsLongFlag(s.flags[f], arg)
<1>. DEFINE c == s.options[o]
<1>1. c.short # "-" /\ Len(arg) \in Nat
  BY CallsAreNamed DEF IsNamed, Argument
<1>2. \A f \in DOMAIN s.flags : ~SamePair(c, s.flags[f])
  BY DEF WellFormed, CallsAreDistinct
<1>3. BeginsWithId(c, arg)
  OBVIOUS
<1>. HIDE DEF c
<1>4. Len(arg) > 1 /\ arg[1] = "-" /\ arg # EndOfOptions
  BY <1>1, <1>3 DEF BeginsWithId, BeginsWithShort, BeginsWithLong, EndOfOptions
<1>5. MayBeIdentifier(arg)
  <2>1. arg # <<>> /\ arg # <<"-">>
    <3>1. ASSUME arg = <<>> PROVE FALSE
      BY <1>4, <3>1
    <3>2. ASSUME arg = <<"-">> PROVE FALSE
      BY <1>4, <3>2
    <3>3. QED
      BY <3>1, <3>2
  <2>2. QED
    BY <1>4, <2>1 DEF MayBeIdentifier, Erased
<1>6. ASSUME NEW f \in DOMAIN s.flags PROVE ~IsLongFlag(s.flags[f], arg)
  <2>1. ASSUME IsLongFlag(s.flags[f], arg) PROVE FALSE
    <3>1. Len(arg) = 3 /\ arg[2] = "-" /\ arg[3] = s.flags[f].long /\ s.flags[f].long # NoId
      BY <2>1 DEF IsLongFlag, prepend_dash_long
    <3>2. c.long # NoId /\ c.long = s.flags[f].long
      BY <1>1, <1>3, <3>1 DEF BeginsWithId, BeginsWithShort, BeginsWithLong
    <3>3. QED
      BY <1>2, <3>2 DEF SamePair
  <2>2. QED
    BY <2>1
<1>7. ~IsFlagGroup(s, arg)
  <2>1. ASSUME IsFlagGroup(s, arg) PROVE FALSE
    <3>1. arg[2] # "-" /\ 2 \in 2..Len(arg)
      BY <1>1, <1>4, <2>1 DEF IsFlagGroup, IsShortGroup
    <3>2. PICK f \in DOMAIN s.flags : s.flags[f].short # NoId /\ s.flags[f].short = arg[2]
      BY <2>1, <3>1 DEF IsFlagGroup
    <3>3. c.short # NoId /\ c.short = arg[2]
      BY <1>3, <3>1 DEF BeginsWithId, BeginsWithShort, BeginsWithLong
    <3>4. QED
      BY <1>2, <3>2, <3>3 DEF SamePair
  <2>2. QED
    BY <2>1
<1>8. QED
  BY <1>4, <1>5, <1>6, <1>7 DEF NamesFlags

\* What an argument that names flags is not.
LEMMA FlagsMayBeIdentifiers ==
    ASSUME NEW s, NEW arg \in Argument, NamesFlags(s, arg)
    PROVE  MayBeIdentifier(arg) /\ arg # EndOfOptions
<1>1. CASE IsFlagGroup(s, arg)
  <2>1. Len(arg) > 1 /\ arg[1] = "-" /\ arg[2] # "-"
    BY <1>1 DEF IsFlagGroup, IsShortGroup
  <2>2. arg # <<>> /\ arg # <<"-">> /\ arg # <<"-", "-">>
    BY <2>1
  <2>3. QED
    BY <2>1, <2>2 DEF MayBeIdentifier, Erased, EndOfOptions
<1>2. ASSUME NEW f \in DOMAIN s.flags, IsLongFlag(s.flags[f], arg)
      PROVE  MayBeIdentifier(arg) /\ arg # EndOfOptions
  <2>1. Len(arg) = 3 /\ arg[1] = "-"
    BY <1>2 DEF IsLongFlag, prepend_dash_long
  <2>2. arg # <<>> /\ arg # <<"-">> /\ arg # <<"-", "-">>
    BY <2>1
  <2>3. QED
    BY <2>1, <2>2 DEF MayBeIdentifier, Erased, EndOfOptions
<1>3. QED
  BY <1>1, <1>2 DEF NamesFlags

----------------------------------------------------------------------------
(***************************************************************************)
(* The command line itself: which arguments in front of "--" the options   *)
(* use, and which name flags or are operands, whatever the order of the    *)
(* add_* calls.                                                            *)
(***************************************************************************)
InFront(a) == 1..(EndOfOptionsIn(a) - 1)

BeginsBy(ident, c, arg) ==
    IF ident = "short" THEN BeginsWithShort(c, arg) ELSE BeginsWithLong(c, arg)

\* The places of one identifier of option o, "short" or "long".
PlacesOf(s, a, o, ident) == {p \in InFront(a) : BeginsBy(ident, s.options[o], a[p])}

IsSeparate(s, a, p) == p > 1 /\ OptionsSpelled(s, a[p - 1]) # {}

IsUsed(s, a, p) ==
    IsSeparate(s, a, p) \/ \E o \in DOMAIN s.options : BeginsWithId(s.options[o], a[p])

Free(s, a) == {p \in InFront(a) : ~IsUsed(s, a, p)}

HasValue(s, a, o, p) ==
    GluesText(s.options[o], a[p]) \/ (Spells(s.options[o], a[p]) /\ p + 1 \in InFront(a))

\* The free groups with the letter of a flag, and its free long identifiers.
Groups(s, a, f) == {p \in Free(s, a) : /\ IsShortGroup(a[p])
                                       /\ s.flags[f].short # NoId
                                       /\ HasLetter(a[p], s.flags[f].short)}

Longs(s, a, f) == {p \in Free(s, a) : IsLongFlag(s.flags[f], a[p])}

\* The argument a flag is taken from.
TakesLetter(s, a, f, p) == p \in Groups(s, a, f) /\ \A q \in Groups(s, a, f) : p <= q

TakesLong(s, a, f, p) ==
    Groups(s, a, f) = {} /\ p \in Longs(s, a, f) /\ \A q \in Longs(s, a, f) : p <= q

Twice(arg, c) == \E i, j \in 1..Len(arg) : i # j /\ arg[i] = c /\ arg[j] = c

IsOperand(s, a, p) ==
    /\ a[p] # Erased
    /\ (p \in Free(s, a) /\ ~MayBeIdentifier(a[p])) \/ p \in (EndOfOptionsIn(a) + 1)..Len(a)

Clean(s, a) == WellFormed(s) /\ Unambiguous(s, Reading(s, a), a)


----------------------------------------------------------------------------
(***************************************************************************)
(* The reading, argument by argument.                                      *)
(***************************************************************************)
\* What holds of 0 and is handed on holds up to n.
LEMMA UpTo ==
    ASSUME NEW n \in Nat, NEW S, 0 \in S, \A p \in 1..n : p - 1 \in S => p \in S
    PROVE  \A p \in 0..n : p \in S
<1>. DEFINE Rest == {p \in 0..n : p \notin S}
<1>1. ASSUME Rest # {} PROVE FALSE
  <2>1. Rest \subseteq Nat
    OBVIOUS
  <2>2. PICK m : m \in Rest /\ \A x \in Rest : m <= x
    BY <1>1, <2>1, MinIsFirst
  <2>3. m # 0
    BY <2>2
  <2>4. m \in 1..n /\ m - 1 \in 0..n /\ ~(m <= m - 1)
    BY <2>2, <2>3
  <2>5. m - 1 \in S
    BY <2>2, <2>4
  <2>6. QED
    BY <2>2, <2>4, <2>5
<1>2. QED
  BY <1>1

ReadingRecord(s) ==
    [awaits      : {0} \cup DOMAIN s.options,
     ended       : BOOLEAN,
     malformed   : BOOLEAN,
     options     : [DOMAIN s.options -> Seq(Value)],
     flags       : [DOMAIN s.flags -> SUBSET (Nat \X Nat)],
     positionals : Seq(Value)]

\* The readings begin with nothing and are read one argument after the other.
LEMMA ReadingsAre ==
    ASSUME NEW s, NEW a \in Seq(Argument)
    PROVE  /\ Readings(s, a)[0] = NothingRead(s)
           /\ \A p \in 1..Len(a) : Readings(s, a)[p] = ReadArgument(s, Readings(s, a)[p - 1], a[p], p)
<1>. DEFINE n == Len(a)
            Step(g, p) == IF p = 0 THEN NothingRead(s) ELSE ReadArgument(s, g[p - 1], a[p], p)
            S == {m \in 0..n : \E g : g = [p \in 0..m |-> Step(g, p)]}
<1>1. n \in Nat
  OBVIOUS
<1>. HIDE DEF n
<1>2. 0 \in S
  <2>. DEFINE g == [p \in 0..0 |-> NothingRead(s)]
  <2>1. \A p \in 0..0 : p = 0
    OBVIOUS
  <2>2. g = [p \in 0..0 |-> Step(g, p)]
    BY <2>1
  <2>. HIDE DEF g
  <2>3. \E h : h = [p \in 0..0 |-> Step(h, p)]
    BY <2>2
  <2>. HIDE DEF Step
  <2>4. QED
    BY <1>1, <2>3
<1>3. ASSUME NEW m \in 1..n, m - 1 \in S PROVE m \in S
  <2>1. PICK g : g = [p \in 0..(m - 1) |-> Step(g, p)]
    BY <1>3
  <2>. DEFINE h == [p \in 0..m |-> IF p = m THEN Step(g, m) ELSE g[p]]
  <2>2. ASSUME NEW p \in 0..m PROVE h[p] = Step(h, p)
    <3>1. CASE p = m
      <4>1. m - 1 \in 0..m /\ m - 1 # m /\ m # 0
        BY <1>1
      <4>2. h[m - 1] = g[m - 1]
        BY <4>1
      <4>3. h[p] = Step(g, m)
        BY <3>1
      <4>. HIDE DEF h
      <4>4. QED
        BY <3>1, <4>1, <4>2, <4>3
    <3>2. CASE p # m
      <4>1. p \in 0..(m - 1) /\ (p # 0 => p - 1 \in 0..m /\ p - 1 # m)
        BY <1>1, <3>2
      <4>2. h[p] = g[p] /\ (p # 0 => h[p - 1] = g[p - 1])
        BY <3>2, <4>1
      <4>3. g[p] = Step(g, p)
        <5>. HIDE DEF Step
        <5>1. QED
          BY <2>1, <4>1
      <4>. HIDE DEF h
      <4>4. QED
        BY <4>1, <4>2, <4>3
    <3>3. QED
      BY <3>1, <3>2
  <2>3. h = [p \in 0..m |-> h[p]]
    OBVIOUS
  <2>4. h = [p \in 0..m |-> Step(h, p)]
    <3>. HIDE DEF h, Step
    <3>1. QED
      BY <2>2, <2>3
  <2>. HIDE DEF h, Step
  <2>5. m \in 0..n
    BY <1>1
  <2>6. QED
    BY <2>4, <2>5
<1>4. \E g : g = [p \in 0..n |-> Step(g, p)]
  <2>1. \A p \in 0..n : p \in S
    <3>. HIDE DEF S
    <3>1. QED
      BY <1>1, <1>2, <1>3, UpTo
  <2>2. n \in S
    <3>. HIDE DEF S
    <3>1. QED
      BY <1>1, <2>1
  <2>3. QED
    BY <2>2
<1>. DEFINE r == Readings(s, a)
<1>5. r = [p \in 0..n |-> Step(r, p)]
  <2>1. r = CHOOSE g : g = [p \in 0..n |-> Step(g, p)]
    BY DEF Readings, n
  <2>. HIDE DEF r, Step
  <2>2. QED
    BY <1>4, <2>1
<1>. HIDE DEF r
<1>6. r[0] = NothingRead(s)
  <2>1. 0 \in 0..n
    BY <1>1
  <2>2. QED
    BY <1>5, <2>1
<1>7. ASSUME NEW p \in 1..n PROVE r[p] = ReadArgument(s, r[p - 1], a[p], p)
  <2>1. p \in 0..n /\ p # 0
    BY <1>1
  <2>2. r[p] = Step(r, p)
    <3>. HIDE DEF Step
    <3>1. QED
      BY <1>5, <2>1
  <2>3. QED
    BY <2>1, <2>2
<1>8. QED
  BY <1>6, <1>7 DEF r, n

\* One more value behind the others.
Added(values, text, p) == Append(values, [text |-> text, at |-> p])

\* What a value changes of a reading.
LEMMA ReadValueParts ==
    ASSUME NEW s, NEW r \in ReadingRecord(s), NEW p \in Nat,
           NEW o \in DOMAIN s.options, NEW text \in Argument, NEW q, q = ReadValue(r, o, text, p)
    PROVE  /\ q \in ReadingRecord(s)
           /\ q.awaits = 0 /\ q.ended = r.ended /\ q.malformed = r.malformed
           /\ q.options[o] = Added(r.options[o], text, p)
           /\ \A m \in DOMAIN s.options : m # o => q.options[m] = r.options[m]
           /\ q.flags = r.flags /\ q.positionals = r.positionals
<1>0. /\ r.awaits \in {0} \cup DOMAIN s.options /\ r.ended \in BOOLEAN /\ r.malformed \in BOOLEAN
      /\ r.options \in [DOMAIN s.options -> Seq(Value)]
      /\ r.flags \in [DOMAIN s.flags -> SUBSET (Nat \X Nat)]
      /\ r.positionals \in Seq(Value)
      /\ r = [awaits |-> r.awaits, ended |-> r.ended, malformed |-> r.malformed,
              options |-> r.options, flags |-> r.flags, positionals |-> r.positionals]
  BY DEF ReadingRecord
<1>. DEFINE read == [text |-> text, at |-> p]
            options == [r.options EXCEPT ![o] = Append(r.options[o], read)]
<1>1. read \in Value
  BY ValueType
<1>. HIDE DEF read
<1>2. options \in [DOMAIN s.options -> Seq(Value)]
  BY <1>0, <1>1
<1>3. ReadValue(r, o, text, p) = [r EXCEPT !.options = options, !.awaits = 0]
  BY <1>0 DEF ReadValue, read
<1>. HIDE DEF options
<1>4. [r EXCEPT !.options = options, !.awaits = 0]
        = [awaits |-> 0, ended |-> r.ended, malformed |-> r.malformed,
           options |-> options, flags |-> r.flags, positionals |-> r.positionals]
  <2>. DEFINE r1 == [r EXCEPT !.options = options]
  <2>1. r1 = [awaits |-> r.awaits, ended |-> r.ended, malformed |-> r.malformed,
              options |-> options, flags |-> r.flags, positionals |-> r.positionals]
    BY <1>0
  <2>. HIDE DEF r1
  <2>2. [r1 EXCEPT !.awaits = 0]
          = [awaits |-> 0, ended |-> r.ended, malformed |-> r.malformed,
             options |-> options, flags |-> r.flags, positionals |-> r.positionals]
    BY <2>1
  <2>3. QED
    BY <2>2 DEF r1
<1>5. q = [awaits |-> 0, ended |-> r.ended, malformed |-> r.malformed,
           options |-> options, flags |-> r.flags, positionals |-> r.positionals]
  BY <1>3, <1>4
<1>6. q \in ReadingRecord(s)
  BY <1>0, <1>2, <1>5 DEF ReadingRecord
<1>7. /\ q.awaits = 0 /\ q.ended = r.ended /\ q.malformed = r.malformed
      /\ q.options = options /\ q.flags = r.flags /\ q.positionals = r.positionals
  BY <1>5
<1>8. QED
  BY <1>0, <1>6, <1>7 DEF options, read, Added

\* What an operand changes.
LEMMA ReadOperandParts ==
    ASSUME NEW s, NEW r \in ReadingRecord(s), NEW p \in Nat,
           NEW arg \in Argument, NEW q, q = ReadOperand(r, arg, p)
    PROVE  /\ q \in ReadingRecord(s)
           /\ q.awaits = r.awaits /\ q.ended = r.ended /\ q.malformed = r.malformed
           /\ q.options = r.options /\ q.flags = r.flags
           /\ arg = Erased => q.positionals = r.positionals
           /\ arg # Erased => q.positionals = Added(r.positionals, arg, p)
<1>0. /\ r.awaits \in {0} \cup DOMAIN s.options /\ r.ended \in BOOLEAN /\ r.malformed \in BOOLEAN
      /\ r.options \in [DOMAIN s.options -> Seq(Value)]
      /\ r.flags \in [DOMAIN s.flags -> SUBSET (Nat \X Nat)]
      /\ r.positionals \in Seq(Value)
      /\ r = [awaits |-> r.awaits, ended |-> r.ended, malformed |-> r.malformed,
              options |-> r.options, flags |-> r.flags, positionals |-> r.positionals]
  BY DEF ReadingRecord
<1>. DEFINE read == [text |-> arg, at |-> p]
            positionals == IF arg = Erased THEN r.positionals ELSE Append(r.positionals, read)
<1>1. read \in Value
  BY ValueType
<1>2. positionals \in Seq(Value)
  <2>. HIDE DEF read
  <2>1. QED
    BY <1>0, <1>1
<1>3. q = [awaits |-> r.awaits, ended |-> r.ended, malformed |-> r.malformed,
           options |-> r.options, flags |-> r.flags, positionals |-> positionals]
  <2>1. CASE arg = Erased
    BY <1>0, <2>1 DEF ReadOperand
  <2>2. CASE arg # Erased
    <3>1. q = [r EXCEPT !.positionals = positionals]
      BY <2>2 DEF ReadOperand
    <3>. HIDE DEF positionals
    <3>2. QED
      BY <1>0, <3>1
  <2>3. QED
    BY <2>1, <2>2
<1>. HIDE DEF positionals
<1>4. q \in ReadingRecord(s)
  BY <1>0, <1>2, <1>3 DEF ReadingRecord
<1>5. /\ q.awaits = r.awaits /\ q.ended = r.ended /\ q.malformed = r.malformed
      /\ q.options = r.options /\ q.flags = r.flags /\ q.positionals = positionals
  BY <1>3
<1>6. QED
  BY <1>4, <1>5 DEF positionals, Added

\* What the flags of an argument change.
LEMMA ReadFlagsParts ==
    ASSUME NEW s, NEW r \in ReadingRecord(s), NEW p \in Nat,
           NEW arg \in Argument, NEW q, q = ReadFlags(s, r, arg, p)
    PROVE  /\ q \in ReadingRecord(s)
           /\ q.awaits = r.awaits /\ q.ended = r.ended /\ q.malformed = r.malformed
           /\ q.options = r.options /\ q.positionals = r.positionals
           /\ \A f \in DOMAIN s.flags :
                 q.flags[f] = r.flags[f] \cup ({p} \X FlagIn(s.flags[f], arg))
<1>0. /\ r.awaits \in {0} \cup DOMAIN s.options /\ r.ended \in BOOLEAN /\ r.malformed \in BOOLEAN
      /\ r.options \in [DOMAIN s.options -> Seq(Value)]
      /\ r.flags \in [DOMAIN s.flags -> SUBSET (Nat \X Nat)]
      /\ r.positionals \in Seq(Value)
      /\ r = [awaits |-> r.awaits, ended |-> r.ended, malformed |-> r.malformed,
              options |-> r.options, flags |-> r.flags, positionals |-> r.positionals]
  BY DEF ReadingRecord
<1>. DEFINE flags == [f \in DOMAIN s.flags |-> r.flags[f] \cup ({p} \X FlagIn(s.flags[f], arg))]
<1>1. \A f \in DOMAIN s.flags : FlagIn(s.flags[f], arg) \subseteq Nat
  BY DEF FlagIn
<1>2. \A f \in DOMAIN s.flags : flags[f] \in SUBSET (Nat \X Nat)
  BY <1>0, <1>1
<1>3. q = [r EXCEPT !.flags = flags]
  BY DEF ReadFlags
<1>4. \A f \in DOMAIN s.flags :
         flags[f] = r.flags[f] \cup ({p} \X FlagIn(s.flags[f], arg))
  OBVIOUS
<1>5. DOMAIN flags = DOMAIN s.flags /\ flags = [f \in DOMAIN s.flags |-> flags[f]]
  OBVIOUS
<1>. HIDE DEF flags
<1>6. flags \in [DOMAIN s.flags -> SUBSET (Nat \X Nat)]
  BY <1>2, <1>5
<1>7. q = [awaits |-> r.awaits, ended |-> r.ended, malformed |-> r.malformed,
           options |-> r.options, flags |-> flags, positionals |-> r.positionals]
  BY <1>0, <1>3
<1>8. q \in ReadingRecord(s)
  BY <1>0, <1>6, <1>7 DEF ReadingRecord
<1>9. /\ q.awaits = r.awaits /\ q.ended = r.ended /\ q.malformed = r.malformed
      /\ q.options = r.options /\ q.flags = flags /\ q.positionals = r.positionals
  BY <1>7
<1>10. QED
  BY <1>4, <1>8, <1>9

\* The cases of an argument that is no value of the option in front of it.
LEMMA ReadIdentifierCases ==
    ASSUME NEW s \in Setup, WellFormed(s), NEW r \in ReadingRecord(s), NEW arg \in Argument,
           NEW p \in Nat, NEW q, q = ReadIdentifier(s, r, arg, p)
    PROVE  /\ arg = EndOfOptions => q = [r EXCEPT !.ended = TRUE]
           /\ \A o \in DOMAIN s.options :
                 /\ Spells(s.options[o], arg) => q = [r EXCEPT !.awaits = o]
                 /\ GluesText(s.options[o], arg) =>
                       q = ReadValue(r, o, GluedTextOf(s.options[o], arg), p)
           /\ /\ arg # EndOfOptions
              /\ \A o \in DOMAIN s.options :
                    ~Spells(s.options[o], arg) /\ ~GluesText(s.options[o], arg)
              => /\ NamesFlags(s, arg) => q = ReadFlags(s, r, arg, p)
                 /\ ~MayBeIdentifier(arg) => q = ReadOperand(r, arg, p)
                 /\ ~NamesFlags(s, arg) /\ MayBeIdentifier(arg)
                       => q = [r EXCEPT !.malformed = TRUE]
<1>. DEFINE e == arg = EndOfOptions
            os == OptionsSpelled(s, arg)
            og == OptionsGlued(s, arg)
<1>1. q = CASE e -> [r EXCEPT !.ended = TRUE]
            [] os # {} -> [r EXCEPT !.awaits = The(os)]
            [] og # {} -> ReadValue(r, The(og), The(GluedTexts(s.options[The(og)], arg)), p)
            [] NamesFlags(s, arg) -> ReadFlags(s, r, arg, p)
            [] ~MayBeIdentifier(arg) -> ReadOperand(r, arg, p)
            [] OTHER -> [r EXCEPT !.malformed = TRUE]
  BY DEF ReadIdentifier
<1>2. /\ \A o \in DOMAIN s.options : Spells(s.options[o], arg) =>
            os = {o} /\ The(os) = o /\ og = {} /\ BeginsWithId(s.options[o], arg)
      /\ \A o \in DOMAIN s.options : GluesText(s.options[o], arg) =>
            /\ og = {o} /\ The(og) = o /\ os = {} /\ BeginsWithId(s.options[o], arg)
            /\ The(GluedTexts(s.options[o], arg)) = GluedTextOf(s.options[o], arg)
      /\ (\A o \in DOMAIN s.options : ~Spells(s.options[o], arg)) => os = {}
      /\ (\A o \in DOMAIN s.options : ~GluesText(s.options[o], arg)) => og = {}
      /\ os \subseteq DOMAIN s.options /\ og \subseteq DOMAIN s.options
      /\ \A o \in os : Spells(s.options[o], arg)
  BY SpelledAndGlued DEF OptionsSpelled, OptionsGlued
<1>3. \A o \in DOMAIN s.options : BeginsWithId(s.options[o], arg)
         => ~NamesFlags(s, arg) /\ MayBeIdentifier(arg) /\ ~e
  BY OptionNamesNoFlag
<1>4. NamesFlags(s, arg) => MayBeIdentifier(arg) /\ ~e
  BY FlagsMayBeIdentifiers
<1>5. MayBeIdentifier(EndOfOptions)
  <2>1. EndOfOptions[1] = "-" /\ EndOfOptions # <<>> /\ EndOfOptions # <<"-">>
    BY DEF EndOfOptions
  <2>2. QED
    BY <2>1 DEF MayBeIdentifier, Erased
<1>6. ASSUME NEW o \in DOMAIN s.options, Spells(s.options[o], arg)
      PROVE  q = [r EXCEPT !.awaits = o]
  <2>1. /\ ~e /\ os # {} /\ The(os) = o /\ ~(og # {}) /\ ~NamesFlags(s, arg)
        /\ MayBeIdentifier(arg)
    BY <1>2, <1>3, <1>6
  <2>. HIDE DEF e, os, og
  <2>2. QED
    BY <1>1, <2>1
<1>7. ASSUME NEW o \in DOMAIN s.options, GluesText(s.options[o], arg)
      PROVE  q = ReadValue(r, o, GluedTextOf(s.options[o], arg), p)
  <2>1. /\ ~e /\ ~(os # {}) /\ og # {} /\ The(og) = o /\ ~NamesFlags(s, arg)
        /\ MayBeIdentifier(arg)
        /\ The(GluedTexts(s.options[o], arg)) = GluedTextOf(s.options[o], arg)
    BY <1>2, <1>3, <1>7
  <2>. HIDE DEF e, os, og
  <2>2. QED
    BY <1>1, <2>1
<1>8. ASSUME e PROVE q = [r EXCEPT !.ended = TRUE]
  <2>1. ~(os # {}) /\ ~(og # {}) /\ ~NamesFlags(s, arg) /\ MayBeIdentifier(arg)
    <3>1. /\ \A o \in DOMAIN s.options : ~BeginsWithId(s.options[o], arg)
          /\ ~NamesFlags(s, arg) /\ MayBeIdentifier(arg)
      BY <1>3, <1>4, <1>5, <1>8
    <3>2. os = {} /\ og = {}
      BY <1>2, <3>1
    <3>3. QED
      BY <3>1, <3>2
  <2>. HIDE DEF os, og
  <2>2. QED
    BY <1>1, <1>8, <2>1
<1>9. ASSUME ~e, \A o \in DOMAIN s.options :
                     ~Spells(s.options[o], arg) /\ ~GluesText(s.options[o], arg)
      PROVE  /\ NamesFlags(s, arg) => q = ReadFlags(s, r, arg, p)
             /\ ~MayBeIdentifier(arg) => q = ReadOperand(r, arg, p)
             /\ ~NamesFlags(s, arg) /\ MayBeIdentifier(arg) => q = [r EXCEPT !.malformed = TRUE]
  <2>1. os = {} /\ og = {}
    BY <1>2, <1>9
  <2>. HIDE DEF e, os, og
  <2>2. QED
    BY <1>1, <1>4, <1>9, <2>1
<1>10. QED
  BY <1>6, <1>7, <1>8, <1>9

\* What the marks change of a reading.
LEMMA ReadMarks ==
    ASSUME NEW s, NEW r \in ReadingRecord(s), NEW q
    PROVE  /\ q = [r EXCEPT !.ended = TRUE] =>
                 /\ q \in ReadingRecord(s) /\ q.ended
                 /\ q.awaits = r.awaits /\ q.malformed = r.malformed
                 /\ q.options = r.options /\ q.flags = r.flags /\ q.positionals = r.positionals
           /\ q = [r EXCEPT !.malformed = TRUE] =>
                 /\ q \in ReadingRecord(s) /\ q.malformed
                 /\ q.awaits = r.awaits /\ q.ended = r.ended
                 /\ q.options = r.options /\ q.flags = r.flags /\ q.positionals = r.positionals
           /\ \A o \in DOMAIN s.options : q = [r EXCEPT !.awaits = o] =>
                 /\ q \in ReadingRecord(s) /\ q.awaits = o
                 /\ q.ended = r.ended /\ q.malformed = r.malformed
                 /\ q.options = r.options /\ q.flags = r.flags /\ q.positionals = r.positionals
BY DEF ReadingRecord

\* Everything one reading has read is part of another.
Extends(s, r, q) ==
    /\ r.malformed => q.malformed
    /\ \A o \in DOMAIN s.options :
          /\ Len(r.options[o]) <= Len(q.options[o])
          /\ \A k \in 1..Len(r.options[o]) : q.options[o][k] = r.options[o][k]

\* A value behind the others.
LEMMA AppendsValue ==
    ASSUME NEW values \in Seq(Value), NEW v \in Value
    PROVE  /\ Append(values, v) \in Seq(Value) /\ Len(Append(values, v)) = Len(values) + 1
           /\ \A k \in 1..Len(values) : Append(values, v)[k] = values[k]
           /\ Append(values, v)[Len(values) + 1] = v
OBVIOUS

\* Every argument is read into a reading, which keeps what was read before.
LEMMA ReadArgumentType ==
    ASSUME NEW s \in Setup, WellFormed(s), NEW r \in ReadingRecord(s), NEW arg \in Argument,
           NEW p \in Nat
    PROVE  /\ ReadArgument(s, r, arg, p) \in ReadingRecord(s)
           /\ Extends(s, r, ReadArgument(s, r, arg, p))
<1>. DEFINE Good(x) == x \in ReadingRecord(s) /\ Extends(s, r, x)
<1>0. r.options \in [DOMAIN s.options -> Seq(Value)] /\ r.awaits \in {0} \cup DOMAIN s.options
  BY DEF ReadingRecord
<1>1. ASSUME NEW x \in ReadingRecord(s), r.malformed => x.malformed, x.options = r.options
      PROVE  Good(x)
  BY <1>0, <1>1 DEF Extends
<1>2. ASSUME NEW o \in DOMAIN s.options, NEW text \in Argument
      PROVE  Good(ReadValue(r, o, text, p))
  <2>. DEFINE v == [text |-> text, at |-> p]
  <2>0. PICK x : x = ReadValue(r, o, text, p)
    OBVIOUS
  <2>1. /\ x \in ReadingRecord(s) /\ x.malformed = r.malformed
        /\ x.options[o] = Added(r.options[o], text, p)
        /\ \A m \in DOMAIN s.options : m # o => x.options[m] = r.options[m]
    BY <2>0, ReadValueParts
  <2>2. v \in Value
    BY ValueType
  <2>. HIDE DEF v
  <2>3. ASSUME NEW m \in DOMAIN s.options
        PROVE  /\ Len(r.options[m]) <= Len(x.options[m])
               /\ \A k \in 1..Len(r.options[m]) : x.options[m][k] = r.options[m][k]
    <3>1. x.options[m] = IF m = o THEN Append(r.options[m], v) ELSE r.options[m]
      BY <2>1 DEF Added, v
    <3>2. r.options[m] \in Seq(Value)
      BY <1>0
    <3>3. QED
      BY <2>2, <3>1, <3>2, AppendsValue
  <2>4. QED
    BY <2>0, <2>1, <2>3 DEF Extends
<1>3. Good(ReadOperand(r, arg, p)) /\ Good(ReadFlags(s, r, arg, p))
  <2>1. PICK x, y : x = ReadOperand(r, arg, p) /\ y = ReadFlags(s, r, arg, p)
    OBVIOUS
  <2>2. x \in ReadingRecord(s) /\ x.malformed = r.malformed /\ x.options = r.options
    BY <2>1, ReadOperandParts
  <2>3. y \in ReadingRecord(s) /\ y.malformed = r.malformed /\ y.options = r.options
    BY <2>1, ReadFlagsParts
  <2>. HIDE DEF Good
  <2>4. QED
    BY <1>1, <2>1, <2>2, <2>3
<1>4. ASSUME NEW x,
             \/ x = [r EXCEPT !.ended = TRUE]
             \/ x = [r EXCEPT !.malformed = TRUE]
             \/ \E o \in DOMAIN s.options : x = [r EXCEPT !.awaits = o]
      PROVE  Good(x)
  <2>1. x \in ReadingRecord(s) /\ (r.malformed => x.malformed) /\ x.options = r.options
    BY <1>4, ReadMarks
  <2>. HIDE DEF Good
  <2>2. QED
    BY <1>1, <2>1
<1>5. Good(ReadIdentifier(s, r, arg, p))
  <2>0. PICK x : x = ReadIdentifier(s, r, arg, p)
    OBVIOUS
  <2>1. /\ arg = EndOfOptions => x = [r EXCEPT !.ended = TRUE]
        /\ \A o \in DOMAIN s.options :
              /\ Spells(s.options[o], arg) => x = [r EXCEPT !.awaits = o]
              /\ GluesText(s.options[o], arg) =>
                    x = ReadValue(r, o, GluedTextOf(s.options[o], arg), p)
        /\ /\ arg # EndOfOptions
           /\ \A o \in DOMAIN s.options :
                 ~Spells(s.options[o], arg) /\ ~GluesText(s.options[o], arg)
           => /\ NamesFlags(s, arg) => x = ReadFlags(s, r, arg, p)
              /\ ~MayBeIdentifier(arg) => x = ReadOperand(r, arg, p)
              /\ ~NamesFlags(s, arg) /\ MayBeIdentifier(arg) => x = [r EXCEPT !.malformed = TRUE]
    BY <2>0, ReadIdentifierCases
  <2>2. \A o \in DOMAIN s.options : GluesText(s.options[o], arg)
           => GluedTextOf(s.options[o], arg) \in Argument
    BY SpelledAndGlued
  <2>. HIDE DEF Good
  <2>3. CASE arg = EndOfOptions
    BY <1>4, <2>0, <2>1, <2>3
  <2>4. CASE \E o \in DOMAIN s.options : Spells(s.options[o], arg)
    BY <1>4, <2>0, <2>1, <2>4
  <2>5. CASE \E o \in DOMAIN s.options : GluesText(s.options[o], arg)
    BY <1>2, <2>0, <2>1, <2>2, <2>5
  <2>6. CASE /\ arg # EndOfOptions
             /\ \A o \in DOMAIN s.options :
                   ~Spells(s.options[o], arg) /\ ~GluesText(s.options[o], arg)
    <3>1. \/ x = ReadFlags(s, r, arg, p) \/ x = ReadOperand(r, arg, p)
          \/ x = [r EXCEPT !.malformed = TRUE]
      BY <2>1, <2>6
    <3>2. QED
      BY <1>3, <1>4, <2>0, <3>1
  <2>7. QED
    BY <2>3, <2>4, <2>5, <2>6
<1>6. \/ r.awaits # 0 /\ ReadArgument(s, r, arg, p) = ReadValue(r, r.awaits, arg, p)
      \/ ReadArgument(s, r, arg, p) = ReadOperand(r, arg, p)
      \/ ReadArgument(s, r, arg, p) = ReadIdentifier(s, r, arg, p)
  BY DEF ReadArgument
<1>7. Good(ReadArgument(s, r, arg, p))
  <2>. HIDE DEF Good
  <2>1. QED
    BY <1>0, <1>2, <1>3, <1>5, <1>6
<1>8. QED
  BY <1>7

\* The readings of a command line, and that a later one keeps what an earlier one has read.
LEMMA ReadingTypes ==
    ASSUME NEW s \in Setup, WellFormed(s), NEW a \in Seq(Argument)
    PROVE  /\ \A p \in 0..Len(a) : Readings(s, a)[p] \in ReadingRecord(s)
           /\ \A p, q \in 0..Len(a) : p <= q => Extends(s, Readings(s, a)[p], Readings(s, a)[q])
<1>. DEFINE n == Len(a)
            R == Readings(s, a)
            S == {p \in 0..n : R[p] \in ReadingRecord(s)}
<1>1. n \in Nat /\ \A p \in 1..n : a[p] \in Argument
  OBVIOUS
<1>2. R[0] = NothingRead(s) /\ \A p \in 1..n : R[p] = ReadArgument(s, R[p - 1], a[p], p)
  BY ReadingsAre
<1>. HIDE DEF n, R
<1>3. 0 \in S
  <2>1. NothingRead(s) \in ReadingRecord(s)
    <3>1. <<>> \in Seq(Value)
      OBVIOUS
    <3>2. QED
      BY <3>1 DEF NothingRead, ReadingRecord
  <2>2. QED
    BY <1>1, <1>2, <2>1
<1>4. ASSUME NEW p \in 1..n, p - 1 \in S PROVE p \in S
  <2>1. p \in Nat /\ a[p] \in Argument /\ p \in 0..n /\ R[p - 1] \in ReadingRecord(s)
    BY <1>1, <1>4
  <2>2. ReadArgument(s, R[p - 1], a[p], p) \in ReadingRecord(s)
    BY <2>1, ReadArgumentType
  <2>3. QED
    BY <1>2, <2>1, <2>2
<1>5. \A p \in 0..n : p \in S
  <2>. HIDE DEF S
  <2>1. QED
    BY <1>1, <1>3, <1>4, UpTo
<1>6. \A p \in 1..n : Extends(s, R[p - 1], R[p])
  <2>1. TAKE p \in 1..n
  <2>2. p \in Nat /\ a[p] \in Argument /\ p - 1 \in 0..n
    BY <1>1
  <2>3. R[p - 1] \in ReadingRecord(s)
    BY <1>5, <2>2
  <2>4. Extends(s, R[p - 1], ReadArgument(s, R[p - 1], a[p], p))
    BY <2>2, <2>3, ReadArgumentType
  <2>5. QED
    BY <1>2, <2>4
<1>7. ASSUME NEW x \in ReadingRecord(s), NEW y \in ReadingRecord(s), NEW z \in ReadingRecord(s),
             Extends(s, x, y), Extends(s, y, z)
      PROVE  Extends(s, x, z)
  <2>1. ASSUME NEW o \in DOMAIN s.options
        PROVE  /\ Len(x.options[o]) <= Len(z.options[o])
               /\ \A k \in 1..Len(x.options[o]) : z.options[o][k] = x.options[o][k]
    <3>1. /\ x.options[o] \in Seq(Value) /\ y.options[o] \in Seq(Value)
          /\ z.options[o] \in Seq(Value)
      BY DEF ReadingRecord
    <3>2. /\ Len(x.options[o]) \in Nat /\ Len(y.options[o]) \in Nat /\ Len(z.options[o]) \in Nat
      BY <3>1
    <3>3. /\ Len(x.options[o]) <= Len(y.options[o]) /\ Len(y.options[o]) <= Len(z.options[o])
          /\ \A k \in 1..Len(x.options[o]) : y.options[o][k] = x.options[o][k]
          /\ \A k \in 1..Len(y.options[o]) : z.options[o][k] = y.options[o][k]
      BY <1>7 DEF Extends
    <3>4. Len(x.options[o]) <= Len(z.options[o])
      BY <3>2, <3>3
    <3>5. ASSUME NEW k \in 1..Len(x.options[o]) PROVE z.options[o][k] = x.options[o][k]
      <4>1. k \in 1..Len(y.options[o])
        BY <3>2, <3>3
      <4>2. QED
        BY <3>3, <4>1
    <3>6. QED
      BY <3>4, <3>5
  <2>2. QED
    BY <1>7, <2>1 DEF Extends
<1>8. ASSUME NEW p \in 0..n PROVE \A q \in 0..n : p <= q => Extends(s, R[p], R[q])
  <2>. DEFINE T == {q \in 0..n : p <= q => Extends(s, R[p], R[q])}
  <2>1. Extends(s, R[p], R[p])
    <3>1. R[p].options \in [DOMAIN s.options -> Seq(Value)]
      BY <1>5 DEF ReadingRecord
    <3>2. \A o \in DOMAIN s.options : Len(R[p].options[o]) \in Nat
      BY <3>1
    <3>3. QED
      BY <3>2 DEF Extends
  <2>2. 0 \in T
    <3>1. p <= 0 => p = 0
      BY <1>1
    <3>2. QED
      BY <1>1, <2>1, <3>1
  <2>3. ASSUME NEW q \in 1..n, q - 1 \in T PROVE q \in T
    <3>1. q \in 0..n /\ q - 1 \in 0..n
      BY <1>1
    <3>2. ASSUME p <= q PROVE Extends(s, R[p], R[q])
      <4>1. CASE p = q
        BY <2>1, <4>1
      <4>2. CASE p # q
        <5>1. p <= q - 1
          BY <3>1, <3>2, <4>2
        <5>2. Extends(s, R[p], R[q - 1]) /\ Extends(s, R[q - 1], R[q])
          BY <1>6, <2>3, <5>1
        <5>3. R[p] \in ReadingRecord(s) /\ R[q - 1] \in ReadingRecord(s) /\ R[q] \in ReadingRecord(s)
          BY <1>5, <3>1
        <5>4. QED
          BY <1>7, <5>2, <5>3
      <4>3. QED
        BY <4>1, <4>2
    <3>3. QED
      BY <3>1, <3>2
  <2>4. \A q \in 0..n : q \in T
    <3>. HIDE DEF T
    <3>1. QED
      BY <1>1, <2>2, <2>3, UpTo
  <2>5. QED
    BY <2>4
<1>9. QED
  BY <1>5, <1>8 DEF n, R

\* Where the options end.
LEMMA EndIs ==
    ASSUME NEW a \in Seq(Argument)
    PROVE  /\ EndOfOptionsIn(a) \in 1..(Len(a) + 1) /\ Len(a) \in Nat
           /\ \A p \in InFront(a) : p \in 1..Len(a) /\ a[p] # EndOfOptions
           /\ \A p \in 1..Len(a) : p \notin InFront(a) <=> EndOfOptionsIn(a) <= p
           /\ EndOfOptionsIn(a) <= Len(a) => a[EndOfOptionsIn(a)] = EndOfOptions
<1>. DEFINE n == Len(a)
            S == {p \in DOMAIN a : a[p] = EndOfOptions}
            E == EndOfOptionsIn(a)
<1>1. n \in Nat /\ DOMAIN a = 1..n
  OBVIOUS
<1>2. E = IF S = {} THEN n + 1 ELSE Min(S)
  BY DEF EndOfOptionsIn, FirstOr
<1>3. S \subseteq 1..n /\ S \subseteq Nat
  BY <1>1
<1>. HIDE DEF n, E
<1>4. S # {} => Min(S) \in S /\ \A x \in S : Min(S) <= x
  <2>. HIDE DEF S
  <2>1. QED
    BY <1>3, MinIsFirst
<1>5. E \in 1..(n + 1)
  <2>. HIDE DEF S
  <2>1. QED
    BY <1>1, <1>2, <1>3, <1>4
<1>6. ASSUME NEW p \in 1..(E - 1) PROVE p \in 1..n /\ a[p] # EndOfOptions
  <2>1. p \in 1..n
    BY <1>1, <1>5
  <2>2. p \notin S
    <3>. HIDE DEF S
    <3>1. QED
      BY <1>1, <1>2, <1>4, <1>5
  <2>3. QED
    BY <1>1, <2>1, <2>2
<1>7. ASSUME E <= n PROVE a[E] = EndOfOptions
  <2>1. S # {} /\ E = Min(S)
    <3>. HIDE DEF S
    <3>1. QED
      BY <1>1, <1>2, <1>5, <1>7
  <2>2. E \in S
    <3>. HIDE DEF S
    <3>1. QED
      BY <1>4, <2>1
  <2>3. QED
    BY <2>2
<1>8. QED
  BY <1>1, <1>5, <1>6, <1>7 DEF n, E, InFront

\* One step of the readings.
LEMMA ReadingStep ==
    ASSUME NEW s \in Setup, WellFormed(s), NEW a \in Seq(Argument), NEW p \in 1..Len(a)
    PROVE  /\ p \in Nat /\ p - 1 \in 0..Len(a) /\ p \in 0..Len(a) /\ a[p] \in Argument
           /\ Readings(s, a)[p - 1] \in ReadingRecord(s)
           /\ Readings(s, a)[p] \in ReadingRecord(s)
           /\ Readings(s, a)[p] = ReadArgument(s, Readings(s, a)[p - 1], a[p], p)
           /\ Extends(s, Readings(s, a)[p], Reading(s, a))
           /\ Reading(s, a) \in ReadingRecord(s)
<1>1. p \in Nat /\ p - 1 \in 0..Len(a) /\ p \in 0..Len(a) /\ a[p] \in Argument
      /\ Len(a) \in 0..Len(a) /\ p <= Len(a)
  OBVIOUS
<1>2. QED
  BY <1>1, ReadingsAre, ReadingTypes DEF Reading

\* On these command lines no value is an identifier or "--".
LEMMA ValuesAreNoIdentifiers ==
    ASSUME NEW s \in Setup, NEW a \in Seq(Argument), Clean(s, a), NEW p \in 1..Len(a),
           NEW o, o = Readings(s, a)[p - 1].awaits, o # 0
    PROVE  /\ o \in DOMAIN s.options /\ Readings(s, a)[p] = ReadValue(Readings(s, a)[p - 1], o, a[p], p)
           /\ a[p] # EndOfOptions
           /\ \A m \in DOMAIN s.options : ~BeginsWithId(s.options[m], a[p])
<1>. DEFINE r == Readings(s, a)[p - 1]
            q == Readings(s, a)[p]
            whole == Reading(s, a)
            v == [text |-> a[p], at |-> p]
<1>0. WellFormed(s) /\ ~ValueLooksLikeIdentifier(s, whole, a)
  BY DEF Clean, Unambiguous
<1>1. /\ p \in Nat /\ a[p] \in Argument
      /\ r \in ReadingRecord(s) /\ q \in ReadingRecord(s)
      /\ q = ReadArgument(s, r, a[p], p)
      /\ Extends(s, q, whole) /\ whole \in ReadingRecord(s)
  BY <1>0, ReadingStep
<1>2. o \in DOMAIN s.options
  BY <1>1 DEF ReadingRecord
<1>3. q = ReadValue(r, o, a[p], p)
  BY <1>1 DEF ReadArgument
<1>. HIDE DEF r, q, whole
<1>4. q.options[o] = Append(r.options[o], v)
  <2>1. q.options[o] = Added(r.options[o], a[p], p)
    BY <1>1, <1>2, <1>3, ReadValueParts
  <2>2. QED
    BY <2>1 DEF Added
<1>5. v \in Value
  BY <1>1, ValueType
<1>6. /\ r.options[o] \in Seq(Value) /\ q.options[o] \in Seq(Value)
      /\ whole.options[o] \in Seq(Value)
  BY <1>1, <1>2 DEF ReadingRecord
<1>. DEFINE k == Len(r.options[o]) + 1
<1>7. /\ Len(q.options[o]) = k /\ q.options[o][k] = v /\ k \in 1..Len(q.options[o])
  <2>1. Len(r.options[o]) \in Nat
    BY <1>6
  <2>. HIDE DEF v
  <2>2. Len(q.options[o]) = k /\ q.options[o][k] = v
    <3>. DEFINE values == r.options[o]
    <3>1. values \in Seq(Value) /\ q.options[o] = Append(values, v) /\ k = Len(values) + 1
      BY <1>4, <1>6
    <3>. HIDE DEF values, k
    <3>2. QED
      BY <1>5, <3>1, AppendsValue
  <2>3. QED
    BY <2>1, <2>2
<1>. HIDE DEF k
<1>8. k \in DOMAIN whole.options[o] /\ whole.options[o][k] = v
  <2>1. /\ Len(q.options[o]) <= Len(whole.options[o])
        /\ \A i \in 1..Len(q.options[o]) : whole.options[o][i] = q.options[o][i]
    BY <1>1, <1>2 DEF Extends
  <2>2. Len(whole.options[o]) \in Nat /\ DOMAIN whole.options[o] = 1..Len(whole.options[o])
    BY <1>6
  <2>3. whole.options[o][k] = v
    BY <1>7, <2>1
  <2>4. k \in 1..Len(whole.options[o])
    BY <1>7, <2>1, <2>2
  <2>5. QED
    BY <2>2, <2>3, <2>4
<1>9. v.text = a[p] /\ v.at = p
  OBVIOUS
<1>10. a[p] # EndOfOptions /\ ~IdentifiesOption(s, a[p])
  <2>. HIDE DEF v
  <2>1. ~(/\ a[v.at] = v.text
          /\ v.text = EndOfOptions \/ IdentifiesOption(s, v.text))
    BY <1>0, <1>2, <1>8 DEF ValueLooksLikeIdentifier
  <2>2. QED
    BY <1>9, <2>1
<1>11. \A m \in DOMAIN s.options : ~BeginsWithId(s.options[m], a[p])
  BY <1>0, <1>1, <1>10, IdentifiesWhereItBegins
<1>12. QED
  BY <1>2, <1>3, <1>10, <1>11 DEF r, q

IsNoIdOf(s, arg) == \A o \in DOMAIN s.options : ~Spells(s.options[o], arg) /\ ~GluesText(s.options[o], arg)

\* What such an argument changes of a reading, part by part.
IdentifierIsRead(s, r, arg, p, q) ==
    /\ q.ended = r.ended
    /\ \A o \in DOMAIN s.options : Spells(s.options[o], arg) => q.awaits = o
    /\ (\A o \in DOMAIN s.options : ~Spells(s.options[o], arg)) => q.awaits = 0
    /\ \A o \in DOMAIN s.options :
          /\ GluesText(s.options[o], arg) => q.options[o] =
                Added(r.options[o], GluedTextOf(s.options[o], arg), p)
          /\ ~GluesText(s.options[o], arg) => q.options[o] = r.options[o]
    /\ \A f \in DOMAIN s.flags :
          /\ NamesFlags(s, arg) =>
                q.flags[f] = r.flags[f] \cup ({p} \X FlagIn(s.flags[f], arg))
          /\ ~NamesFlags(s, arg) => q.flags[f] = r.flags[f]
    /\ ~MayBeIdentifier(arg) /\ arg # Erased =>
          q.positionals = Added(r.positionals, arg, p)
    /\ MayBeIdentifier(arg) \/ arg = Erased => q.positionals = r.positionals
    /\ q.malformed <=> \/ r.malformed
                       \/ ~NamesFlags(s, arg) /\ MayBeIdentifier(arg) /\ IsNoIdOf(s, arg)

LEMMA ReadIdentifierParts ==
    ASSUME NEW s \in Setup, WellFormed(s), NEW r \in ReadingRecord(s), NEW arg \in Argument,
           arg # EndOfOptions, r.awaits = 0,
           NEW p \in Nat, NEW q, q = ReadIdentifier(s, r, arg, p)
    PROVE  IdentifierIsRead(s, r, arg, p, q)
<1>1. /\ \A o \in DOMAIN s.options :
            /\ Spells(s.options[o], arg) => q = [r EXCEPT !.awaits = o]
            /\ GluesText(s.options[o], arg) =>
                  q = ReadValue(r, o, GluedTextOf(s.options[o], arg), p)
      /\ IsNoIdOf(s, arg)
         => /\ NamesFlags(s, arg) => q = ReadFlags(s, r, arg, p)
            /\ ~MayBeIdentifier(arg) => q = ReadOperand(r, arg, p)
            /\ ~NamesFlags(s, arg) /\ MayBeIdentifier(arg) => q = [r EXCEPT !.malformed = TRUE]
  BY ReadIdentifierCases DEF IsNoIdOf
<1>2. /\ \A o \in DOMAIN s.options : Spells(s.options[o], arg) =>
            /\ BeginsWithId(s.options[o], arg)
            /\ \A m \in DOMAIN s.options : ~GluesText(s.options[m], arg)
            /\ \A m \in DOMAIN s.options : Spells(s.options[m], arg) => m = o
      /\ \A o \in DOMAIN s.options : GluesText(s.options[o], arg) =>
            /\ BeginsWithId(s.options[o], arg) /\ GluedTextOf(s.options[o], arg) \in Argument
            /\ \A m \in DOMAIN s.options : ~Spells(s.options[m], arg)
            /\ \A m \in DOMAIN s.options : GluesText(s.options[m], arg) => m = o
  <2>1. ASSUME NEW o \in DOMAIN s.options, Spells(s.options[o], arg)
        PROVE  /\ BeginsWithId(s.options[o], arg)
               /\ \A m \in DOMAIN s.options : ~GluesText(s.options[m], arg)
               /\ \A m \in DOMAIN s.options : Spells(s.options[m], arg) => m = o
    BY <2>1, SpelledAndGlued DEF OptionsSpelled
  <2>2. ASSUME NEW o \in DOMAIN s.options, GluesText(s.options[o], arg)
        PROVE  /\ BeginsWithId(s.options[o], arg) /\ GluedTextOf(s.options[o], arg) \in Argument
               /\ \A m \in DOMAIN s.options : ~Spells(s.options[m], arg)
               /\ \A m \in DOMAIN s.options : GluesText(s.options[m], arg) => m = o
    <3>1. BeginsWithId(s.options[o], arg) /\ GluedTextOf(s.options[o], arg) \in Argument
      BY <2>2, SpelledAndGlued
    <3>2. ASSUME NEW m \in DOMAIN s.options PROVE ~Spells(s.options[m], arg)
      BY <2>1, <2>2, <3>2
    <3>3. ASSUME NEW m \in DOMAIN s.options, GluesText(s.options[m], arg) PROVE m = o
      <4>1. BeginsWithId(s.options[m], arg)
        BY <3>3, SpelledAndGlued
      <4>2. QED
        BY <3>1, <4>1, OneOptionBegins
    <3>4. QED
      BY <3>1, <3>2, <3>3
  <2>3. QED
    BY <2>1, <2>2
<1>3. /\ \A o \in DOMAIN s.options : BeginsWithId(s.options[o], arg)
            => ~NamesFlags(s, arg) /\ MayBeIdentifier(arg)
      /\ NamesFlags(s, arg) => MayBeIdentifier(arg)
  BY OptionNamesNoFlag, FlagsMayBeIdentifiers
<1>4. r.malformed \in BOOLEAN
  BY DEF ReadingRecord
<1>5. ASSUME NEW o \in DOMAIN s.options, Spells(s.options[o], arg)
      PROVE  /\ q.awaits = o /\ q.ended = r.ended /\ q.malformed = r.malformed
             /\ q.options = r.options /\ q.flags = r.flags /\ q.positionals = r.positionals
             /\ ~NamesFlags(s, arg) /\ MayBeIdentifier(arg) /\ ~IsNoIdOf(s, arg)
  <2>1. q = [r EXCEPT !.awaits = o]
    BY <1>1, <1>5
  <2>2. ~NamesFlags(s, arg) /\ MayBeIdentifier(arg) /\ ~IsNoIdOf(s, arg)
    BY <1>2, <1>3, <1>5 DEF IsNoIdOf
  <2>3. QED
    BY <2>1, <2>2, ReadMarks
<1>6. ASSUME NEW o \in DOMAIN s.options, GluesText(s.options[o], arg)
      PROVE  /\ q.awaits = 0 /\ q.ended = r.ended /\ q.malformed = r.malformed
             /\ q.options[o] = Added(r.options[o], GluedTextOf(s.options[o], arg), p)
             /\ \A m \in DOMAIN s.options : m # o => q.options[m] = r.options[m]
             /\ q.flags = r.flags /\ q.positionals = r.positionals
             /\ ~NamesFlags(s, arg) /\ MayBeIdentifier(arg) /\ ~IsNoIdOf(s, arg)
  <2>1. q = ReadValue(r, o, GluedTextOf(s.options[o], arg), p)
        /\ GluedTextOf(s.options[o], arg) \in Argument
    BY <1>1, <1>2, <1>6
  <2>2. ~NamesFlags(s, arg) /\ MayBeIdentifier(arg) /\ ~IsNoIdOf(s, arg)
    BY <1>2, <1>3, <1>6 DEF IsNoIdOf
  <2>3. QED
    BY <2>1, <2>2, ReadValueParts
<1>7. ASSUME IsNoIdOf(s, arg), NamesFlags(s, arg)
      PROVE  /\ q.awaits = 0 /\ q.ended = r.ended /\ q.malformed = r.malformed
             /\ q.options = r.options /\ q.positionals = r.positionals
             /\ \A f \in DOMAIN s.flags :
                   q.flags[f] = r.flags[f] \cup ({p} \X FlagIn(s.flags[f], arg))
             /\ MayBeIdentifier(arg)
  <2>1. q = ReadFlags(s, r, arg, p) /\ MayBeIdentifier(arg)
    BY <1>1, <1>3, <1>7
  <2>2. QED
    BY <2>1, ReadFlagsParts
<1>8. ASSUME IsNoIdOf(s, arg), ~MayBeIdentifier(arg)
      PROVE  /\ q.awaits = 0 /\ q.ended = r.ended /\ q.malformed = r.malformed
             /\ q.options = r.options /\ q.flags = r.flags
             /\ arg = Erased => q.positionals = r.positionals
             /\ arg # Erased => q.positionals = Added(r.positionals, arg, p)
             /\ ~NamesFlags(s, arg)
  <2>1. q = ReadOperand(r, arg, p) /\ ~NamesFlags(s, arg)
    BY <1>1, <1>3, <1>8
  <2>2. /\ q.awaits = r.awaits /\ q.ended = r.ended /\ q.malformed = r.malformed
        /\ q.options = r.options /\ q.flags = r.flags
        /\ arg = Erased => q.positionals = r.positionals
        /\ arg # Erased => q.positionals = Added(r.positionals, arg, p)
    BY <2>1, ReadOperandParts
  <2>3. QED
    BY <2>1, <2>2
<1>9. ASSUME IsNoIdOf(s, arg), ~NamesFlags(s, arg), MayBeIdentifier(arg)
      PROVE  /\ q.awaits = 0 /\ q.ended = r.ended /\ q.malformed
             /\ q.options = r.options /\ q.flags = r.flags /\ q.positionals = r.positionals
  <2>1. q = [r EXCEPT !.malformed = TRUE]
    BY <1>1, <1>9
  <2>2. QED
    BY <2>1, ReadMarks
<1>10. ~MayBeIdentifier(Erased)
  BY ErasedIsNoIdentifier
<1>11. CASE \E o \in DOMAIN s.options : Spells(s.options[o], arg)
  BY <1>2, <1>4, <1>5, <1>10, <1>11 DEF IdentifierIsRead
<1>12. CASE \E o \in DOMAIN s.options : GluesText(s.options[o], arg)
  BY <1>2, <1>4, <1>6, <1>10, <1>12 DEF IdentifierIsRead
<1>13. CASE IsNoIdOf(s, arg)
  <2>1. \A o \in DOMAIN s.options : ~Spells(s.options[o], arg) /\ ~GluesText(s.options[o], arg)
    BY <1>13 DEF IsNoIdOf
  <2>2. CASE NamesFlags(s, arg)
    BY <1>4, <1>7, <1>10, <1>13, <2>1, <2>2 DEF IdentifierIsRead
  <2>3. CASE ~MayBeIdentifier(arg)
    BY <1>4, <1>8, <1>13, <2>1, <2>3 DEF IdentifierIsRead
  <2>4. CASE ~NamesFlags(s, arg) /\ MayBeIdentifier(arg)
    BY <1>4, <1>9, <1>10, <1>13, <2>1, <2>4 DEF IdentifierIsRead
  <2>5. QED
    BY <2>2, <2>3, <2>4
<1>14. QED
  BY <1>11, <1>12, <1>13 DEF IsNoIdOf

\* What an argument changes.
ArgumentIsRead(s, r, arg, p, q) ==
    /\ r.awaits # 0 =>
          /\ q.awaits = 0 /\ q.ended = r.ended /\ q.malformed = r.malformed
          /\ q.options[r.awaits] = Added(r.options[r.awaits], arg, p)
          /\ \A m \in DOMAIN s.options : m # r.awaits => q.options[m] = r.options[m]
          /\ q.flags = r.flags /\ q.positionals = r.positionals
    /\ r.awaits = 0 /\ r.ended =>
          /\ q.awaits = 0 /\ q.ended = r.ended /\ q.malformed = r.malformed
          /\ q.options = r.options /\ q.flags = r.flags
          /\ arg = Erased => q.positionals = r.positionals
          /\ arg # Erased => q.positionals = Added(r.positionals, arg, p)
    /\ r.awaits = 0 /\ ~r.ended /\ arg = EndOfOptions =>
          /\ q.awaits = 0 /\ q.ended /\ q.malformed = r.malformed
          /\ q.options = r.options /\ q.flags = r.flags
          /\ q.positionals = r.positionals
    /\ r.awaits = 0 /\ ~r.ended /\ arg # EndOfOptions => IdentifierIsRead(s, r, arg, p, q)

LEMMA ReadArgumentParts ==
    ASSUME NEW s \in Setup, WellFormed(s), NEW r \in ReadingRecord(s), NEW arg \in Argument,
           NEW p \in Nat, NEW q, q = ReadArgument(s, r, arg, p)
    PROVE  ArgumentIsRead(s, r, arg, p, q)
<1>1. ASSUME NEW o, r.awaits = o, o # 0
      PROVE  /\ q.awaits = 0 /\ q.ended = r.ended /\ q.malformed = r.malformed
             /\ q.options[o] = Added(r.options[o], arg, p)
             /\ \A m \in DOMAIN s.options : m # o => q.options[m] = r.options[m]
             /\ q.flags = r.flags /\ q.positionals = r.positionals
  <2>1. q = ReadValue(r, o, arg, p) /\ o \in DOMAIN s.options
    BY <1>1 DEF ReadArgument, ReadingRecord
  <2>2. QED
    BY <2>1, ReadValueParts
<1>2. ASSUME r.awaits = 0, r.ended
      PROVE  /\ q.awaits = 0 /\ q.ended = r.ended /\ q.malformed = r.malformed
             /\ q.options = r.options /\ q.flags = r.flags
             /\ arg = Erased => q.positionals = r.positionals
             /\ arg # Erased => q.positionals = Added(r.positionals, arg, p)
  <2>1. q = ReadOperand(r, arg, p)
    BY <1>2 DEF ReadArgument
  <2>2. /\ q.awaits = r.awaits /\ q.ended = r.ended /\ q.malformed = r.malformed
        /\ q.options = r.options /\ q.flags = r.flags
        /\ arg = Erased => q.positionals = r.positionals
        /\ arg # Erased => q.positionals = Added(r.positionals, arg, p)
    BY <2>1, ReadOperandParts
  <2>3. QED
    BY <1>2, <2>2
<1>3. ASSUME r.awaits = 0, ~r.ended PROVE q = ReadIdentifier(s, r, arg, p)
  BY <1>3 DEF ReadArgument
<1>4. ASSUME r.awaits = 0, ~r.ended, arg = EndOfOptions
      PROVE  /\ q.awaits = 0 /\ q.ended /\ q.malformed = r.malformed
             /\ q.options = r.options /\ q.flags = r.flags /\ q.positionals = r.positionals
  <2>1. q = [r EXCEPT !.ended = TRUE]
    BY <1>3, <1>4, ReadIdentifierCases
  <2>2. QED
    BY <1>4, <2>1, ReadMarks
<1>5. ASSUME r.awaits = 0, ~r.ended, arg # EndOfOptions
      PROVE  IdentifierIsRead(s, r, arg, p, q)
  BY <1>3, <1>5, ReadIdentifierParts
<1>6. QED
  BY <1>1, <1>2, <1>4, <1>5 DEF ArgumentIsRead

\* Every argument of a command line is read in this way.
LEMMA ReadingReads ==
    ASSUME NEW s \in Setup, WellFormed(s), NEW a \in Seq(Argument), NEW p \in 1..Len(a)
    PROVE  ArgumentIsRead(s, Readings(s, a)[p - 1], a[p], p, Readings(s, a)[p])
BY ReadingStep, ReadArgumentParts

\* The reading has ended where the options end, and an option awaits its value behind its identifier.
LEMMA Synchronised ==
    ASSUME NEW s \in Setup, NEW a \in Seq(Argument), Clean(s, a), NEW p \in 0..Len(a)
    PROVE  /\ Readings(s, a)[p].ended <=> EndOfOptionsIn(a) <= p
           /\ \A o \in DOMAIN s.options :
                 Readings(s, a)[p].awaits = o <=> p \in InFront(a) /\ Spells(s.options[o], a[p])
<1>. DEFINE n == Len(a)
            R == Readings(s, a)
            E == EndOfOptionsIn(a)
            Sync(m) == /\ R[m].ended <=> E <= m
                       /\ \A o \in DOMAIN s.options :
                             R[m].awaits = o <=> m \in InFront(a) /\ Spells(s.options[o], a[m])
            S == {m \in 0..n : Sync(m)}
<1>0. WellFormed(s)
  BY DEF Clean
<1>1. /\ E \in 1..(n + 1) /\ n \in Nat
      /\ \A m \in InFront(a) : m \in 1..n /\ a[m] # EndOfOptions
      /\ \A m \in 1..n : m \notin InFront(a) <=> E <= m
      /\ E <= n => a[E] = EndOfOptions
      /\ 0 \notin InFront(a)
  BY EndIs DEF InFront
<1>2. \A o \in DOMAIN s.options : o \in Nat \ {0}
  BY <1>0, CallsAreNamed
<1>3. /\ R[0].awaits = 0 /\ ~R[0].ended
  <2>1. R[0] = NothingRead(s)
    BY ReadingsAre
  <2>2. NothingRead(s).awaits = 0 /\ NothingRead(s).ended = FALSE
    BY DEF NothingRead
  <2>3. QED
    BY <2>1, <2>2
<1>4. 0 \in S
  <2>. HIDE DEF E, R, n
  <2>1. QED
    BY <1>1, <1>2, <1>3
<1>5. ASSUME NEW m \in 1..n, m - 1 \in S PROVE m \in S
  <2>. DEFINE r == R[m - 1]
              q == R[m]
              arg == a[m]
  <2>1. /\ m \in Nat /\ arg \in Argument /\ m \in 0..n
        /\ r \in ReadingRecord(s) /\ q \in ReadingRecord(s)
        /\ ArgumentIsRead(s, r, arg, m, q)
    BY <1>0, ReadingStep, ReadingReads
  <2>2. /\ r.ended <=> E <= m - 1
        /\ r.ended \in BOOLEAN /\ q.ended \in BOOLEAN
        /\ r.awaits \in {0} \cup DOMAIN s.options
    BY <1>5, <2>1 DEF ReadingRecord
  <2>3. /\ E \in Nat /\ (m \notin InFront(a) <=> E <= m)
        /\ E <= m <=> (E <= m - 1 \/ E = m)
    BY <1>1, <2>1
  <2>4. ASSUME r.awaits # 0
        PROVE  q.awaits = 0 /\ ~q.ended /\ m \in InFront(a)
               /\ \A o \in DOMAIN s.options : ~Spells(s.options[o], arg)
    <3>1. /\ r.awaits \in DOMAIN s.options
          /\ q = ReadValue(r, r.awaits, arg, m)
          /\ arg # EndOfOptions
          /\ \A o \in DOMAIN s.options : ~BeginsWithId(s.options[o], arg)
      BY <2>4, ValuesAreNoIdentifiers
    <3>2. \A o \in DOMAIN s.options : ~Spells(s.options[o], arg)
      BY <1>0, <2>1, <3>1, SpelledAndGlued
    <3>3. q.awaits = 0 /\ q.ended = r.ended
      <4>. HIDE DEF arg, r, q
      <4>1. QED
        BY <2>1, <2>4 DEF ArgumentIsRead
    <3>4. m - 1 \in InFront(a)
      BY <1>5, <2>2, <2>4
    <3>5. m # E
      BY <1>1, <2>1, <3>1
    <3>6. ~(E <= m - 1)
      <4>1. m - 1 \in 1..n
        BY <1>1, <3>4
      <4>2. QED
        BY <1>1, <3>4, <4>1
    <3>. HIDE DEF arg, r, q, E, n
    <3>7. QED
      BY <2>2, <2>3, <3>2, <3>3, <3>5, <3>6
  <2>5. ASSUME r.awaits = 0, r.ended
        PROVE  q.awaits = 0 /\ q.ended
    <3>. HIDE DEF arg, r, q
    <3>1. QED
      BY <2>1, <2>5 DEF ArgumentIsRead
  <2>7. ASSUME r.awaits = 0, ~r.ended, m = E
        PROVE  q.awaits = 0 /\ q.ended
    <3>1. arg = EndOfOptions
      BY <1>1, <2>7
    <3>. HIDE DEF arg, r, q, E
    <3>2. QED
      BY <2>1, <2>7, <3>1 DEF ArgumentIsRead
  <2>8. ASSUME r.awaits = 0, ~r.ended, m # E
        PROVE  /\ ~q.ended /\ m \in InFront(a)
               /\ \A o \in DOMAIN s.options : Spells(s.options[o], arg) => q.awaits = o
               /\ (\A o \in DOMAIN s.options : ~Spells(s.options[o], arg)) => q.awaits = 0
    <3>1. m \in InFront(a)
      <4>. HIDE DEF r, q, E
      <4>1. QED
        BY <2>2, <2>3, <2>8
    <3>2. arg # EndOfOptions
      BY <1>1, <3>1
    <3>. HIDE DEF arg, r, q, E
    <3>3. IdentifierIsRead(s, r, arg, m, q)
      BY <2>1, <2>8, <3>2 DEF ArgumentIsRead
    <3>4. QED
      BY <2>8, <3>1, <3>3 DEF IdentifierIsRead
  <2>9. \A o, k \in DOMAIN s.options : Spells(s.options[o], arg) /\ Spells(s.options[k], arg) => o = k
    BY <1>0, <2>1, SpelledAndGlued, OneOptionBegins
  <2>10. Sync(m)
    <3>1. q.ended <=> E <= m
      <4>. HIDE DEF arg, r, q, E, n
      <4>1. QED
        BY <2>2, <2>3, <2>4, <2>5, <2>7, <2>8
    <3>2. ASSUME NEW o \in DOMAIN s.options
          PROVE  q.awaits = o <=> m \in InFront(a) /\ Spells(s.options[o], arg)
      <4>1. m \notin InFront(a) <=> E <= m
        BY <2>3
      <4>. HIDE DEF arg, r, q, E, n
      <4>2. QED
        BY <1>2, <2>2, <2>3, <2>4, <2>5, <2>7, <2>8, <2>9
    <3>3. QED
      BY <3>1, <3>2
  <2>. HIDE DEF Sync
  <2>11. QED
    BY <2>1, <2>10
<1>6. \A m \in 0..n : m \in S
  <2>. HIDE DEF S
  <2>1. QED
    BY <1>1, <1>4, <1>5, UpTo
<1>7. QED
  BY <1>6

\* An option's value is glued to its identifier, or it stands right behind it.
GluedAt(s, a, o, p) == p \in InFront(a) /\ GluesText(s.options[o], a[p])

BehindId(s, a, o, p) == p - 1 \in InFront(a) /\ Spells(s.options[o], a[p - 1])

IsMalformed(s, a, p) ==
    \/ p \in Free(s, a) /\ ~NamesFlags(s, a[p]) /\ MayBeIdentifier(a[p])
    \/ p \in InFront(a) /\ \E o \in DOMAIN s.options :
          /\ BeginsWithId(s.options[o], a[p])
          /\ ~Spells(s.options[o], a[p]) /\ ~GluesText(s.options[o], a[p])

\* What the argument at p changes, in terms of the command line alone.
OptionsStep(s, a, r, p, q) ==
    \A o \in DOMAIN s.options :
        /\ BehindId(s, a, o, p) => q.options[o] = Added(r.options[o], a[p], p)
        /\ GluedAt(s, a, o, p) =>
              q.options[o] = Added(r.options[o], GluedTextOf(s.options[o], a[p]), p)
        /\ ~BehindId(s, a, o, p) /\ ~GluedAt(s, a, o, p) => q.options[o] = r.options[o]

FlagsStep(s, a, r, p, q) ==
    \A f \in DOMAIN s.flags :
        /\ p \in Free(s, a) /\ NamesFlags(s, a[p]) =>
              q.flags[f] = r.flags[f] \cup ({p} \X FlagIn(s.flags[f], a[p]))
        /\ ~(p \in Free(s, a) /\ NamesFlags(s, a[p])) => q.flags[f] = r.flags[f]

OperandsStep(s, a, r, p, q) ==
    /\ IsOperand(s, a, p) => q.positionals = Added(r.positionals, a[p], p)
    /\ ~IsOperand(s, a, p) => q.positionals = r.positionals

MalformedStep(s, a, r, p, q) == q.malformed <=> r.malformed \/ IsMalformed(s, a, p)

\* An argument that begins with an identifier of an option is no value, and what follows one is.
LEMMA IdentifiersAreNotSeparate ==
    ASSUME NEW s \in Setup, NEW a \in Seq(Argument), Clean(s, a), NEW p \in 1..Len(a)
    PROVE  /\ \A o \in DOMAIN s.options : BehindId(s, a, o, p) =>
                 /\ p \in InFront(a) /\ IsSeparate(s, a, p)
                 /\ \A m \in DOMAIN s.options : ~BeginsWithId(s.options[m], a[p])
           /\ p \in InFront(a) /\ IsSeparate(s, a, p) =>
                 \E o \in DOMAIN s.options : BehindId(s, a, o, p)
<1>. DEFINE E == EndOfOptionsIn(a)
<1>0. WellFormed(s)
  BY DEF Clean
<1>1. /\ E \in 1..(Len(a) + 1) /\ Len(a) \in Nat
      /\ \A m \in 1..Len(a) : m \notin InFront(a) <=> E <= m
      /\ \A m \in InFront(a) : m \in 1..Len(a)
      /\ E <= Len(a) => a[E] = EndOfOptions
  BY EndIs
<1>2. p - 1 \in 0..Len(a) /\ p \in Nat
  OBVIOUS
<1>3. \A o \in DOMAIN s.options : o \in Nat \ {0}
  BY <1>0, CallsAreNamed
<1>4. p > 1 => a[p - 1] \in Argument
  OBVIOUS
<1>. HIDE DEF E
<1>5. ASSUME NEW o \in DOMAIN s.options, BehindId(s, a, o, p)
      PROVE  /\ p \in InFront(a) /\ IsSeparate(s, a, p)
             /\ \A m \in DOMAIN s.options : ~BeginsWithId(s.options[m], a[p])
  <2>1. o = Readings(s, a)[p - 1].awaits /\ o # 0
    BY <1>2, <1>3, <1>5, Synchronised DEF BehindId
  <2>2. a[p] # EndOfOptions /\ \A m \in DOMAIN s.options : ~BeginsWithId(s.options[m], a[p])
    BY <2>1, ValuesAreNoIdentifiers
  <2>3. p - 1 \in 1..Len(a) /\ p > 1 /\ ~(E <= p - 1)
    BY <1>1, <1>2, <1>5 DEF BehindId
  <2>4. p # E
    BY <1>1, <2>2
  <2>5. ~(E <= p)
    BY <1>1, <1>2, <2>3, <2>4
  <2>6. p \in InFront(a)
    BY <1>1, <2>5
  <2>7. OptionsSpelled(s, a[p - 1]) # {}
    BY <1>5 DEF BehindId, OptionsSpelled
  <2>8. QED
    BY <2>2, <2>3, <2>6, <2>7 DEF IsSeparate
<1>6. ASSUME p \in InFront(a), IsSeparate(s, a, p)
      PROVE  \E o \in DOMAIN s.options : BehindId(s, a, o, p)
  <2>1. PICK o \in DOMAIN s.options : p > 1 /\ Spells(s.options[o], a[p - 1])
    BY <1>6 DEF IsSeparate, OptionsSpelled
  <2>2. p - 1 \in 1..Len(a) /\ ~(E <= p)
    BY <1>1, <1>2, <1>6, <2>1
  <2>3. ~(E <= p - 1)
    BY <1>1, <1>2, <2>2
  <2>4. p - 1 \in InFront(a)
    BY <1>1, <2>2, <2>3
  <2>5. QED
    BY <2>1, <2>4 DEF BehindId
<1>7. QED
  BY <1>5, <1>6

LEMMA ReadingChanges ==
    ASSUME NEW s \in Setup, NEW a \in Seq(Argument), Clean(s, a), NEW p \in 1..Len(a),
           NEW r, r = Readings(s, a)[p - 1], NEW q, q = Readings(s, a)[p]
    PROVE  /\ OptionsStep(s, a, r, p, q) /\ FlagsStep(s, a, r, p, q)
           /\ OperandsStep(s, a, r, p, q) /\ MalformedStep(s, a, r, p, q)
<1>. DEFINE E == EndOfOptionsIn(a)
            arg == a[p]
<1>0. WellFormed(s)
  BY DEF Clean
<1>1. /\ p \in Nat /\ arg \in Argument /\ r \in ReadingRecord(s) /\ q \in ReadingRecord(s)
      /\ ArgumentIsRead(s, r, arg, p, q)
  BY <1>0, ReadingStep, ReadingReads
<1>2. /\ E \in Nat
      /\ p \notin InFront(a) <=> E <= p
      /\ E = p => arg = EndOfOptions
      /\ p \in InFront(a) => arg # EndOfOptions
      /\ E <= p <=> (E <= p - 1 \/ E = p)
      /\ p \in (E + 1)..Len(a) <=> E <= p - 1
  <2>1. /\ E \in 1..(Len(a) + 1) /\ Len(a) \in Nat
        /\ p \notin InFront(a) <=> E <= p
        /\ E <= Len(a) => a[E] = EndOfOptions
        /\ p \in InFront(a) => arg # EndOfOptions
    BY EndIs
  <2>. HIDE DEF E, arg
  <2>2. E = p => arg = EndOfOptions
    BY <2>1 DEF arg
  <2>3. QED
    BY <1>1, <2>1, <2>2
<1>3. /\ r.ended <=> E <= p - 1
      /\ \A o \in DOMAIN s.options : r.awaits = o <=> BehindId(s, a, o, p)
  <2>1. p - 1 \in 0..Len(a)
    OBVIOUS
  <2>2. QED
    BY <2>1, Synchronised DEF BehindId
<1>4. /\ \A o \in DOMAIN s.options : BehindId(s, a, o, p) =>
            /\ p \in InFront(a) /\ IsSeparate(s, a, p)
            /\ \A m \in DOMAIN s.options : ~BeginsWithId(s.options[m], arg)
      /\ p \in InFront(a) /\ IsSeparate(s, a, p) =>
            \E o \in DOMAIN s.options : BehindId(s, a, o, p)
  BY IdentifiersAreNotSeparate
<1>5. /\ \A o \in DOMAIN s.options : o # 0
      /\ r.awaits \in {0} \cup DOMAIN s.options
      /\ r.malformed \in BOOLEAN /\ q.malformed \in BOOLEAN
  BY <1>0, <1>1, CallsAreNamed DEF ReadingRecord
<1>6. /\ p \in Free(s, a) <=> /\ p \in InFront(a) /\ ~IsSeparate(s, a, p)
                              /\ \A o \in DOMAIN s.options : ~BeginsWithId(s.options[o], arg)
      /\ IsOperand(s, a, p) <=> /\ arg # Erased
                                /\ \/ p \in Free(s, a) /\ ~MayBeIdentifier(arg)
                                   \/ p \in (E + 1)..Len(a)
      /\ IsMalformed(s, a, p) <=>
           \/ p \in Free(s, a) /\ ~NamesFlags(s, arg) /\ MayBeIdentifier(arg)
           \/ p \in InFront(a) /\ \E o \in DOMAIN s.options :
                 BeginsWithId(s.options[o], arg) /\ ~Spells(s.options[o], arg)
                 /\ ~GluesText(s.options[o], arg)
      /\ \A o \in DOMAIN s.options :
            GluedAt(s, a, o, p) <=> p \in InFront(a) /\ GluesText(s.options[o], arg)
  BY DEF Free, IsUsed, IsOperand, IsMalformed, GluedAt
<1>7. /\ \A o \in DOMAIN s.options : BeginsWithId(s.options[o], arg)
            => ~NamesFlags(s, arg) /\ MayBeIdentifier(arg)
      /\ \A o \in DOMAIN s.options : Spells(s.options[o], arg) \/ GluesText(s.options[o], arg)
            => BeginsWithId(s.options[o], arg)
      /\ \A o, m \in DOMAIN s.options :
            BeginsWithId(s.options[o], arg) /\ BeginsWithId(s.options[m], arg) => o = m
  BY <1>0, <1>1, OptionNamesNoFlag, SpelledAndGlued, OneOptionBegins
<1>8. OptionsStep(s, a, r, p, q) <=>
        \A o \in DOMAIN s.options :
          /\ BehindId(s, a, o, p) => q.options[o] = Added(r.options[o], arg, p)
          /\ GluedAt(s, a, o, p) =>
                q.options[o] = Added(r.options[o], GluedTextOf(s.options[o], arg), p)
          /\ ~BehindId(s, a, o, p) /\ ~GluedAt(s, a, o, p) => q.options[o] = r.options[o]
  BY DEF OptionsStep
<1>9. FlagsStep(s, a, r, p, q) <=>
        \A f \in DOMAIN s.flags :
          /\ p \in Free(s, a) /\ NamesFlags(s, arg) =>
                q.flags[f] = r.flags[f] \cup ({p} \X FlagIn(s.flags[f], arg))
          /\ ~(p \in Free(s, a) /\ NamesFlags(s, arg)) => q.flags[f] = r.flags[f]
  BY DEF FlagsStep
<1>10. OperandsStep(s, a, r, p, q) <=>
         /\ IsOperand(s, a, p) => q.positionals = Added(r.positionals, arg, p)
         /\ ~IsOperand(s, a, p) => q.positionals = r.positionals
  BY DEF OperandsStep
<1>. HIDE DEF E, arg
<1>11. ASSUME r.awaits # 0
       PROVE  /\ OptionsStep(s, a, r, p, q) /\ FlagsStep(s, a, r, p, q)
              /\ OperandsStep(s, a, r, p, q) /\ MalformedStep(s, a, r, p, q)
  <2>1. PICK o \in DOMAIN s.options : o = r.awaits /\ BehindId(s, a, o, p)
    BY <1>3, <1>5, <1>11
  <2>2. /\ p \in InFront(a) /\ IsSeparate(s, a, p) /\ p \notin Free(s, a)
        /\ \A m \in DOMAIN s.options : ~BeginsWithId(s.options[m], arg)
    BY <1>4, <1>6, <2>1
  <2>3. /\ q.malformed = r.malformed
        /\ q.options[o] = Added(r.options[o], arg, p)
        /\ \A m \in DOMAIN s.options : m # o => q.options[m] = r.options[m]
        /\ q.flags = r.flags /\ q.positionals = r.positionals
    BY <1>1, <1>11, <2>1 DEF ArgumentIsRead
  <2>4. \A m \in DOMAIN s.options : ~GluedAt(s, a, m, p) /\ (m # o => ~BehindId(s, a, m, p))
    BY <1>3, <1>6, <1>7, <2>1, <2>2
  <2>5. OptionsStep(s, a, r, p, q)
    BY <1>8, <2>1, <2>3, <2>4
  <2>6. FlagsStep(s, a, r, p, q)
    BY <1>9, <2>2, <2>3
  <2>7. ~IsOperand(s, a, p) /\ ~IsMalformed(s, a, p)
    BY <1>2, <1>6, <2>2
  <2>8. QED
    BY <1>5, <1>10, <2>3, <2>5, <2>6, <2>7 DEF MalformedStep
<1>12. ASSUME r.awaits = 0, r.ended
       PROVE  /\ OptionsStep(s, a, r, p, q) /\ FlagsStep(s, a, r, p, q)
              /\ OperandsStep(s, a, r, p, q) /\ MalformedStep(s, a, r, p, q)
  <2>1. /\ p \notin InFront(a) /\ p \in (E + 1)..Len(a)
        /\ \A m \in DOMAIN s.options : ~GluedAt(s, a, m, p) /\ ~BehindId(s, a, m, p)
        /\ p \notin Free(s, a)
    BY <1>2, <1>3, <1>5, <1>6, <1>12
  <2>2. /\ q.malformed = r.malformed /\ q.options = r.options /\ q.flags = r.flags
        /\ arg = Erased => q.positionals = r.positionals
        /\ arg # Erased => q.positionals = Added(r.positionals, arg, p)
    BY <1>1, <1>12 DEF ArgumentIsRead
  <2>3. OptionsStep(s, a, r, p, q) /\ FlagsStep(s, a, r, p, q)
    BY <1>8, <1>9, <2>1, <2>2
  <2>4. (IsOperand(s, a, p) <=> arg # Erased) /\ ~IsMalformed(s, a, p)
    BY <1>6, <2>1
  <2>5. QED
    BY <1>5, <1>10, <2>2, <2>3, <2>4 DEF MalformedStep
<1>13. ASSUME r.awaits = 0, ~r.ended, E = p
       PROVE  /\ OptionsStep(s, a, r, p, q) /\ FlagsStep(s, a, r, p, q)
              /\ OperandsStep(s, a, r, p, q) /\ MalformedStep(s, a, r, p, q)
  <2>1. /\ p \notin InFront(a) /\ p \notin (E + 1)..Len(a)
        /\ \A m \in DOMAIN s.options : ~GluedAt(s, a, m, p) /\ ~BehindId(s, a, m, p)
        /\ p \notin Free(s, a) /\ arg = EndOfOptions
    BY <1>2, <1>3, <1>5, <1>6, <1>13
  <2>2. /\ q.malformed = r.malformed /\ q.options = r.options /\ q.flags = r.flags
        /\ q.positionals = r.positionals
    BY <1>1, <1>13, <2>1 DEF ArgumentIsRead
  <2>3. OptionsStep(s, a, r, p, q) /\ FlagsStep(s, a, r, p, q)
    BY <1>8, <1>9, <2>1, <2>2
  <2>4. ~IsOperand(s, a, p) /\ ~IsMalformed(s, a, p)
    BY <1>6, <2>1
  <2>5. QED
    BY <1>5, <1>10, <2>2, <2>3, <2>4 DEF MalformedStep
<1>14. ASSUME r.awaits = 0, ~r.ended, E # p
       PROVE  /\ OptionsStep(s, a, r, p, q) /\ FlagsStep(s, a, r, p, q)
              /\ OperandsStep(s, a, r, p, q) /\ MalformedStep(s, a, r, p, q)
  <2>1. /\ p \in InFront(a) /\ p \notin (E + 1)..Len(a) /\ arg # EndOfOptions
        /\ \A m \in DOMAIN s.options : ~BehindId(s, a, m, p)
        /\ ~IsSeparate(s, a, p)
    BY <1>2, <1>3, <1>4, <1>5, <1>14
  <2>2. IdentifierIsRead(s, r, arg, p, q)
    BY <1>1, <1>14, <2>1 DEF ArgumentIsRead
  <2>3. p \in Free(s, a) <=> \A o \in DOMAIN s.options : ~BeginsWithId(s.options[o], arg)
    BY <1>6, <2>1
  <2>4. OptionsStep(s, a, r, p, q)
    BY <1>6, <1>8, <2>1, <2>2 DEF IdentifierIsRead
  <2>5. FlagsStep(s, a, r, p, q)
    BY <1>7, <1>9, <2>2, <2>3 DEF IdentifierIsRead
  <2>6. OperandsStep(s, a, r, p, q)
    BY <1>6, <1>7, <1>10, <2>1, <2>2, <2>3 DEF IdentifierIsRead
  <2>7. IsMalformed(s, a, p) <=> ~NamesFlags(s, arg) /\ MayBeIdentifier(arg) /\ IsNoIdOf(s, arg)
    BY <1>6, <1>7, <2>1, <2>3 DEF IsNoIdOf
  <2>8. MalformedStep(s, a, r, p, q)
    BY <2>2, <2>7 DEF IdentifierIsRead, MalformedStep
  <2>9. QED
    BY <2>4, <2>5, <2>6, <2>8
<1>15. QED
  BY <1>11, <1>12, <1>13, <1>14

\* The whole reading: what is malformed, and the places of the flags.
LEMMA MalformedIs ==
    ASSUME NEW s \in Setup, NEW a \in Seq(Argument), Clean(s, a)
    PROVE  Reading(s, a).malformed <=> \E p \in 1..Len(a) : IsMalformed(s, a, p)
<1>. DEFINE n == Len(a)
            R == Readings(s, a)
            S == {m \in 0..n : R[m].malformed <=> \E p \in 1..m : IsMalformed(s, a, p)}
<1>1. n \in Nat /\ n \in 0..n
  OBVIOUS
<1>2. 0 \in S
  <2>1. R[0] = NothingRead(s) /\ NothingRead(s).malformed = FALSE
    BY ReadingsAre DEF NothingRead
  <2>. HIDE DEF R, n
  <2>2. QED
    BY <1>1, <2>1
<1>3. ASSUME NEW m \in 1..n, m - 1 \in S PROVE m \in S
  <2>1. MalformedStep(s, a, R[m - 1], m, R[m])
    BY ReadingChanges
  <2>2. R[m].malformed <=> R[m - 1].malformed \/ IsMalformed(s, a, m)
    BY <2>1 DEF MalformedStep
  <2>. HIDE DEF R, n
  <2>3. m \in 0..n /\ 1..m = (1..(m - 1)) \cup {m}
    BY <1>1
  <2>4. QED
    BY <1>3, <2>2, <2>3
<1>4. \A m \in 0..n : m \in S
  <2>. HIDE DEF S, n
  <2>1. QED
    BY <1>1, <1>2, <1>3, UpTo
<1>5. QED
  BY <1>1, <1>4 DEF Reading

LEMMA FlagPlacesAre ==
    ASSUME NEW s \in Setup, NEW a \in Seq(Argument), Clean(s, a), NEW f \in DOMAIN s.flags
    PROVE  /\ \A x \in Reading(s, a).flags[f] :
                 \E p \in Free(s, a) : \E k \in FlagIn(s.flags[f], a[p]) :
                    NamesFlags(s, a[p]) /\ x = <<p, k>>
           /\ \A p \in Free(s, a) : \A k \in FlagIn(s.flags[f], a[p]) :
                 NamesFlags(s, a[p]) => <<p, k>> \in Reading(s, a).flags[f]
<1>. DEFINE n == Len(a)
            R == Readings(s, a)
            Named(p) == p \in Free(s, a) /\ NamesFlags(s, a[p])
            In(p) == FlagIn(s.flags[f], a[p])
            S == {m \in 0..n :
                    /\ \A x \in R[m].flags[f] :
                          \E p \in 1..m : \E k \in In(p) : Named(p) /\ x = <<p, k>>
                    /\ \A p \in 1..m : \A k \in In(p) : Named(p) => <<p, k>> \in R[m].flags[f]}
<1>1. n \in Nat /\ n \in 0..n
  OBVIOUS
<1>2. 0 \in S
  <2>1. R[0] = NothingRead(s) /\ NothingRead(s).flags[f] = {}
    BY ReadingsAre DEF NothingRead
  <2>. HIDE DEF R, n, Named, In
  <2>2. QED
    BY <1>1, <2>1
<1>3. ASSUME NEW m \in 1..n, m - 1 \in S PROVE m \in S
  <2>1. FlagsStep(s, a, R[m - 1], m, R[m])
    BY ReadingChanges
  <2>2. /\ Named(m) => R[m].flags[f] = R[m - 1].flags[f] \cup ({m} \X In(m))
        /\ ~Named(m) => R[m].flags[f] = R[m - 1].flags[f]
    BY <2>1 DEF FlagsStep
  <2>. HIDE DEF R, n, Named, In
  <2>3. m \in 0..n /\ 1..m = (1..(m - 1)) \cup {m}
    BY <1>1
  <2>4. /\ \A x \in R[m - 1].flags[f] :
              \E p \in 1..(m - 1) : \E k \in In(p) : Named(p) /\ x = <<p, k>>
        /\ \A p \in 1..(m - 1) : \A k \in In(p) : Named(p) => <<p, k>> \in R[m - 1].flags[f]
    BY <1>3
  <2>5. ASSUME NEW x \in R[m].flags[f]
        PROVE  \E p \in 1..m : \E k \in In(p) : Named(p) /\ x = <<p, k>>
    <3>1. CASE x \in R[m - 1].flags[f]
      BY <2>3, <2>4, <3>1
    <3>2. CASE x \notin R[m - 1].flags[f]
      <4>1. Named(m) /\ x \in {m} \X In(m)
        BY <2>2, <2>5, <3>2
      <4>2. PICK k \in In(m) : x = <<m, k>>
        BY <4>1
      <4>3. QED
        BY <2>3, <4>1, <4>2
    <3>3. QED
      BY <3>1, <3>2
  <2>6. ASSUME NEW p \in 1..m, NEW k \in In(p), Named(p)
        PROVE  <<p, k>> \in R[m].flags[f]
    <3>1. CASE p = m
      BY <2>2, <2>6, <3>1
    <3>2. CASE p # m
      <4>1. p \in 1..(m - 1)
        BY <2>3, <3>2
      <4>2. QED
        BY <2>2, <2>4, <2>6, <4>1
    <3>3. QED
      BY <3>1, <3>2
  <2>7. QED
    BY <2>3, <2>5, <2>6
<1>4. \A m \in 0..n : m \in S
  <2>. HIDE DEF S, n
  <2>1. QED
    BY <1>1, <1>2, <1>3, UpTo
<1>5. \A p \in Free(s, a) : p \in 1..n
  BY EndIs DEF Free
<1>. HIDE DEF n, R
<1>6. Reading(s, a) = R[n]
  BY DEF Reading, R, n
<1>7. n \in S
  BY <1>1, <1>4
<1>8. QED
  BY <1>5, <1>6, <1>7

\* The operands in their order.
LEMMA OperandsAre ==
    ASSUME NEW s \in Setup, NEW a \in Seq(Argument), Clean(s, a)
    PROVE  LET values == Reading(s, a).positionals
           IN  /\ values \in Seq(Value)
               /\ \A j \in 1..Len(values) :
                     /\ values[j].at \in 1..Len(a) /\ IsOperand(s, a, values[j].at)
                     /\ values[j].text = a[values[j].at]
               /\ \A p \in 1..Len(a) : IsOperand(s, a, p) =>
                     \E j \in 1..Len(values) : values[j].at = p
               /\ \A i, j \in 1..Len(values) : i < j => values[i].at < values[j].at
<1>. DEFINE n == Len(a)
            V(m) == Readings(s, a)[m].positionals
            Op(p) == IsOperand(s, a, p)
            Ok(values, m) ==
               /\ \A j \in 1..Len(values) :
                     /\ values[j].at \in 1..m /\ Op(values[j].at)
                     /\ values[j].text = a[values[j].at]
               /\ \A p \in 1..m : Op(p) => \E j \in 1..Len(values) : values[j].at = p
               /\ \A i, j \in 1..Len(values) : i < j => values[i].at < values[j].at
            S == {m \in 0..n : Ok(V(m), m)}
<1>0. WellFormed(s)
  BY DEF Clean
<1>1. n \in Nat /\ n \in 0..n
  OBVIOUS
<1>2. \A m \in 0..n : V(m) \in Seq(Value)
  BY <1>0, ReadingTypes DEF ReadingRecord
<1>3. 0 \in S
  <2>1. V(0) = <<>>
    <3>1. Readings(s, a)[0] = NothingRead(s)
      BY ReadingsAre
    <3>2. NothingRead(s).positionals = <<>>
      BY DEF NothingRead
    <3>3. QED
      BY <3>1, <3>2
  <2>. HIDE DEF V, n, Op
  <2>2. Len(V(0)) = 0 /\ 1..0 = {}
    BY <2>1
  <2>3. QED
    BY <1>1, <2>2
<1>4. ASSUME NEW m \in 1..n, m - 1 \in S PROVE m \in S
  <2>1. OperandsStep(s, a, Readings(s, a)[m - 1], m, Readings(s, a)[m])
    BY ReadingChanges
  <2>2. /\ Op(m) => V(m) = Append(V(m - 1), [text |-> a[m], at |-> m])
        /\ ~Op(m) => V(m) = V(m - 1)
    BY <2>1 DEF OperandsStep, Added
  <2>3. a[m] \in Argument /\ m \in Nat /\ m \in 0..n /\ m - 1 \in 0..n
    OBVIOUS
  <2>. DEFINE v == [text |-> a[m], at |-> m]
              old == V(m - 1)
              new == V(m)
  <2>4. v \in Value /\ v.text = a[m] /\ v.at = m
    BY <2>3, ValueType
  <2>5. old \in Seq(Value)
    BY <1>2, <2>3
  <2>6. Ok(old, m - 1)
    BY <1>4
  <2>7. (Op(m) => new = Append(old, v)) /\ (~Op(m) => new = old)
    BY <2>2
  <2>. HIDE DEF V, n, Op, v, old, new
  <2>8. 1..m = (1..(m - 1)) \cup {m} /\ \A k \in 1..(m - 1) : k < m
    BY <2>3
  <2>9. Ok(new, m)
    <3>1. CASE ~Op(m)
      BY <2>6, <2>7, <2>8, <3>1
    <3>2. CASE Op(m)
      <4>1. /\ Len(new) = Len(old) + 1 /\ Len(old) \in Nat
            /\ \A k \in 1..Len(old) : new[k] = old[k]
            /\ new[Len(old) + 1] = v
        BY <2>4, <2>5, <2>7, <3>2, AppendsValue
      <4>. DEFINE l == Len(old)
      <4>2. /\ \A j \in 1..l : old[j].at \in 1..(m - 1) /\ Op(old[j].at) /\ old[j].text = a[old[j].at]
            /\ \A p \in 1..(m - 1) : Op(p) => \E j \in 1..l : old[j].at = p
            /\ \A i, j \in 1..l : i < j => old[i].at < old[j].at
        BY <2>6
      <4>3. /\ l \in Nat /\ Len(new) = l + 1
            /\ \A k \in 1..l : new[k] = old[k] /\ k < l + 1
            /\ new[l + 1] = v /\ 1..Len(new) = (1..l) \cup {l + 1}
        BY <4>1
      <4>. HIDE DEF l
      <4>4. ASSUME NEW j \in 1..Len(new)
            PROVE  new[j].at \in 1..m /\ Op(new[j].at) /\ new[j].text = a[new[j].at]
        BY <2>4, <2>8, <3>2, <4>2, <4>3
      <4>5. ASSUME NEW p \in 1..m, Op(p) PROVE \E j \in 1..Len(new) : new[j].at = p
        <5>1. CASE p = m
          BY <2>4, <4>3, <5>1
        <5>2. CASE p # m
          <6>1. PICK j \in 1..l : old[j].at = p
            BY <2>8, <4>2, <4>5, <5>2
          <6>2. QED
            BY <4>3, <6>1
        <5>3. QED
          BY <5>1, <5>2
      <4>6. ASSUME NEW i \in 1..Len(new), NEW j \in 1..Len(new), i < j
            PROVE  new[i].at < new[j].at
        <5>1. i \in 1..l
          BY <4>3, <4>6
        <5>2. CASE j = l + 1
          BY <2>4, <2>8, <4>2, <4>3, <5>1, <5>2
        <5>3. CASE j # l + 1
          BY <4>2, <4>3, <4>6, <5>1, <5>3
        <5>4. QED
          BY <5>2, <5>3
      <4>7. QED
        BY <4>4, <4>5, <4>6
    <3>3. QED
      BY <3>1, <3>2
  <2>. HIDE DEF Ok
  <2>10. QED
    BY <2>3, <2>9 DEF new
<1>5. \A m \in 0..n : m \in S
  <2>. HIDE DEF S, n
  <2>1. QED
    BY <1>1, <1>3, <1>4, UpTo
<1>6. n \in S
  <2>. HIDE DEF S, n
  <2>1. QED
    BY <1>1, <1>5
<1>7. Ok(V(n), n) /\ V(n) \in Seq(Value)
  BY <1>1, <1>2, <1>6
<1>8. QED
  BY <1>7 DEF Reading

\* Where nothing is read for an option its values stay.
LEMMA NothingIsRead ==
    ASSUME NEW s \in Setup, NEW a \in Seq(Argument), Clean(s, a), NEW o \in DOMAIN s.options,
           NEW low \in 0..Len(a), NEW high \in 0..Len(a), low <= high,
           \A p \in 1..Len(a) : low < p /\ p <= high
               => ~BehindId(s, a, o, p) /\ ~GluedAt(s, a, o, p)
    PROVE  Readings(s, a)[high].options[o] = Readings(s, a)[low].options[o]
<1>. DEFINE n == Len(a)
            V(m) == Readings(s, a)[m].options[o]
            S == {m \in 0..n : low <= m /\ m <= high => V(m) = V(low)}
<1>1. n \in Nat /\ low \in Nat /\ high \in Nat
  OBVIOUS
<1>2. 0 \in S
  <2>. HIDE DEF V, n
  <2>1. low <= 0 => low = 0
    BY <1>1
  <2>2. QED
    BY <1>1, <2>1
<1>3. ASSUME NEW m \in 1..n, m - 1 \in S PROVE m \in S
  <2>1. OptionsStep(s, a, Readings(s, a)[m - 1], m, Readings(s, a)[m])
    BY ReadingChanges
  <2>2. ~BehindId(s, a, o, m) /\ ~GluedAt(s, a, o, m) => V(m) = V(m - 1)
    BY <2>1 DEF OptionsStep
  <2>3. low < m /\ m <= high => ~BehindId(s, a, o, m) /\ ~GluedAt(s, a, o, m)
    OBVIOUS
  <2>. HIDE DEF V, n
  <2>4. m \in 0..n /\ (low <= m <=> low < m \/ low = m) /\ (low < m => low <= m - 1)
        /\ (m <= high => m - 1 <= high)
    BY <1>1
  <2>5. QED
    BY <1>3, <2>2, <2>3, <2>4
<1>4. \A m \in 0..n : m \in S
  <2>. HIDE DEF S, n
  <2>1. QED
    BY <1>1, <1>2, <1>3, UpTo
<1>5. high \in S /\ high <= high
  <2>. HIDE DEF S
  <2>1. QED
    BY <1>1, <1>4
<1>6. QED
  BY <1>5

LEMMA NoOptionReadFirst ==
    ASSUME NEW s \in Setup, NEW a \in Seq(Argument), NEW o \in DOMAIN s.options
    PROVE  Readings(s, a)[0].options[o] = <<>>
<1>1. Readings(s, a)[0] = NothingRead(s)
  BY ReadingsAre
<1>2. NothingRead(s).options[o] = <<>>
  BY DEF NothingRead
<1>3. QED
  BY <1>1, <1>2

\* The value that an identifier at p has, and where it stands.
PlaceOfValue(s, a, o, p) == IF GluesText(s.options[o], a[p]) THEN p ELSE p + 1

TextOfValue(s, a, o, p) ==
    IF GluesText(s.options[o], a[p]) THEN GluedTextOf(s.options[o], a[p]) ELSE a[p + 1]

\* It is read for the option.
LEMMA ValueIsRead ==
    ASSUME NEW s \in Setup, NEW a \in Seq(Argument), Clean(s, a), NEW o \in DOMAIN s.options,
           NEW p \in InFront(a), HasValue(s, a, o, p),
           NEW q, q = PlaceOfValue(s, a, o, p), NEW text, text = TextOfValue(s, a, o, p)
    PROVE  /\ p \in 1..Len(a) /\ q \in 1..Len(a) /\ q \in InFront(a)
           /\ q \in {p, p + 1} /\ text \in Argument
           /\ BeginsWithId(s.options[o], a[p])
           /\ Readings(s, a)[q].options[o] =
                 Append(Readings(s, a)[p - 1].options[o], [text |-> text, at |-> q])
<1>. DEFINE R == Readings(s, a)
            arg == a[p]
<1>0. WellFormed(s)
  BY DEF Clean
<1>1. /\ \A m \in InFront(a) : m \in 1..Len(a)
      /\ \A m \in 1..Len(a) : a[m] \in Argument
      /\ Len(a) \in Nat
  BY EndIs
<1>2. p \in 1..Len(a) /\ arg \in Argument
  BY <1>1
<1>3. CASE GluesText(s.options[o], arg)
  <2>1. q = p /\ text = GluedTextOf(s.options[o], arg)
    BY <1>3 DEF PlaceOfValue, TextOfValue
  <2>2. text \in Argument /\ BeginsWithId(s.options[o], arg)
    BY <1>0, <1>2, <1>3, <2>1, SpelledAndGlued
  <2>3. OptionsStep(s, a, R[p - 1], p, R[p])
    BY <1>2, ReadingChanges
  <2>4. GluedAt(s, a, o, p)
    BY <1>3 DEF GluedAt
  <2>5. R[p].options[o] = Append(R[p - 1].options[o], [text |-> text, at |-> p])
    BY <2>1, <2>3, <2>4 DEF OptionsStep, Added
  <2>6. QED
    BY <1>2, <2>1, <2>2, <2>5
<1>4. CASE ~GluesText(s.options[o], arg)
  <2>1. q = p + 1 /\ text = a[p + 1] /\ Spells(s.options[o], arg) /\ q \in InFront(a)
    BY <1>4 DEF PlaceOfValue, TextOfValue, HasValue
  <2>2. BeginsWithId(s.options[o], arg)
    BY <1>0, <1>2, <2>1, SpelledAndGlued
  <2>3. q \in 1..Len(a) /\ text \in Argument /\ q - 1 = p
    BY <1>1, <1>2, <2>1
  <2>4. ~GluedAt(s, a, o, p) /\ ~BehindId(s, a, o, p)
    <3>1. ~BehindId(s, a, o, p)
      BY <1>2, <2>2, IdentifiersAreNotSeparate
    <3>2. QED
      BY <1>4, <3>1 DEF GluedAt
  <2>5. OptionsStep(s, a, R[p - 1], p, R[p])
    BY <1>2, ReadingChanges
  <2>6. R[p].options[o] = R[p - 1].options[o]
    BY <2>4, <2>5 DEF OptionsStep
  <2>7. OptionsStep(s, a, R[p], q, R[q])
    <3>1. OptionsStep(s, a, R[q - 1], q, R[q])
      BY <2>3, ReadingChanges
    <3>2. QED
      BY <2>3, <3>1
  <2>8. BehindId(s, a, o, q)
    BY <2>1, <2>3 DEF BehindId
  <2>9. R[q].options[o] = Append(R[p].options[o], [text |-> text, at |-> q])
    BY <2>1, <2>7, <2>8 DEF OptionsStep, Added
  <2>10. QED
    BY <1>2, <2>1, <2>2, <2>3, <2>6, <2>9
<1>5. QED
  BY <1>3, <1>4

LEMMA ValueStands ==
    ASSUME NEW s \in Setup, NEW a \in Seq(Argument), Clean(s, a), NEW o \in DOMAIN s.options,
           NEW p \in InFront(a), HasValue(s, a, o, p)
    PROVE  /\ p \in 1..Len(a) /\ PlaceOfValue(s, a, o, p) \in 1..Len(a)
           /\ PlaceOfValue(s, a, o, p) \in InFront(a)
           /\ PlaceOfValue(s, a, o, p) \in {p, p + 1} /\ TextOfValue(s, a, o, p) \in Argument
           /\ BeginsWithId(s.options[o], a[p])
<1>. DEFINE q == PlaceOfValue(s, a, o, p)
            text == TextOfValue(s, a, o, p)
            old == Readings(s, a)[p - 1].options[o]
            new == Readings(s, a)[q].options[o]
<1>1. /\ p \in 1..Len(a) /\ q \in 1..Len(a) /\ q \in InFront(a)
      /\ q \in {p, p + 1} /\ text \in Argument
      /\ BeginsWithId(s.options[o], a[p])
      /\ new = Append(old, [text |-> text, at |-> q])
  BY ValueIsRead
<1>2. QED
  BY <1>1

\* And so it is part of the whole reading.
LEMMA ValueStays ==
    ASSUME NEW s \in Setup, NEW a \in Seq(Argument), Clean(s, a), NEW o \in DOMAIN s.options,
           NEW p \in InFront(a), HasValue(s, a, o, p),
           NEW v, v = [text |-> TextOfValue(s, a, o, p), at |-> PlaceOfValue(s, a, o, p)]
    PROVE  \E k \in DOMAIN Reading(s, a).options[o] : Reading(s, a).options[o][k] = v
<1>. DEFINE q == PlaceOfValue(s, a, o, p)
            text == TextOfValue(s, a, o, p)
            old == Readings(s, a)[p - 1].options[o]
            new == Readings(s, a)[q].options[o]
            all == Reading(s, a).options[o]
<1>0. WellFormed(s)
  BY DEF Clean
<1>1. /\ p \in 1..Len(a) /\ q \in 1..Len(a) /\ text \in Argument
      /\ new = Append(old, [text |-> text, at |-> q])
  BY ValueIsRead
<1>2. p - 1 \in 0..Len(a) /\ q \in 0..Len(a) /\ q \in Nat /\ Len(a) \in 0..Len(a) /\ q <= Len(a)
  BY <1>1
<1>3. old \in Seq(Value) /\ new \in Seq(Value) /\ all \in Seq(Value)
  BY <1>0, <1>2, ReadingTypes DEF ReadingRecord, Reading
<1>4. /\ Len(new) <= Len(all)
      /\ \A k \in 1..Len(new) : all[k] = new[k]
  BY <1>0, <1>1, ReadingStep DEF Extends
<1>5. v \in Value /\ v = [text |-> text, at |-> q]
  BY <1>1, <1>2, ValueType
<1>. HIDE DEF q, text, old, new, all
<1>6. new = Append(old, v)
  BY <1>1, <1>5
<1>7. Len(new) = Len(old) + 1 /\ new[Len(old) + 1] = v
  BY <1>3, <1>5, <1>6, AppendsValue
<1>8. Len(new) \in Nat /\ Len(old) \in Nat /\ Len(all) \in Nat /\ DOMAIN all = 1..Len(all)
  BY <1>3
<1>9. Len(new) \in 1..Len(new) /\ Len(new) \in DOMAIN all
  BY <1>4, <1>7, <1>8
<1>10. QED
  BY <1>4, <1>7, <1>8, <1>9 DEF all

\* A value that does not fit is a user error, and on these command lines no list drops one.
LEMMA ValueMustFit ==
    ASSUME NEW s \in Setup, NEW a \in Seq(Argument), Clean(s, a), NEW o \in DOMAIN s.options,
           NEW p \in InFront(a), HasValue(s, a, o, p),
           NEW text, text = TextOfValue(s, a, o, p)
    PROVE  /\ Accepted(s, Reading(s, a)) => Parses(s.options[o].type, text)
           /\ ~IsDropped(s.options[o], text)
<1>. DEFINE v == [text |-> text, at |-> PlaceOfValue(s, a, o, p)]
<1>1. PICK k \in DOMAIN Reading(s, a).options[o] : Reading(s, a).options[o][k] = v
  BY ValueStays
<1>2. v.text = text
  OBVIOUS
<1>. HIDE DEF v
<1>3. Accepted(s, Reading(s, a)) => Fits(s.options[o], Reading(s, a).options[o])
  BY DEF Accepted
<1>4. ~OverflowInList(s, Reading(s, a))
  BY DEF Clean, Unambiguous
<1>5. ~IsDropped(s.options[o], Reading(s, a).options[o][k].text)
  BY <1>1, <1>4 DEF OverflowInList
<1>6. QED
  BY <1>1, <1>2, <1>3, <1>5 DEF Fits

\* An identifier without a value is a user error.
LEMMA ValueMustFollow ==
    ASSUME NEW s \in Setup, NEW a \in Seq(Argument), Clean(s, a), NEW o \in DOMAIN s.options,
           NEW p \in InFront(a), BeginsWithId(s.options[o], a[p]), Accepted(s, Reading(s, a))
    PROVE  HasValue(s, a, o, p)
<1>. DEFINE E == EndOfOptionsIn(a)
<1>0. WellFormed(s) /\ ~Reading(s, a).malformed /\ Reading(s, a).awaits = 0
  BY DEF Clean, Accepted
<1>1. /\ E \in 1..(Len(a) + 1) /\ Len(a) \in Nat /\ p \in 1..Len(a) /\ p + 1 \in Nat
      /\ \A m \in 1..Len(a) : m \notin InFront(a) <=> E <= m
  BY EndIs
<1>2. SUFFICES ASSUME ~HasValue(s, a, o, p) PROVE FALSE
  OBVIOUS
<1>3. ~GluesText(s.options[o], a[p])
  BY <1>2 DEF HasValue
<1>4. ~IsMalformed(s, a, p)
  BY <1>0, <1>1, MalformedIs
<1>5. Spells(s.options[o], a[p])
  BY <1>3, <1>4 DEF IsMalformed
<1>6. p + 1 \notin InFront(a)
  BY <1>2, <1>5 DEF HasValue
<1>7. CASE p = Len(a)
  <2>1. Readings(s, a)[Len(a)].awaits = o
    <3>1. Len(a) \in 0..Len(a)
      BY <1>1
    <3>2. QED
      BY <1>5, <1>7, <3>1, Synchronised
  <2>2. o # 0
    BY <1>0, CallsAreNamed
  <2>3. QED
    BY <1>0, <2>1, <2>2 DEF Reading
<1>8. CASE p # Len(a)
  <2>1. PICK q \in 1..Len(a) : q = p + 1 /\ q - 1 = p
    BY <1>1, <1>8
  <2>2. BehindId(s, a, o, q)
    BY <1>5, <2>1 DEF BehindId
  <2>3. QED
    BY <1>6, <2>1, <2>2, IdentifiersAreNotSeparate
<1>9. QED
  BY <1>7, <1>8

\* Two places of one identifier or of both have two values.
LEMMA PlacesOfValuesDiffer ==
    ASSUME NEW s \in Setup, NEW a \in Seq(Argument), Clean(s, a), NEW o \in DOMAIN s.options,
           NEW p \in InFront(a), HasValue(s, a, o, p), NEW q \in InFront(a), HasValue(s, a, o, q),
           p < q
    PROVE  PlaceOfValue(s, a, o, p) # PlaceOfValue(s, a, o, q)
<1>0. p \in 1..Len(a) /\ PlaceOfValue(s, a, o, p) \in {p, p + 1}
  BY ValueStands
<1>1. /\ q \in 1..Len(a) /\ PlaceOfValue(s, a, o, q) \in {q, q + 1}
      /\ BeginsWithId(s.options[o], a[q])
  BY ValueStands
<1>2. ASSUME PlaceOfValue(s, a, o, p) = PlaceOfValue(s, a, o, q) PROVE FALSE
  <2>1. q - 1 = p /\ PlaceOfValue(s, a, o, p) = p + 1 /\ p + 1 # p
    BY <1>0, <1>1, <1>2
  <2>2. BehindId(s, a, o, q)
    BY <2>1 DEF BehindId, PlaceOfValue, HasValue
  <2>3. QED
    BY <1>1, <2>2, IdentifiersAreNotSeparate
<1>3. QED
  BY <1>2

\* So a single value must not be typed twice.
LEMMA SingleIsTypedOnce ==
    ASSUME NEW s \in Setup, NEW a \in Seq(Argument), Clean(s, a), NEW o \in DOMAIN s.options,
           ~s.options[o].list, Accepted(s, Reading(s, a)),
           NEW p \in InFront(a), BeginsWithId(s.options[o], a[p]),
           NEW q \in InFront(a), BeginsWithId(s.options[o], a[q])
    PROVE  p = q
<1>. DEFINE values == Reading(s, a).options[o]
            Place(m) == PlaceOfValue(s, a, o, m)
            v(m) == [text |-> TextOfValue(s, a, o, m), at |-> Place(m)]
<1>1. HasValue(s, a, o, p) /\ HasValue(s, a, o, q) /\ p \in Nat /\ q \in Nat
  BY ValueMustFollow, EndIs
<1>2. \E k \in DOMAIN values : values[k] = v(p)
  BY <1>1, ValueStays
<1>3. \E k \in DOMAIN values : values[k] = v(q)
  BY <1>1, ValueStays
<1>4. v(p).at = Place(p) /\ v(q).at = Place(q)
  OBVIOUS
<1>5. Len(values) <= 1
  BY DEF Accepted
<1>6. values \in Seq(Value)
  <2>1. Len(a) \in 0..Len(a)
    BY EndIs
  <2>2. QED
    BY <2>1, ReadingTypes DEF Clean, ReadingRecord, Reading
<1>7. p < q => Place(p) # Place(q)
  BY <1>1, PlacesOfValuesDiffer
<1>8. q < p => Place(p) # Place(q)
  BY <1>1, PlacesOfValuesDiffer
<1>. HIDE DEF v, Place, values
<1>9. \A k, l \in DOMAIN values : k = l
  BY <1>5, <1>6
<1>10. Place(p) = Place(q)
  BY <1>2, <1>3, <1>4, <1>9
<1>11. QED
  BY <1>1, <1>7, <1>8, <1>10

\* Between two places of an option nothing is read for it.
LEMMA NothingIsReadBetween ==
    ASSUME NEW s \in Setup, NEW a \in Seq(Argument), Clean(s, a), NEW o \in DOMAIN s.options,
           NEW low \in 0..Len(a), NEW high \in 0..Len(a), low <= high,
           low = 0 \/ ~Spells(s.options[o], a[low]),
           \A p \in InFront(a) : BeginsWithId(s.options[o], a[p]) => p <= low \/ high < p
    PROVE  Readings(s, a)[high].options[o] = Readings(s, a)[low].options[o]
<1>0. WellFormed(s) /\ low \in Nat /\ high \in Nat
  BY DEF Clean
<1>1. \A p \in InFront(a) : p \in 1..Len(a) /\ p \in Nat \ {0} /\ a[p] \in Argument
  BY EndIs
<1>2. ASSUME NEW p \in 1..Len(a), low < p, p <= high, BehindId(s, a, o, p) PROVE FALSE
  <2>1. PICK q \in InFront(a) : q = p - 1 /\ Spells(s.options[o], a[q])
    BY <1>2 DEF BehindId
  <2>2. BeginsWithId(s.options[o], a[q])
    BY <1>0, <1>1, <2>1, SpelledAndGlued
  <2>3. q = low /\ q # 0
    BY <1>0, <1>1, <1>2, <2>1, <2>2
  <2>4. QED
    BY <2>1, <2>3
<1>3. ASSUME NEW p \in 1..Len(a), low < p, p <= high, GluedAt(s, a, o, p) PROVE FALSE
  <2>1. p \in InFront(a) /\ BeginsWithId(s.options[o], a[p])
    BY <1>3 DEF GluedAt, GluesText
  <2>2. QED
    BY <1>0, <1>3, <2>1
<1>4. \A p \in 1..Len(a) : low < p /\ p <= high => ~BehindId(s, a, o, p) /\ ~GluedAt(s, a, o, p)
  BY <1>2, <1>3
<1>5. QED
  BY <1>4, NothingIsRead

----------------------------------------------------------------------------
(***************************************************************************)
(* What holds during the pass over the options.                            *)
(***************************************************************************)
Read == Reading(setup, format_arguments)

ReadUpTo(p) == Readings(setup, format_arguments)[p]

Places(o, ident) == PlacesOf(setup, format_arguments, o, ident)

\* get_option_by_id has returned for an identifier of option o.
IdIsDone(o, ident) ==
    \/ pc # "begin" /\ ~InOptions
    \/ InOptions /\ o < call
    \/ InOptions /\ o = call /\ (pc = "option_result" \/ (ident = "short" /\ id = "long"))

IdIsRunning(o, ident) ==
    o = call /\ ident = id /\ pc \in {"retrieve", "look_up_again"}

IsRead(o, ident, p) ==
    \/ IdIsDone(o, ident)
    \/ IdIsRunning(o, ident) /\ (p < it \/ (pc = "look_up_again" /\ p = it))

\* The arguments: what an identifier has taken is erased, the rest stands where it was typed.
ReadAt(o, p) ==
    /\ arguments[p] = Erased
    /\ HasValue(setup, format_arguments, o, p)
    /\ Spells(setup.options[o], format_arguments[p]) => arguments[p + 1] = Erased

UnreadAt(o, p) ==
    /\ arguments[p] = format_arguments[p]
    /\ Spells(setup.options[o], format_arguments[p]) /\ p + 1 \in InFront(format_arguments)
          => arguments[p + 1] = format_arguments[p + 1]

OptionArguments ==
    /\ pc = "option_result" => id = "short"
    /\ \A p \in DOMAIN arguments :
          \/ arguments[p] = format_arguments[p]
          \/ p \in InFront(format_arguments) /\ IsUsed(setup, format_arguments, p)
    /\ \A o \in DOMAIN setup.options, ident \in {"short", "long"} :
          \A p \in Places(o, ident) : /\ IsRead(o, ident, p) => ReadAt(o, p)
                                      /\ ~IsRead(o, ident, p) => UnreadAt(o, p)

\* The variables of the options.
OptionIsRight(o) ==
    /\ option_value[o] = OrDefault(Read.options[o])
    /\ ~setup.options[o].list => Len(Read.options[o]) <= 1
    /\ setup.options[o].required => Read.options[o] # <<>>
    /\ Fits(setup.options[o], Read.options[o])

OnlyBy(ident) == \A other \in {"short", "long"} : other # ident => Places(call, other) = {}

\* Of the option that is running: what was found so far is what was read so far.
RunningOption ==
    /\ seen = {ident \in {"short", "long"} :
                  /\ IdIsDone(call, ident) \/ IdIsRunning(call, ident)
                  /\ Places(call, ident) # {}}
    /\ pc \in {"look_up", "option_result"} =>
          /\ seen = {} => option_value[call] = <<Default>>
          /\ \A ident \in seen : OnlyBy(ident) => option_value[call] = Read.options[call]
    /\ pc = "retrieve" =>
          /\ it \in Places(call, id)
          /\ Option.list => (OnlyBy(id) => option_value[call] = ReadUpTo(it - 1).options[call])
          /\ ~Option.list => (\A p \in Places(call, id) : it <= p)
    /\ pc = "look_up_again" =>
          /\ OnlyBy(id) => option_value[call] = ReadUpTo(it).options[call]
          /\ it \in InFront(format_arguments) /\ ~Spells(Option, format_arguments[it])
          /\ \E p \in Places(call, id) : p <= it

\* What was stored for an option is of its type, and a single value is single.
StoredFits(o) ==
    /\ ~setup.options[o].list => Len(option_value[o]) = 1
    /\ \A j \in DOMAIN option_value[o] :
          option_value[o][j].at # 0 => Parses(setup.options[o].type, option_value[o][j].text)

OptionVariables ==
    \A o \in DOMAIN setup.options :
        /\ StoredFits(o)
        /\ o < call => OptionIsRight(o)
        /\ call < o => option_value[o] = <<Default>>

OptionPass == OptionArguments /\ RunningOption /\ OptionVariables

----------------------------------------------------------------------------
(***************************************************************************)
(* Every step of the pass keeps it.                                        *)
(***************************************************************************)
\* An argument an identifier is looked up in is one that begins with it.
LEMMA SearchedBegins ==
    ASSUME ParseTypeOK, InOptions, NEW arg \in Argument
    PROVE  IdentifiedBy(arg, SearchedId) <=> BeginsBy(id, Option, arg)
<1>1. Option \in OptionCall /\ id \in {"short", "long"}
  BY SetupProperties DEF ParseTypeOK, Option
<1>2. Option.short \in Identifier /\ Option.long \in Identifier
  BY <1>1 DEF OptionCall
<1>. DEFINE c == Option
<1>. HIDE DEF c
<1>3. /\ IdentifiedBy(arg, OnlyShort(c.short)) <=> BeginsWithShort(c, arg)
      /\ IdentifiedBy(arg, OnlyLong(c.long)) <=> BeginsWithLong(c, arg)
  BY <1>2, IdentifiedByShort, IdentifiedByLong DEF c
<1>4. QED
  BY <1>3 DEF SearchedId, BeginsBy, c

\* A lookup that finds an identifier finds the first one.
LEMMA FindOptionIdIsFirst ==
    ASSUME NEW args, NEW begin \in Nat, NEW end \in Nat, NEW ident,
           NEW found, found = find_option_id(args, begin, end, ident), found # end
    PROVE  \A p \in begin..(end - 1) : IdentifiedBy(args[p], ident) => found <= p
<1>. DEFINE S == {p \in begin..(end - 1) : IdentifiedBy(args[p], ident)}
<1>1. found = FirstOr(S, end) /\ S \subseteq Nat
  BY DEF find_option_id
<1>2. S # {} /\ found = Min(S)
  BY <1>1 DEF FirstOr
<1>3. \A p \in S : found <= p
  <2>. HIDE DEF S
  <2>1. QED
    BY <1>1, <1>2, MinIsFirst
<1>4. QED
  BY <1>3

\* What is known of the two lists of arguments.
LEMMA ArgumentsAre ==
    ASSUME ParseTypeOK, ArgumentsInv, pc # "begin"
    PROVE  /\ DOMAIN arguments = 1..Len(format_arguments) /\ Len(format_arguments) \in Nat
           /\ format_arguments \in Seq(Argument) /\ setup \in Setup
           /\ \A p \in DOMAIN arguments : arguments[p] \in Argument /\ format_arguments[p] \in Argument
           /\ end_of_options_it = EndOfOptionsIn(format_arguments)
           /\ end_of_options_it \in Nat /\ it \in Nat \ {0}
           /\ \A p : p \in InFront(format_arguments) <=> p \in 1..(end_of_options_it - 1)
           /\ \A p \in InFront(format_arguments) : p \in DOMAIN arguments
           /\ \A p \in DOMAIN arguments : p \notin InFront(format_arguments) <=> end_of_options_it <= p
<1>1. /\ DOMAIN arguments = 1..Len(format_arguments) /\ Len(format_arguments) \in Nat
      /\ format_arguments \in Seq(Argument) /\ setup \in Setup
      /\ \A p \in DOMAIN arguments : arguments[p] \in Argument
  BY TextTypes DEF ParseTypeOK
<1>2. \A p \in 1..Len(format_arguments) : format_arguments[p] \in Argument
  BY <1>1
<1>3. end_of_options_it = EndOfOptionsIn(format_arguments) /\ end_of_options_it \in Nat /\ it \in Nat \ {0}
  BY <1>1 DEF ParseTypeOK, ArgumentsInv
<1>4. /\ \A p \in InFront(format_arguments) : p \in 1..Len(format_arguments)
      /\ \A p \in 1..Len(format_arguments) :
            p \notin InFront(format_arguments) <=> EndOfOptionsIn(format_arguments) <= p
  BY <1>1, EndIs
<1>5. QED
  BY <1>1, <1>2, <1>3, <1>4 DEF InFront

\* A lookup finds the first place of the identifier that has not been read.
LEMMA LookUpFinds ==
    ASSUME ParseTypeOK, ArgumentsInv, OptionArguments,
           pc \in {"look_up", "look_up_again"},
           NEW begin, begin = IF pc = "look_up" THEN 1 ELSE it,
           NEW found, found = find_option_id(arguments, begin, end_of_options_it, SearchedId)
    PROVE  /\ found # end_of_options_it =>
                 /\ found \in Places(call, id) /\ ~IsRead(call, id, found)
                 /\ \A p \in Places(call, id) : ~IsRead(call, id, p) => found <= p
           /\ found = end_of_options_it => \A p \in Places(call, id) : IsRead(call, id, p)
<1>. DEFINE a == format_arguments
            E == end_of_options_it
<1>0. InOptions /\ call \in DOMAIN setup.options /\ call \in Nat /\ id \in {"short", "long"}
  BY DEF InOptions, ParseTypeOK
<1>1. /\ DOMAIN arguments = 1..Len(a) /\ Len(a) \in Nat
      /\ \A p \in DOMAIN arguments : arguments[p] \in Argument /\ a[p] \in Argument
      /\ E \in Nat /\ it \in Nat \ {0}
      /\ \A p : p \in InFront(a) <=> p \in 1..(E - 1)
      /\ \A p \in InFront(a) : p \in DOMAIN arguments
  BY ArgumentsAre
<1>2. \A arg \in Argument : IdentifiedBy(arg, SearchedId) <=> BeginsBy(id, Option, arg)
  BY <1>0, SearchedBegins
<1>3. ~IdentifiedBy(Erased, SearchedId) /\ Erased \in Argument
  BY ErasedNamesNothing, ErasedType
<1>4. begin \in Nat \ {0}
  BY <1>1
<1>5. /\ found # E => found \in begin..(E - 1) /\ IdentifiedBy(arguments[found], SearchedId)
      /\ found = E => \A p \in begin..(E - 1) : ~IdentifiedBy(arguments[p], SearchedId)
  BY <1>1, <1>4, FindOptionIdFinds
<1>6. found # E => \A p \in begin..(E - 1) : IdentifiedBy(arguments[p], SearchedId) => found <= p
  BY <1>1, <1>4, FindOptionIdIsFirst
<1>7. /\ \A p \in Places(call, id) : p \in InFront(a) /\ BeginsBy(id, Option, a[p])
      /\ \A p \in InFront(a) : BeginsBy(id, Option, a[p]) => p \in Places(call, id)
  BY DEF Places, PlacesOf, Option
<1>8. \A p \in Places(call, id) : /\ IsRead(call, id, p) => arguments[p] = Erased
                                  /\ ~IsRead(call, id, p) => arguments[p] = a[p]
  BY <1>0 DEF OptionArguments, ReadAt, UnreadAt
<1>9. \A p \in DOMAIN arguments : arguments[p] \in {Erased, a[p]}
  BY <1>0 DEF ArgumentsInv, ErasedOrLeft
<1>10. ASSUME NEW p \in Places(call, id), ~IsRead(call, id, p)
       PROVE  p \in begin..(E - 1) /\ IdentifiedBy(arguments[p], SearchedId)
  <2>1. p \in 1..(E - 1) /\ p \in DOMAIN arguments /\ BeginsBy(id, Option, a[p])
    BY <1>1, <1>7
  <2>2. IdentifiedBy(arguments[p], SearchedId)
    BY <1>1, <1>2, <1>8, <1>10, <2>1
  <2>3. pc = "look_up_again" => ~(p < it) /\ p # it
    BY <1>0, <1>10 DEF IsRead, IdIsRunning
  <2>4. begin <= p
    BY <1>1, <2>1, <2>3
  <2>5. QED
    BY <1>1, <1>4, <2>1, <2>2, <2>4
<1>11. ASSUME found # E
       PROVE  found \in Places(call, id) /\ ~IsRead(call, id, found)
  <2>1. found \in InFront(a) /\ found \in DOMAIN arguments
    BY <1>1, <1>4, <1>5, <1>11
  <2>2. arguments[found] # Erased /\ arguments[found] = a[found]
    BY <1>3, <1>5, <1>9, <1>11, <2>1
  <2>3. found \in Places(call, id)
    BY <1>1, <1>2, <1>5, <1>7, <1>11, <2>1, <2>2
  <2>4. QED
    BY <1>8, <2>2, <2>3
<1>12. QED
  BY <1>5, <1>6, <1>10, <1>11

\* The command line does not change, and neither does what follows from it.
LEMMA SameCommandLine ==
    ASSUME UNCHANGED config
    PROVE  /\ setup' = setup /\ format_arguments' = format_arguments
           /\ Read' = Read /\ \A p : ReadUpTo(p)' = ReadUpTo(p)
           /\ \A o, ident : Places(o, ident)' = Places(o, ident)
BY DEF config, Read, ReadUpTo, Places

\* A step that erases nothing and changes what counts as read nowhere.
LEMMA SameOptionArguments ==
    ASSUME OptionArguments, UNCHANGED <<config, arguments>>, pc' = "option_result" => id' = "short",
           \A o \in DOMAIN setup.options, ident \in {"short", "long"} :
              \A p \in Places(o, ident) : IsRead(o, ident, p)' <=> IsRead(o, ident, p)
    PROVE  OptionArguments'
<1>1. /\ setup' = setup /\ format_arguments' = format_arguments /\ arguments' = arguments
      /\ \A o, ident : Places(o, ident)' = Places(o, ident)
  BY SameCommandLine
<1>2. \A o, p : (ReadAt(o, p)' <=> ReadAt(o, p)) /\ (UnreadAt(o, p)' <=> UnreadAt(o, p))
  BY <1>1 DEF ReadAt, UnreadAt
<1>3. \A p \in DOMAIN arguments :
          \/ arguments[p] = format_arguments[p]
          \/ p \in InFront(format_arguments) /\ IsUsed(setup, format_arguments, p)
  BY DEF OptionArguments
<1>4. \A p \in DOMAIN arguments' :
          \/ arguments'[p] = format_arguments'[p]
          \/ p \in InFront(format_arguments') /\ IsUsed(setup', format_arguments', p)
  BY <1>1, <1>3
<1>5. ASSUME NEW o \in DOMAIN setup.options, NEW ident \in {"short", "long"}, NEW p \in Places(o, ident)
      PROVE  /\ IsRead(o, ident, p)' => ReadAt(o, p)'
             /\ ~IsRead(o, ident, p)' => UnreadAt(o, p)'
  BY <1>2, <1>5 DEF OptionArguments
<1>6. \A o \in DOMAIN setup'.options, ident \in {"short", "long"} :
          \A p \in Places(o, ident)' : /\ IsRead(o, ident, p)' => ReadAt(o, p)'
                                       /\ ~IsRead(o, ident, p)' => UnreadAt(o, p)'
  BY <1>1, <1>5
<1>7. QED
  BY <1>4, <1>6 DEF OptionArguments

\* What has been read before and behind a lookup.
LEMMA ReadBeforeLookUp ==
    ASSUME pc = "look_up", NEW o \in Nat, NEW ident, NEW p
    PROVE  /\ IsRead(o, ident, p) <=> IdIsDone(o, ident)
           /\ IdIsDone(o, ident) <=> o < call \/ (o = call /\ ident = "short" /\ id = "long")
           /\ ~IdIsRunning(o, ident)
BY DEF IsRead, IdIsDone, IdIsRunning, InOptions

\* The first lookup, and the values of the option it begins to read.
LEMMA FirstLookUpKeeps ==
    ASSUME ParseTypeOK, ArgumentsInv, Clean(setup, format_arguments), OptionPass, LookUpOption
    PROVE  OptionArguments'
<1>. DEFINE found == find_option_id(arguments, 1, end_of_options_it, SearchedId)
<1>0. /\ pc = "look_up" /\ UNCHANGED <<config, arguments, end_of_options_it, call>> /\ it' = found
      /\ \/ found # end_of_options_it /\ pc' = "retrieve" /\ id' = id
         \/ found = end_of_options_it /\ LeaveGetOptionById
  BY DEF LookUpOption
<1>1. OptionArguments
  BY DEF OptionPass
<1>. HIDE DEF found
<1>2. /\ found # end_of_options_it => \A p \in Places(call, id) : ~IsRead(call, id, p) => found <= p
      /\ found = end_of_options_it => \A p \in Places(call, id) : IsRead(call, id, p)
  BY <1>0, <1>1, LookUpFinds DEF found
<1>3. call \in Nat /\ id \in {"short", "long"} /\ found \in Nat
      /\ \A o \in DOMAIN setup.options : o \in Nat
  <2>1. call \in Nat /\ id \in {"short", "long"} /\ end_of_options_it \in Nat
    BY DEF ParseTypeOK
  <2>2. found \in Nat
    BY <2>1, FindOptionIdFinds DEF found
  <2>3. \A o \in DOMAIN setup.options : o \in Nat
    BY ArgumentsAre, <1>0, CallsAreNamed DEF Clean
  <2>4. QED
    BY <2>1, <2>2, <2>3
<1>4. \A p \in Places(call, id) : ~IsRead(call, id, p) /\ p \in Nat
  <2>1. \A p : ~IsRead(call, id, p)
    BY <1>0, <1>3, ReadBeforeLookUp
  <2>2. \A p \in Places(call, id) : p \in Nat
    BY EndIs DEF Places, PlacesOf, ParseTypeOK
  <2>3. QED
    BY <2>1, <2>2
<1>5. ASSUME NEW o \in DOMAIN setup.options, NEW ident \in {"short", "long"}, NEW p \in Places(o, ident)
      PROVE  IsRead(o, ident, p)' <=> IsRead(o, ident, p)
  <2>0. IsRead(o, ident, p) <=> o < call \/ (o = call /\ ident = "short" /\ id = "long")
    BY <1>0, <1>3, ReadBeforeLookUp
  <2>1. CASE found # end_of_options_it
    <3>1. IsRead(o, ident, p)' <=> \/ o < call \/ (o = call /\ ident = "short" /\ id = "long")
                                   \/ o = call /\ ident = id /\ p < found
      BY <1>0, <2>1 DEF IsRead, IdIsDone, IdIsRunning, InOptions
    <3>2. o = call /\ ident = id => ~(p < found)
      BY <1>2, <1>3, <1>4, <2>1
    <3>3. QED
      BY <2>0, <3>1, <3>2
  <2>2. CASE found = end_of_options_it
    <3>1. ~(o = call /\ ident = id)
      BY <1>2, <1>4, <2>2
    <3>2. IsRead(o, ident, p)' <=> \/ o < call \/ (o = call /\ (id = "long" \/ ident = "short"))
      BY <1>0, <1>3, <2>2 DEF IsRead, IdIsDone, IdIsRunning, InOptions, LeaveGetOptionById
    <3>3. QED
      BY <1>3, <2>0, <3>1, <3>2
  <2>3. QED
    BY <2>1, <2>2
<1>6. pc' = "option_result" => id' = "short"
  BY <1>0 DEF LeaveGetOptionById
<1>7. QED
  BY <1>0, <1>1, <1>5, <1>6, SameOptionArguments

\* The variables of the options that are not running, and the type of what is stored.
LEMMA OtherOptionsStay ==
    ASSUME ParseTypeOK, pc # "begin", OptionVariables, UNCHANGED <<config, call>>,
           \A o \in DOMAIN setup.options : o # call => option_value'[o] = option_value[o],
           StoredFits(call)'
    PROVE  OptionVariables'
<1>1. setup' = setup /\ format_arguments' = format_arguments /\ Read' = Read /\ call' = call
  BY SameCommandLine
<1>2. \A o \in DOMAIN setup.options : o # call =>
          /\ StoredFits(o)' <=> StoredFits(o)
          /\ OptionIsRight(o)' <=> OptionIsRight(o)
  BY <1>1 DEF StoredFits, OptionIsRight
<1>3. \A o \in DOMAIN setup.options : o \in Nat
  BY SetupProperties
<1>4. call \in Nat
  BY DEF ParseTypeOK
<1>5. \A o \in DOMAIN setup.options : (o < call => o # call) /\ (call < o => o # call)
  BY <1>3, <1>4
<1>6. QED
  BY <1>1, <1>2, <1>5 DEF OptionVariables

\* Where every place of an option is at or behind one, nothing is read for it in front.
LEMMA NothingIsReadInFront ==
    ASSUME ParseTypeOK, ArgumentsInv, pc # "begin", Clean(setup, format_arguments),
           call \in DOMAIN setup.options, id \in {"short", "long"}, OnlyBy(id),
           NEW p \in Places(call, id), \A q \in Places(call, id) : p <= q
    PROVE  ReadUpTo(p - 1).options[call] = <<>>
<1>. DEFINE s == setup
            a == format_arguments
<1>1. /\ s \in Setup /\ a \in Seq(Argument) /\ Len(a) \in Nat
      /\ \A q \in InFront(a) : q \in 1..Len(a)
  <2>1. s \in Setup /\ a \in Seq(Argument)
    BY DEF ParseTypeOK
  <2>2. QED
    BY <2>1, EndIs
<1>2. p \in 1..Len(a) /\ \A ident, q : q \in Places(call, ident) => q \in 1..Len(a)
  BY <1>1 DEF Places, PlacesOf
<1>3. ASSUME NEW q \in InFront(a), BeginsWithId(s.options[call], a[q])
      PROVE  p - 1 < q
  <2>1. q \in Places(call, "short") \/ q \in Places(call, "long")
    BY <1>3 DEF BeginsWithId, Places, PlacesOf, BeginsBy
  <2>2. q \in Places(call, id)
    BY <2>1 DEF OnlyBy
  <2>3. QED
    BY <1>2, <2>2
<1>4. PICK high \in 0..Len(a) : high = p - 1
  BY <1>1, <1>2
<1>5. 0 \in 0..Len(a) /\ 0 <= high
  BY <1>1, <1>4
<1>6. \A q \in InFront(a) : BeginsWithId(s.options[call], a[q]) => q <= 0 \/ high < q
  BY <1>3, <1>4
<1>7. Readings(s, a)[high].options[call] = Readings(s, a)[0].options[call]
  BY <1>1, <1>5, <1>6, NothingIsReadBetween
<1>8. QED
  BY <1>1, <1>4, <1>7, NoOptionReadFirst DEF ReadUpTo

LEMMA LookUpOptionKeeps ==
    ASSUME ParseTypeOK, ArgumentsInv, Clean(setup, format_arguments), OptionPass, LookUpOption
    PROVE  OptionPass'
<1>. DEFINE found == find_option_id(arguments, 1, end_of_options_it, SearchedId)
            E == end_of_options_it
<1>0. /\ pc = "look_up" /\ UNCHANGED <<config, arguments, end_of_options_it, call>> /\ it' = found
      /\ \/ /\ found # E /\ pc' = "retrieve" /\ id' = id
            /\ seen' = seen \cup {id} /\ option_value' = Forget(option_value, Option.list)
         \/ found = E /\ LeaveGetOptionById /\ UNCHANGED <<seen, option_value>>
  BY DEF LookUpOption
<1>1. OptionArguments /\ RunningOption /\ OptionVariables
  BY DEF OptionPass
<1>. HIDE DEF found
<1>2. /\ found # E => /\ found \in Places(call, id)
                      /\ \A p \in Places(call, id) : ~IsRead(call, id, p) => found <= p
      /\ found = E => \A p \in Places(call, id) : IsRead(call, id, p)
  BY <1>0, <1>1, LookUpFinds DEF found
<1>3. call \in DOMAIN setup.options /\ call \in Nat /\ id \in {"short", "long"}
      /\ option_value \in [DOMAIN setup.options -> Seq(Value)]
  BY <1>0 DEF ParseTypeOK, InOptions
<1>4. \A ident, p : /\ IsRead(call, ident, p) <=> ident = "short" /\ id = "long"
                    /\ IdIsDone(call, ident) <=> ident = "short" /\ id = "long"
                    /\ ~IdIsRunning(call, ident)
  <2>1. ~(call < call)
    BY <1>3
  <2>2. ASSUME NEW ident, NEW p
        PROVE  /\ IsRead(call, ident, p) <=> IdIsDone(call, ident)
               /\ IdIsDone(call, ident) <=> call < call \/ (ident = "short" /\ id = "long")
               /\ ~IdIsRunning(call, ident)
    BY <1>0, <1>3, ReadBeforeLookUp
  <2>3. QED
    BY <2>1, <2>2
<1>5. \A p : ~IsRead(call, id, p)
  BY <1>4
<1>6. /\ setup' = setup /\ format_arguments' = format_arguments /\ call' = call
      /\ Read' = Read /\ \A p : ReadUpTo(p)' = ReadUpTo(p)
      /\ \A o, ident : Places(o, ident)' = Places(o, ident)
      /\ Option' = Option
  BY <1>0, SameCommandLine DEF Option
<1>7. seen = {ident \in {"short", "long"} : ident = "short" /\ id = "long" /\ Places(call, ident) # {}}
  BY <1>1, <1>4 DEF RunningOption
<1>8. CASE found # E
  <2>1. option_value'[call] = IF Option.list THEN <<>> ELSE option_value[call]
    BY <1>0, <1>3, <1>8 DEF Forget
  <2>2. \A ident : IdIsDone(call, ident)' <=> ident = "short" /\ id = "long"
    BY <1>0, <1>3, <1>8 DEF IdIsDone, InOptions
  <2>3. \A ident : IdIsRunning(call, ident)' <=> ident = id
    BY <1>0, <1>8 DEF IdIsRunning
  <2>4. seen' = {ident \in {"short", "long"} :
                    (IdIsDone(call, ident)' \/ IdIsRunning(call, ident)') /\ Places(call, ident) # {}}
    BY <1>0, <1>2, <1>3, <1>7, <1>8, <2>2, <2>3
  <2>5. \A p \in Places(call, id) : found <= p
    BY <1>2, <1>5, <1>8
  <2>6. OnlyBy(id)' <=> OnlyBy(id)
    BY <1>0, <1>6, <1>8 DEF OnlyBy
  <2>7. OnlyBy(id) => ReadUpTo(found - 1).options[call] = <<>>
    BY <1>0, <1>2, <1>3, <1>8, <2>5, NothingIsReadInFront
  <2>8. RunningOption'
    BY <1>0, <1>2, <1>6, <1>8, <2>1, <2>4, <2>5, <2>6, <2>7 DEF RunningOption
  <2>9. StoredFits(call)'
    <3>1. StoredFits(call)
      BY <1>1, <1>3 DEF OptionVariables
    <3>2. CASE Option.list
      <4>1. option_value'[call] = <<>> /\ setup'.options[call].list
        BY <1>6, <2>1, <3>2 DEF Option
      <4>2. QED
        BY <4>1, <1>6 DEF StoredFits
    <3>3. CASE ~Option.list
      BY <1>6, <2>1, <3>1, <3>3 DEF StoredFits
    <3>4. QED
      BY <3>2, <3>3
  <2>10. \A o \in DOMAIN setup.options : o # call => option_value'[o] = option_value[o]
    BY <1>0, <1>3, <1>8 DEF Forget
  <2>11. OptionVariables'
    BY <1>0, <1>1, <2>9, <2>10, OtherOptionsStay
  <2>12. QED
    BY <2>8, <2>11, FirstLookUpKeeps DEF OptionPass
<1>9. CASE found = E
  <2>1. Places(call, id) = {}
    BY <1>2, <1>5, <1>9
  <2>2. \A ident \in {"short", "long"} : IdIsDone(call, ident)' <=> ident = "short" \/ id = "long"
    BY <1>0, <1>3, <1>9 DEF IdIsDone, InOptions, LeaveGetOptionById
  <2>3. \A ident : ~IdIsRunning(call, ident)'
    BY <1>0, <1>9 DEF IdIsRunning, LeaveGetOptionById
  <2>4. seen' = {ident \in {"short", "long"} :
                    (IdIsDone(call, ident)' \/ IdIsRunning(call, ident)') /\ Places(call, ident) # {}}
    BY <1>0, <1>3, <1>7, <1>9, <2>1, <2>2, <2>3
  <2>5. /\ seen' = seen /\ option_value' = option_value
        /\ pc' \in {"look_up", "option_result"} /\ \A ident : OnlyBy(ident)' <=> OnlyBy(ident)
    BY <1>0, <1>6, <1>9 DEF OnlyBy, LeaveGetOptionById
  <2>6. /\ seen = {} => option_value[call] = <<Default>>
        /\ \A ident \in seen : OnlyBy(ident) => option_value[call] = Read.options[call]
    BY <1>0, <1>1 DEF RunningOption
  <2>7. RunningOption'
    BY <1>6, <2>4, <2>5, <2>6 DEF RunningOption
  <2>8. StoredFits(call)'
    BY <1>1, <1>3, <1>6, <2>5 DEF OptionVariables, StoredFits
  <2>9. OptionVariables'
    BY <1>0, <1>1, <2>5, <2>8, OtherOptionsStay
  <2>10. QED
    BY <2>7, <2>9, FirstLookUpKeeps DEF OptionPass
<1>10. QED
  BY <1>8, <1>9

\* Behind the dashes and the name: the text that is glued to an identifier, or nothing.
LEMMA GluedBehindDash ==
    ASSUME NEW c, IsNamed(c), NEW arg \in Argument, NEW ident \in {"short", "long"},
           BeginsBy(ident, c, arg),
           NEW k \in {2, 3}, ident = "short" => k = 2, ident = "long" => k = 3,
           NEW l, arg[k + 1] = "=" => l = k + 2, arg[k + 1] # "=" => l = k + 1,
           NEW text, text = SubSeq(arg, l, Len(arg))
    PROVE  /\ Len(arg) > k /\ (arg[k + 1] = "=" => text # <<>>) <=> GluesText(c, arg)
           /\ GluesText(c, arg) => text = GluedTextOf(c, arg)
           /\ ~(Len(arg) > k) <=> Spells(c, arg)
<1>. DEFINE size == Len(arg)
            start == TextStart(c, arg)
<1>1. size \in Nat /\ l \in Nat \ {0}
  BY DEF Argument
<1>2. Spells(c, arg) <=> \/ BeginsWithShort(c, arg) /\ size = 2
                         \/ BeginsWithLong(c, arg) /\ size = 3
  BY SpellsShape
<1>3. ~(BeginsWithShort(c, arg) /\ BeginsWithLong(c, arg))
  BY DEF BeginsWithShort, BeginsWithLong, IsNamed
<1>4. text # <<>> <=> size >= l
  BY <1>1, EndOfArgument
<1>5. l = start => text = GluedTextOf(c, arg)
  BY DEF GluedTextOf
<1>6. /\ BeginsWithShort(c, arg) => size >= 2
      /\ BeginsWithLong(c, arg) => size >= 3 /\ (size = 3 \/ arg[4] = "=")
  BY DEF BeginsWithShort, BeginsWithLong
<1>7. /\ BeginsWithLong(c, arg) => start = 5
      /\ BeginsWithShort(c, arg) => start = IF arg[3] = "=" THEN 4 ELSE 3
  BY <1>3 DEF TextStart
<1>8. BeginsWithShort(c, arg) \/ BeginsWithLong(c, arg) =>
         (GluesText(c, arg) <=> size >= 3 /\ size >= start)
  BY DEF GluesText, BeginsWithId
<1>. HIDE DEF size, start
<1>9. CASE ident = "short"
  <2>1. BeginsWithShort(c, arg) /\ k + 1 = 3 /\ k = 2
    BY <1>9 DEF BeginsBy
  <2>2. CASE arg[3] = "="
    <3>1. l = 4 /\ start = 4
      BY <1>7, <2>1, <2>2
    <3>2. /\ size > k /\ (arg[k + 1] = "=" => text # <<>>) <=> GluesText(c, arg)
          /\ ~(size > k) <=> Spells(c, arg)
      BY <1>1, <1>2, <1>3, <1>4, <1>6, <1>8, <2>1, <2>2, <3>1
    <3>3. QED
      BY <1>5, <3>1, <3>2 DEF size
  <2>3. CASE arg[3] # "="
    <3>1. l = 3 /\ start = 3
      BY <1>7, <2>1, <2>3
    <3>2. /\ size > k /\ (arg[k + 1] = "=" => text # <<>>) <=> GluesText(c, arg)
          /\ ~(size > k) <=> Spells(c, arg)
      BY <1>1, <1>2, <1>3, <1>4, <1>6, <1>8, <2>1, <2>3, <3>1
    <3>3. QED
      BY <1>5, <3>1, <3>2 DEF size
  <2>4. QED
    BY <2>2, <2>3
<1>10. CASE ident = "long"
  <2>1. BeginsWithLong(c, arg) /\ k + 1 = 4 /\ k = 3 /\ start = 5
    BY <1>7, <1>10 DEF BeginsBy
  <2>2. CASE arg[4] = "="
    <3>1. l = 5
      BY <2>1, <2>2
    <3>2. /\ size > k /\ (arg[k + 1] = "=" => text # <<>>) <=> GluesText(c, arg)
          /\ ~(size > k) <=> Spells(c, arg)
      BY <1>1, <1>2, <1>3, <1>4, <1>6, <1>8, <2>1, <2>2, <3>1
    <3>3. QED
      BY <1>5, <2>1, <3>1, <3>2 DEF size
  <2>3. CASE arg[4] # "="
    <3>1. size = 3 /\ ~GluesText(c, arg)
      BY <1>1, <1>6, <1>8, <2>1, <2>3
    <3>2. /\ size > k /\ (arg[k + 1] = "=" => text # <<>>) <=> GluesText(c, arg)
          /\ ~(size > k) <=> Spells(c, arg)
      BY <1>2, <1>3, <2>1, <3>1
    <3>3. QED
      BY <3>1, <3>2 DEF size
  <2>4. QED
    BY <2>2, <2>3
<1>11. QED
  BY <1>9, <1>10

\* What stands at the place that was found.
LEMMA FoundPlace ==
    ASSUME ParseTypeOK, ArgumentsInv, Clean(setup, format_arguments), OptionArguments,
           pc = "retrieve", it \in Places(call, id)
    PROVE  /\ arguments[it] = format_arguments[it] /\ it \in InFront(format_arguments)
           /\ it \in DOMAIN arguments /\ BeginsWithId(Option, format_arguments[it])
           /\ Glued /\ ~(GluedWithEqual /\ GluedText = <<>>) <=> GluesText(Option, format_arguments[it])
           /\ GluesText(Option, format_arguments[it]) => GluedText = GluedTextOf(Option, format_arguments[it])
           /\ ~Glued <=> Spells(Option, format_arguments[it])
           /\ it + 1 \in InFront(format_arguments) <=> ~NoSeparateValue
           /\ Spells(Option, format_arguments[it]) /\ it + 1 \in InFront(format_arguments)
                 => arguments[it + 1] = format_arguments[it + 1]
<1>. DEFINE a == format_arguments
            arg == format_arguments[it]
            dash == PrependDash
            k == IF id = "short" THEN 2 ELSE 3
            l == IF arg[k + 1] = "=" THEN k + 2 ELSE k + 1
            text == SubSeq(arg, l, Len(arg))
<1>1. /\ InOptions /\ call \in DOMAIN setup.options /\ call \in Nat /\ id \in {"short", "long"}
      /\ it < end_of_options_it
  BY DEF InOptions, ParseTypeOK
<1>2. /\ \A p \in DOMAIN arguments : format_arguments[p] \in Argument
      /\ end_of_options_it \in Nat /\ it \in Nat \ {0}
      /\ \A p : p \in InFront(a) <=> p \in 1..(end_of_options_it - 1)
      /\ \A p \in InFront(a) : p \in DOMAIN arguments
  BY ArgumentsAre
<1>3. it \in InFront(a) /\ BeginsBy(id, Option, arg)
  BY DEF Places, PlacesOf, Option
<1>4. ~IsRead(call, id, it)
  <2>1. ~(call < call) /\ ~(it < it)
    BY <1>1, <1>2
  <2>2. QED
    BY <1>1, <2>1 DEF IsRead, IdIsDone, IdIsRunning
<1>5. UnreadAt(call, it)
  BY <1>1, <1>4 DEF OptionArguments
<1>6. arguments[it] = arg /\ arg \in Argument /\ it \in DOMAIN arguments
  BY <1>2, <1>3, <1>5 DEF UnreadAt
<1>7. IsNamed(Option)
  BY <1>1, CallsAreNamed DEF Clean, ParseTypeOK, Option
<1>8. /\ Len(arg) > k /\ (arg[k + 1] = "=" => text # <<>>) <=> GluesText(Option, arg)
      /\ GluesText(Option, arg) => text = GluedTextOf(Option, arg)
      /\ ~(Len(arg) > k) <=> Spells(Option, arg)
  <2>1. /\ k \in {2, 3} /\ (id = "short" => k = 2) /\ (id = "long" => k = 3)
        /\ (arg[k + 1] = "=" => l = k + 2) /\ (arg[k + 1] # "=" => l = k + 1)
        /\ text = SubSeq(arg, l, Len(arg))
    BY <1>1
  <2>. HIDE DEF dash, k, l, text, arg
  <2>2. QED
    BY <1>1, <1>3, <1>6, <1>7, <2>1, GluedBehindDash
<1>9. Len(dash) = k
  <2>1. CASE id = "short"
    <3>1. Option.short \in Identifier /\ Option.short # NoId
      BY <1>3, <1>7, <2>1 DEF BeginsBy, BeginsWithShort, IsNamed
    <3>2. Len(prepend_dash_short(Option.short)) = 2
      BY <3>1, DashTypes
    <3>3. QED
      BY <2>1, <3>2 DEF PrependDash
  <2>2. CASE id = "long"
    <3>1. Option.long \in Identifier /\ Option.long # NoId
      BY <1>3, <1>7, <2>2 DEF BeginsBy, BeginsWithLong, IsNamed
    <3>2. Len(prepend_dash_long(Option.long)) = 3
      BY <3>1, DashTypes
    <3>3. QED
      BY <2>2, <3>2 DEF PrependDash
  <2>3. QED
    BY <1>1, <2>1, <2>2
<1>10. /\ Glued <=> Len(arg) > k
       /\ GluedWithEqual <=> Len(arg) > k /\ arg[k + 1] = "="
       /\ Len(arg) > k => GluedText = text
  <2>1. /\ Glued <=> Len(arg) > Len(dash)
        /\ GluedWithEqual <=> Len(arg) > Len(dash) /\ arg[Len(dash) + 1] = "="
        /\ GluedText = SubSeq(arg, Len(dash) + (IF GluedWithEqual THEN 2 ELSE 1), Len(arg))
    BY <1>6 DEF Glued, GluedWithEqual, GluedText
  <2>. HIDE DEF dash
  <2>2. /\ Glued <=> Len(arg) > k
        /\ GluedWithEqual <=> Len(arg) > k /\ arg[k + 1] = "="
        /\ GluedText = SubSeq(arg, k + (IF GluedWithEqual THEN 2 ELSE 1), Len(arg))
    BY <1>9, <2>1
  <2>3. Len(arg) > k => l = k + (IF GluedWithEqual THEN 2 ELSE 1)
    BY <2>2
  <2>. HIDE DEF k, l
  <2>4. QED
    BY <2>2, <2>3
<1>11. it + 1 \in InFront(a) <=> ~NoSeparateValue
  BY <1>1, <1>2 DEF NoSeparateValue
<1>. HIDE DEF text, k, arg
<1>12. Glued /\ ~(GluedWithEqual /\ GluedText = <<>>) <=> GluesText(Option, arg)
  BY <1>8, <1>10
<1>13. Spells(Option, arg) /\ it + 1 \in InFront(a) => arguments[it + 1] = a[it + 1]
  BY <1>5 DEF UnreadAt, Option, arg
<1>14. BeginsWithId(Option, arg)
  BY <1>1, <1>3 DEF BeginsBy, BeginsWithId, arg
<1>15. GluesText(Option, arg) => GluedText = GluedTextOf(Option, arg)
  BY <1>8, <1>10
<1>16. QED
  BY <1>3, <1>6, <1>8, <1>10, <1>11, <1>12, <1>13, <1>14, <1>15 DEF arg

\* What is retrieved there is the value the reading reads, or there is none.
ValueText == TextOfValue(setup, format_arguments, call, it)

ValuePlace == PlaceOfValue(setup, format_arguments, call, it)

LEMMA RetrievedIsTheValue ==
    ASSUME ParseTypeOK, ArgumentsInv, Clean(setup, format_arguments), OptionArguments,
           pc = "retrieve", it \in Places(call, id)
    PROVE  /\ RetrieveGluedValue \/ RetrieveSeparateValue =>
                 /\ HasValue(setup, format_arguments, call, it)
                 /\ StoreOptionValue(ValueText, ValuePlace)
                 /\ UNCHANGED <<config, end_of_options_it, call, id, seen, flag_value>>
           /\ MissingOptionValue => ~HasValue(setup, format_arguments, call, it)
<1>. DEFINE a == format_arguments
            arg == format_arguments[it]
            text == GluedText
<1>1. /\ it \in InFront(a) /\ it \in DOMAIN arguments /\ BeginsWithId(Option, arg)
      /\ Glued /\ ~(GluedWithEqual /\ text = <<>>) <=> GluesText(Option, arg)
      /\ GluesText(Option, arg) => text = GluedTextOf(Option, arg)
      /\ ~Glued <=> Spells(Option, arg)
      /\ it + 1 \in InFront(a) <=> ~NoSeparateValue
      /\ Spells(Option, arg) /\ it + 1 \in InFront(a) => arguments[it + 1] = a[it + 1]
  BY FoundPlace
<1>2. /\ HasValue(setup, a, call, it) <=>
            GluesText(Option, arg) \/ (Spells(Option, arg) /\ it + 1 \in InFront(a))
      /\ GluesText(Option, arg) => ValuePlace = it /\ ValueText = GluedTextOf(Option, arg)
      /\ ~GluesText(Option, arg) => ValuePlace = it + 1 /\ ValueText = a[it + 1]
  BY DEF HasValue, PlaceOfValue, TextOfValue, ValuePlace, ValueText, Option
<1>3. ~(GluesText(Option, arg) /\ Spells(Option, arg))
  <2>1. \A p \in DOMAIN arguments : a[p] \in Argument
    BY ArgumentsAre
  <2>2. arg \in Argument /\ call \in DOMAIN setup.options /\ setup \in Setup
    BY <1>1, <2>1 DEF ParseTypeOK, InOptions
  <2>3. QED
    BY <2>2, SpelledAndGlued DEF Clean, Option
<1>4. /\ RetrieveGluedValue => Glued /\ ~(GluedWithEqual /\ text = <<>>) /\ StoreOptionValue(text, it)
      /\ RetrieveSeparateValue =>
            ~Glued /\ ~NoSeparateValue /\ StoreOptionValue(arguments[it + 1], it + 1)
      /\ MissingOptionValue =>
            (GluedWithEqual /\ text = <<>>) \/ (~Glued /\ NoSeparateValue)
      /\ RetrieveGluedValue \/ RetrieveSeparateValue =>
            UNCHANGED <<config, end_of_options_it, call, id, seen, flag_value>>
  BY DEF RetrieveGluedValue, RetrieveSeparateValue, MissingOptionValue
<1>5. GluedWithEqual => Glued
  BY DEF GluedWithEqual
<1>. HIDE DEF arg, text
<1>6. ASSUME RetrieveGluedValue
      PROVE  HasValue(setup, a, call, it) /\ StoreOptionValue(ValueText, ValuePlace)
  <2>1. GluesText(Option, arg) /\ StoreOptionValue(text, it)
    BY <1>1, <1>4, <1>6
  <2>2. text = ValueText /\ it = ValuePlace /\ HasValue(setup, a, call, it)
    BY <1>1, <1>2, <2>1
  <2>3. QED
    BY <2>1, <2>2
<1>7. ASSUME RetrieveSeparateValue
      PROVE  HasValue(setup, a, call, it) /\ StoreOptionValue(ValueText, ValuePlace)
  <2>1. Spells(Option, arg) /\ it + 1 \in InFront(a) /\ StoreOptionValue(arguments[it + 1], it + 1)
    BY <1>1, <1>4, <1>7
  <2>2. /\ arguments[it + 1] = ValueText /\ it + 1 = ValuePlace
        /\ HasValue(setup, a, call, it)
    BY <1>1, <1>2, <1>3, <2>1
  <2>3. QED
    BY <2>1, <2>2
<1>8. MissingOptionValue => ~HasValue(setup, a, call, it)
  BY <1>1, <1>2, <1>4, <1>5
<1>9. QED
  BY <1>4, <1>6, <1>7, <1>8

\* An identifier that is found has a value where the reading is no user error.
LEMMA MissingIsAnError ==
    ASSUME ParseTypeOK, ArgumentsInv, Clean(setup, format_arguments), OptionPass, MissingOptionValue
    PROVE  ~Accepted(setup, Read)
<1>1. pc = "retrieve" /\ it \in Places(call, id) /\ OptionArguments
  BY DEF MissingOptionValue, OptionPass, RunningOption
<1>2. /\ it \in InFront(format_arguments) /\ BeginsWithId(Option, format_arguments[it])
      /\ ~HasValue(setup, format_arguments, call, it)
  BY <1>1, FoundPlace, RetrievedIsTheValue
<1>3. call \in DOMAIN setup.options /\ setup \in Setup /\ format_arguments \in Seq(Argument)
  BY <1>1 DEF ParseTypeOK, InOptions
<1>4. QED
  BY <1>2, <1>3, ValueMustFollow DEF Option, Read

\* No other place of an identifier is at the one that was found or at its value.
LEMMA ValueIsNoPlace ==
    ASSUME NEW s \in Setup, NEW a \in Seq(Argument), Clean(s, a), NEW o \in DOMAIN s.options,
           NEW p \in InFront(a), HasValue(s, a, o, p), NEW q, q = PlaceOfValue(s, a, o, p)
    PROVE  /\ p \in 1..Len(a) /\ q \in 1..Len(a) /\ q \in InFront(a) /\ q \in {p, p + 1} /\ p <= q
           /\ IsUsed(s, a, p) /\ IsUsed(s, a, q)
           /\ q # p => \A m \in DOMAIN s.options : ~BeginsWithId(s.options[m], a[q])
           /\ Spells(s.options[o], a[p]) => q = p + 1
           /\ ~Spells(s.options[o], a[q])
           /\ \A m \in DOMAIN s.options : \A n \in InFront(a) :
                 Spells(s.options[m], a[n]) => n + 1 # p
<1>0. WellFormed(s)
  BY DEF Clean
<1>1. /\ p \in 1..Len(a) /\ q \in 1..Len(a) /\ q \in InFront(a) /\ q \in {p, p + 1}
      /\ BeginsWithId(s.options[o], a[p])
  BY ValueStands
<1>2. \A m \in 1..Len(a) : a[m] \in Argument
  OBVIOUS
<1>3. Spells(s.options[o], a[p]) => ~GluesText(s.options[o], a[p])
  BY <1>0, <1>1, <1>2, SpelledAndGlued
<1>4. /\ q # p => q = p + 1 /\ Spells(s.options[o], a[p])
      /\ Spells(s.options[o], a[p]) => q = p + 1
  BY <1>1, <1>3 DEF PlaceOfValue, HasValue
<1>5. ASSUME q # p
      PROVE  /\ IsUsed(s, a, q)
             /\ \A m \in DOMAIN s.options : ~BeginsWithId(s.options[m], a[q])
  <2>1. q - 1 = p
    BY <1>1, <1>4, <1>5
  <2>2. BehindId(s, a, o, q)
    BY <1>4, <1>5, <2>1 DEF BehindId
  <2>3. QED
    BY <1>1, <2>2, IdentifiersAreNotSeparate DEF IsUsed
<1>6. IsUsed(s, a, p)
  BY <1>1 DEF IsUsed
<1>7. ASSUME Spells(s.options[o], a[q]) PROVE FALSE
  <2>1. BeginsWithId(s.options[o], a[q])
    BY <1>0, <1>1, <1>2, <1>7, SpelledAndGlued
  <2>2. q = p
    BY <1>5, <2>1
  <2>3. QED
    BY <1>1, <1>4, <1>7, <2>2
<1>8. ASSUME NEW m \in DOMAIN s.options, NEW n \in InFront(a), Spells(s.options[m], a[n]), n + 1 = p
      PROVE  FALSE
  <2>1. p - 1 = n
    BY <1>8 DEF InFront
  <2>2. BehindId(s, a, m, p)
    BY <1>8, <2>1 DEF BehindId
  <2>3. QED
    BY <1>1, <2>2, IdentifiersAreNotSeparate
<1>9. p <= q
  BY <1>1
<1>10. QED
  BY <1>1, <1>4, <1>5, <1>6, <1>7, <1>8, <1>9

\* Every place is one of one option and of one of its identifiers.
LEMMA OnePlace ==
    ASSUME NEW s \in Setup, WellFormed(s), NEW a \in Seq(Argument),
           NEW o \in DOMAIN s.options, NEW ident \in {"short", "long"}, NEW p \in PlacesOf(s, a, o, ident),
           NEW m \in DOMAIN s.options, NEW other \in {"short", "long"}, p \in PlacesOf(s, a, m, other)
    PROVE  m = o /\ other = ident
<1>1. p \in InFront(a) /\ BeginsBy(ident, s.options[o], a[p]) /\ BeginsBy(other, s.options[m], a[p])
  BY DEF PlacesOf
<1>2. a[p] \in Argument
  BY <1>1, EndIs
<1>3. m = o
  BY <1>1, <1>2, OneOptionBegins DEF BeginsBy, BeginsWithId
<1>4. s.options[o].short # "-"
  BY CallsAreNamed DEF IsNamed
<1>5. ~(BeginsWithShort(s.options[o], a[p]) /\ BeginsWithLong(s.options[o], a[p]))
  BY <1>4 DEF BeginsWithShort, BeginsWithLong
<1>6. QED
  BY <1>1, <1>3, <1>5 DEF BeginsBy

\* What a retrieval does to the arguments.
LEMMA RetrieveKeepsOptionArguments ==
    ASSUME ParseTypeOK, ArgumentsInv, Clean(setup, format_arguments), OptionPass,
           RetrieveGluedValue \/ RetrieveSeparateValue, pc' = "look_up_again"
    PROVE  OptionArguments'
<1>. DEFINE s == setup
            a == format_arguments
            q == ValuePlace
<1>0. /\ pc = "retrieve" /\ it \in Places(call, id) /\ OptionArguments
      /\ call \in DOMAIN s.options /\ id \in {"short", "long"} /\ s \in Setup /\ a \in Seq(Argument)
      /\ WellFormed(s) /\ call \in Nat
  BY DEF RetrieveGluedValue, RetrieveSeparateValue, OptionPass, RunningOption, ParseTypeOK, InOptions,
     Clean
<1>1. /\ HasValue(s, a, call, it) /\ StoreOptionValue(ValueText, q)
      /\ UNCHANGED <<config, end_of_options_it, call, id, seen, flag_value>>
  BY <1>0, RetrievedIsTheValue
<1>2. arguments' = Erase(it..q) /\ it' = q
  BY <1>1 DEF StoreOptionValue
<1>3. it \in InFront(a)
  BY <1>0 DEF Places, PlacesOf
<1>4. /\ it \in 1..Len(a) /\ q \in 1..Len(a) /\ q \in InFront(a) /\ q \in {it, it + 1} /\ it <= q
      /\ IsUsed(s, a, it) /\ IsUsed(s, a, q)
      /\ q # it => \A m \in DOMAIN s.options : ~BeginsWithId(s.options[m], a[q])
      /\ Spells(s.options[call], a[it]) => q = it + 1
      /\ \A m \in DOMAIN s.options : \A n \in InFront(a) : Spells(s.options[m], a[n]) => n + 1 # it
  <2>1. q = PlaceOfValue(s, a, call, it)
    BY DEF ValuePlace
  <2>. HIDE DEF q
  <2>2. QED
    BY <1>0, <1>1, <1>3, <2>1, ValueIsNoPlace
<1>5. /\ DOMAIN arguments = 1..Len(a)
      /\ \A p \in InFront(a) : p \in DOMAIN arguments /\ p \in Nat \ {0}
      /\ \A p \in DOMAIN arguments : a[p] \in Argument /\ p \in Nat
      /\ \A o \in DOMAIN s.options : o \in Nat
  <2>1. \A o \in DOMAIN s.options : o \in Nat
    BY <1>0, CallsAreNamed
  <2>2. QED
    BY <1>0, <2>1, ArgumentsAre
<1>6. /\ s' = s /\ a' = a /\ call' = call /\ id' = id
      /\ \A o, ident : Places(o, ident)' = Places(o, ident)
  BY <1>1, SameCommandLine
<1>7. /\ DOMAIN arguments' = DOMAIN arguments
      /\ \A p \in DOMAIN arguments :
            /\ p # it /\ p # q => arguments'[p] = arguments[p]
            /\ p = it \/ p = q => arguments'[p] = Erased
            /\ arguments[p] = Erased => arguments'[p] = Erased
  <2>1. /\ DOMAIN arguments' = DOMAIN arguments
        /\ \A p \in DOMAIN arguments :
              /\ arguments'[p] \in {Erased, arguments[p]}
              /\ p \notin it..q => arguments'[p] = arguments[p]
              /\ p \in it..q => arguments'[p] = Erased
    BY <1>2, EraseLeaves
  <2>. HIDE DEF q
  <2>2. \A p \in DOMAIN arguments : p \in it..q <=> p = it \/ p = q
    BY <1>4, <1>5
  <2>3. QED
    BY <2>1, <2>2
<1>. HIDE DEF q
<1>8. ASSUME NEW p \in DOMAIN arguments, arguments'[p] # a[p]
      PROVE  p \in InFront(a) /\ IsUsed(s, a, p)
  BY <1>0, <1>3, <1>4, <1>7, <1>8 DEF OptionArguments
<1>9. ASSUME NEW o \in DOMAIN s.options, NEW ident \in {"short", "long"}, NEW p \in Places(o, ident)
      PROVE  /\ IsRead(o, ident, p)' <=> IsRead(o, ident, p) \/ p = it
             /\ IsRead(o, ident, p)' => ReadAt(o, p)'
             /\ ~IsRead(o, ident, p)' => UnreadAt(o, p)'
  <2>1. p \in InFront(a) /\ BeginsWithId(s.options[o], a[p]) /\ p \in DOMAIN arguments /\ p \in Nat
    BY <1>5 DEF Places, PlacesOf, BeginsBy, BeginsWithId
  <2>2. p # q \/ p = it
    BY <1>4, <2>1
  <2>3. p = it => o = call /\ ident = id
    BY <1>0, <1>9, OnePlace DEF Places
  <2>4. IsRead(o, ident, p) <=> \/ o < call \/ (o = call /\ ident = "short" /\ id = "long")
                                \/ o = call /\ ident = id /\ p < it
    BY <1>0 DEF IsRead, IdIsDone, IdIsRunning, InOptions
  <2>5. IsRead(o, ident, p)' <=> \/ o < call \/ (o = call /\ ident = "short" /\ id = "long")
                                 \/ o = call /\ ident = id /\ (p < q \/ p = q)
    BY <1>2, <1>6 DEF IsRead, IdIsDone, IdIsRunning, InOptions
  <2>6. p < q \/ p = q <=> p < it \/ p = it
    BY <1>4, <2>1, <2>2
  <2>7. IsRead(o, ident, p)' <=> IsRead(o, ident, p) \/ p = it
    BY <2>3, <2>4, <2>5, <2>6
  <2>8. /\ IsRead(o, ident, p) => ReadAt(o, p)
        /\ ~IsRead(o, ident, p) => UnreadAt(o, p)
    BY <1>0, <1>9 DEF OptionArguments
  <2>9. Spells(s.options[o], a[p]) => ~GluesText(s.options[o], a[p])
    BY <1>0, <1>5, <2>1, SpelledAndGlued
  <2>10. ASSUME p = it PROVE ReadAt(o, p)'
    <3>1. arguments'[p] = Erased /\ HasValue(s, a, o, p)
      BY <1>1, <1>7, <2>1, <2>3, <2>10
    <3>2. Spells(s.options[o], a[p]) => p + 1 = q /\ q \in DOMAIN arguments
      BY <1>4, <1>5, <2>3, <2>10
    <3>3. Spells(s.options[o], a[p]) => arguments'[p + 1] = Erased
      BY <1>7, <3>2
    <3>4. QED
      BY <1>6, <3>1, <3>3 DEF ReadAt
  <2>11. ASSUME IsRead(o, ident, p) PROVE ReadAt(o, p)'
    <3>1. /\ arguments[p] = Erased /\ HasValue(s, a, o, p)
          /\ Spells(s.options[o], a[p]) => arguments[p + 1] = Erased
      BY <2>8, <2>11 DEF ReadAt
    <3>2. Spells(s.options[o], a[p]) => p + 1 \in DOMAIN arguments
      BY <1>5, <2>9, <3>1 DEF HasValue
    <3>3. arguments'[p] = Erased /\ (Spells(s.options[o], a[p]) => arguments'[p + 1] = Erased)
      BY <1>7, <2>1, <3>1, <3>2
    <3>4. QED
      BY <1>6, <3>1, <3>3 DEF ReadAt
  <2>12. ASSUME ~IsRead(o, ident, p), p # it PROVE UnreadAt(o, p)'
    <3>1. /\ arguments[p] = a[p]
          /\ Spells(s.options[o], a[p]) /\ p + 1 \in InFront(a) => arguments[p + 1] = a[p + 1]
      BY <2>8, <2>12 DEF UnreadAt
    <3>2. arguments'[p] = a[p]
      BY <1>7, <2>1, <2>2, <2>12, <3>1
    <3>3. Spells(s.options[o], a[p]) => p + 1 # it /\ p + 1 # q
      <4>1. Spells(s.options[o], a[p]) => p + 1 # it
        BY <1>4, <2>1
      <4>2. p + 1 = q => p + 1 = it
        BY <1>4, <2>1, <2>12
      <4>3. QED
        BY <4>1, <4>2
    <3>4. Spells(s.options[o], a[p]) /\ p + 1 \in InFront(a) => arguments'[p + 1] = a[p + 1]
      BY <1>5, <1>7, <3>1, <3>3
    <3>5. QED
      BY <1>6, <3>2, <3>4 DEF UnreadAt
  <2>13. QED
    BY <2>7, <2>10, <2>11, <2>12
<1>10. \A p \in DOMAIN arguments' :
          \/ arguments'[p] = a'[p]
          \/ p \in InFront(a') /\ IsUsed(s', a', p)
  BY <1>6, <1>7, <1>8
<1>11. \A o \in DOMAIN s'.options, ident \in {"short", "long"} :
          \A p \in Places(o, ident)' : /\ IsRead(o, ident, p)' => ReadAt(o, p)'
                                       /\ ~IsRead(o, ident, p)' => UnreadAt(o, p)'
  BY <1>6, <1>9
<1>12. QED
  BY <1>10, <1>11 DEF OptionArguments

\* What it stores is what has been read up to the value.
LEMMA StoredIsReadUpTo ==
    ASSUME ParseTypeOK, ArgumentsInv, Clean(setup, format_arguments), OptionPass,
           pc = "retrieve", HasValue(setup, format_arguments, call, it), OnlyBy(id)
    PROVE  Stored(option_value[call], Option, ValueText, ValuePlace) = ReadUpTo(ValuePlace).options[call]
<1>. DEFINE old == ReadUpTo(it - 1).options[call]
            new == ReadUpTo(ValuePlace).options[call]
            v == [text |-> ValueText, at |-> ValuePlace]
<1>0. /\ it \in Places(call, id) /\ call \in DOMAIN setup.options /\ id \in {"short", "long"}
      /\ setup \in Setup /\ format_arguments \in Seq(Argument)
      /\ Option.list => option_value[call] = old
      /\ ~Option.list => (\A p \in Places(call, id) : it <= p)
  BY DEF OptionPass, RunningOption, ParseTypeOK, InOptions
<1>1. it \in InFront(format_arguments)
  BY <1>0 DEF Places, PlacesOf
<1>2. new = Append(old, v)
  BY <1>0, <1>1, ValueIsRead DEF ReadUpTo, ValuePlace, ValueText
<1>3. ~Option.list => old = <<>>
  BY <1>0, NothingIsReadInFront
<1>. HIDE DEF old, new, v
<1>4. /\ Option.list => Stored(option_value[call], Option, ValueText, ValuePlace) = Append(option_value[call], v)
      /\ ~Option.list => Stored(option_value[call], Option, ValueText, ValuePlace) = <<v>>
  BY DEF Stored, v
<1>5. Append(<<>>, v) = <<v>>
  OBVIOUS
<1>6. QED
  BY <1>0, <1>2, <1>3, <1>4, <1>5 DEF new

LEMMA RetrieveKeeps ==
    ASSUME ParseTypeOK, ArgumentsInv, Clean(setup, format_arguments), OptionPass,
           RetrieveGluedValue \/ RetrieveSeparateValue
    PROVE  /\ pc' = "look_up_again" => OptionPass'
           /\ pc' # "look_up_again" => ~Accepted(setup, Read)
<1>. DEFINE s == setup
            a == format_arguments
            q == ValuePlace
            text == ValueText
            new == Stored(option_value[call], Option, text, q)
<1>0. /\ pc = "retrieve" /\ it \in Places(call, id) /\ OptionArguments /\ RunningOption /\ OptionVariables
      /\ call \in DOMAIN s.options /\ id \in {"short", "long"} /\ s \in Setup /\ a \in Seq(Argument)
      /\ option_value \in [DOMAIN s.options -> Seq(Value)]
  BY DEF RetrieveGluedValue, RetrieveSeparateValue, OptionPass, RunningOption, ParseTypeOK, InOptions
<1>1. /\ HasValue(s, a, call, it) /\ StoreOptionValue(text, q)
      /\ UNCHANGED <<config, end_of_options_it, call, id, seen, flag_value>>
  BY <1>0, RetrievedIsTheValue
<1>2. it \in InFront(a)
  BY <1>0 DEF Places, PlacesOf
<1>3. /\ Accepted(s, Read) => Parses(Option.type, text)
      /\ ~IsDropped(Option, text)
  BY <1>0, <1>1, <1>2, ValueMustFit DEF ValueText, Read, Option
<1>4. /\ pc' = "look_up_again" \/ ~Parses(Option.type, text)
      /\ pc' = "look_up_again" => /\ Parses(Option.type, text)
                                  /\ option_value' = [option_value EXCEPT ![call] = new]
      /\ it' = q
  BY <1>1, <1>3 DEF StoreOptionValue, Throw
<1>5. ASSUME pc' = "look_up_again" PROVE OptionPass'
  <2>0. OptionArguments'
    BY <1>5, RetrieveKeepsOptionArguments
  <2>1. /\ setup' = setup /\ format_arguments' = format_arguments /\ call' = call /\ id' = id
        /\ seen' = seen /\ Read' = Read /\ \A p : ReadUpTo(p)' = ReadUpTo(p)
        /\ \A o, ident : Places(o, ident)' = Places(o, ident)
        /\ Option' = Option /\ (OnlyBy(id)' <=> OnlyBy(id))
    <3>1. UNCHANGED config
      BY <1>1
    <3>2. QED
      BY <1>1, <3>1, SameCommandLine DEF Option, OnlyBy
  <2>2. option_value'[call] = new
    BY <1>0, <1>4, <1>5
  <2>3. OnlyBy(id) => new = ReadUpTo(q).options[call]
    BY <1>0, <1>1, StoredIsReadUpTo
  <2>4. q \in InFront(a) /\ ~Spells(s.options[call], a[q]) /\ it <= q
    BY <1>0, <1>1, <1>2, ValueIsNoPlace DEF ValuePlace
  <2>5. \A ident : /\ IdIsDone(call, ident)' <=> IdIsDone(call, ident)
                   /\ IdIsRunning(call, ident)' <=> IdIsRunning(call, ident)
    BY <1>0, <1>5, <2>1 DEF IdIsDone, IdIsRunning, InOptions
  <2>6. seen = {ident \in {"short", "long"} :
                    (IdIsDone(call, ident) \/ IdIsRunning(call, ident)) /\ Places(call, ident) # {}}
    BY <1>0 DEF RunningOption
  <2>7. seen' = {ident \in {"short", "long"} :
                    (IdIsDone(call, ident)' \/ IdIsRunning(call, ident)') /\ Places(call, ident) # {}}
    BY <2>1, <2>5, <2>6
  <2>. HIDE DEF q, new
  <2>8. RunningOption'
    <3>1. ~Spells(Option', a'[it'])
      BY <1>4, <2>1, <2>4 DEF Option
    <3>2. /\ OnlyBy(id) => option_value'[call] = ReadUpTo(it)'.options[call]
          /\ it' \in InFront(a) /\ \E p \in Places(call, id) : p <= it'
      BY <1>0, <1>4, <2>1, <2>2, <2>3, <2>4
    <3>3. QED
      BY <1>5, <2>1, <2>7, <3>1, <3>2 DEF RunningOption
  <2>9. StoredFits(call)'
    <3>1. StoredFits(call) /\ option_value[call] \in Seq(Value)
      BY <1>0 DEF OptionVariables
    <3>2. text \in Argument /\ q \in Nat
      <4>1. \A p \in InFront(a) : p \in Nat
        BY EndIs, <1>0
      <4>2. text \in Argument
        BY <1>0, <1>1, <1>2, ValueStands DEF ValueText
      <4>3. QED
        BY <2>4, <4>1, <4>2
    <3>3. /\ new \in Seq(Value)
          /\ \A j \in DOMAIN new :
                \/ j \in DOMAIN option_value[call] /\ new[j] = option_value[call][j]
                \/ new[j] = [text |-> text, at |-> q]
      <4>. HIDE DEF text
      <4>1. QED
        BY <3>1, <3>2, StoredProperties DEF new
    <3>4. \A j \in DOMAIN new : new[j].at # 0 => Parses(Option.type, new[j].text)
      <4>1. \A j \in DOMAIN option_value[call] :
                option_value[call][j].at # 0 => Parses(Option.type, option_value[call][j].text)
        BY <3>1 DEF StoredFits, Option
      <4>2. QED
        BY <1>4, <1>5, <3>3, <4>1
    <3>5. ~Option.list => Len(new) = 1
      BY DEF new, Stored
    <3>6. QED
      BY <2>1, <2>2, <3>4, <3>5 DEF StoredFits, Option
  <2>10. \A o \in DOMAIN setup.options : o # call => option_value'[o] = option_value[o]
    BY <1>0, <1>4, <1>5
  <2>11. OptionVariables'
    BY <1>0, <1>1, <2>9, <2>10, OtherOptionsStay
  <2>12. QED
    BY <2>0, <2>8, <2>11 DEF OptionPass
<1>6. QED
  BY <1>3, <1>4, <1>5

\* Behind the last value nothing is read for an option up to its next place.
LEMMA NothingIsReadBehind ==
    ASSUME ParseTypeOK, ArgumentsInv, Clean(setup, format_arguments), OptionPass,
           pc = "look_up_again", OnlyBy(id),
           NEW high \in 0..Len(format_arguments), it <= high,
           \A p \in Places(call, id) : p <= it \/ high < p
    PROVE  option_value[call] = ReadUpTo(high).options[call]
<1>. DEFINE s == setup
            a == format_arguments
<1>0. /\ call \in DOMAIN s.options /\ id \in {"short", "long"} /\ s \in Setup /\ a \in Seq(Argument)
      /\ option_value[call] = ReadUpTo(it).options[call]
      /\ it \in InFront(a) /\ ~Spells(Option, a[it])
  BY DEF OptionPass, RunningOption, ParseTypeOK, InOptions
<1>1. ASSUME NEW p \in InFront(a), BeginsWithId(s.options[call], a[p])
      PROVE  p <= it \/ high < p
  <2>1. p \in Places(call, "short") \/ p \in Places(call, "long")
    BY <1>1 DEF BeginsWithId, Places, PlacesOf, BeginsBy
  <2>2. p \in Places(call, id)
    BY <2>1 DEF OnlyBy
  <2>3. QED
    BY <2>2
<1>2. it \in 0..Len(a)
  <2>1. it \in 1..Len(a)
    BY <1>0, EndIs
  <2>2. QED
    BY <2>1
<1>3. Readings(s, a)[high].options[call] = Readings(s, a)[it].options[call]
  BY <1>0, <1>1, <1>2, NothingIsReadBetween DEF Option
<1>4. QED
  BY <1>0, <1>3 DEF ReadUpTo

\* What is known at the second lookup of an identifier.
LEMMA SecondLookUp ==
    ASSUME ParseTypeOK, ArgumentsInv, Clean(setup, format_arguments), OptionPass, LookUpOptionAgain,
           NEW found, found = find_option_id(arguments, it, end_of_options_it, SearchedId)
    PROVE  /\ pc = "look_up_again" /\ call \in DOMAIN setup.options /\ call \in Nat /\ ~(call < call)
           /\ id \in {"short", "long"} /\ it \in Nat /\ setup \in Setup /\ format_arguments \in Seq(Argument)
           /\ UNCHANGED <<config, arguments, end_of_options_it, call, seen, outputs>>
           /\ \A ident, p : /\ IsRead(call, ident, p) <=> \/ ident = "short" /\ id = "long"
                                                          \/ ident = id /\ (p < it \/ p = it)
                            /\ IdIsDone(call, ident) <=> ident = "short" /\ id = "long"
                            /\ IdIsRunning(call, ident) <=> ident = id
           /\ \A p \in Places(call, id) : p \in Nat
           /\ found # end_of_options_it => /\ found \in Places(call, id) /\ it < found
                                           /\ \A p \in Places(call, id) : p <= it \/ found <= p
           /\ found = end_of_options_it => \A p \in Places(call, id) : p <= it
<1>1. /\ pc = "look_up_again" /\ call \in DOMAIN setup.options /\ call \in Nat /\ ~(call < call)
      /\ id \in {"short", "long"} /\ it \in Nat /\ setup \in Setup /\ format_arguments \in Seq(Argument)
      /\ OptionArguments
  BY DEF LookUpOptionAgain, ParseTypeOK, InOptions, OptionPass
<1>2. UNCHANGED <<config, arguments, end_of_options_it, call, seen, outputs>>
  BY DEF LookUpOptionAgain
<1>3. \A ident, p : /\ IsRead(call, ident, p) <=> \/ ident = "short" /\ id = "long"
                                                  \/ ident = id /\ (p < it \/ p = it)
                    /\ IdIsDone(call, ident) <=> ident = "short" /\ id = "long"
                    /\ IdIsRunning(call, ident) <=> ident = id
  BY <1>1 DEF IsRead, IdIsDone, IdIsRunning, InOptions
<1>4. \A p \in Places(call, id) : p \in Nat
  BY <1>1, EndIs DEF Places, PlacesOf
<1>5. \A p \in Places(call, id) : IsRead(call, id, p) <=> p <= it
  BY <1>1, <1>3, <1>4
<1>6. /\ found # end_of_options_it =>
             /\ found \in Places(call, id) /\ ~IsRead(call, id, found)
             /\ \A p \in Places(call, id) : ~IsRead(call, id, p) => found <= p
      /\ found = end_of_options_it => \A p \in Places(call, id) : IsRead(call, id, p)
  <2>1. it = IF pc = "look_up" THEN 1 ELSE it
    BY <1>1
  <2>2. QED
    BY <1>1, <2>1, LookUpFinds
<1>7. found # end_of_options_it => it < found /\ found \in Places(call, id)
  BY <1>1, <1>4, <1>5, <1>6
<1>8. QED
  BY <1>1, <1>2, <1>3, <1>4, <1>5, <1>6, <1>7

LEMMA LookUpAgainKeepsOptionArguments ==
    ASSUME ParseTypeOK, ArgumentsInv, Clean(setup, format_arguments), OptionPass, LookUpOptionAgain,
           pc' # "done"
    PROVE  OptionArguments'
<1>. DEFINE found == find_option_id(arguments, it, end_of_options_it, SearchedId)
            E == end_of_options_it
<1>0. /\ pc = "look_up_again"
      /\ UNCHANGED <<config, arguments, end_of_options_it, call>>
      /\ \/ found # E /\ it' = found /\ pc' = "retrieve" /\ id' = id
         \/ found = E /\ LeaveGetOptionById /\ it' = it
  BY DEF LookUpOptionAgain, Throw
<1>. HIDE DEF found
<1>1. /\ call \in DOMAIN setup.options /\ call \in Nat /\ ~(call < call)
      /\ id \in {"short", "long"} /\ it \in Nat /\ setup \in Setup
      /\ \A p \in Places(call, id) : p \in Nat
      /\ found # E => /\ found \in Places(call, id) /\ it < found
                      /\ \A p \in Places(call, id) : p <= it \/ found <= p
      /\ found = E => \A p \in Places(call, id) : p <= it
  BY SecondLookUp DEF found
<1>2. ASSUME NEW o \in DOMAIN setup.options, NEW ident \in {"short", "long"}, NEW p \in Places(o, ident)
      PROVE  IsRead(o, ident, p)' <=> IsRead(o, ident, p)
  <2>0. IsRead(o, ident, p) <=> \/ o < call \/ (o = call /\ ident = "short" /\ id = "long")
                                \/ o = call /\ ident = id /\ (p < it \/ p = it)
    BY <1>0 DEF IsRead, IdIsDone, IdIsRunning, InOptions
  <2>1. CASE found # E
    <3>1. IsRead(o, ident, p)' <=> \/ o < call \/ (o = call /\ ident = "short" /\ id = "long")
                                   \/ o = call /\ ident = id /\ p < found
      BY <1>0, <2>1 DEF IsRead, IdIsDone, IdIsRunning, InOptions
    <3>2. o = call /\ ident = id => (p < found <=> (p < it \/ p = it))
      <4>1. \A r \in Places(call, id) : r < found <=> (r < it \/ r = it)
        BY <1>1, <2>1
      <4>2. QED
        BY <4>1
    <3>3. QED
      BY <2>0, <3>1, <3>2
  <2>2. CASE found = E
    <3>1. o = call /\ ident = id => p < it \/ p = it
      <4>1. \A r \in Places(call, id) : r < it \/ r = it
        BY <1>1, <2>2
      <4>2. QED
        BY <4>1
    <3>2. IsRead(o, ident, p)' <=> \/ o < call \/ (o = call /\ (id = "long" \/ ident = "short"))
      BY <1>0, <1>1, <2>2 DEF IsRead, IdIsDone, IdIsRunning, InOptions, LeaveGetOptionById
    <3>3. QED
      BY <1>1, <2>0, <3>1, <3>2
  <2>3. QED
    BY <2>1, <2>2
<1>3. pc' = "option_result" => id' = "short"
  BY <1>0 DEF LeaveGetOptionById
<1>4. OptionArguments
  BY DEF OptionPass
<1>5. QED
  BY <1>0, <1>2, <1>3, <1>4, SameOptionArguments

LEMMA LookUpAgainKeeps ==
    ASSUME ParseTypeOK, ArgumentsInv, Clean(setup, format_arguments), OptionPass, LookUpOptionAgain
    PROVE  /\ pc' # "done" => OptionPass'
           /\ pc' = "done" => ~Accepted(setup, Read)
<1>. DEFINE found == find_option_id(arguments, it, end_of_options_it, SearchedId)
            E == end_of_options_it
            a == format_arguments
<1>0. \/ found # E /\ Option.list /\ it' = found /\ pc' = "retrieve" /\ id' = id
      \/ found # E /\ ~Option.list /\ pc' = "done"
      \/ found = E /\ LeaveGetOptionById /\ it' = it
  BY DEF LookUpOptionAgain, Throw
<1>. HIDE DEF found
<1>1. /\ pc = "look_up_again" /\ call \in DOMAIN setup.options /\ call \in Nat /\ ~(call < call)
      /\ id \in {"short", "long"} /\ it \in Nat /\ setup \in Setup /\ a \in Seq(Argument)
      /\ UNCHANGED <<config, arguments, end_of_options_it, call, seen, outputs>>
      /\ \A ident : /\ IdIsDone(call, ident) <=> ident = "short" /\ id = "long"
                    /\ IdIsRunning(call, ident) <=> ident = id
      /\ \A p \in Places(call, id) : p \in Nat
      /\ found # E => /\ found \in Places(call, id) /\ it < found
                      /\ \A p \in Places(call, id) : p <= it \/ found <= p
      /\ found = E => \A p \in Places(call, id) : p <= it
  BY SecondLookUp DEF found
<1>2. OptionArguments /\ RunningOption /\ OptionVariables
  BY DEF OptionPass
<1>3. /\ setup' = setup /\ a' = a /\ call' = call /\ seen' = seen
      /\ option_value' = option_value /\ Read' = Read /\ \A p : ReadUpTo(p)' = ReadUpTo(p)
      /\ \A o, ident : Places(o, ident)' = Places(o, ident)
      /\ Option' = Option
  BY <1>1, SameCommandLine DEF Option, outputs
<1>4. OptionVariables'
  <2>1. StoredFits(call)'
    BY <1>1, <1>2, <1>3 DEF OptionVariables, StoredFits
  <2>2. QED
    BY <1>1, <1>2, <1>3, <2>1, OtherOptionsStay
<1>5. seen = {ident \in {"short", "long"} :
                 (IdIsDone(call, ident) \/ IdIsRunning(call, ident)) /\ Places(call, ident) # {}}
  BY <1>2 DEF RunningOption
<1>6. PICK first \in Places(call, id) : first <= it
  BY <1>1, <1>2 DEF RunningOption
<1>7. \A ident, p : p \in Places(call, ident) <=> p \in InFront(a) /\ BeginsBy(ident, Option, a[p])
  BY DEF Places, PlacesOf, Option
<1>8. \A p \in InFront(a) : p \in 1..Len(a)
  BY <1>1, EndIs
<1>9. CASE found # E /\ Option.list
  <2>0. pc' = "retrieve" /\ id' = id /\ it' = found
    BY <1>0, <1>9
  <2>1. \A ident : /\ IdIsDone(call, ident)' <=> ident = "short" /\ id = "long"
                   /\ IdIsRunning(call, ident)' <=> ident = id
    BY <1>1, <1>3, <2>0 DEF IdIsDone, IdIsRunning, InOptions
  <2>2. seen' = {ident \in {"short", "long"} :
                    (IdIsDone(call, ident)' \/ IdIsRunning(call, ident)') /\ Places(call, ident) # {}}
    BY <1>1, <1>3, <1>5, <2>1
  <2>3. OnlyBy(id)' <=> OnlyBy(id)
    BY <1>3, <2>0 DEF OnlyBy
  <2>4. ASSUME OnlyBy(id) PROVE option_value[call] = ReadUpTo(found - 1).options[call]
    <3>1. found \in 1..Len(a)
      BY <1>1, <1>7, <1>8, <1>9
    <3>2. PICK high \in 0..Len(a) : high = found - 1
      BY <3>1
    <3>3. it <= high /\ \A p \in Places(call, id) : p <= it \/ high < p
      BY <1>1, <1>9, <3>1, <3>2
    <3>4. option_value[call] = ReadUpTo(high).options[call]
      BY <1>1, <2>4, <3>3, NothingIsReadBehind
    <3>5. QED
      BY <3>2, <3>4
  <2>5. RunningOption'
    BY <1>1, <1>3, <1>9, <2>0, <2>2, <2>3, <2>4 DEF RunningOption
  <2>6. QED
    BY <1>4, <2>0, <2>5, LookUpAgainKeepsOptionArguments DEF OptionPass
<1>10. CASE found # E /\ ~Option.list
  <2>1. pc' = "done"
    BY <1>0, <1>10
  <2>2. found # first /\ found \in Places(call, id)
    BY <1>1, <1>6, <1>10
  <2>3. \A p \in Places(call, id) : p \in InFront(a) /\ BeginsWithId(Option, a[p])
    BY <1>1, <1>7 DEF BeginsBy, BeginsWithId
  <2>4. ~Accepted(setup, Read)
    BY <1>1, <1>6, <1>10, <2>2, <2>3, SingleIsTypedOnce DEF Clean, Option, Read
  <2>5. QED
    BY <2>1, <2>4
<1>11. CASE found = E
  <2>0. LeaveGetOptionById /\ it' = it
    BY <1>0, <1>11
  <2>1. pc' \in {"look_up", "option_result"}
    BY <2>0 DEF LeaveGetOptionById
  <2>2. \A ident \in {"short", "long"} : IdIsDone(call, ident)' <=> ident = "short" \/ id = "long"
    BY <1>1, <1>3, <2>0 DEF IdIsDone, InOptions, LeaveGetOptionById
  <2>3. \A ident : ~IdIsRunning(call, ident)'
    BY <2>1 DEF IdIsRunning
  <2>4. seen' = {ident \in {"short", "long"} :
                    (IdIsDone(call, ident)' \/ IdIsRunning(call, ident)') /\ Places(call, ident) # {}}
    BY <1>1, <1>3, <1>5, <2>2, <2>3
  <2>5. \A ident : OnlyBy(ident)' <=> OnlyBy(ident)
    BY <1>3 DEF OnlyBy
  <2>6. id \in seen
    BY <1>1, <1>5, <1>6
  <2>7. ASSUME NEW ident \in seen, OnlyBy(ident) PROVE option_value[call] = Read.options[call]
    <3>1. ident = id
      BY <1>1, <1>6, <2>7 DEF OnlyBy
    <3>2. PICK high \in 0..Len(a) : high = Len(a)
      BY <1>1
    <3>3. it <= high
      <4>1. it \in InFront(a)
        BY <1>1, <1>2 DEF RunningOption
      <4>2. QED
        BY <1>8, <3>2, <4>1
    <3>4. option_value[call] = ReadUpTo(high).options[call]
      BY <1>1, <1>11, <2>7, <3>1, <3>3, NothingIsReadBehind
    <3>5. QED
      BY <3>2, <3>4 DEF ReadUpTo, Read, Reading
  <2>8. RunningOption'
    BY <1>3, <2>1, <2>4, <2>5, <2>6, <2>7 DEF RunningOption
  <2>9. QED
    BY <1>4, <2>1, <2>8, LookUpAgainKeepsOptionArguments DEF OptionPass
<1>12. QED
  BY <1>0, <1>9, <1>10, <1>11

\* A container is not named by both of its identifiers on these command lines.
LEMMA ListHasOneId ==
    ASSUME NEW s \in Setup, NEW a \in Seq(Argument), Clean(s, a), NEW o \in DOMAIN s.options,
           s.options[o].list
    PROVE  PlacesOf(s, a, o, "short") = {} \/ PlacesOf(s, a, o, "long") = {}
<1>. DEFINE c == s.options[o]
            By(ident) == {p \in 1..(EndOfOptionsIn(a) - 1) : IdentifiedBy(a[p], ident)}
<1>1. ~(By(OnlyShort(c.short)) # {} /\ By(OnlyLong(c.long)) # {})
  BY DEF Clean, Unambiguous, BothIdsOfAList
<1>2. c.short \in Identifier /\ c.long \in Identifier
  BY CallsAreNamed DEF Clean, IsNamed
<1>3. \A p \in InFront(a) : a[p] \in Argument
  BY EndIs
<1>4. \A p \in InFront(a) : /\ IdentifiedBy(a[p], OnlyShort(c.short)) <=> BeginsWithShort(c, a[p])
                            /\ IdentifiedBy(a[p], OnlyLong(c.long)) <=> BeginsWithLong(c, a[p])
  BY <1>2, <1>3, IdentifiedByShort, IdentifiedByLong
<1>5. By(OnlyShort(c.short)) = PlacesOf(s, a, o, "short")
  BY <1>4 DEF PlacesOf, BeginsBy, InFront
<1>6. By(OnlyLong(c.long)) = PlacesOf(s, a, o, "long")
  BY <1>4 DEF PlacesOf, BeginsBy, InFront
<1>7. QED
  BY <1>1, <1>5, <1>6

\* When both identifiers of an option were looked up, its variable is right or there is an error.
LEMMA OptionNotFound ==
    ASSUME ParseTypeOK, OptionPass, Clean(setup, format_arguments), pc = "option_result", seen = {}
    PROVE  Read.options[call] = <<>> /\ option_value[call] = <<Default>>
<1>. DEFINE s == setup
            a == format_arguments
<1>0. /\ call \in DOMAIN s.options /\ call \in Nat /\ s \in Setup /\ a \in Seq(Argument) /\ Len(a) \in Nat
      /\ RunningOption
  BY DEF OptionPass, ParseTypeOK, InOptions
<1>1. \A ident \in {"short", "long"} : IdIsDone(call, ident)
  BY <1>0 DEF IdIsDone, InOptions
<1>2. seen = {ident \in {"short", "long"} :
                 (IdIsDone(call, ident) \/ IdIsRunning(call, ident)) /\ Places(call, ident) # {}}
  BY <1>0 DEF RunningOption
<1>3. Places(call, "short") = {} /\ Places(call, "long") = {}
  BY <1>1, <1>2
<1>4. \A p \in InFront(a) : ~BeginsWithId(s.options[call], a[p])
  BY <1>3 DEF Places, PlacesOf, BeginsBy, BeginsWithId
<1>5. PICK high \in 0..Len(a) : high = Len(a) /\ 0 \in 0..Len(a) /\ 0 <= high
  BY <1>0
<1>6. Readings(s, a)[high].options[call] = Readings(s, a)[0].options[call]
  BY <1>0, <1>4, <1>5, NothingIsReadBetween
<1>7. option_value[call] = <<Default>>
  BY <1>0 DEF RunningOption
<1>8. QED
  BY <1>0, <1>5, <1>6, <1>7, NoOptionReadFirst DEF Read, Reading

LEMMA OptionFoundTwice ==
    ASSUME ParseTypeOK, OptionPass, Clean(setup, format_arguments), pc = "option_result",
           seen = {"short", "long"}
    PROVE  ~Option.list /\ ~Accepted(setup, Read)
<1>. DEFINE s == setup
            a == format_arguments
<1>0. /\ call \in DOMAIN s.options /\ s \in Setup /\ a \in Seq(Argument) /\ WellFormed(s)
      /\ RunningOption
  BY DEF OptionPass, ParseTypeOK, InOptions, Clean
<1>1. seen = {ident \in {"short", "long"} :
                 (IdIsDone(call, ident) \/ IdIsRunning(call, ident)) /\ Places(call, ident) # {}}
  BY <1>0 DEF RunningOption
<1>2. "short" \in seen /\ "long" \in seen
  OBVIOUS
<1>3. Places(call, "short") # {} /\ Places(call, "long") # {}
  BY <1>1, <1>2
<1>4. ~Option.list
  BY <1>0, <1>3, ListHasOneId DEF Places, Option
<1>5. PICK p, q : p \in PlacesOf(s, a, call, "short") /\ q \in PlacesOf(s, a, call, "long")
  BY <1>3 DEF Places
<1>6. p # q
  BY <1>0, <1>5, OnePlace
<1>7. /\ p \in InFront(a) /\ BeginsWithId(s.options[call], a[p])
      /\ q \in InFront(a) /\ BeginsWithId(s.options[call], a[q])
  BY <1>5 DEF PlacesOf, BeginsBy, BeginsWithId
<1>8. ~Accepted(s, Reading(s, a))
  BY <1>0, <1>4, <1>6, <1>7, SingleIsTypedOnce DEF Option
<1>9. QED
  BY <1>4, <1>8 DEF Read

LEMMA OptionFoundOnce ==
    ASSUME ParseTypeOK, ArgumentsInv, OptionsRead, OptionPass, Clean(setup, format_arguments),
           pc = "option_result", seen # {}, seen # {"short", "long"}
    PROVE  /\ option_value[call] = Read.options[call] /\ Read.options[call] # <<>>
           /\ ~Option.list => Len(Read.options[call]) <= 1
           /\ \A j \in DOMAIN Read.options[call] : Parses(Option.type, Read.options[call][j].text)
<1>. DEFINE s == setup
            a == format_arguments
<1>0. /\ call \in DOMAIN s.options /\ call \in Nat /\ s \in Setup /\ a \in Seq(Argument)
      /\ RunningOption /\ OptionArguments /\ OptionVariables
  BY DEF OptionPass, ParseTypeOK, InOptions
<1>1. \A ident \in {"short", "long"} : IdIsDone(call, ident)
  BY <1>0 DEF IdIsDone, InOptions
<1>2. seen = {ident \in {"short", "long"} :
                 (IdIsDone(call, ident) \/ IdIsRunning(call, ident)) /\ Places(call, ident) # {}}
  BY <1>0 DEF RunningOption
<1>3. PICK ident \in seen : TRUE
  OBVIOUS
<1>4. ident \in {"short", "long"} /\ Places(call, ident) # {}
  BY <1>2, <1>3
<1>5. \A other \in {"short", "long"} : other # ident => Places(call, other) = {}
  <2>1. ASSUME NEW other \in {"short", "long"}, other # ident, Places(call, other) # {} PROVE FALSE
    <3>1. other \in seen
      BY <1>1, <1>2, <2>1
    <3>2. seen = {"short", "long"}
      BY <1>2, <1>3, <1>4, <2>1, <3>1
    <3>3. QED
      BY <3>2
  <2>2. QED
    BY <2>1
<1>6. option_value[call] = Read.options[call]
  BY <1>0, <1>3, <1>5 DEF RunningOption, OnlyBy
<1>7. PICK p \in Places(call, ident) : TRUE
  BY <1>4
<1>8. HasValue(s, a, call, p)
  <2>1. IsRead(call, ident, p)
    BY <1>1, <1>4 DEF IsRead
  <2>2. ReadAt(call, p)
    BY <1>0, <1>4, <1>7, <2>1 DEF OptionArguments
  <2>3. QED
    BY <2>2 DEF ReadAt
<1>9. Read.options[call] # <<>>
  <2>1. p \in InFront(a)
    BY <1>7 DEF Places, PlacesOf
  <2>2. DOMAIN Reading(s, a).options[call] # {}
    BY <1>0, <1>8, <2>1, ValueStays
  <2>3. QED
    BY <2>2 DEF Read
<1>10. AllRead(option_value[call])
  BY DEF OptionsRead, ReadFromCommandLine
<1>11. StoredFits(call)
  BY <1>0 DEF OptionVariables
<1>12. \A j \in DOMAIN Read.options[call] : Parses(Option.type, Read.options[call][j].text)
  BY <1>6, <1>10, <1>11 DEF StoredFits, AllRead, Option
<1>13. ~Option.list => Len(Read.options[call]) <= 1
  <2>. DEFINE n == Len(option_value[call])
  <2>1. ~Option.list => n = 1
    BY <1>11 DEF StoredFits, Option
  <2>. HIDE DEF n
  <2>2. ~Option.list => n <= 1
    BY <2>1
  <2>3. n = Len(Read.options[call])
    BY <1>6 DEF n
  <2>4. QED
    BY <2>2, <2>3
<1>14. QED
  BY <1>6, <1>9, <1>12, <1>13

LEMMA OptionResultIsRight ==
    ASSUME ParseTypeOK, ArgumentsInv, OptionsRead, OptionPass, Clean(setup, format_arguments),
           pc = "option_result"
    PROVE  /\ OptionError = "none" => OptionIsRight(call)
           /\ OptionError # "none" => ~Accepted(setup, Read)
<1>0. call \in DOMAIN setup.options /\ Option = setup.options[call]
  BY DEF ParseTypeOK, InOptions, Option
<1>. DEFINE values == Read.options[call]
<1>1. CASE seen = {}
  <2>1. values = <<>> /\ option_value[call] = <<Default>>
    BY <1>1, OptionNotFound
  <2>2. OptionError = IF Option.required THEN "required_option_missing" ELSE "none"
    BY <1>1 DEF OptionError
  <2>3. Option.required => ~Accepted(setup, Read)
    BY <1>0, <2>1 DEF Accepted
  <2>4. Len(values) <= 1 /\ Fits(setup.options[call], values) /\ OrDefault(values) = <<Default>>
    BY <2>1 DEF Fits, OrDefault
  <2>5. ~Option.required => OptionIsRight(call)
    BY <1>0, <2>1, <2>4 DEF OptionIsRight
  <2>6. QED
    BY <2>2, <2>3, <2>5
<1>2. CASE seen = {"short", "long"}
  <2>1. ~Option.list /\ ~Accepted(setup, Read)
    BY <1>2, OptionFoundTwice
  <2>2. OptionError = "option_declared_multiple_times"
    BY <1>2, <2>1 DEF OptionError
  <2>3. QED
    BY <2>1, <2>2
<1>3. CASE seen # {} /\ seen # {"short", "long"}
  <2>1. /\ option_value[call] = values /\ values # <<>>
        /\ ~Option.list => Len(values) <= 1
        /\ \A j \in DOMAIN values : Parses(Option.type, values[j].text)
    BY <1>3, OptionFoundOnce
  <2>2. OptionError = IF Rejected(Option.rejects, values) THEN "validation_error" ELSE "none"
    BY <1>3, <2>1 DEF OptionError
  <2>3. DOMAIN values = 1..Len(values)
    <3>1. values \in Seq(Value)
      BY <1>0, <2>1 DEF ParseTypeOK
    <3>2. QED
      BY <3>1
  <2>4. Rejected(Option.rejects, values) <=> \E j \in DOMAIN values : values[j].text \in Option.rejects
    BY <2>3 DEF Rejected
  <2>. HIDE DEF values
  <2>5. Fits(setup.options[call], values) <=> ~Rejected(Option.rejects, values)
    BY <1>0, <2>1, <2>4 DEF Fits
  <2>6. Accepted(setup, Read) => Fits(setup.options[call], values)
    BY <1>0 DEF Accepted, values
  <2>7. ~Rejected(Option.rejects, values) => OptionIsRight(call)
    BY <1>0, <2>1, <2>5 DEF OptionIsRight, OrDefault, values
  <2>8. QED
    BY <2>2, <2>5, <2>6, <2>7
<1>4. QED
  BY <1>1, <1>2, <1>3

\* When get_option has returned for an option, the next one starts, or all of them are right.
OptionsAreRight == \A o \in DOMAIN setup.options : OptionIsRight(o)

PlacesAreRead ==
    /\ \A p \in DOMAIN arguments :
          \/ arguments[p] = format_arguments[p]
          \/ p \in InFront(format_arguments) /\ IsUsed(setup, format_arguments, p)
    /\ \A o \in DOMAIN setup.options, ident \in {"short", "long"} :
          \A p \in Places(o, ident) : ReadAt(o, p)

LEMMA ResultIsRead ==
    ASSUME ParseTypeOK, OptionPass, pc = "option_result",
           NEW o \in DOMAIN setup.options, NEW ident \in {"short", "long"}, NEW p
    PROVE  IsRead(o, ident, p) <=> o <= call
<1>1. o \in Nat /\ call \in Nat
  BY SetupProperties DEF ParseTypeOK
<1>2. QED
  BY <1>1 DEF IsRead, IdIsDone, IdIsRunning, InOptions

LEMMA SameOptionIsRight ==
    ASSUME UNCHANGED <<config, option_value>>, NEW o, OptionIsRight(o)
    PROVE  OptionIsRight(o)'
<1>1. setup' = setup /\ Read' = Read /\ option_value' = option_value
  BY SameCommandLine
<1>2. QED
  BY <1>1 DEF OptionIsRight, Fits, OrDefault

LEMMA FinishOptionKeeps ==
    ASSUME ParseTypeOK, ArgumentsInv, OptionsRead, OptionPass, Clean(setup, format_arguments),
           FinishOption
    PROVE  /\ pc' = "look_up" => OptionPass'
           /\ pc' \in {"flag", "check_unknown"} =>
                 /\ OptionsAreRight' /\ PlacesAreRead /\ UNCHANGED <<config, arguments, flag_value>>
                 /\ pc' = AfterOptions /\ call' = 1
           /\ pc' = "done" => ~Accepted(setup, Read)
           /\ pc' \in {"look_up", "flag", "check_unknown", "done"}
           /\ pc' # "done" => error' = error
           /\ pc' = "done" => error' # "none"
<1>0. /\ pc = "option_result" /\ call \in DOMAIN setup.options /\ setup.options \in Seq(OptionCall)
      /\ DOMAIN setup.options = 1..Len(setup.options) /\ Len(setup.options) \in Nat /\ call \in Nat
      /\ id = "short"
  BY SetupProperties DEF FinishOption, ParseTypeOK, InOptions, OptionPass, OptionArguments
<1>1. CASE OptionError # "none"
  BY <1>1, OptionResultIsRight DEF FinishOption, Throw
<1>2. CASE OptionError = "none"
  <2>0. /\ NextCall(setup.options, "look_up", AfterOptions) /\ seen' = {} /\ error' = error
        /\ UNCHANGED <<config, arguments, option_value, flag_value, id>>
    BY <1>2 DEF FinishOption, outputs
  <2>1. \A o \in DOMAIN setup.options : o <= call => OptionIsRight(o)
    <3>. SUFFICES ASSUME NEW o \in DOMAIN setup.options, o <= call PROVE OptionIsRight(o)
      OBVIOUS
    <3>1. CASE o = call
      BY <1>0, <1>2, <3>1, OptionResultIsRight
    <3>2. CASE o # call
      BY <1>0, <3>2 DEF OptionPass, OptionVariables
    <3>3. QED
      BY <3>1, <3>2
  <2>2. setup' = setup /\ format_arguments' = format_arguments
    BY <2>0, SameCommandLine
  <2>3. CASE call < Len(setup.options)
    <3>1. call' = call + 1 /\ pc' = "look_up"
      BY <2>0, <2>3 DEF NextCall
    <3>2. OptionArguments'
      <4>1. ASSUME NEW o \in DOMAIN setup.options, NEW ident \in {"short", "long"},
                   NEW p \in Places(o, ident)
            PROVE  IsRead(o, ident, p)' <=> IsRead(o, ident, p)
        <5>1. IsRead(o, ident, p) <=> o <= call
          BY <1>0, ResultIsRead
        <5>2. IsRead(o, ident, p)' <=> o < call + 1 \/ (o = call + 1 /\ ident = "short" /\ id' = "long")
          BY <3>1 DEF IsRead, IdIsDone, IdIsRunning, InOptions
        <5>3. id' = "short"
          BY <1>0, <2>0
        <5>4. QED
          BY <1>0, <5>1, <5>2, <5>3
      <4>2. QED
        BY <2>0, <3>1, <4>1, SameOptionArguments DEF OptionPass
    <3>3. RunningOption'
      <4>1. \A ident \in {"short", "long"} :
               ~(IdIsDone(call, ident) \/ IdIsRunning(call, ident))'
        BY <1>0, <2>0, <3>1 DEF IdIsDone, IdIsRunning, InOptions
      <4>2. option_value'[call'] = <<Default>>
        <5>1. call + 1 \in DOMAIN setup.options /\ call < call + 1
          BY <1>0, <2>3
        <5>2. QED
          BY <2>0, <3>1, <5>1 DEF OptionPass, OptionVariables
      <4>3. seen' = {}
        BY <2>0
      <4>4. QED
        BY <3>1, <4>1, <4>2, <4>3 DEF RunningOption
    <3>4. OptionVariables'
      <4>. SUFFICES ASSUME NEW o \in DOMAIN setup.options
                    PROVE  /\ StoredFits(o)'
                           /\ o < call + 1 => OptionIsRight(o)'
                           /\ call + 1 < o => option_value'[o] = <<Default>>
        BY <2>2, <3>1 DEF OptionVariables
      <4>1. StoredFits(o)'
        BY <2>0, <2>2 DEF OptionPass, OptionVariables, StoredFits
      <4>2. o < call + 1 => OptionIsRight(o)'
        BY <1>0, <2>0, <2>1, SameOptionIsRight
      <4>3. call + 1 < o => option_value'[o] = <<Default>>
        BY <1>0, <2>0 DEF OptionPass, OptionVariables
      <4>4. QED
        BY <4>1, <4>2, <4>3
    <3>5. QED
      BY <2>0, <3>1, <3>2, <3>3, <3>4 DEF OptionPass
  <2>4. CASE ~(call < Len(setup.options))
    <3>1. pc' = AfterOptions /\ pc' \in {"flag", "check_unknown"} /\ call' = 1
      BY <2>0, <2>4 DEF NextCall, AfterOptions
    <3>2. \A o \in DOMAIN setup.options : o <= call
      BY <1>0, <2>4
    <3>3. OptionsAreRight'
      BY <2>0, <2>1, <2>2, <3>2, SameOptionIsRight DEF OptionsAreRight
    <3>4. PlacesAreRead
      BY <1>0, <3>2, ResultIsRead DEF OptionPass, OptionArguments, PlacesAreRead
    <3>5. QED
      BY <2>0, <3>1, <3>3, <3>4
  <2>5. QED
    BY <2>3, <2>4
<1>3. QED
  BY <1>1, <1>2

\* The pass over the options starts with nothing read.
LEMMA FindEndOfOptionsKeeps ==
    ASSUME ParseTypeOK, ParseBegins, FindEndOfOptions
    PROVE  /\ pc' = "look_up" => OptionPass'
           /\ pc' \in {"flag", "check_unknown"} =>
                 /\ OptionsAreRight' /\ PlacesAreRead /\ UNCHANGED <<config, arguments, flag_value>>
                 /\ pc' = AfterOptions /\ call' = 1
           /\ pc' \in {"look_up", "flag", "check_unknown"} /\ error' = error
<1>0. /\ UNCHANGED <<config, arguments, call, id, seen, option_value, flag_value, error>>
      /\ arguments = format_arguments /\ call = 1 /\ id = "short" /\ seen = {}
      /\ option_value = [o \in DOMAIN setup.options |-> <<Default>>]
      /\ pc' = IF setup.options = <<>> THEN AfterOptions ELSE "look_up"
  BY DEF FindEndOfOptions, ParseBegins, lookup, outputs
<1>1. setup' = setup /\ format_arguments' = format_arguments
  BY <1>0, SameCommandLine
<1>2. DOMAIN setup.options \subseteq Nat \ {0}
  BY SetupProperties
<1>3. pc' \in {"look_up", "flag", "check_unknown"}
  BY <1>0 DEF AfterOptions
<1>4. CASE setup.options = <<>>
  <2>1. DOMAIN setup.options = {}
    BY <1>4
  <2>2. PlacesAreRead
    BY <1>0, <2>1 DEF PlacesAreRead
  <2>3. OptionsAreRight'
    BY <1>1, <2>1 DEF OptionsAreRight
  <2>4. pc' = AfterOptions /\ pc' # "look_up"
    BY <1>0, <1>4 DEF AfterOptions
  <2>5. QED
    BY <1>0, <1>3, <2>2, <2>3, <2>4
<1>5. CASE setup.options # <<>>
  <2>1. pc' = "look_up"
    BY <1>0, <1>5
  <2>2. \A o \in DOMAIN setup.options, ident \in {"short", "long"} : ~IdIsDone(o, ident)'
    BY <1>0, <1>2, <2>1 DEF IdIsDone, InOptions
  <2>3. OptionArguments'
    <3>1. \A o \in DOMAIN setup.options, ident \in {"short", "long"} : \A p \in Places(o, ident) :
             /\ ~IsRead(o, ident, p)'
             /\ UnreadAt(o, p)'
      BY <1>0, <1>1, <2>1, <2>2 DEF IsRead, IdIsRunning, UnreadAt
    <3>2. QED
      BY <1>0, <1>1, <2>1, <3>1, SameCommandLine DEF OptionArguments
  <2>4. \A o \in DOMAIN setup.options : option_value'[o] = <<Default>>
    BY <1>0
  <2>5. 1 \in DOMAIN setup.options
    BY <1>5, SetupProperties
  <2>6. RunningOption'
    <3>1. \A ident \in {"short", "long"} : ~(IdIsDone(call, ident) \/ IdIsRunning(call, ident))'
      BY <1>0, <2>1, <2>2, <2>5 DEF IdIsRunning, IdIsDone, InOptions
    <3>2. seen' = {} /\ option_value'[call'] = <<Default>>
      BY <1>0, <2>4, <2>5
    <3>3. QED
      BY <2>1, <3>1, <3>2 DEF RunningOption
  <2>7. OptionVariables'
    <3>. SUFFICES ASSUME NEW o \in DOMAIN setup.options
                  PROVE  StoredFits(o)' /\ ~(o < 1)
      BY <1>0, <1>1, <2>4 DEF OptionVariables
    <3>1. ~(o < 1)
      BY <1>2
    <3>2. Len(<<Default>>) = 1 /\ DOMAIN <<Default>> = {1} /\ <<Default>>[1].at = 0
      BY DEF Default
    <3>3. StoredFits(o)'
      BY <1>1, <2>4, <3>2 DEF StoredFits
    <3>4. QED
      BY <3>1, <3>3
  <2>8. QED
    BY <1>0, <2>1, <2>3, <2>6, <2>7 DEF OptionPass
<1>6. QED
  BY <1>4, <1>5

\* What the options leave to the flags: their own arguments are erased, the others untouched.
AllHaveValues ==
    \A o \in DOMAIN setup.options : \A p \in InFront(format_arguments) :
        BeginsWithId(setup.options[o], format_arguments[p]) => HasValue(setup, format_arguments, o, p)

LEMMA OptionsLeave ==
    ASSUME ParseTypeOK, Clean(setup, format_arguments), PlacesAreRead
    PROVE  /\ \A p \in DOMAIN arguments \ InFront(format_arguments) : arguments[p] = format_arguments[p]
           /\ \A p \in Free(setup, format_arguments) : arguments[p] = format_arguments[p]
           /\ \A p \in InFront(format_arguments) :
                 IsUsed(setup, format_arguments, p) => arguments[p] = Erased
           /\ AllHaveValues
<1>0. /\ setup \in Setup /\ WellFormed(setup) /\ format_arguments \in Seq(Argument)
      /\ DOMAIN arguments = 1..Len(format_arguments)
  BY DEF ParseTypeOK, Clean
<1>. DEFINE s == setup
            a == format_arguments
<1>1. \A p \in InFront(a) : p \in DOMAIN arguments /\ a[p] \in Argument
  BY <1>0, EndIs
<1>2. ASSUME NEW o \in DOMAIN s.options, NEW p \in InFront(a), BeginsWithId(s.options[o], a[p])
      PROVE  ReadAt(o, p)
  <2>1. \E ident \in {"short", "long"} : p \in Places(o, ident)
    BY <1>2 DEF BeginsWithId, Places, PlacesOf, BeginsBy
  <2>2. QED
    BY <2>1 DEF PlacesAreRead
<1>3. ASSUME NEW p \in InFront(a), IsSeparate(s, a, p) PROVE arguments[p] = Erased
  <2>1. p > 1 /\ p - 1 \in InFront(a) /\ p \in Nat /\ OptionsSpelled(s, a[p - 1]) # {}
    BY <1>0, <1>3, EndIs DEF IsSeparate, InFront
  <2>2. PICK o \in DOMAIN s.options : Spells(s.options[o], a[p - 1])
    BY <2>1 DEF OptionsSpelled
  <2>. DEFINE q == p - 1
  <2>3. q + 1 = p
    BY <2>1
  <2>4. BeginsWithId(s.options[o], a[q])
    BY <1>0, <1>1, <2>1, <2>2, SpelledAndGlued
  <2>5. ReadAt(o, q)
    BY <1>2, <2>1, <2>4
  <2>6. arguments[q + 1] = Erased
    BY <2>2, <2>5 DEF ReadAt
  <2>7. QED
    BY <2>3, <2>6
<1>4. \A p \in InFront(a) : IsUsed(s, a, p) => arguments[p] = Erased
  BY <1>2, <1>3 DEF IsUsed, ReadAt
<1>5. AllHaveValues
  BY <1>2 DEF AllHaveValues, ReadAt
<1>6. \A p \in DOMAIN arguments \ InFront(a) : arguments[p] = a[p]
  BY DEF PlacesAreRead
<1>7. \A p \in Free(s, a) : arguments[p] = a[p]
  BY <1>1 DEF PlacesAreRead, Free
<1>8. QED
  BY <1>4, <1>5, <1>6, <1>7

----------------------------------------------------------------------------
(***************************************************************************)
(* The flags: a group of letters loses one letter after the other.         *)
(***************************************************************************)
FlagGroup(arg) == IsShortGroup(arg) /\ \A k \in 2..Len(arg) : arg[k] # "-"

\* The first letter that is found is taken out, and what is behind it moves up.
LEMMA RemovedIsTheFirst ==
    ASSUME NEW arg \in Argument, NEW c, HasLetter(arg, c), NEW rest, rest = RemoveFirst(arg, c)
    PROVE  \E k \in 1..Len(arg) :
              /\ arg[k] = c /\ \A i \in 1..(k - 1) : arg[i] # c
              /\ rest \in Argument /\ Len(rest) = Len(arg) - 1
              /\ \A i \in 1..(k - 1) : rest[i] = arg[i]
              /\ \A i \in k..(Len(arg) - 1) : rest[i] = arg[i + 1]
<1>. DEFINE I == {i \in 1..Len(arg) : arg[i] = c}
            k == SelectInSeq(arg, LAMBDA v : v = c)
<1>0. arg \in Seq(Symbol) /\ Len(arg) \in Nat
  BY LenProperties DEF Argument
<1>1. I # {} /\ I \subseteq Nat
  BY <1>0 DEF HasLetter
<1>2. k = Min(I)
  BY <1>1 DEF SelectInSeq
<1>3. k \in I /\ \A i \in I : k <= i
  BY <1>1, <1>2, MinIsFirst
<1>4. rest = RemoveAt(arg, k)
  BY DEF RemoveFirst, HasLetter
<1>. HIDE DEF k
<1>5. k \in 1..Len(arg) /\ arg[k] = c /\ \A i \in 1..(k - 1) : arg[i] # c
  BY <1>0, <1>3
<1>. HIDE DEF I
<1>. DEFINE front == SubSeq(arg, 1, k - 1)
            back == SubSeq(arg, k + 1, Len(arg))
<1>6. /\ front \in Seq(Symbol) /\ Len(front) = k - 1 /\ \A i \in 1..(k - 1) : front[i] = arg[i]
      /\ back \in Seq(Symbol) /\ Len(back) = Len(arg) - k
      /\ \A i \in 1..(Len(arg) - k) : back[i] = arg[k + i]
  BY <1>0, <1>5
<1>7. rest = front \o back
  BY <1>4 DEF RemoveAt
<1>. HIDE DEF front, back
<1>8. rest \in Seq(Symbol) /\ Len(rest) = Len(arg) - 1
  BY <1>0, <1>5, <1>6, <1>7
<1>9. \A i \in 1..(k - 1) : rest[i] = arg[i]
  BY <1>0, <1>5, <1>6, <1>7
<1>10. \A i \in k..(Len(arg) - 1) : rest[i] = arg[i + 1]
  <2>. SUFFICES ASSUME NEW i \in k..(Len(arg) - 1) PROVE rest[i] = arg[i + 1]
    OBVIOUS
  <2>1. rest[i] = back[i - (k - 1)]
    BY <1>0, <1>5, <1>6, <1>7
  <2>2. i - (k - 1) \in 1..(Len(arg) - k) /\ k + (i - (k - 1)) = i + 1
    BY <1>0, <1>5
  <2>3. QED
    BY <1>6, <2>1, <2>2
<1>11. QED
  BY <1>5, <1>8, <1>9, <1>10 DEF Argument

\* Taking a letter out of a group of flags leaves the other letters, and nothing but letters.
LEMMA LetterIsTakenOut ==
    ASSUME NEW arg \in Argument, FlagGroup(arg), NEW c \in Symbol \ {"-"}, HasLetter(arg, c),
           NEW rest, rest = WithoutFlag(arg, c)
    PROVE  /\ rest # Erased => FlagGroup(rest)
           /\ HasLetter(rest, c) <=> Twice(arg, c)
           /\ \A d \in Symbol \ {"-", c} : /\ HasLetter(rest, d) <=> HasLetter(arg, d)
                                           /\ Twice(rest, d) <=> Twice(arg, d)
<1>. DEFINE left == RemoveFirst(arg, c)
<1>0. arg \in Seq(Symbol) /\ Len(arg) \in Nat /\ Len(arg) > 1 /\ arg[1] = "-"
      /\ \A i \in 2..Len(arg) : arg[i] # "-"
  BY LenProperties DEF Argument, FlagGroup, IsShortGroup
<1>1. PICK k \in 1..Len(arg) :
              /\ arg[k] = c /\ \A i \in 1..(k - 1) : arg[i] # c
              /\ left \in Argument /\ Len(left) = Len(arg) - 1
              /\ \A i \in 1..(k - 1) : left[i] = arg[i]
              /\ \A i \in k..(Len(arg) - 1) : left[i] = arg[i + 1]
  BY RemovedIsTheFirst
<1>2. rest = IF left = <<"-">> THEN Erased ELSE left
  BY DEF WithoutFlag
<1>. HIDE DEF left
<1>3. k >= 2 /\ k \in Nat
  BY <1>0, <1>1
<1>4. left[1] = "-" /\ \A i \in 2..Len(left) : left[i] # "-"
  BY <1>0, <1>1, <1>3
<1>5. left \in Seq(Symbol) /\ Len(left) \in Nat \ {0}
  BY <1>0, <1>1 DEF Argument
\* Every symbol of arg but the one at k is one of left, and the other way round.
<1>. DEFINE Down(i) == IF i < k THEN i ELSE i - 1
            Up(i) == IF i < k THEN i ELSE i + 1
<1>6. /\ \A i \in 1..Len(arg) : i # k => Down(i) \in 1..Len(left) /\ left[Down(i)] = arg[i]
      /\ \A i \in 1..Len(left) : Up(i) \in 1..Len(arg) /\ Up(i) # k /\ arg[Up(i)] = left[i]
      /\ \A i, j \in 1..Len(left) : i # j => Up(i) # Up(j)
      /\ \A i, j \in 1..Len(arg) : i # j /\ i # k /\ j # k => Down(i) # Down(j)
  <2>1. \A i \in 1..Len(arg) : i # k => Down(i) \in 1..Len(left) /\ left[Down(i)] = arg[i]
    <3>. SUFFICES ASSUME NEW i \in 1..Len(arg), i # k
                  PROVE  Down(i) \in 1..Len(left) /\ left[Down(i)] = arg[i]
      OBVIOUS
    <3>1. CASE i < k
      BY <1>0, <1>1, <1>3, <3>1
    <3>2. CASE ~(i < k)
      <4>1. PICK j \in k..(Len(arg) - 1) : j = i - 1 /\ j + 1 = i
        BY <1>0, <1>3, <3>2
      <4>2. left[j] = arg[j + 1] /\ j \in 1..Len(left)
        BY <1>1, <1>3, <4>1
      <4>3. QED
        BY <3>2, <4>1, <4>2
    <3>3. QED
      BY <3>1, <3>2
  <2>2. \A i \in 1..Len(left) : Up(i) \in 1..Len(arg) /\ Up(i) # k /\ arg[Up(i)] = left[i]
    BY <1>0, <1>1, <1>3
  <2>3. \A i, j \in 1..Len(left) : i # j => Up(i) # Up(j)
    BY <1>3
  <2>4. \A i, j \in 1..Len(arg) : i # j /\ i # k /\ j # k => Down(i) # Down(j)
    BY <1>0, <1>3
  <2>5. QED
    BY <2>1, <2>2, <2>3, <2>4
<1>. HIDE DEF Down, Up
<1>7. HasLetter(left, c) <=> Twice(arg, c)
  BY <1>1, <1>6 DEF HasLetter, Twice
<1>8. ASSUME NEW d \in Symbol \ {"-", c}
      PROVE  (HasLetter(left, d) <=> HasLetter(arg, d)) /\ (Twice(left, d) <=> Twice(arg, d))
  <2>0. arg[k] # d
    BY <1>1
  <2>1. HasLetter(left, d) <=> HasLetter(arg, d)
    BY <1>6, <2>0 DEF HasLetter
  <2>2. ASSUME Twice(left, d) PROVE Twice(arg, d)
    <3>1. PICK i, j \in 1..Len(left) : i # j /\ left[i] = d /\ left[j] = d
      BY <2>2 DEF Twice
    <3>2. /\ Up(i) \in 1..Len(arg) /\ Up(j) \in 1..Len(arg) /\ Up(i) # Up(j)
          /\ arg[Up(i)] = d /\ arg[Up(j)] = d
      BY <1>6, <3>1
    <3>3. QED
      BY <3>2 DEF Twice
  <2>3. ASSUME Twice(arg, d) PROVE Twice(left, d)
    <3>1. PICK i, j \in 1..Len(arg) : i # j /\ arg[i] = d /\ arg[j] = d
      BY <2>3 DEF Twice
    <3>2. /\ Down(i) \in 1..Len(left) /\ Down(j) \in 1..Len(left) /\ Down(i) # Down(j)
          /\ left[Down(i)] = d /\ left[Down(j)] = d
      BY <1>6, <2>0, <3>1
    <3>3. QED
      BY <3>2 DEF Twice
  <2>4. QED
    BY <2>1, <2>2, <2>3
<1>9. CASE left = <<"-">>
  <2>1. Len(left) = 1
    BY <1>9
  <2>2. \A d \in Symbol \ {"-"} : ~HasLetter(left, d) /\ ~Twice(left, d)
    BY <1>4, <2>1 DEF HasLetter, Twice
  <2>3. rest = <<>> /\ Len(<<>>) = 0
    BY <1>2, <1>9 DEF Erased
  <2>4. \A d \in Symbol \ {"-"} : ~HasLetter(rest, d) /\ ~Twice(rest, d)
    BY <2>3 DEF HasLetter, Twice
  <2>5. QED
    BY <1>2, <1>7, <1>8, <1>9, <2>2, <2>4
<1>10. CASE left # <<"-">>
  <2>1. Len(left) # 1
    <3>. SUFFICES ASSUME Len(left) = 1 PROVE left = <<"-">>
      BY <1>10
    <3>1. QED
      BY <1>4, <1>5
  <2>2. FlagGroup(left)
    <3>1. Len(left) > 1 /\ 2 \in 2..Len(left)
      <4>. DEFINE n == Len(left)
      <4>1. n \in Nat \ {0} /\ n # 1
        BY <1>5, <2>1
      <4>. HIDE DEF n
      <4>2. n > 1 /\ 2 \in 2..n
        BY <4>1
      <4>3. QED
        BY <4>2 DEF n
    <3>2. left[2] # "-"
      BY <1>4, <3>1
    <3>3. QED
      BY <1>4, <3>1, <3>2 DEF FlagGroup, IsShortGroup
  <2>3. QED
    BY <1>2, <1>7, <1>8, <1>10, <2>2
<1>11. QED
  BY <1>9, <1>10

\* What looks like an identifier and names neither an option nor a flag is an error.
LEMMA UnnamedIsAnError ==
    ASSUME NEW s \in Setup, NEW a \in Seq(Argument), Clean(s, a), NEW p \in Free(s, a),
           MayBeIdentifier(a[p]), ~NamesFlags(s, a[p])
    PROVE  Reading(s, a).malformed /\ ~Accepted(s, Reading(s, a))
<1>1. p \in 1..Len(a)
  BY EndIs DEF Free
<1>2. IsMalformed(s, a, p)
  BY DEF IsMalformed
<1>3. QED
  BY <1>1, <1>2, MalformedIs DEF Accepted

\* The places of a flag: letters of groups, which are no first symbols, and long identifiers.
LEMMA FlagPlaces ==
    ASSUME NEW s \in Setup, NEW a \in Seq(Argument), Clean(s, a), NEW f \in DOMAIN s.flags
    PROVE  /\ \A p \in Groups(s, a, f) :
                 /\ p \in Free(s, a) /\ p \in 1..Len(a) /\ MayBeIdentifier(a[p]) /\ a[p] \in Argument
                 /\ \A k \in 1..Len(a[p]) :
                       a[p][k] = s.flags[f].short => k > 1 /\ k \in FlagIn(s.flags[f], a[p])
                 /\ \E k \in 1..Len(a[p]) : a[p][k] = s.flags[f].short
           /\ \A p \in Longs(s, a, f) :
                 /\ p \in Free(s, a) /\ p \in 1..Len(a) /\ NamesFlags(s, a[p])
                 /\ 1 \in FlagIn(s.flags[f], a[p]) /\ ~IsShortGroup(a[p]) /\ a[p] \in Argument
           /\ s.flags[f].short # "-" /\ s.flags[f].short \in Identifier
           /\ s.flags[f].long \in Identifier
<1>0. s.flags[f].short # "-" /\ s.flags[f].short \in Identifier /\ s.flags[f].long \in Identifier
  BY CallsAreNamed DEF Clean, IsNamed
<1>1. \A p \in Free(s, a) : p \in 1..Len(a) /\ a[p] \in Argument
  BY EndIs DEF Free
<1>2. ASSUME NEW p \in Groups(s, a, f)
      PROVE  /\ p \in Free(s, a) /\ MayBeIdentifier(a[p])
             /\ \A k \in 1..Len(a[p]) :
                   a[p][k] = s.flags[f].short => k > 1 /\ k \in FlagIn(s.flags[f], a[p])
             /\ \E k \in 1..Len(a[p]) : a[p][k] = s.flags[f].short
  <2>1. /\ p \in Free(s, a) /\ IsShortGroup(a[p]) /\ s.flags[f].short # NoId
        /\ HasLetter(a[p], s.flags[f].short)
    BY DEF Groups
  <2>2. MayBeIdentifier(a[p]) /\ a[p][1] = "-"
    <3>1. a[p] \in Seq(Symbol)
      BY <1>1, <2>1 DEF Argument
    <3>2. QED
      BY <2>1, <3>1 DEF IsShortGroup, MayBeIdentifier, Erased
  <2>3. ASSUME NEW k \in 1..Len(a[p]), a[p][k] = s.flags[f].short
        PROVE  k > 1 /\ k \in FlagIn(s.flags[f], a[p])
    <3>1. k # 1
      BY <1>0, <2>2, <2>3
    <3>2. k > 1
      BY <3>1
    <3>3. QED
      BY <2>1, <2>3, <3>2 DEF FlagIn
  <2>4. QED
    BY <2>1, <2>2, <2>3 DEF HasLetter
<1>3. ASSUME NEW p \in Longs(s, a, f)
      PROVE  /\ p \in Free(s, a) /\ NamesFlags(s, a[p]) /\ 1 \in FlagIn(s.flags[f], a[p])
             /\ ~IsShortGroup(a[p])
  <2>1. p \in Free(s, a) /\ IsLongFlag(s.flags[f], a[p])
    BY DEF Longs
  <2>2. a[p] = <<"-", "-", s.flags[f].long>>
    BY <1>0, <2>1, IdSymbols DEF IsLongFlag
  <2>3. Len(a[p]) = 3 /\ a[p][2] = "-"
    BY <2>2
  <2>4. ~IsShortGroup(a[p]) /\ 1 \in 1..Len(a[p])
    BY <2>3 DEF IsShortGroup
  <2>5. QED
    BY <2>1, <2>4 DEF NamesFlags, FlagIn
<1>4. QED
  BY <1>0, <1>1, <1>2, <1>3

\* Unless the command line is malformed, a flag is read wherever it stands.
LEMMA FlagIsRead ==
    ASSUME NEW s \in Setup, NEW a \in Seq(Argument), Clean(s, a), NEW f \in DOMAIN s.flags,
           ~Reading(s, a).malformed,
           NEW p \in Free(s, a), p \in Groups(s, a, f) \/ p \in Longs(s, a, f),
           NEW k \in FlagIn(s.flags[f], a[p])
    PROVE  <<p, k>> \in Reading(s, a).flags[f]
<1>1. NamesFlags(s, a[p])
  BY FlagPlaces, UnnamedIsAnError
<1>2. QED
  BY <1>1, FlagPlacesAre

\* A flag that is typed at two places or twice in a group is an error.
LEMMA FlagTwiceIsAnError ==
    ASSUME NEW s \in Setup, NEW a \in Seq(Argument), Clean(s, a), NEW f \in DOMAIN s.flags,
           NEW p, p \in Groups(s, a, f) \/ p \in Longs(s, a, f),
           NEW q, q \in Groups(s, a, f) \/ q \in Longs(s, a, f),
           p # q
    PROVE  ~Accepted(s, Reading(s, a))
<1>. SUFFICES ASSUME Accepted(s, Reading(s, a)) PROVE FALSE
  OBVIOUS
<1>1. ~Reading(s, a).malformed /\ \A m, n \in Reading(s, a).flags[f] : m = n
  BY DEF Accepted
<1>2. /\ p \in Free(s, a) /\ \E k : k \in FlagIn(s.flags[f], a[p])
      /\ q \in Free(s, a) /\ \E k : k \in FlagIn(s.flags[f], a[q])
  BY FlagPlaces
<1>3. PICK k, l : k \in FlagIn(s.flags[f], a[p]) /\ l \in FlagIn(s.flags[f], a[q])
  BY <1>2
<1>4. <<p, k>> \in Reading(s, a).flags[f] /\ <<q, l>> \in Reading(s, a).flags[f]
  BY <1>1, <1>2, <1>3, FlagIsRead
<1>5. <<p, k>> = <<q, l>>
  BY <1>1, <1>4
<1>6. QED
  BY <1>5

LEMMA LetterTwiceIsAnError ==
    ASSUME NEW s \in Setup, NEW a \in Seq(Argument), Clean(s, a), NEW f \in DOMAIN s.flags,
           NEW p \in Groups(s, a, f), Twice(a[p], s.flags[f].short)
    PROVE  ~Accepted(s, Reading(s, a))
<1>. SUFFICES ASSUME Accepted(s, Reading(s, a)) PROVE FALSE
  OBVIOUS
<1>1. ~Reading(s, a).malformed /\ \A m, n \in Reading(s, a).flags[f] : m = n
  BY DEF Accepted
<1>2. PICK k, l \in 1..Len(a[p]) : k # l /\ a[p][k] = s.flags[f].short /\ a[p][l] = s.flags[f].short
  BY DEF Twice
<1>3. p \in Free(s, a) /\ k \in FlagIn(s.flags[f], a[p]) /\ l \in FlagIn(s.flags[f], a[p])
  BY <1>2, FlagPlaces
<1>4. <<p, k>> \in Reading(s, a).flags[f] /\ <<p, l>> \in Reading(s, a).flags[f]
  BY <1>1, <1>3, FlagIsRead
<1>5. <<p, k>> = <<p, l>>
  BY <1>1, <1>4
<1>6. QED
  BY <1>2, <1>5

(***************************************************************************)
(* What holds during the pass over the flags: every flag that is done has  *)
(* taken its first letter or, without one, its first long identifier.      *)
(***************************************************************************)
FlagIsDone(f) == pc = "check_unknown" \/ f < call

LetterIsTaken(c, p) ==
    \E f \in DOMAIN setup.flags :
        FlagIsDone(f) /\ setup.flags[f].short = c /\ TakesLetter(setup, format_arguments, f, p)

LongIsTaken(p) ==
    \E f \in DOMAIN setup.flags : FlagIsDone(f) /\ TakesLong(setup, format_arguments, f, p)

GroupLeft(p) ==
    /\ arguments[p] # Erased => FlagGroup(arguments[p])
    /\ \A c \in Symbol \ {"-"} :
          /\ LetterIsTaken(c, p) => (HasLetter(arguments[p], c) <=> Twice(format_arguments[p], c))
          /\ ~LetterIsTaken(c, p) =>
                /\ HasLetter(arguments[p], c) <=> HasLetter(format_arguments[p], c)
                /\ Twice(arguments[p], c) <=> Twice(format_arguments[p], c)

LongLeft(p) ==
    /\ LongIsTaken(p) => arguments[p] = Erased
    /\ ~LongIsTaken(p) => arguments[p] = format_arguments[p]

FlagArguments ==
    /\ \A p \in DOMAIN arguments \ InFront(format_arguments) : arguments[p] = format_arguments[p]
    /\ \A p \in InFront(format_arguments) :
          IsUsed(setup, format_arguments, p) => arguments[p] = Erased
    /\ \A p \in Free(setup, format_arguments) :
          /\ IsShortGroup(format_arguments[p]) => GroupLeft(p)
          /\ ~IsShortGroup(format_arguments[p]) => LongLeft(p)

IsTyped(f) == Groups(setup, format_arguments, f) # {} \/ Longs(setup, format_arguments, f) # {}

FlagVariablesAre ==
    \A v \in FlagVariables :
        flag_value[v] <=> \E f \in DOMAIN setup.flags :
                             FlagIsDone(f) /\ setup.flags[f].value = v /\ IsTyped(f)

FlagPass == OptionsAreRight /\ AllHaveValues /\ FlagArguments /\ FlagVariablesAre

\* A group of letters that no option has used holds no other dash.
LEMMA FreeGroupIsFlagGroup ==
    ASSUME NEW s \in Setup, NEW a \in Seq(Argument), Clean(s, a), NEW p \in Free(s, a),
           IsShortGroup(a[p])
    PROVE  FlagGroup(a[p])
<1>0. p \in InFront(a) /\ ~IsUsed(s, a, p) /\ p \in DOMAIN a /\ a[p] \in Argument
  BY EndIs DEF Free
<1>1. ~IdentifiesOption(s, a[p])
  BY <1>0, IdentifiesWhereItBegins DEF IsUsed, Clean
<1>2. ~DashInGroup(s, a)
  BY DEF Clean, Unambiguous
<1>3. \A k \in 3..Len(a[p]) : a[p][k] # "-"
  BY <1>0, <1>1, <1>2 DEF DashInGroup
<1>4. a[p][2] # "-" /\ \A k \in 2..Len(a[p]) : k = 2 \/ k \in 3..Len(a[p])
  <2>1. Len(a[p]) \in Nat
    BY <1>0, LenProperties DEF Argument
  <2>2. QED
    BY <2>1 DEF IsShortGroup
<1>5. QED
  BY <1>3, <1>4 DEF FlagGroup

\* The pass over the flags starts with what the options have left.
LEMMA FlagPassBegins ==
    ASSUME ParseTypeOK, Clean(setup, format_arguments), PlacesAreRead, OptionsAreRight',
           UNCHANGED <<config, arguments, flag_value>>, pc' = AfterOptions, call' = 1,
           \A v \in FlagVariables : ~flag_value[v]
    PROVE  FlagPass'
<1>0. /\ setup \in Setup /\ format_arguments \in Seq(Argument)
      /\ setup' = setup /\ format_arguments' = format_arguments
  BY SameCommandLine DEF ParseTypeOK
<1>1. \A f \in DOMAIN setup.flags : ~FlagIsDone(f)'
  <2>1. DOMAIN setup.flags \subseteq Nat \ {0}
    BY SetupProperties
  <2>2. CASE setup.flags = <<>>
    BY <2>2
  <2>3. CASE setup.flags # <<>>
    <3>1. pc' = "flag"
      BY <2>3 DEF AfterOptions
    <3>2. QED
      BY <2>1, <3>1 DEF FlagIsDone
  <2>4. QED
    BY <2>2, <2>3
<1>2. \A p : (\A c : ~LetterIsTaken(c, p)') /\ ~LongIsTaken(p)'
  BY <1>0, <1>1 DEF LetterIsTaken, LongIsTaken
<1>3. FlagArguments'
  <2>1. ASSUME NEW p \in Free(setup, format_arguments), IsShortGroup(format_arguments[p])
        PROVE  GroupLeft(p)'
    <3>1. FlagGroup(format_arguments[p])
      BY <1>0, <2>1, FreeGroupIsFlagGroup
    <3>2. arguments'[p] = format_arguments[p]
      BY <2>1, OptionsLeave
    <3>3. QED
      BY <1>0, <1>2, <3>1, <3>2 DEF GroupLeft
  <2>2. ASSUME NEW p \in Free(setup, format_arguments) PROVE LongLeft(p)'
    BY <1>0, <1>2, OptionsLeave DEF LongLeft
  <2>3. QED
    BY <1>0, <2>1, <2>2, OptionsLeave DEF FlagArguments
<1>4. AllHaveValues'
  BY <1>0, OptionsLeave DEF AllHaveValues
<1>5. FlagVariablesAre'
  BY <1>0, <1>1 DEF FlagVariablesAre, FlagVariables
<1>6. QED
  BY <1>3, <1>4, <1>5 DEF FlagPass

\* No two flags share an identifier, and no flag that is done has taken what the next one looks for.
LEMMA FlagsAreDistinct ==
    ASSUME NEW s \in Setup, WellFormed(s), NEW f \in DOMAIN s.flags, NEW g \in DOMAIN s.flags,
           \/ s.flags[f].short # NoId /\ s.flags[f].short = s.flags[g].short
           \/ s.flags[f].long # NoId /\ s.flags[f].long = s.flags[g].long
    PROVE  f = g
BY DEF WellFormed, CallsAreDistinct, SamePair

LEMMA LongFlagIs ==
    ASSUME NEW s \in Setup, WellFormed(s), NEW f \in DOMAIN s.flags, NEW arg
    PROVE  /\ IsLongFlag(s.flags[f], arg) <=>
                 s.flags[f].long # NoId /\ arg = <<"-", "-", s.flags[f].long>>
           /\ IsLongFlag(s.flags[f], arg) => ~IsShortGroup(arg) /\ arg # Erased
           /\ \A g \in DOMAIN s.flags :
                 IsLongFlag(s.flags[f], arg) /\ IsLongFlag(s.flags[g], arg) => f = g
<1>1. \A g \in DOMAIN s.flags : s.flags[g].long \in Identifier
  BY CallsAreNamed DEF IsNamed
<1>2. \A g \in DOMAIN s.flags : IsLongFlag(s.flags[g], arg) <=>
                 s.flags[g].long # NoId /\ arg = <<"-", "-", s.flags[g].long>>
  BY <1>1, IdSymbols DEF IsLongFlag
<1>3. IsLongFlag(s.flags[f], arg) => ~IsShortGroup(arg) /\ arg # Erased
  <2>. SUFFICES ASSUME arg = <<"-", "-", s.flags[f].long>> PROVE ~IsShortGroup(arg) /\ arg # Erased
    BY <1>2
  <2>1. arg[2] = "-" /\ Len(arg) = 3
    OBVIOUS
  <2>2. arg # <<>>
    OBVIOUS
  <2>3. QED
    BY <2>1, <2>2 DEF IsShortGroup, Erased
<1>4. ASSUME NEW g \in DOMAIN s.flags, IsLongFlag(s.flags[f], arg), IsLongFlag(s.flags[g], arg)
      PROVE  f = g
  <2>1. s.flags[f].long = arg[3] /\ s.flags[g].long = arg[3] /\ s.flags[f].long # NoId
    BY <1>2, <1>4
  <2>2. QED
    BY <2>1, FlagsAreDistinct
<1>5. QED
  BY <1>2, <1>3, <1>4

\* What get_flag finds is what the command line holds.
LEMMA FlagPositions ==
    ASSUME ParseTypeOK, ArgumentsInv, Clean(setup, format_arguments), FlagPass, pc = "flag"
    PROVE  /\ ShortFlagPositions = Groups(setup, format_arguments, call)
           /\ Groups(setup, format_arguments, call) = {} =>
                 LongFlagPositions = Longs(setup, format_arguments, call)
<1>. DEFINE s == setup
            a == format_arguments
<1>0. /\ s \in Setup /\ WellFormed(s) /\ a \in Seq(Argument) /\ call \in DOMAIN s.flags
      /\ Flag = s.flags[call] /\ Flag.short # "-" /\ Flag.short \in Identifier
      /\ Flag.long \in Identifier
      /\ DOMAIN s.flags \subseteq Nat
      /\ end_of_options_it = EndOfOptionsIn(a)
  BY SetupProperties, CallsAreNamed DEF ParseTypeOK, ArgumentsInv, Clean, IsNamed, Flag
<1>1. /\ \A p \in DOMAIN arguments : p \in InFront(a) \/ p \in EndOfOptionsIn(a)..Len(a)
      /\ \A p \in InFront(a) : p \in DOMAIN arguments /\ a[p] # EndOfOptions /\ a[p] \in Argument
  BY <1>0, ArgumentsAre, EndIs
<1>2. \A f \in DOMAIN s.flags : FlagIsDone(f) => f # call
  BY <1>0 DEF FlagIsDone
<1>3. Flag.short # NoId => \A p : ~LetterIsTaken(Flag.short, p)
  BY <1>0, <1>2, FlagsAreDistinct DEF LetterIsTaken
<1>4. \A p : IsLongFlag(Flag, a[p]) => ~LongIsTaken(p)
  <2>. SUFFICES ASSUME NEW p, IsLongFlag(Flag, a[p]), LongIsTaken(p) PROVE FALSE
    OBVIOUS
  <2>1. PICK f \in DOMAIN s.flags : FlagIsDone(f) /\ IsLongFlag(s.flags[f], a[p])
    BY DEF LongIsTaken, TakesLong, Longs
  <2>2. QED
    BY <1>0, <1>2, <2>1, LongFlagIs
<1>5. /\ \A p \in DOMAIN arguments \ InFront(a) : arguments[p] = a[p]
      /\ \A p \in InFront(a) : p \in Free(s, a) \/ arguments[p] = Erased
      /\ \A p \in Free(s, a) : /\ IsShortGroup(a[p]) => GroupLeft(p)
                               /\ ~IsShortGroup(a[p]) => LongLeft(p)
  BY DEF FlagPass, FlagArguments, Free
<1>6. ~IsShortGroup(Erased) /\ ~HasLetter(Erased, Flag.short)
  BY DEF Erased, IsShortGroup, HasLetter
<1>7. ASSUME NEW p \in ShortFlagPositions PROVE p \in Groups(s, a, call)
  <2>1. /\ p \in DOMAIN arguments /\ IsShortGroup(arguments[p]) /\ Flag.short # NoId
        /\ HasLetter(arguments[p], Flag.short)
    BY DEF ShortFlagPositions
  <2>2. p \in InFront(a)
    <3>. SUFFICES ASSUME p \notin InFront(a) PROVE FALSE
      OBVIOUS
    <3>1. p \in EndOfOptionsIn(a)..Len(a) /\ arguments[p] = a[p]
      BY <1>1, <1>5, <2>1
    <3>2. FlagBehindEnd(s, a)
      BY <1>0, <2>1, <3>1 DEF FlagBehindEnd
    <3>3. QED
      BY <3>2 DEF Clean, Unambiguous
  <2>3. p \in Free(s, a)
    BY <1>5, <1>6, <2>1, <2>2
  <2>4. IsShortGroup(a[p])
    BY <1>5, <1>6, <2>1, <2>3 DEF LongLeft
  <2>5. HasLetter(a[p], Flag.short)
    <3>1. GroupLeft(p) /\ Flag.short \in Symbol \ {"-"} /\ ~LetterIsTaken(Flag.short, p)
      BY <1>0, <1>3, <1>5, <2>1, <2>3, <2>4, IdSymbols
    <3>2. QED
      BY <2>1, <3>1 DEF GroupLeft
  <2>6. QED
    BY <1>0, <2>1, <2>3, <2>4, <2>5 DEF Groups
<1>8. ASSUME NEW p \in Groups(s, a, call) PROVE p \in ShortFlagPositions
  <2>1. /\ p \in Free(s, a) /\ IsShortGroup(a[p]) /\ Flag.short # NoId /\ HasLetter(a[p], Flag.short)
    BY <1>0 DEF Groups
  <2>2. GroupLeft(p) /\ Flag.short \in Symbol \ {"-"} /\ ~LetterIsTaken(Flag.short, p)
    BY <1>0, <1>3, <1>5, <2>1, IdSymbols
  <2>3. HasLetter(arguments[p], Flag.short)
    BY <2>1, <2>2 DEF GroupLeft
  <2>4. IsShortGroup(arguments[p])
    BY <1>6, <2>2, <2>3 DEF GroupLeft, FlagGroup
  <2>5. p \in DOMAIN arguments
    BY <1>1, <2>1 DEF Free
  <2>6. QED
    BY <2>1, <2>3, <2>4, <2>5 DEF ShortFlagPositions
<1>9. LongFlagPositions = Longs(s, a, call)
  <2>1. ASSUME NEW p \in LongFlagPositions PROVE p \in Longs(s, a, call)
    <3>1. p \in InFront(a) /\ arguments[p] = prepend_dash_long(Flag.long)
      BY <1>0 DEF LongFlagPositions, InFront
    <3>2. arguments[p] # Erased /\ ~IsShortGroup(arguments[p])
      <4>1. CASE Flag.long = NoId
        <5>1. arguments[p] = <<"-", "-">>
          BY <3>1, <4>1 DEF prepend_dash_long, EndOfOptions
        <5>2. arguments[p][2] = "-" /\ arguments[p] # <<>>
          BY <5>1
        <5>3. QED
          BY <5>2 DEF IsShortGroup, Erased
      <4>2. CASE Flag.long # NoId
        BY <1>0, <3>1, <4>2, LongFlagIs DEF IsLongFlag
      <4>3. QED
        BY <4>1, <4>2
    <3>3. p \in Free(s, a) /\ ~IsShortGroup(a[p])
      BY <1>5, <3>1, <3>2 DEF GroupLeft, FlagGroup
    <3>4. arguments[p] = a[p]
      BY <1>5, <3>2, <3>3 DEF LongLeft
    <3>5. Flag.long # NoId
      BY <1>1, <3>1, <3>4 DEF prepend_dash_long
    <3>6. QED
      BY <1>0, <3>1, <3>3, <3>4, <3>5 DEF Longs, IsLongFlag
  <2>2. ASSUME NEW p \in Longs(s, a, call) PROVE p \in LongFlagPositions
    <3>1. p \in Free(s, a) /\ IsLongFlag(Flag, a[p])
      BY <1>0 DEF Longs
    <3>2. ~IsShortGroup(a[p]) /\ ~LongIsTaken(p)
      BY <1>0, <1>4, <3>1, LongFlagIs
    <3>3. arguments[p] = a[p]
      BY <1>5, <3>1, <3>2 DEF LongLeft
    <3>4. QED
      BY <1>0, <3>1, <3>3 DEF LongFlagPositions, IsLongFlag, Free, InFront
  <2>3. QED
    BY <2>1, <2>2
<1>10. QED
  BY <1>7, <1>8, <1>9

\* Behind get_flag, one more flag is done.
LEMMA OneMoreFlag ==
    ASSUME ParseTypeOK, pc = "flag", NextCall(setup.flags, "flag", "check_unknown"),
           UNCHANGED config
    PROVE  /\ setup' = setup /\ format_arguments' = format_arguments
           /\ \A f \in DOMAIN setup.flags : FlagIsDone(f)' <=> FlagIsDone(f) \/ f = call
           /\ call \in DOMAIN setup.flags /\ pc' \in {"flag", "check_unknown"}
           /\ \A c, p : LetterIsTaken(c, p)' <=>
                 \/ LetterIsTaken(c, p)
                 \/ c = Flag.short /\ TakesLetter(setup, format_arguments, call, p)
           /\ \A p : LongIsTaken(p)' <=> LongIsTaken(p) \/ TakesLong(setup, format_arguments, call, p)
<1>1. /\ call \in DOMAIN setup.flags /\ DOMAIN setup.flags = 1..Len(setup.flags)
      /\ Len(setup.flags) \in Nat /\ setup' = setup /\ format_arguments' = format_arguments
  BY SetupProperties, SameCommandLine DEF ParseTypeOK
<1>2. \/ call < Len(setup.flags) /\ call' = call + 1 /\ pc' = "flag"
      \/ call = Len(setup.flags) /\ pc' = "check_unknown"
  BY <1>1 DEF NextCall
<1>3. \A f \in DOMAIN setup.flags : FlagIsDone(f)' <=> FlagIsDone(f) \/ f = call
  BY <1>1, <1>2 DEF FlagIsDone
<1>4. \A c, p : LetterIsTaken(c, p)' <=>
          LetterIsTaken(c, p) \/ (c = Flag.short /\ TakesLetter(setup, format_arguments, call, p))
  BY <1>1, <1>3 DEF LetterIsTaken, Flag
<1>5. \A p : LongIsTaken(p)' <=> LongIsTaken(p) \/ TakesLong(setup, format_arguments, call, p)
  BY <1>1, <1>3 DEF LongIsTaken
<1>6. QED
  BY <1>1, <1>2, <1>3, <1>4, <1>5

\* What no flag takes stays as it is left.
LEMMA UntakenIsLeft ==
    ASSUME UNCHANGED config, NEW p, arguments'[p] = arguments[p],
           \A c \in Symbol \ {"-"} : LetterIsTaken(c, p)' <=> LetterIsTaken(c, p),
           LongIsTaken(p)' <=> LongIsTaken(p)
    PROVE  (GroupLeft(p) => GroupLeft(p)') /\ (LongLeft(p) => LongLeft(p)')
<1>1. format_arguments' = format_arguments
  BY SameCommandLine
<1>2. QED
  BY <1>1 DEF GroupLeft, LongLeft

\* A letter that is taken from the group at p is left there only if it was typed twice.
LEMMA TakenLetterIsLeft ==
    ASSUME ParseTypeOK, UNCHANGED config, NEW p \in DOMAIN arguments, GroupLeft(p),
           NEW c \in Symbol \ {"-"}, HasLetter(arguments[p], c), ~LetterIsTaken(c, p),
           arguments'[p] = WithoutFlag(arguments[p], c),
           \A d : LetterIsTaken(d, p)' <=> LetterIsTaken(d, p) \/ d = c
    PROVE  GroupLeft(p)'
<1>. DEFINE arg == arguments[p]
            rest == WithoutFlag(arguments[p], c)
<1>1. format_arguments' = format_arguments
  BY SameCommandLine
<1>2. arg \in Argument /\ FlagGroup(arg)
  <2>1. arg # Erased
    BY DEF HasLetter, Erased
  <2>2. QED
    BY <2>1, TextTypes DEF GroupLeft
<1>3. /\ rest # Erased => FlagGroup(rest)
      /\ HasLetter(rest, c) <=> Twice(arg, c)
      /\ \A d \in Symbol \ {"-", c} : /\ HasLetter(rest, d) <=> HasLetter(arg, d)
                                      /\ Twice(rest, d) <=> Twice(arg, d)
  BY <1>2, LetterIsTakenOut
<1>4. arguments'[p] = rest
  OBVIOUS
<1>. HIDE DEF rest
<1>5. Twice(arg, c) <=> Twice(format_arguments[p], c)
  BY DEF GroupLeft
<1>6. \A d \in Symbol \ {"-"} : d # c =>
          /\ LetterIsTaken(d, p) => (HasLetter(arg, d) <=> Twice(format_arguments[p], d))
          /\ ~LetterIsTaken(d, p) => /\ HasLetter(arg, d) <=> HasLetter(format_arguments[p], d)
                                     /\ Twice(arg, d) <=> Twice(format_arguments[p], d)
  BY DEF GroupLeft
<1>. HIDE DEF arg
<1>7. ASSUME NEW d \in Symbol \ {"-"}
      PROVE  /\ LetterIsTaken(d, p)' => (HasLetter(rest, d) <=> Twice(format_arguments[p], d))
             /\ ~LetterIsTaken(d, p)' => /\ HasLetter(rest, d) <=> HasLetter(format_arguments[p], d)
                                         /\ Twice(rest, d) <=> Twice(format_arguments[p], d)
  <2>1. CASE d = c
    BY <1>3, <1>5, <2>1
  <2>2. CASE d # c
    BY <1>3, <1>6, <2>2
  <2>3. QED
    BY <2>1, <2>2
<1>8. QED
  BY <1>1, <1>3, <1>4, <1>7 DEF GroupLeft

LEMMA GetFlagKeepsArguments ==
    ASSUME ParseTypeOK, ArgumentsInv, Clean(setup, format_arguments), FlagPass, GetFlag
    PROVE  FlagArguments'
<1>. DEFINE s == setup
            a == format_arguments
            S == Groups(setup, format_arguments, call)
            T == Longs(setup, format_arguments, call)
<1>0. /\ pc = "flag" /\ UNCHANGED config /\ NextCall(setup.flags, "flag", "check_unknown")
      /\ s \in Setup /\ a \in Seq(Argument) /\ WellFormed(s)
  BY DEF GetFlag, ParseTypeOK, Clean
<1>1. /\ ShortFlagPositions = S
      /\ S = {} => LongFlagPositions = T
  BY <1>0, FlagPositions
<1>2. /\ setup' = setup /\ format_arguments' = format_arguments /\ call \in DOMAIN s.flags
      /\ \A c, p : LetterIsTaken(c, p)' <=>
            LetterIsTaken(c, p) \/ (c = Flag.short /\ TakesLetter(s, a, call, p))
      /\ \A p : LongIsTaken(p)' <=> LongIsTaken(p) \/ TakesLong(s, a, call, p)
  BY <1>0, OneMoreFlag
<1>3. /\ \A p \in DOMAIN arguments \ InFront(a) : arguments[p] = a[p]
      /\ \A p \in InFront(a) : IsUsed(s, a, p) => arguments[p] = Erased
      /\ \A p \in Free(s, a) : /\ IsShortGroup(a[p]) => GroupLeft(p)
                               /\ ~IsShortGroup(a[p]) => LongLeft(p)
  BY DEF FlagPass, FlagArguments
<1>4. S \subseteq Nat /\ T \subseteq Nat /\ S \subseteq Free(s, a) /\ T \subseteq Free(s, a)
      /\ \A p \in Free(s, a) : p \in DOMAIN arguments /\ p \in InFront(a) /\ ~IsUsed(s, a, p)
  BY <1>0, ArgumentsAre DEF Groups, Longs, Free, InFront
<1>5. ASSUME NEW p0 \in Free(s, a), DOMAIN arguments' = DOMAIN arguments,
             \A p \in DOMAIN arguments : p # p0 => arguments'[p] = arguments[p],
             \A p : p # p0 => ~TakesLetter(s, a, call, p) /\ ~TakesLong(s, a, call, p),
             IsShortGroup(a[p0]) => GroupLeft(p0)',
             ~IsShortGroup(a[p0]) => LongLeft(p0)'
      PROVE  FlagArguments'
  <2>1. \A p \in Free(s, a) : /\ IsShortGroup(a[p]) => GroupLeft(p)'
                              /\ ~IsShortGroup(a[p]) => LongLeft(p)'
    <3>. SUFFICES ASSUME NEW p \in Free(s, a), p # p0
                  PROVE  /\ IsShortGroup(a[p]) => GroupLeft(p)'
                         /\ ~IsShortGroup(a[p]) => LongLeft(p)'
      BY <1>5
    <3>1. arguments'[p] = arguments[p]
      BY <1>4, <1>5
    <3>2. /\ \A c \in Symbol \ {"-"} : LetterIsTaken(c, p)' <=> LetterIsTaken(c, p)
          /\ LongIsTaken(p)' <=> LongIsTaken(p)
      BY <1>2, <1>5
    <3>3. (GroupLeft(p) => GroupLeft(p)') /\ (LongLeft(p) => LongLeft(p)')
      BY <1>0, <3>1, <3>2, UntakenIsLeft
    <3>4. QED
      BY <1>3, <3>3
  <2>2. \A p \in DOMAIN arguments' \ InFront(a) : arguments'[p] = a[p]
    BY <1>3, <1>4, <1>5
  <2>3. \A p \in InFront(a) : IsUsed(s, a, p) => arguments'[p] = Erased
    <3>. SUFFICES ASSUME NEW p \in InFront(a), IsUsed(s, a, p) PROVE arguments'[p] = Erased
      OBVIOUS
    <3>1. p \in DOMAIN arguments /\ p # p0
      BY <1>0, <1>4, ArgumentsAre
    <3>2. QED
      BY <1>3, <1>5, <3>1
  <2>4. QED
    BY <1>2, <2>1, <2>2, <2>3 DEF FlagArguments
<1>6. CASE S # {}
  <2>0. PICK p0 : p0 = Min(S)
    OBVIOUS
  <2>1. p0 \in S /\ \A p \in S : p0 <= p
    BY <1>4, <1>6, <2>0, MinIsFirst
  <2>2. arguments' = [arguments EXCEPT ![p0] = WithoutFlag(@, Flag.short)]
    BY <1>1, <1>6, <2>0 DEF GetFlag
  <2>3. /\ p0 \in Free(s, a) /\ p0 \in DOMAIN arguments /\ IsShortGroup(a[p0])
        /\ HasLetter(arguments[p0], Flag.short) /\ GroupLeft(p0)
    <3>1. p0 \in ShortFlagPositions
      BY <1>1, <2>1
    <3>2. QED
      BY <1>3, <1>4, <2>1, <3>1 DEF ShortFlagPositions, Groups
  <2>4. /\ arguments'[p0] = WithoutFlag(arguments[p0], Flag.short)
        /\ DOMAIN arguments' = DOMAIN arguments
        /\ \A p \in DOMAIN arguments : p # p0 => arguments'[p] = arguments[p]
    BY <2>2, <2>3
  <2>5. /\ \A p : TakesLetter(s, a, call, p) <=> p = p0
        /\ \A p : ~TakesLong(s, a, call, p)
    BY <1>4, <1>6, <2>1 DEF TakesLetter, TakesLong
  <2>6. /\ Flag.short \in Symbol \ {"-"} /\ Flag.short # NoId
        /\ Flag = s.flags[call]
    BY <1>0, <1>2, <2>1, CallsAreNamed, IdSymbols DEF Flag, Groups, IsNamed
  <2>7. ~LetterIsTaken(Flag.short, p0)
    <3>. SUFFICES ASSUME LetterIsTaken(Flag.short, p0) PROVE FALSE
      OBVIOUS
    <3>1. PICK f \in DOMAIN s.flags : FlagIsDone(f) /\ s.flags[f].short = Flag.short
      BY DEF LetterIsTaken
    <3>2. f = call
      BY <1>0, <1>2, <2>6, <3>1, FlagsAreDistinct
    <3>3. call \in Nat
      BY DEF ParseTypeOK
    <3>4. QED
      BY <1>0, <3>1, <3>2, <3>3 DEF FlagIsDone
  <2>8. \A d : LetterIsTaken(d, p0)' <=> LetterIsTaken(d, p0) \/ d = Flag.short
    BY <1>2, <2>5
  <2>9. GroupLeft(p0)'
    BY <1>0, <2>3, <2>4, <2>6, <2>7, <2>8, TakenLetterIsLeft
  <2>10. QED
    BY <1>5, <2>3, <2>4, <2>5, <2>9
<1>7. CASE S = {} /\ T # {}
  <2>0. PICK p0 : p0 = Min(T)
    OBVIOUS
  <2>1. p0 \in T /\ \A p \in T : p0 <= p
    BY <1>4, <1>7, <2>0, MinIsFirst
  <2>2. arguments' = Erase({p0})
    BY <1>1, <1>7, <2>0 DEF GetFlag
  <2>3. p0 \in Free(s, a) /\ p0 \in DOMAIN arguments /\ ~IsShortGroup(a[p0])
    BY <1>0, <1>2, <1>4, <2>1, LongFlagIs DEF Longs
  <2>4. /\ arguments'[p0] = Erased /\ DOMAIN arguments' = DOMAIN arguments
        /\ \A p \in DOMAIN arguments : p # p0 => arguments'[p] = arguments[p]
    BY <2>2, <2>3 DEF Erase
  <2>5. /\ \A p : TakesLong(s, a, call, p) <=> p = p0
        /\ \A p : ~TakesLetter(s, a, call, p)
    BY <1>4, <1>7, <2>1 DEF TakesLetter, TakesLong
  <2>6. LongIsTaken(p0)'
    BY <1>2, <2>5
  <2>7. LongLeft(p0)'
    BY <2>4, <2>6 DEF LongLeft
  <2>8. QED
    BY <1>5, <2>3, <2>4, <2>5, <2>7
<1>8. CASE S = {} /\ T = {}
  <2>1. arguments' = arguments
    BY <1>1, <1>8 DEF GetFlag
  <2>2. \A p : ~TakesLetter(s, a, call, p) /\ ~TakesLong(s, a, call, p)
    BY <1>8 DEF TakesLetter, TakesLong
  <2>3. ASSUME NEW p \in Free(s, a)
        PROVE  (GroupLeft(p) => GroupLeft(p)') /\ (LongLeft(p) => LongLeft(p)')
    BY <1>0, <1>2, <2>1, <2>2, UntakenIsLeft
  <2>4. QED
    BY <1>2, <1>3, <2>1, <2>3 DEF FlagArguments
<1>9. QED
  BY <1>6, <1>7, <1>8

LEMMA GetFlagKeeps ==
    ASSUME ParseTypeOK, ArgumentsInv, Clean(setup, format_arguments), FlagPass, GetFlag
    PROVE  FlagPass' /\ pc' \in {"flag", "check_unknown"} /\ error' = error
<1>. DEFINE S == Groups(setup, format_arguments, call)
            T == Longs(setup, format_arguments, call)
<1>0. /\ pc = "flag" /\ UNCHANGED <<config, option_value, error>>
      /\ NextCall(setup.flags, "flag", "check_unknown")
  BY DEF GetFlag
<1>1. /\ setup' = setup /\ format_arguments' = format_arguments
      /\ \A f \in DOMAIN setup.flags : FlagIsDone(f)' <=> FlagIsDone(f) \/ f = call
      /\ call \in DOMAIN setup.flags /\ pc' \in {"flag", "check_unknown"}
  BY <1>0, OneMoreFlag
<1>2. FlagArguments'
  BY GetFlagKeepsArguments
<1>3. OptionsAreRight'
  BY <1>0, <1>1, SameOptionIsRight DEF FlagPass, OptionsAreRight
<1>4. AllHaveValues'
  BY <1>1 DEF FlagPass, AllHaveValues
<1>5. FlagVariablesAre'
  <2>1. /\ ShortFlagPositions = S
        /\ S = {} => LongFlagPositions = T
    BY <1>0, FlagPositions
  <2>2. flag_value' = IF IsTyped(call) THEN [flag_value EXCEPT ![Flag.value] = TRUE] ELSE flag_value
    BY <2>1 DEF GetFlag, IsTyped
  <2>3. DOMAIN flag_value = FlagVariables /\ FlagVariables' = FlagVariables
    BY <1>1 DEF ParseTypeOK, FlagVariables
  <2>4. ASSUME NEW v \in FlagVariables
        PROVE  flag_value'[v] <=> flag_value[v] \/ (v = Flag.value /\ IsTyped(call))
    BY <2>2, <2>3
  <2>5. \A f : IsTyped(f)' <=> IsTyped(f)
    BY <1>1 DEF IsTyped
  <2>6. \A v \in FlagVariables :
            flag_value[v] <=> \E f \in DOMAIN setup.flags :
                                 FlagIsDone(f) /\ setup.flags[f].value = v /\ IsTyped(f)
    BY DEF FlagPass, FlagVariablesAre
  <2>7. ASSUME NEW v \in FlagVariables
        PROVE  flag_value'[v] <=> \E f \in DOMAIN setup.flags :
                  FlagIsDone(f)' /\ setup.flags[f].value = v /\ IsTyped(f)
    BY <1>1, <2>4, <2>6 DEF Flag
  <2>8. QED
    BY <1>1, <2>3, <2>5, <2>7 DEF FlagVariablesAre
<1>6. QED
  BY <1>0, <1>1, <1>2, <1>3, <1>4, <1>5 DEF FlagPass

(***************************************************************************)
(* check_for_unknown_ids: what is left that looks like an identifier was   *)
(* typed once too often, or names nothing.                                 *)
(***************************************************************************)
LEMMA WhenFlagsAreDone ==
    ASSUME ParseTypeOK, ArgumentsInv, Clean(setup, format_arguments), FlagPass, pc = "check_unknown"
    PROVE  /\ setup \in Setup /\ WellFormed(setup) /\ format_arguments \in Seq(Argument)
           /\ \A f : FlagIsDone(f)
           /\ UnknownIds = {p \in InFront(format_arguments) : MayBeIdentifier(arguments[p])}
           /\ \A p \in InFront(format_arguments) :
                 /\ p \in DOMAIN arguments /\ arguments[p] \in Argument
                 /\ p \in Free(setup, format_arguments) \/ arguments[p] = Erased
           /\ \A p \in Free(setup, format_arguments) :
                 /\ p \in InFront(format_arguments) /\ format_arguments[p] \in Argument
                 /\ IsShortGroup(format_arguments[p]) =>
                       GroupLeft(p) /\ FlagGroup(format_arguments[p]) /\ MayBeIdentifier(format_arguments[p])
                 /\ ~IsShortGroup(format_arguments[p]) => LongLeft(p)
<1>0. setup \in Setup /\ WellFormed(setup) /\ format_arguments \in Seq(Argument)
  BY DEF ParseTypeOK, Clean
<1>1. \A f : FlagIsDone(f)
  BY DEF FlagIsDone
<1>2. /\ end_of_options_it = EndOfOptionsIn(format_arguments)
      /\ \A p \in InFront(format_arguments) :
            p \in DOMAIN arguments /\ arguments[p] \in Argument /\ format_arguments[p] \in Argument
  BY ArgumentsAre
<1>3. UnknownIds = {p \in InFront(format_arguments) : MayBeIdentifier(arguments[p])}
  BY <1>2 DEF UnknownIds, InFront
<1>4. \A p \in InFront(format_arguments) : p \in Free(setup, format_arguments) \/ arguments[p] = Erased
  BY DEF FlagPass, FlagArguments, Free
<1>5. ASSUME NEW p \in Free(setup, format_arguments)
      PROVE  /\ p \in InFront(format_arguments)
             /\ IsShortGroup(format_arguments[p]) =>
                    GroupLeft(p) /\ FlagGroup(format_arguments[p]) /\ MayBeIdentifier(format_arguments[p])
             /\ ~IsShortGroup(format_arguments[p]) => LongLeft(p)
  <2>1. p \in InFront(format_arguments)
    BY DEF Free
  <2>2. format_arguments[p] \in Seq(Symbol)
    BY <1>2, <2>1 DEF Argument
  <2>3. IsShortGroup(format_arguments[p]) => MayBeIdentifier(format_arguments[p])
    BY <2>2 DEF IsShortGroup, MayBeIdentifier, Erased
  <2>4. IsShortGroup(format_arguments[p]) => FlagGroup(format_arguments[p])
    BY <1>0, FreeGroupIsFlagGroup
  <2>5. QED
    BY <2>1, <2>3, <2>4 DEF FlagPass, FlagArguments
<1>6. QED
  BY <1>0, <1>1, <1>2, <1>3, <1>4, <1>5

LEMMA UnknownLetterIsAnError ==
    ASSUME ParseTypeOK, ArgumentsInv, Clean(setup, format_arguments), FlagPass, pc = "check_unknown",
           NEW p \in Free(setup, format_arguments), IsShortGroup(format_arguments[p]),
           NEW c \in Symbol \ {"-"}, HasLetter(arguments[p], c)
    PROVE  ~Accepted(setup, Read)
<1>. DEFINE s == setup
            a == format_arguments
<1>0. /\ s \in Setup /\ a \in Seq(Argument) /\ \A f : FlagIsDone(f)
      /\ GroupLeft(p) /\ a[p] \in Argument /\ p \in InFront(a) /\ WellFormed(s) /\ MayBeIdentifier(a[p])
  BY WhenFlagsAreDone
<1>1. CASE LetterIsTaken(c, p)
  <2>1. PICK f \in DOMAIN s.flags : s.flags[f].short = c /\ TakesLetter(s, a, f, p)
    BY <1>1 DEF LetterIsTaken
  <2>2. Twice(a[p], c)
    BY <1>0, <1>1 DEF GroupLeft
  <2>3. p \in Groups(s, a, f)
    BY <2>1 DEF TakesLetter
  <2>4. QED
    BY <1>0, <2>1, <2>2, <2>3, LetterTwiceIsAnError DEF Read
<1>2. CASE ~LetterIsTaken(c, p) /\ \E f \in DOMAIN s.flags : s.flags[f].short = c /\ c # NoId
  <2>1. PICK f \in DOMAIN s.flags : s.flags[f].short = c /\ c # NoId
    BY <1>2
  <2>2. HasLetter(a[p], c)
    BY <1>0, <1>2 DEF GroupLeft
  <2>3. p \in Groups(s, a, f)
    BY <2>1, <2>2 DEF Groups
  <2>4. ~TakesLetter(s, a, f, p)
    BY <1>0, <1>2, <2>1 DEF LetterIsTaken
  <2>5. PICK q \in Groups(s, a, f) : ~(p <= q)
    BY <2>3, <2>4 DEF TakesLetter
  <2>6. p # q
    BY <1>0, <2>5 DEF InFront
  <2>7. QED
    BY <1>0, <2>3, <2>5, <2>6, FlagTwiceIsAnError DEF Read
<1>3. CASE ~LetterIsTaken(c, p) /\ ~\E f \in DOMAIN s.flags : s.flags[f].short = c /\ c # NoId
  <2>1. PICK k \in 1..Len(a[p]) : a[p][k] = c
    BY <1>0, <1>3 DEF GroupLeft, HasLetter
  <2>2. Len(a[p]) \in Nat
    BY <1>0, LenProperties DEF Argument
  <2>3. k \in 2..Len(a[p])
    <3>1. k # 1
      BY <2>1 DEF IsShortGroup
    <3>2. QED
      BY <2>2, <3>1
  <2>4. ~IsFlagGroup(s, a[p])
    BY <1>3, <2>1, <2>3 DEF IsFlagGroup
  <2>5. \A f \in DOMAIN s.flags : ~IsLongFlag(s.flags[f], a[p])
    BY <1>0, LongFlagIs
  <2>6. ~NamesFlags(s, a[p])
    BY <2>4, <2>5 DEF NamesFlags
  <2>7. QED
    BY <1>0, <2>6, UnnamedIsAnError DEF Read
<1>4. QED
  BY <1>1, <1>2, <1>3

LEMMA UnknownLongIsAnError ==
    ASSUME ParseTypeOK, ArgumentsInv, Clean(setup, format_arguments), FlagPass, pc = "check_unknown",
           NEW p \in Free(setup, format_arguments), ~IsShortGroup(format_arguments[p]),
           MayBeIdentifier(format_arguments[p]), ~LongIsTaken(p)
    PROVE  ~Accepted(setup, Read)
<1>. DEFINE s == setup
            a == format_arguments
<1>0. /\ s \in Setup /\ a \in Seq(Argument) /\ \A f : FlagIsDone(f) /\ WellFormed(s) /\ p \in InFront(a)
  BY WhenFlagsAreDone
<1>1. CASE ~NamesFlags(s, a[p])
  BY <1>0, <1>1, UnnamedIsAnError DEF Read
<1>2. CASE NamesFlags(s, a[p])
  <2>1. PICK f \in DOMAIN s.flags : IsLongFlag(s.flags[f], a[p])
    BY <1>2 DEF NamesFlags, IsFlagGroup
  <2>2. p \in Longs(s, a, f) /\ ~TakesLong(s, a, f, p)
    BY <1>0, <2>1 DEF Longs, LongIsTaken
  <2>3. PICK q : q \in Groups(s, a, f) \/ (q \in Longs(s, a, f) /\ ~(p <= q))
    BY <2>2 DEF TakesLong
  <2>4. p # q
    BY <1>0, <2>3 DEF Groups, InFront
  <2>5. QED
    BY <1>0, <2>2, <2>3, <2>4, FlagTwiceIsAnError DEF Read
<1>3. QED
  BY <1>1, <1>2

LEMMA UnknownIsAnError ==
    ASSUME ParseTypeOK, ArgumentsInv, Clean(setup, format_arguments), FlagPass, pc = "check_unknown",
           UnknownIds # {}
    PROVE  ~Accepted(setup, Read)
<1>. DEFINE s == setup
            a == format_arguments
<1>1. PICK p \in InFront(a) : MayBeIdentifier(arguments[p])
  BY WhenFlagsAreDone
<1>2. p \in Free(s, a) /\ arguments[p] # Erased /\ arguments[p] \in Argument
  BY <1>1, WhenFlagsAreDone DEF MayBeIdentifier
<1>3. CASE IsShortGroup(a[p])
  <2>1. FlagGroup(arguments[p])
    BY <1>2, <1>3, WhenFlagsAreDone DEF GroupLeft
  <2>2. arguments[p] \in Seq(Symbol) /\ Len(arguments[p]) > 1 /\ arguments[p][2] # "-"
        /\ Len(arguments[p]) \in Nat
    BY <1>2, <2>1, LenProperties DEF FlagGroup, IsShortGroup, Argument
  <2>3. arguments[p][2] \in Symbol \ {"-"} /\ 2 \in 1..Len(arguments[p])
    BY <2>2
  <2>4. HasLetter(arguments[p], arguments[p][2])
    BY <2>3 DEF HasLetter
  <2>5. QED
    BY <1>2, <1>3, <2>3, <2>4, UnknownLetterIsAnError
<1>4. CASE ~IsShortGroup(a[p])
  <2>1. ~LongIsTaken(p) /\ arguments[p] = a[p]
    BY <1>2, <1>4, WhenFlagsAreDone DEF LongLeft
  <2>2. QED
    BY <1>1, <1>2, <1>4, <2>1, UnknownLongIsAnError
<1>5. QED
  BY <1>3, <1>4

\* When nothing is unknown, every free argument names flags that have taken it, or is untouched.
LEMMA NothingUnknown ==
    ASSUME ParseTypeOK, ArgumentsInv, Clean(setup, format_arguments), FlagPass, pc = "check_unknown",
           UnknownIds = {}, NEW p \in Free(setup, format_arguments)
    PROVE  /\ IsShortGroup(format_arguments[p]) =>
                 /\ arguments[p] = Erased
                 /\ \A c \in Symbol \ {"-"} : HasLetter(format_arguments[p], c) =>
                       LetterIsTaken(c, p) /\ ~Twice(format_arguments[p], c)
           /\ ~IsShortGroup(format_arguments[p]) /\ MayBeIdentifier(format_arguments[p]) => LongIsTaken(p)
           /\ ~IsShortGroup(format_arguments[p]) /\ ~MayBeIdentifier(format_arguments[p]) =>
                 arguments[p] = format_arguments[p]
           /\ NamesFlags(setup, format_arguments[p]) \/ ~MayBeIdentifier(format_arguments[p])
           /\ MayBeIdentifier(format_arguments[p]) => arguments[p] = Erased
<1>. DEFINE s == setup
            a == format_arguments
<1>0. /\ s \in Setup /\ a \in Seq(Argument) /\ WellFormed(s) /\ a[p] \in Argument
      /\ p \in InFront(a) /\ p \in DOMAIN arguments /\ arguments[p] \in Argument
      /\ ~MayBeIdentifier(arguments[p])
  BY WhenFlagsAreDone
<1>1. ASSUME IsShortGroup(a[p])
      PROVE  /\ arguments[p] = Erased /\ NamesFlags(s, a[p])
             /\ \A c \in Symbol \ {"-"} : HasLetter(a[p], c) => LetterIsTaken(c, p) /\ ~Twice(a[p], c)
  <2>1. GroupLeft(p) /\ FlagGroup(a[p])
    BY <1>1, WhenFlagsAreDone
  <2>2. arguments[p] = Erased
    <3>1. arguments[p] \in Seq(Symbol)
      BY <1>0 DEF Argument
    <3>2. FlagGroup(arguments[p]) => MayBeIdentifier(arguments[p])
      BY <3>1 DEF FlagGroup, IsShortGroup, MayBeIdentifier, Erased
    <3>3. QED
      BY <1>0, <2>1, <3>2 DEF GroupLeft
  <2>3. \A c : ~HasLetter(arguments[p], c)
    BY <2>2 DEF HasLetter, Erased
  <2>4. \A c \in Symbol \ {"-"} : HasLetter(a[p], c) => LetterIsTaken(c, p) /\ ~Twice(a[p], c)
    BY <2>1, <2>3 DEF GroupLeft
  <2>5. IsFlagGroup(s, a[p])
    <3>. SUFFICES ASSUME NEW k \in 2..Len(a[p])
                  PROVE  \E f \in DOMAIN s.flags : s.flags[f].short # NoId /\ s.flags[f].short = a[p][k]
      BY <1>1 DEF IsFlagGroup
    <3>1. a[p] \in Seq(Symbol) /\ Len(a[p]) \in Nat
      BY <1>0, LenProperties DEF Argument
    <3>2. a[p][k] \in Symbol \ {"-"} /\ k \in 1..Len(a[p])
      BY <2>1, <3>1 DEF FlagGroup
    <3>3. HasLetter(a[p], a[p][k])
      BY <3>2 DEF HasLetter
    <3>4. LetterIsTaken(a[p][k], p)
      BY <2>4, <3>2, <3>3
    <3>5. QED
      BY <3>4 DEF LetterIsTaken, TakesLetter, Groups
  <2>6. QED
    BY <2>2, <2>4, <2>5 DEF NamesFlags
<1>2. ASSUME ~IsShortGroup(a[p])
      PROVE  /\ MayBeIdentifier(a[p]) => LongIsTaken(p) /\ arguments[p] = Erased /\ NamesFlags(s, a[p])
             /\ ~MayBeIdentifier(a[p]) => arguments[p] = a[p]
  <2>1. LongLeft(p)
    BY <1>2, WhenFlagsAreDone
  <2>2. LongIsTaken(p) => NamesFlags(s, a[p])
    BY DEF LongIsTaken, TakesLong, Longs, NamesFlags
  <2>3. LongIsTaken(p) => MayBeIdentifier(a[p])
    BY <1>0, <2>2, FlagsMayBeIdentifiers
  <2>4. QED
    BY <1>0, <2>1, <2>2, <2>3 DEF LongLeft
<1>3. IsShortGroup(a[p]) => MayBeIdentifier(a[p])
  BY WhenFlagsAreDone
<1>4. QED
  BY <1>1, <1>2, <1>3

\* Then the flags have been read as they were typed, each at one place.
LEMMA FlagHasTaken ==
    ASSUME ParseTypeOK, ArgumentsInv, Clean(setup, format_arguments), FlagPass, pc = "check_unknown",
           UnknownIds = {}, NEW p \in Free(setup, format_arguments), NEW f \in DOMAIN setup.flags,
           NEW k \in FlagIn(setup.flags[f], format_arguments[p])
    PROVE  \/ k = 1 /\ TakesLong(setup, format_arguments, f, p)
           \/ /\ TakesLetter(setup, format_arguments, f, p)
              /\ \A l \in FlagIn(setup.flags[f], format_arguments[p]) : l = k
<1>. DEFINE s == setup
            a == format_arguments
            c == setup.flags[f].short
<1>0. /\ s \in Setup /\ a \in Seq(Argument) /\ WellFormed(s) /\ a[p] \in Argument
      /\ k \in 1..Len(a[p]) /\ c # "-" /\ c \in Identifier
  BY WhenFlagsAreDone, FlagPlaces DEF FlagIn
<1>1. CASE k = 1 /\ IsLongFlag(s.flags[f], a[p])
  <2>1. ~IsShortGroup(a[p]) /\ MayBeIdentifier(a[p])
    BY <1>0, <1>1, LongFlagIs, FlagsMayBeIdentifiers DEF NamesFlags
  <2>2. PICK g \in DOMAIN s.flags : TakesLong(s, a, g, p)
    BY <2>1, NothingUnknown DEF LongIsTaken
  <2>3. IsLongFlag(s.flags[g], a[p])
    BY <2>2 DEF TakesLong, Longs
  <2>4. g = f
    BY <1>0, <1>1, <2>3, LongFlagIs
  <2>5. QED
    BY <1>1, <2>2, <2>4
<1>2. CASE IsShortGroup(a[p]) /\ k > 1 /\ c # NoId /\ a[p][k] = c
  <2>1. HasLetter(a[p], c) /\ c \in Symbol \ {"-"}
    BY <1>0, <1>2, IdSymbols DEF HasLetter
  <2>2. LetterIsTaken(c, p) /\ ~Twice(a[p], c)
    BY <1>2, <2>1, NothingUnknown
  <2>3. PICK g \in DOMAIN s.flags : s.flags[g].short = c /\ TakesLetter(s, a, g, p)
    BY <2>2 DEF LetterIsTaken
  <2>4. g = f
    BY <1>0, <1>2, <2>3, FlagsAreDistinct
  <2>5. ASSUME NEW l \in FlagIn(s.flags[f], a[p]) PROVE l = k
    <3>1. l \in 1..Len(a[p]) /\ a[p][l] = c
      BY <1>0, <1>2, LongFlagIs DEF FlagIn
    <3>2. QED
      BY <1>0, <1>2, <2>2, <3>1 DEF Twice
  <2>6. QED
    BY <2>3, <2>4, <2>5
<1>3. QED
  BY <1>1, <1>2 DEF FlagIn

FlagsAreRight ==
    /\ ~Read.malformed /\ Read.awaits = 0
    /\ \A f \in DOMAIN setup.flags : \A m, n \in Read.flags[f] : m = n
    /\ \A v \in FlagVariables :
          flag_value[v] <=> \E f \in DOMAIN setup.flags :
                                setup.flags[f].value = v /\ Read.flags[f] # {}

LEMMA NothingIsMalformed ==
    ASSUME ParseTypeOK, ArgumentsInv, Clean(setup, format_arguments), FlagPass, pc = "check_unknown",
           UnknownIds = {}
    PROVE  ~Read.malformed /\ Read.awaits = 0
<1>. DEFINE s == setup
            a == format_arguments
<1>0. s \in Setup /\ a \in Seq(Argument) /\ AllHaveValues
  BY DEF ParseTypeOK, FlagPass
<1>1. ASSUME NEW p, IsMalformed(s, a, p) PROVE FALSE
  <2>1. ~(p \in Free(s, a) /\ ~NamesFlags(s, a[p]) /\ MayBeIdentifier(a[p]))
    BY NothingUnknown
  <2>2. PICK o \in DOMAIN s.options : /\ p \in InFront(a) /\ BeginsWithId(s.options[o], a[p])
                                      /\ ~Spells(s.options[o], a[p]) /\ ~GluesText(s.options[o], a[p])
    BY <1>1, <2>1 DEF IsMalformed
  <2>3. HasValue(s, a, o, p)
    BY <1>0, <2>2 DEF AllHaveValues
  <2>4. QED
    BY <2>2, <2>3 DEF HasValue
<1>2. ~Read.malformed
  BY <1>0, <1>1, MalformedIs DEF Read
<1>3. ASSUME NEW o \in DOMAIN s.options, Read.awaits = o PROVE FALSE
  <2>. DEFINE n == Len(a)
  <2>1. n \in Nat /\ n \in 0..n
    BY <1>0, LenProperties
  <2>2. Readings(s, a)[n].awaits = o
    BY <1>3 DEF Read, Reading
  <2>. HIDE DEF n
  <2>3. n \in InFront(a) /\ Spells(s.options[o], a[n])
    <3>1. n \in 0..Len(a)
      BY <2>1 DEF n
    <3>2. QED
      BY <1>0, <2>2, <3>1, Synchronised
  <2>4. BeginsWithId(s.options[o], a[n]) /\ ~GluesText(s.options[o], a[n])
    <3>1. a[n] \in Argument
      BY <1>0, <2>3, EndIs
    <3>2. QED
      BY <1>0, <2>3, <3>1, SpelledAndGlued DEF Clean
  <2>5. n + 1 \in InFront(a)
    BY <1>0, <2>3, <2>4 DEF AllHaveValues, HasValue
  <2>6. n + 1 \in 1..Len(a)
    BY <1>0, <2>5, EndIs
  <2>7. QED
    BY <2>1, <2>6 DEF n
<1>4. Read.awaits = 0
  <2>1. Read \in ReadingRecord(s)
    BY <1>0, ReadingTypes, LenProperties DEF Read, Reading, Clean
  <2>2. QED
    BY <1>3, <2>1 DEF ReadingRecord
<1>5. QED
  BY <1>2, <1>4

LEMMA FlagsAreNamedOnce ==
    ASSUME ParseTypeOK, ArgumentsInv, Clean(setup, format_arguments), FlagPass, pc = "check_unknown",
           UnknownIds = {}, NEW f \in DOMAIN setup.flags
    PROVE  /\ \A m, n \in Read.flags[f] : m = n
           /\ IsTyped(f) <=> Read.flags[f] # {}
<1>. DEFINE s == setup
            a == format_arguments
<1>0. s \in Setup /\ a \in Seq(Argument) /\ ~Read.malformed
  BY NothingIsMalformed DEF ParseTypeOK
<1>1. ASSUME NEW m \in Read.flags[f]
      PROVE  \E p \in Free(s, a) : \E k \in FlagIn(s.flags[f], a[p]) : m = <<p, k>>
  BY <1>0, FlagPlacesAre DEF Read
<1>2. ASSUME NEW m \in Read.flags[f], NEW n \in Read.flags[f] PROVE m = n
  <2>1. PICK p \in Free(s, a) : \E k \in FlagIn(s.flags[f], a[p]) : m = <<p, k>>
    BY <1>1
  <2>2. PICK k \in FlagIn(s.flags[f], a[p]) : m = <<p, k>>
    BY <2>1
  <2>3. PICK q \in Free(s, a) : \E l \in FlagIn(s.flags[f], a[q]) : n = <<q, l>>
    BY <1>1
  <2>4. PICK l \in FlagIn(s.flags[f], a[q]) : n = <<q, l>>
    BY <2>3
  <2>5. p \in Nat /\ q \in Nat
    BY DEF Free, InFront
  <2>6. \/ k = 1 /\ TakesLong(s, a, f, p)
        \/ TakesLetter(s, a, f, p) /\ \A i \in FlagIn(s.flags[f], a[p]) : i = k
    BY FlagHasTaken
  <2>7. \/ l = 1 /\ TakesLong(s, a, f, q)
        \/ TakesLetter(s, a, f, q) /\ \A i \in FlagIn(s.flags[f], a[q]) : i = l
    BY FlagHasTaken
  <2>8. CASE TakesLong(s, a, f, p)
    <3>1. Groups(s, a, f) = {} /\ p \in Longs(s, a, f) /\ \A i \in Longs(s, a, f) : p <= i
      BY <2>8 DEF TakesLong
    <3>2. ~TakesLetter(s, a, f, p) /\ ~TakesLetter(s, a, f, q)
      BY <3>1 DEF TakesLetter
    <3>3. k = 1 /\ l = 1 /\ TakesLong(s, a, f, q)
      BY <2>6, <2>7, <3>2
    <3>4. p <= q /\ q <= p
      BY <3>1, <3>3 DEF TakesLong
    <3>5. p = q
      BY <2>5, <3>4
    <3>6. QED
      BY <2>2, <2>4, <3>3, <3>5
  <2>9. CASE ~TakesLong(s, a, f, p)
    <3>1. TakesLetter(s, a, f, p) /\ \A i \in FlagIn(s.flags[f], a[p]) : i = k
      BY <2>6, <2>9
    <3>2. TakesLetter(s, a, f, q)
      BY <2>7, <3>1 DEF TakesLetter, TakesLong
    <3>3. p <= q /\ q <= p
      BY <3>1, <3>2 DEF TakesLetter
    <3>4. p = q
      BY <2>5, <3>3
    <3>5. k = l
      BY <3>1, <3>4
    <3>6. QED
      BY <2>2, <2>4, <3>4, <3>5
  <2>10. QED
    BY <2>8, <2>9
<1>3. ASSUME IsTyped(f) PROVE Read.flags[f] # {}
  <2>1. PICK p : p \in Groups(s, a, f) \/ p \in Longs(s, a, f)
    BY <1>3 DEF IsTyped
  <2>2. p \in Free(s, a) /\ \E k : k \in FlagIn(s.flags[f], a[p])
    BY <1>0, <2>1, FlagPlaces
  <2>3. PICK k : k \in FlagIn(s.flags[f], a[p])
    BY <2>2
  <2>4. <<p, k>> \in Read.flags[f]
    BY <1>0, <2>1, <2>2, <2>3, FlagIsRead DEF Read
  <2>5. QED
    BY <2>4
<1>4. ASSUME Read.flags[f] # {} PROVE IsTyped(f)
  <2>1. PICK p \in Free(s, a) : \E k : k \in FlagIn(s.flags[f], a[p])
    BY <1>1, <1>4
  <2>2. TakesLong(s, a, f, p) \/ TakesLetter(s, a, f, p)
    BY <2>1, FlagHasTaken
  <2>3. QED
    BY <2>2 DEF TakesLong, TakesLetter, IsTyped
<1>5. QED
  BY <1>2, <1>3, <1>4

----------------------------------------------------------------------------
(***************************************************************************)
(* The positional options: what is left are the operands of the reading,   *)
(* and every positional option takes the first of them.                    *)
(***************************************************************************)
Operands == Read.positionals

LeftOver(m) ==
    /\ m \in 0..Len(Operands)
    /\ Remaining = {Operands[j].at : j \in (m + 1)..Len(Operands)}
    /\ \A p \in Remaining : arguments[p] = format_arguments[p]

PositionalIsRight(k) ==
    /\ k <= Len(Operands)
    /\ positional_value[k] = OperandsOf(setup, Read, k)
    /\ Fits(setup.positionals[k], OperandsOf(setup, Read, k))

AllParse(values) == \A j \in DOMAIN values : Parses(Positional.type, values[j].text)

RunningPositional ==
    /\ pc = "positional" => LeftOver(call - 1)
    /\ pc = "take" =>
          \E m \in Nat :
              /\ LeftOver(m) /\ call <= m + 1
              /\ ~Positional.list => m = call - 1
              /\ Positional.list =>
                    /\ positional_value[call] = SubSeq(Operands, call, m)
                    /\ AllParse(positional_value[call])
    /\ pc = "validate" =>
          /\ LeftOver(IF Positional.list THEN Len(Operands) ELSE call)
          /\ call <= Len(Operands)
          /\ positional_value[call] = OperandsOf(setup, Read, call)
          /\ AllParse(positional_value[call])
    /\ pc = "left_over" =>
          LET n == Len(setup.positionals)
          IN  LeftOver(IF n > 0 /\ setup.positionals[n].list THEN Len(Operands) ELSE n)

PositionalVariables ==
    \A k \in DOMAIN setup.positionals : pc = "left_over" \/ k < call => PositionalIsRight(k)

PositionalPass == OptionsAreRight /\ FlagsAreRight /\ RunningPositional /\ PositionalVariables

\* The operands of the reading, as the passes over the options and the flags leave them.
LEMMA OperandsAreLeft ==
    ASSUME ParseTypeOK, ArgumentsInv, Clean(setup, format_arguments), FlagPass, pc = "check_unknown",
           UnknownIds = {}, NEW p \in DOMAIN arguments, p # end_of_options_it
    PROVE  /\ arguments[p] # Erased <=> IsOperand(setup, format_arguments, p)
           /\ arguments[p] # Erased => arguments[p] = format_arguments[p]
<1>. DEFINE s == setup
            a == format_arguments
<1>0. /\ end_of_options_it = EndOfOptionsIn(a) /\ DOMAIN arguments = 1..Len(a) /\ Len(a) \in Nat
      /\ end_of_options_it \in Nat
      /\ p \notin InFront(a) <=> end_of_options_it <= p
  BY ArgumentsAre
<1>1. CASE p \notin InFront(a)
  <2>1. arguments[p] = a[p]
    BY <1>1 DEF FlagPass, FlagArguments
  <2>2. p \in (EndOfOptionsIn(a) + 1)..Len(a)
    BY <1>0, <1>1
  <2>3. IsOperand(s, a, p) <=> a[p] # Erased
    BY <2>2 DEF IsOperand
  <2>4. QED
    BY <2>1, <2>3
<1>2. CASE p \in InFront(a)
  <2>1. p \notin (EndOfOptionsIn(a) + 1)..Len(a)
    BY <1>0, <1>2
  <2>2. IsOperand(s, a, p) <=> a[p] # Erased /\ p \in Free(s, a) /\ ~MayBeIdentifier(a[p])
    BY <2>1 DEF IsOperand
  <2>3. CASE p \notin Free(s, a)
    BY <1>2, <2>2, <2>3, WhenFlagsAreDone
  <2>4. CASE p \in Free(s, a)
    <3>1. MayBeIdentifier(a[p]) => arguments[p] = Erased
      BY <2>4, NothingUnknown
    <3>2. ~MayBeIdentifier(a[p]) => arguments[p] = a[p]
      BY <2>4, NothingUnknown, WhenFlagsAreDone
    <3>3. QED
      BY <2>2, <2>4, <3>1, <3>2
  <2>5. QED
    BY <2>3, <2>4
<1>3. QED
  BY <1>1, <1>2

LEMMA OperandTypes ==
    ASSUME ParseTypeOK, Clean(setup, format_arguments)
    PROVE  /\ Operands \in Seq(Value) /\ Len(Operands) \in Nat /\ DOMAIN Operands = 1..Len(Operands)
           /\ \A j \in 1..Len(Operands) :
                 /\ Operands[j].at \in DOMAIN arguments /\ Operands[j].at \in Nat
                 /\ Operands[j].text = format_arguments[Operands[j].at]
                 /\ Operands[j] = [text |-> Operands[j].text, at |-> Operands[j].at]
           /\ \A i, j \in 1..Len(Operands) : i < j => Operands[i].at < Operands[j].at
<1>0. setup \in Setup /\ format_arguments \in Seq(Argument)
  BY DEF ParseTypeOK
<1>1. /\ Operands \in Seq(Value)
      /\ \A j \in 1..Len(Operands) :
            /\ Operands[j].at \in 1..Len(format_arguments)
            /\ Operands[j].text = format_arguments[Operands[j].at]
      /\ \A i, j \in 1..Len(Operands) : i < j => Operands[i].at < Operands[j].at
  BY <1>0, OperandsAre DEF Operands, Read
<1>2. DOMAIN arguments = 1..Len(format_arguments)
  BY DEF ParseTypeOK
<1>3. Len(Operands) \in Nat /\ DOMAIN Operands = 1..Len(Operands)
      /\ \A j \in 1..Len(Operands) : Operands[j] \in Value
  BY <1>1
<1>4. \A j \in 1..Len(Operands) : Operands[j] = [text |-> Operands[j].text, at |-> Operands[j].at]
  BY <1>3 DEF Value
<1>5. QED
  BY <1>1, <1>2, <1>3, <1>4

LEMMA SettledStays ==
    ASSUME UNCHANGED <<config, option_value, flag_value>>, OptionsAreRight, FlagsAreRight
    PROVE  OptionsAreRight' /\ FlagsAreRight'
<1>1. setup' = setup /\ Read' = Read
  BY SameCommandLine
<1>2. OptionsAreRight'
  BY <1>1, SameOptionIsRight DEF OptionsAreRight
<1>3. FlagsAreRight'
  BY <1>1 DEF FlagsAreRight, FlagVariables
<1>4. QED
  BY <1>2, <1>3

LEMMA CheckForUnknownIdsKeeps ==
    ASSUME ParseTypeOK, ArgumentsInv, Clean(setup, format_arguments), FlagPass, CheckForUnknownIds
    PROVE  /\ pc' \in {"positional", "left_over"} => PositionalPass' /\ error' = error
           /\ pc' = "done" => ~Accepted(setup, Read) /\ error' # "none"
           /\ pc' \in {"positional", "left_over", "done"}
<1>0. pc = "check_unknown" /\ UNCHANGED <<config, option_value, flag_value>> /\ call' = call /\ call = 1
  BY DEF CheckForUnknownIds, ParseTypeOK, lookup, outputs
<1>1. CASE UnknownIds # {}
  BY <1>0, <1>1, UnknownIsAnError DEF CheckForUnknownIds, Throw
<1>2. CASE UnknownIds = {}
  <2>0. /\ arguments' = Erase({end_of_options_it}) /\ error' = error
        /\ pc' = IF setup.positionals = <<>> THEN "left_over" ELSE "positional"
        /\ setup' = setup /\ format_arguments' = format_arguments
    BY <1>0, <1>2, SameCommandLine DEF CheckForUnknownIds
  <2>1. FlagsAreRight
    <3>1. \A v \in FlagVariables :
             flag_value[v] <=> \E f \in DOMAIN setup.flags : setup.flags[f].value = v /\ IsTyped(f)
      BY <1>0 DEF FlagPass, FlagVariablesAre, FlagIsDone
    <3>2. QED
      BY <1>0, <1>2, <3>1, FlagsAreNamedOnce, NothingIsMalformed DEF FlagsAreRight
  <2>2. OptionsAreRight' /\ FlagsAreRight'
    BY <1>0, <2>1, SettledStays DEF FlagPass
  <2>3. /\ DOMAIN arguments' = DOMAIN arguments
        /\ \A p \in DOMAIN arguments : p # end_of_options_it => arguments'[p] = arguments[p]
        /\ end_of_options_it \in DOMAIN arguments => arguments'[end_of_options_it] = Erased
    BY <2>0 DEF Erase
  <2>4. /\ end_of_options_it = EndOfOptionsIn(format_arguments) /\ end_of_options_it \in Nat
        /\ setup \in Setup /\ format_arguments \in Seq(Argument)
        /\ DOMAIN arguments = 1..Len(format_arguments)
        /\ end_of_options_it \notin InFront(format_arguments)
    BY <1>0, ArgumentsAre DEF InFront
  <2>5. ~IsOperand(setup, format_arguments, end_of_options_it)
    BY <2>4 DEF IsOperand, Free
  <2>6. \A p \in DOMAIN arguments :
            /\ arguments'[p] # Erased <=> IsOperand(setup, format_arguments, p)
            /\ arguments'[p] # Erased => arguments'[p] = format_arguments[p]
    BY <1>0, <1>2, <2>3, <2>5, OperandsAreLeft
  <2>7. Remaining' = {p \in DOMAIN arguments : IsOperand(setup, format_arguments, p)}
    BY <2>3, <2>6 DEF Remaining
  <2>8. /\ Len(Operands) \in Nat
        /\ \A j \in 1..Len(Operands) : /\ Operands[j].at \in DOMAIN arguments
                                       /\ IsOperand(setup, format_arguments, Operands[j].at)
        /\ \A p \in DOMAIN arguments : IsOperand(setup, format_arguments, p) =>
              \E j \in 1..Len(Operands) : Operands[j].at = p
    BY <2>4, OperandsAre, OperandTypes DEF Operands, Read
  <2>9. Remaining' = {Operands[j].at : j \in 1..Len(Operands)}
    BY <2>7, <2>8
  <2>10. Operands' = Operands
    BY <1>0, SameCommandLine DEF Operands
  <2>11. LeftOver(0)'
    <3>1. \A p \in Remaining' : arguments'[p] = format_arguments[p]
      BY <2>3, <2>6 DEF Remaining
    <3>2. 0 + 1 = 1 /\ 0 \in 0..Len(Operands)
      BY <2>8
    <3>3. QED
      BY <2>0, <2>9, <2>10, <3>1, <3>2 DEF LeftOver
  <2>12. setup.positionals \in Seq(PositionalCall)
    BY SetupProperties
  <2>13. RunningPositional'
    <3>1. CASE setup.positionals = <<>>
      <4>1. Len(setup.positionals) = 0 /\ pc' = "left_over"
        BY <2>0, <3>1
      <4>2. QED
        BY <2>0, <2>11, <4>1 DEF RunningPositional
    <3>2. CASE setup.positionals # <<>>
      <4>1. call' - 1 = 0 /\ pc' = "positional"
        BY <1>0, <2>0, <3>2
      <4>2. QED
        BY <2>11, <4>1 DEF RunningPositional
    <3>3. QED
      BY <3>1, <3>2
  <2>14. PositionalVariables'
    <3>1. \A k \in DOMAIN setup.positionals : ~(k < 1)
      BY <2>12
    <3>2. setup.positionals = <<>> => DOMAIN setup.positionals = {}
      OBVIOUS
    <3>3. QED
      BY <1>0, <2>0, <3>1, <3>2 DEF PositionalVariables
  <2>15. QED
    BY <2>0, <2>2, <2>13, <2>14 DEF PositionalPass
<1>3. QED
  BY <1>1, <1>2

\* The first argument that is left is the next operand.
LEMMA FirstOperand ==
    ASSUME ParseTypeOK, Clean(setup, format_arguments), NEW m, LeftOver(m),
           NEW p, p = Min(Remaining)
    PROVE  /\ m \in Nat /\ m <= Len(Operands)
           /\ Remaining = {} <=> m = Len(Operands)
           /\ Remaining # {} =>
                 /\ m + 1 \in 1..Len(Operands) /\ p = Operands[m + 1].at /\ p \in DOMAIN arguments
                 /\ arguments[p] = Operands[m + 1].text
                 /\ Operands[m + 1] = [text |-> arguments[p], at |-> p]
                 /\ Remaining = {p} <=> m + 1 = Len(Operands)
                 /\ Remaining \ {p} = {Operands[j].at : j \in (m + 2)..Len(Operands)}
<1>. DEFINE n == Len(Operands)
            At(j) == Operands[j].at
<1>0. /\ n \in Nat /\ \A j \in 1..n : /\ At(j) \in DOMAIN arguments /\ At(j) \in Nat
                                      /\ Operands[j].text = format_arguments[At(j)]
                                      /\ Operands[j] = [text |-> Operands[j].text, at |-> At(j)]
      /\ \A i, j \in 1..n : i < j => At(i) < At(j)
  BY OperandTypes
<1>1. m \in 0..n /\ Remaining = {At(j) : j \in (m + 1)..n}
      /\ \A q \in Remaining : arguments[q] = format_arguments[q]
  BY DEF LeftOver
<1>. HIDE DEF n, At
<1>2. m \in Nat /\ m <= n /\ (Remaining = {} <=> m = n)
  <2>1. m \in Nat /\ m <= n
    BY <1>0, <1>1
  <2>2. m = n => (m + 1)..n = {}
    BY <1>0
  <2>3. m # n => m + 1 \in (m + 1)..n
    BY <1>0, <2>1
  <2>4. QED
    BY <1>1, <2>1, <2>2, <2>3
<1>3. ASSUME Remaining # {}
      PROVE  /\ m + 1 \in 1..n /\ p = At(m + 1) /\ p \in DOMAIN arguments
             /\ arguments[p] = Operands[m + 1].text
             /\ Operands[m + 1] = [text |-> arguments[p], at |-> p]
             /\ Remaining \ {p} = {At(j) : j \in (m + 2)..n}
             /\ Remaining = {p} <=> m + 1 = n
  <2>1. m + 1 \in 1..n /\ m + 1 \in (m + 1)..n
    BY <1>0, <1>2, <1>3
  <2>2. Remaining \subseteq Nat
    <3>1. DOMAIN arguments \subseteq Nat
      BY TextTypes
    <3>2. QED
      BY <3>1 DEF Remaining
  <2>3. p \in Remaining /\ \A q \in Remaining : p <= q
    BY <1>3, <2>2, MinIsFirst
  <2>4. At(m + 1) \in Remaining
    BY <1>1, <2>1
  <2>5. \A j \in (m + 1)..n : j # m + 1 => At(m + 1) < At(j)
    BY <1>0, <1>2, <2>1
  <2>6. p = At(m + 1)
    <3>1. PICK j \in (m + 1)..n : p = At(j)
      BY <1>1, <2>3
    <3>2. j \in 1..n
      BY <1>0, <1>2
    <3>3. At(j) \in Nat /\ At(m + 1) \in Nat
      BY <1>0, <2>1, <3>2
    <3>4. p <= At(m + 1)
      BY <2>3, <2>4
    <3>5. QED
      BY <2>5, <3>1, <3>3, <3>4
  <2>7. \A j : j \in (m + 1)..n <=> j = m + 1 \/ j \in (m + 2)..n
    BY <1>0, <1>2, <2>1
  <2>8. \A j \in (m + 2)..n : At(j) # At(m + 1)
    <3>. SUFFICES ASSUME NEW j \in (m + 2)..n PROVE At(j) # At(m + 1)
      OBVIOUS
    <3>1. j \in (m + 1)..n /\ j # m + 1 /\ j \in 1..n
      BY <1>0, <1>2
    <3>2. At(j) \in Nat /\ At(m + 1) \in Nat /\ At(m + 1) < At(j)
      BY <1>0, <2>1, <2>5, <3>1
    <3>3. QED
      BY <3>2
  <2>9. Remaining \ {p} = {At(j) : j \in (m + 2)..n}
    BY <1>1, <2>6, <2>7, <2>8
  <2>10. Remaining = {p} <=> m + 1 = n
    <3>1. m + 1 = n => (m + 2)..n = {}
      BY <1>0, <1>2
    <3>2. m + 1 # n => m + 2 \in (m + 2)..n
      BY <1>0, <1>2, <2>1
    <3>3. Remaining = {p} <=> Remaining \ {p} = {}
      BY <2>3
    <3>4. QED
      BY <2>9, <3>1, <3>2, <3>3
  <2>11. p \in DOMAIN arguments /\ arguments[p] = Operands[m + 1].text
    BY <1>0, <1>1, <2>1, <2>3, <2>6
  <2>12. QED
    BY <1>0, <2>1, <2>6, <2>9, <2>10, <2>11
<1>4. QED
  BY <1>2, <1>3 DEF n, At

LEMMA LeftOverStays ==
    ASSUME UNCHANGED <<config, arguments>>, NEW m, LeftOver(m)
    PROVE  LeftOver(m)'
<1>1. format_arguments' = format_arguments /\ Read' = Read
  BY SameCommandLine
<1>2. Operands' = Operands /\ Remaining' = Remaining
  BY <1>1 DEF Operands, Remaining
<1>3. QED
  BY <1>1, <1>2 DEF LeftOver

LEMMA OperandIsTaken ==
    ASSUME ParseTypeOK, Clean(setup, format_arguments), UNCHANGED config, NEW m, LeftOver(m),
           Remaining # {}, arguments' = Erase({Min(Remaining)})
    PROVE  LeftOver(m + 1)'
<1>0. PICK p : p = Min(Remaining)
  OBVIOUS
<1>1. /\ m \in Nat /\ m + 1 \in 1..Len(Operands) /\ p \in DOMAIN arguments
      /\ Remaining \ {p} = {Operands[j].at : j \in (m + 2)..Len(Operands)}
  BY <1>0, FirstOperand
<1>2. /\ DOMAIN arguments' = DOMAIN arguments /\ arguments'[p] = Erased
      /\ \A q \in DOMAIN arguments : q # p => arguments'[q] = arguments[q]
  BY <1>0, <1>1 DEF Erase
<1>3. Remaining' = Remaining \ {p}
  BY <1>2 DEF Remaining
<1>4. \A q \in Remaining' : arguments'[q] = format_arguments[q]
  BY <1>2, <1>3 DEF LeftOver, Remaining
<1>5. format_arguments' = format_arguments /\ Operands' = Operands
  BY SameCommandLine DEF Operands
<1>6. m + 1 + 1 = m + 2 /\ m + 1 \in 0..Len(Operands)
  BY <1>1
<1>7. QED
  BY <1>1, <1>3, <1>4, <1>5, <1>6 DEF LeftOver

\* What holds of some value of a sequence, at any place.
IsAmong(value, values) == \E i \in DOMAIN values : values[i] = value

\* The value at a position is among the last values from an earlier position on.
LEMMA IsAmongTheLast ==
    ASSUME NEW values \in Seq(Value), NEW c \in Nat \ {0}, NEW j \in 1..Len(values), c <= j,
           NEW rest, rest = SubSeq(values, c, Len(values))
    PROVE  IsAmong(values[j], rest)
<1>0. Len(values) \in Nat /\ \A i \in 1..Len(values) : values[i] \in Value
  OBVIOUS
<1>1. /\ rest \in Seq(Value) /\ Len(rest) = Len(values) - c + 1
      /\ \A i \in 1..(Len(values) - c + 1) : rest[i] = values[c + i - 1]
  <2>1. c \in Int /\ Len(values) \in Int /\ \A i \in c..Len(values) : values[i] \in Value
    BY <1>0
  <2>2. c <= Len(values)
    BY <1>0
  <2>3. QED
    BY <2>1, <2>2, SubSeqProperties
<1>2. PICK i \in 1..(Len(values) - c + 1) : c + i - 1 = j
  <2>1. j - c + 1 \in 1..(Len(values) - c + 1) /\ c + (j - c + 1) - 1 = j
    BY <1>0
  <2>2. QED
    BY <2>1
<1>3. DOMAIN rest = 1..(Len(values) - c + 1)
  BY <1>1
<1>4. QED
  BY <1>1, <1>2, <1>3 DEF IsAmong

\* One more of the first values from a position on.
LEMMA OneMoreValue ==
    ASSUME NEW values \in Seq(Value), NEW c \in Nat \ {0}, NEW m \in Nat, c <= m + 1,
           m + 1 <= Len(values), NEW first, first = SubSeq(values, c, m)
    PROVE  Append(first, values[m + 1]) = SubSeq(values, c, m + 1)
<1>0. Len(values) \in Nat /\ \A i \in 1..Len(values) : values[i] \in Value
  OBVIOUS
<1>1. /\ c \in 1..Len(values) /\ m + 1 \in c..Len(values) /\ m + 1 - 1 = m
      /\ c \in Int /\ m \in Int /\ \A i \in c..m : values[i] \in Value
  BY <1>0
<1>2. first \in Seq(Value)
  BY <1>1, SubSeqProperties
<1>3. SubSeq(values, c, m + 1) = first \o <<values[m + 1]>>
  BY <1>1, SubSeqRecursiveSecond
<1>4. values[m + 1] \in Value
  BY <1>0, <1>1
<1>5. Append(first, values[m + 1]) = first \o <<values[m + 1]>>
  BY <1>2, <1>4, AppendIsConcat
<1>6. QED
  BY <1>3, <1>5

\* The operands of a call are single, or all that follow.
LEMMA OperandOfCall ==
    ASSUME ParseTypeOK, Clean(setup, format_arguments), call \in DOMAIN setup.positionals,
           NEW j \in 1..Len(Operands), j = call \/ (Positional.list /\ call <= j)
    PROVE  IsAmong(Operands[j], OperandsOf(setup, Read, call))
<1>0. Operands \in Seq(Value) /\ Len(Operands) \in Nat /\ call \in Nat \ {0}
  BY OperandTypes DEF ParseTypeOK
<1>1. CASE ~Positional.list
  <2>1. OperandsOf(setup, Read, call) = <<Operands[call]>> /\ j = call
    BY <1>1 DEF OperandsOf, Positional, Operands
  <2>2. 1 \in DOMAIN <<Operands[call]>> /\ <<Operands[call]>>[1] = Operands[call]
    OBVIOUS
  <2>3. QED
    BY <2>1, <2>2 DEF IsAmong
<1>2. CASE Positional.list
  <2>1. OperandsOf(setup, Read, call) = SubSeq(Operands, call, Len(Operands))
    BY <1>2 DEF OperandsOf, Positional, Operands
  <2>2. call <= j
    BY <1>0
  <2>3. QED
    BY <1>0, <2>1, <2>2, IsAmongTheLast
<1>3. QED
  BY <1>1, <1>2

LEMMA OtherPositionalsStay ==
    ASSUME UNCHANGED <<config, call>>, pc # "left_over", pc' # "left_over", PositionalVariables,
           call \in Nat, DOMAIN setup.positionals \subseteq Nat,
           \A k \in DOMAIN setup.positionals : k # call => positional_value'[k] = positional_value[k]
    PROVE  PositionalVariables'
<1>1. setup' = setup /\ Read' = Read /\ Operands' = Operands /\ call' = call
  BY SameCommandLine DEF Operands
<1>2. ASSUME NEW k \in DOMAIN setup.positionals, k < call PROVE PositionalIsRight(k)'
  BY <1>1, <1>2 DEF PositionalVariables, PositionalIsRight, OperandsOf, Fits
<1>3. QED
  BY <1>1, <1>2 DEF PositionalVariables

\* The positional call that runs; only the last one is a container.
LEMMA RunningCall ==
    ASSUME ParseTypeOK, Clean(setup, format_arguments), NEW n, n = Len(setup.positionals)
    PROVE  /\ n \in Nat /\ DOMAIN setup.positionals = 1..n
           /\ pc \in {"positional", "take", "validate"} =>
                 /\ call \in Nat /\ call \in 1..n /\ call \in DOMAIN setup.positionals
                 /\ Positional = setup.positionals[call] /\ Positional.list \in BOOLEAN
                 /\ Positional.list <=> setup.positionals[n].list /\ call = n
<1>0. setup.positionals \in Seq(PositionalCall)
  BY SetupProperties
<1>1. n \in Nat /\ DOMAIN setup.positionals = 1..n
  BY <1>0
<1>2. ASSUME pc \in {"positional", "take", "validate"}
      PROVE  /\ call \in Nat /\ call \in 1..n /\ call \in DOMAIN setup.positionals
             /\ Positional = setup.positionals[call] /\ Positional.list \in BOOLEAN
             /\ Positional.list <=> setup.positionals[n].list /\ call = n
  <2>1. call \in Nat /\ call \in DOMAIN setup.positionals
    BY <1>1, <1>2 DEF ParseTypeOK
  <2>2. setup.positionals[call] \in PositionalCall
    BY <1>0, <2>1
  <2>3. Positional = setup.positionals[call] /\ Positional.list \in BOOLEAN
    BY <2>2 DEF Positional, PositionalCall
  <2>4. Positional.list => call = n
    BY <2>1, <2>3 DEF Clean, WellFormed, ListIsLast
  <2>5. QED
    BY <1>1, <2>1, <2>3, <2>4
<1>3. QED
  BY <1>1, <1>2

LEMMA TooFewIsAnError ==
    ASSUME ParseTypeOK, Clean(setup, format_arguments), Len(Operands) < Len(setup.positionals)
    PROVE  ~Accepted(setup, Read)
<1>0. Len(Operands) \in Nat
  BY OperandTypes
<1>1. Len(setup.positionals) \in Nat
  BY RunningCall
<1>2. ~EnoughOperands(setup, Read)
  BY <1>0, <1>1 DEF EnoughOperands, Operands
<1>3. QED
  BY <1>2 DEF Accepted

\* An operand of the running call that does not fit is an error.
LEMMA OperandMustFit ==
    ASSUME ParseTypeOK, Clean(setup, format_arguments), pc \in {"positional", "take", "validate"},
           NEW j \in 1..Len(Operands), j = call \/ (Positional.list /\ call <= j),
           ~Parses(Positional.type, Operands[j].text) \/ Operands[j].text \in Positional.rejects
    PROVE  ~Accepted(setup, Read)
<1>0. call \in DOMAIN setup.positionals /\ Positional = setup.positionals[call]
  BY RunningCall
<1>1. IsAmong(Operands[j], OperandsOf(setup, Read, call))
  BY <1>0, OperandOfCall
<1>2. ~Fits(Positional, OperandsOf(setup, Read, call))
  BY <1>1 DEF IsAmong, Fits
<1>3. QED
  BY <1>0, <1>2 DEF Accepted

\* A positional option begins with as many operands taken as calls have run.
LEMMA BeginPositionalOptionKeeps ==
    ASSUME ParseTypeOK, Clean(setup, format_arguments), PositionalPass, BeginPositionalOption
    PROVE  /\ pc' = "take" => PositionalPass' /\ error' = error
           /\ pc' = "done" => ~Accepted(setup, Read) /\ error' # "none"
           /\ pc' \in {"take", "done"}
<1>. DEFINE n == Len(setup.positionals)
<1>0. /\ pc = "positional" /\ call' = call
      /\ UNCHANGED <<config, arguments, option_value, flag_value>>
  BY DEF BeginPositionalOption, lookup
<1>1. /\ n \in Nat /\ call \in Nat /\ call \in 1..n /\ Positional.list \in BOOLEAN
      /\ call \in DOMAIN setup.positionals /\ DOMAIN setup.positionals = 1..n
  BY <1>0, RunningCall
<1>2. LeftOver(call - 1)
  BY <1>0 DEF PositionalPass, RunningPositional
<1>3. Remaining = {} <=> call - 1 = Len(Operands)
  BY <1>2, FirstOperand
<1>4. CASE Remaining = {}
  <2>1. pc' = "done" /\ error' # "none"
    BY <1>4 DEF BeginPositionalOption, Throw
  <2>2. Len(Operands) < n
    BY <1>1, <1>3, <1>4
  <2>3. QED
    BY <2>1, <2>2, TooFewIsAnError
<1>5. CASE Remaining # {}
  <2>1. /\ pc' = "take" /\ error' = error
        /\ positional_value' = Forget(positional_value, Positional.list)
    BY <1>5 DEF BeginPositionalOption
  <2>2. setup' = setup /\ Read' = Read /\ Operands' = Operands /\ Positional' = Positional
    BY <1>0, SameCommandLine DEF Operands, Positional
  <2>3. OptionsAreRight' /\ FlagsAreRight'
    BY <1>0, SettledStays DEF PositionalPass
  <2>4. PositionalVariables'
    <3>1. \A k \in DOMAIN setup.positionals : k # call => positional_value'[k] = positional_value[k]
      BY <2>1 DEF Forget, ParseTypeOK
    <3>2. DOMAIN setup.positionals \subseteq Nat
      BY <1>1
    <3>3. QED
      BY <1>0, <1>1, <2>1, <3>1, <3>2, OtherPositionalsStay DEF PositionalPass
  <2>5. PICK m \in Nat : m = call - 1 /\ call <= m + 1 /\ LeftOver(m)
    BY <1>1, <1>2
  <2>6. Positional.list => /\ positional_value'[call] = SubSeq(Operands, call, call - 1)
                           /\ positional_value'[call] = <<>>
    <3>1. SubSeq(Operands, call, call - 1) = <<>>
      BY <1>1, SubSeqEmpty
    <3>2. Positional.list => positional_value'[call] = <<>>
      BY <1>1, <2>1 DEF Forget, ParseTypeOK
    <3>3. QED
      BY <3>1, <3>2
  <2>7. RunningPositional'
    <3>1. LeftOver(m)'
      BY <1>0, <2>5, LeftOverStays
    <3>2. Positional.list => (positional_value[call])' = SubSeq(Operands, call, m)
      BY <1>0, <2>5, <2>6
    <3>3. Positional.list => AllParse(positional_value[call])'
      BY <1>0, <2>2, <2>6 DEF AllParse
    <3>4. QED
      BY <1>0, <2>1, <2>2, <2>5, <3>1, <3>2, <3>3 DEF RunningPositional
  <2>8. QED
    BY <2>1, <2>3, <2>4, <2>7 DEF PositionalPass
<1>6. QED
  BY <1>4, <1>5

\* One more value that parses.
LEMMA OneMoreParses ==
    ASSUME NEW values \in Seq(Value), NEW read, AllParse(values), Parses(Positional.type, read.text)
    PROVE  AllParse(Append(values, read))
<1>1. /\ DOMAIN Append(values, read) = 1..(Len(values) + 1) /\ Len(values) \in Nat
      /\ \A j \in 1..(Len(values) + 1) :
            Append(values, read)[j] = IF j = Len(values) + 1 THEN read ELSE values[j]
  OBVIOUS
<1>2. ASSUME NEW j \in DOMAIN Append(values, read)
      PROVE  Parses(Positional.type, Append(values, read)[j].text)
  <2>1. CASE j = Len(values) + 1
    BY <1>1, <2>1
  <2>2. CASE j # Len(values) + 1
    <3>1. j \in DOMAIN values /\ Append(values, read)[j] = values[j]
      BY <1>1, <2>2
    <3>2. QED
      BY <3>1 DEF AllParse
  <2>3. QED
    BY <2>1, <2>2
<1>3. QED
  BY <1>2 DEF AllParse

\* A positional option takes the operand of the reading that is its turn.
LEMMA TakePositionalValueKeeps ==
    ASSUME ParseTypeOK, Clean(setup, format_arguments), PositionalPass, TakePositionalValue
    PROVE  /\ pc' \in {"take", "validate"} => PositionalPass' /\ error' = error
           /\ pc' = "done" => ~Accepted(setup, Read) /\ error' # "none"
           /\ pc' \in {"take", "validate", "done"}
<1>0. pc = "take" /\ call' = call /\ UNCHANGED <<config, option_value, flag_value>> /\ Remaining # {}
  BY DEF TakePositionalValue, lookup, ParseTypeOK
<1>1. /\ call \in Nat \ {0} /\ call \in DOMAIN setup.positionals /\ DOMAIN setup.positionals \subseteq Nat
      /\ Positional = setup.positionals[call] /\ Positional.list \in BOOLEAN
  <2>1. call \in Nat \ {0}
    BY DEF ParseTypeOK
  <2>2. /\ call \in DOMAIN setup.positionals /\ DOMAIN setup.positionals = 1..Len(setup.positionals)
        /\ Positional = setup.positionals[call] /\ Positional.list \in BOOLEAN
    BY <1>0, RunningCall
  <2>3. QED
    BY <2>1, <2>2
<1>2. PICK m \in Nat :
          /\ LeftOver(m) /\ call <= m + 1
          /\ ~Positional.list => m = call - 1
          /\ Positional.list =>
                positional_value[call] = SubSeq(Operands, call, m) /\ AllParse(positional_value[call])
  BY <1>0 DEF PositionalPass, RunningPositional
<1>3. PICK p : p = Min(Remaining)
  OBVIOUS
<1>4. /\ m + 1 \in 1..Len(Operands) /\ Operands[m + 1].text = arguments[p]
      /\ Operands[m + 1] = [text |-> arguments[p], at |-> p]
      /\ (Remaining = {p}) <=> (m + 1 = Len(Operands))
  BY <1>0, <1>2, <1>3, FirstOperand
<1>5. Operands \in Seq(Value) /\ Len(Operands) \in Nat /\ DOMAIN Operands = 1..Len(Operands)
  BY OperandTypes
<1>6. ~IsDropped(Positional, arguments[p])
  <2>1. ~OverflowInList(setup, Read)
    BY DEF Clean, Unambiguous, Read
  <2>2. m + 1 \in DOMAIN Operands
    BY <1>4, <1>5
  <2>3. QED
    BY <1>1, <1>4, <2>1, <2>2 DEF OverflowInList, Operands
<1>7. CASE ~Parses(Positional.type, arguments[p])
  <2>1. pc' = "done" /\ error' # "none"
    BY <1>3, <1>6, <1>7 DEF TakePositionalValue, Throw, InputError
  <2>2. m + 1 = call \/ (Positional.list /\ call <= m + 1)
    BY <1>1, <1>2
  <2>3. ~Accepted(setup, Read)
    BY <1>0, <1>4, <1>7, <2>2, OperandMustFit
  <2>4. QED
    BY <2>1, <2>3
<1>8. CASE Parses(Positional.type, arguments[p])
  <2>1. /\ arguments' = Erase({p}) /\ error' = error
        /\ positional_value' =
              [positional_value EXCEPT ![call] = Stored(@, Positional, arguments[p], p)]
        /\ pc' = IF Positional.list /\ Remaining # {p} THEN "take" ELSE "validate"
    BY <1>3, <1>8 DEF TakePositionalValue
  <2>2. setup' = setup /\ Read' = Read /\ Operands' = Operands /\ Positional' = Positional
    BY <1>0, SameCommandLine DEF Operands, Positional
  <2>3. OptionsAreRight' /\ FlagsAreRight'
    BY <1>0, SettledStays DEF PositionalPass
  <2>4. PositionalVariables'
    <3>1. \A k \in DOMAIN setup.positionals : k # call => positional_value'[k] = positional_value[k]
      BY <2>1 DEF ParseTypeOK
    <3>2. QED
      BY <1>0, <1>1, <2>1, <3>1, OtherPositionalsStay DEF PositionalPass
  <2>5. LeftOver(m + 1)'
    BY <1>0, <1>2, <1>3, <2>1, OperandIsTaken
  <2>6. PICK values : values = positional_value[call]
    OBVIOUS
  <2>7. values \in Seq(Value)
    BY <1>1, <2>6 DEF ParseTypeOK
  <2>8. (positional_value[call])' = IF Positional.list THEN Append(values, Operands[m + 1])
                                                      ELSE <<Operands[m + 1]>>
    <3>1. positional_value'[call] = Stored(values, Positional, arguments[p], p)
      BY <1>1, <2>1, <2>6 DEF ParseTypeOK
    <3>2. QED
      BY <1>0, <1>4, <3>1 DEF Stored
  <2>9. PICK next : next = m + 1
    OBVIOUS
  <2>10. CASE ~Positional.list
    <3>1. next = call
      BY <1>1, <1>2, <2>9, <2>10
    <3>2. pc' = "validate" /\ (positional_value[call])' = <<Operands[call]>> /\ call <= Len(Operands)
      BY <1>4, <2>1, <2>8, <2>9, <2>10, <3>1
    <3>3. OperandsOf(setup, Read, call) = <<Operands[call]>>
      BY <1>1, <2>10 DEF OperandsOf, Operands
    <3>4. Parses(Positional.type, Operands[call].text)
      BY <1>4, <1>8, <2>9, <3>1
    <3>5. AllParse(positional_value[call])'
      <4>1. DOMAIN <<Operands[call]>> = {1} /\ <<Operands[call]>>[1] = Operands[call]
        OBVIOUS
      <4>2. QED
        BY <1>0, <2>2, <3>2, <3>4, <4>1 DEF AllParse
    <3>6. LeftOver(next)'
      BY <2>5, <2>9
    <3>7. RunningPositional'
      BY <1>0, <2>2, <2>10, <3>1, <3>2, <3>3, <3>5, <3>6 DEF RunningPositional
    <3>8. QED
      BY <2>1, <2>3, <2>4, <3>2, <3>7 DEF PositionalPass
  <2>11. CASE Positional.list
    <3>1. /\ (positional_value[call])' = Append(values, Operands[next])
          /\ values = SubSeq(Operands, call, m) /\ AllParse(values)
      BY <1>2, <2>6, <2>8, <2>9, <2>11
    <3>2. m + 1 <= Len(Operands)
      <4>1. PICK n : n = Len(Operands)
        OBVIOUS
      <4>2. n \in Nat /\ m + 1 \in 1..n
        BY <1>4, <1>5, <4>1
      <4>3. QED
        BY <4>1, <4>2
    <3>3. Append(values, Operands[next]) = SubSeq(Operands, call, next)
      BY <1>1, <1>2, <1>5, <2>9, <3>1, <3>2, OneMoreValue
    <3>4. AllParse(positional_value[call])'
      <4>1. Parses(Positional.type, Operands[next].text)
        BY <1>4, <1>8, <2>9
      <4>2. AllParse(Append(values, Operands[next]))
        BY <2>7, <3>1, <4>1, OneMoreParses
      <4>3. QED
        BY <1>0, <2>2, <3>1, <4>2 DEF AllParse
    <3>5. LeftOver(next)' /\ next \in Nat /\ call <= next /\ call <= next + 1 /\ next <= Len(Operands)
      BY <1>1, <1>2, <2>5, <2>9, <3>2
    <3>6. CASE Remaining # {p}
      <4>1. pc' = "take"
        BY <2>1, <2>11, <3>6
      <4>2. RunningPositional'
        BY <1>0, <2>2, <2>11, <3>1, <3>3, <3>4, <3>5, <4>1 DEF RunningPositional
      <4>3. QED
        BY <2>1, <2>3, <2>4, <4>1, <4>2 DEF PositionalPass
    <3>7. CASE Remaining = {p}
      <4>1. pc' = "validate" /\ next = Len(Operands)
        BY <1>4, <2>1, <2>9, <2>11, <3>7
      <4>2. OperandsOf(setup, Read, call) = SubSeq(Operands, call, next)
        BY <1>1, <2>11, <4>1 DEF OperandsOf, Operands
      <4>3. RunningPositional'
        BY <1>0, <2>2, <2>11, <3>1, <3>3, <3>4, <3>5, <4>1, <4>2 DEF RunningPositional
      <4>4. QED
        BY <2>1, <2>3, <2>4, <4>1, <4>3 DEF PositionalPass
    <3>8. QED
      BY <3>6, <3>7
  <2>12. QED
    BY <1>1, <2>10, <2>11
<1>9. QED
  BY <1>7, <1>8

LEMMA SamePositionalIsRight ==
    ASSUME UNCHANGED <<config, positional_value>>, NEW k, PositionalIsRight(k)
    PROVE  PositionalIsRight(k)'
<1>1. setup' = setup /\ Read' = Read /\ Operands' = Operands
  BY SameCommandLine DEF Operands
<1>2. QED
  BY <1>1 DEF PositionalIsRight, OperandsOf, Fits

\* Where no value is refused, the operands of the running call fit.
LEMMA WhatIsStoredFits ==
    ASSUME NEW values \in Seq(Value), NEW c, \A j \in DOMAIN values : Parses(c.type, values[j].text)
    PROVE  ~Rejected(c.rejects, values) <=> Fits(c, values)
<1>1. DOMAIN values = 1..Len(values)
  OBVIOUS
<1>2. QED
  BY <1>1 DEF Rejected, Fits

\* A positional option has its operands, or the reading refuses one of them.
LEMMA FinishPositionalOptionKeeps ==
    ASSUME ParseTypeOK, Clean(setup, format_arguments), PositionalPass, FinishPositionalOption
    PROVE  /\ pc' \in {"positional", "left_over"} => PositionalPass' /\ error' = error
           /\ pc' = "done" => ~Accepted(setup, Read) /\ error' # "none"
           /\ pc' \in {"positional", "left_over", "done"}
<1>0. pc = "validate" /\ UNCHANGED <<config, arguments, option_value, flag_value, positional_value>>
  BY DEF FinishPositionalOption, outputs
<1>1. PICK n : n = Len(setup.positionals)
  OBVIOUS
<1>2. /\ n \in Nat /\ DOMAIN setup.positionals = 1..n /\ call \in Nat /\ call \in 1..n
      /\ Positional = setup.positionals[call] /\ Positional.list \in BOOLEAN
      /\ Positional.list <=> setup.positionals[n].list /\ call = n
  BY <1>0, <1>1, RunningCall
<1>3. PICK values : values = positional_value[call]
  OBVIOUS
<1>4. /\ LeftOver(IF Positional.list THEN Len(Operands) ELSE call) /\ call <= Len(Operands)
      /\ values = OperandsOf(setup, Read, call) /\ AllParse(values)
  BY <1>0, <1>3 DEF PositionalPass, RunningPositional
<1>5. values \in Seq(Value)
  BY <1>2, <1>3 DEF ParseTypeOK
<1>6. ~Rejected(Positional.rejects, values) <=> Fits(setup.positionals[call], values)
  BY <1>2, <1>4, <1>5, WhatIsStoredFits DEF AllParse
<1>7. CASE Rejected(Positional.rejects, values)
  <2>1. pc' = "done" /\ error' # "none"
    BY <1>3, <1>7 DEF FinishPositionalOption, Throw
  <2>2. ~Accepted(setup, Read)
    BY <1>2, <1>4, <1>6, <1>7 DEF Accepted
  <2>3. QED
    BY <2>1, <2>2
<1>8. CASE ~Rejected(Positional.rejects, values)
  <2>1. NextCall(setup.positionals, "positional", "left_over") /\ error' = error
    BY <1>3, <1>8 DEF FinishPositionalOption
  <2>2. setup' = setup /\ Read' = Read /\ Operands' = Operands
    BY <1>0, SameCommandLine DEF Operands
  <2>3. OptionsAreRight' /\ FlagsAreRight'
    BY <1>0, SettledStays DEF PositionalPass
  <2>4. \A k \in DOMAIN setup.positionals : k <= call => PositionalIsRight(k)
    <3>1. PositionalIsRight(call)
      BY <1>3, <1>4, <1>6, <1>8 DEF PositionalIsRight
    <3>2. \A k \in 1..n : k < call => PositionalIsRight(k)
      BY <1>2 DEF PositionalPass, PositionalVariables
    <3>3. QED
      BY <1>2, <3>1, <3>2
  <2>5. \A k \in DOMAIN setup.positionals : k <= call => PositionalIsRight(k)'
    BY <1>0, <2>4, SamePositionalIsRight
  <2>6. PICK m : m = IF Positional.list THEN Len(Operands) ELSE call
    OBVIOUS
  <2>7. LeftOver(m) /\ LeftOver(m)'
    BY <1>0, <1>4, <2>6, LeftOverStays
  <2>8. CASE call < n
    <3>1. pc' = "positional" /\ call' = call + 1
      BY <1>1, <2>1, <2>8 DEF NextCall
    <3>2. m = call' - 1
      BY <1>2, <2>6, <2>8, <3>1
    <3>3. RunningPositional'
      BY <2>7, <3>1, <3>2 DEF RunningPositional
    <3>4. \A k \in DOMAIN setup.positionals : k < call' => k <= call
      BY <1>2, <3>1
    <3>5. PositionalVariables'
      BY <2>2, <2>5, <3>1, <3>4 DEF PositionalVariables
    <3>6. QED
      BY <2>1, <2>3, <3>1, <3>3, <3>5 DEF PositionalPass
  <2>9. CASE ~(call < n)
    <3>1. pc' = "left_over"
      BY <1>1, <2>1, <2>9 DEF NextCall
    <3>2. call = n /\ n > 0
      BY <1>2, <2>9
    <3>3. m = IF n > 0 /\ setup.positionals[n].list THEN Len(Operands) ELSE n
      BY <1>2, <2>6, <3>2
    <3>4. RunningPositional'
      BY <1>1, <2>2, <2>7, <3>1, <3>3 DEF RunningPositional
    <3>5. \A k \in DOMAIN setup.positionals : k <= call
      BY <1>2, <3>2
    <3>6. PositionalVariables'
      BY <2>2, <2>5, <3>1, <3>5 DEF PositionalVariables
    <3>7. QED
      BY <2>1, <2>3, <3>1, <3>4, <3>6 DEF PositionalPass
  <2>10. QED
    BY <2>8, <2>9
<1>9. QED
  BY <1>7, <1>8

(***************************************************************************)
(* Where every pass has gone through, the reading has no error left but an *)
(* operand too many, and the variables hold what was read.                 *)
(***************************************************************************)
LEMMA CheckForLeftOverArgsAgrees ==
    ASSUME ParseTypeOK, Clean(setup, format_arguments), PositionalPass, CheckForLeftOverArgs
    PROVE  /\ pc' = "done" /\ (error' = error \/ error' # "none")
           /\ error' # "none" /\ error = "none" => ~Accepted(setup, Read)
           /\ error' = "none" => Accepted(setup, Read) /\ Outcome(setup, Read)'
<1>0. /\ pc = "left_over" /\ pc' = "done"
      /\ UNCHANGED <<config, option_value, flag_value, positional_value>>
  BY DEF CheckForLeftOverArgs, Throw, outputs
<1>1. PICK n : n = Len(setup.positionals)
  OBVIOUS
<1>2. PICK m : m = IF n > 0 /\ setup.positionals[n].list THEN Len(Operands) ELSE n
  OBVIOUS
<1>3. LeftOver(m)
  BY <1>0, <1>1, <1>2 DEF PositionalPass, RunningPositional
<1>4. PICK total : total = Len(Operands)
  OBVIOUS
<1>5. n \in Nat /\ DOMAIN setup.positionals = 1..n /\ total \in Nat
  BY <1>1, <1>4, RunningCall, OperandTypes
<1>6. m \in Nat /\ m <= total /\ (Remaining = {} <=> m = total)
  BY <1>3, <1>4, FirstOperand
<1>7. CASE Remaining # {}
  <2>1. error' # "none"
    BY <1>7 DEF CheckForLeftOverArgs, Throw
  <2>2. ~(n > 0 /\ setup.positionals[n].list) /\ total # n
    BY <1>2, <1>4, <1>6, <1>7
  <2>3. ~EnoughOperands(setup, Read)
    BY <1>1, <1>4, <2>2 DEF EnoughOperands, Operands
  <2>4. QED
    BY <1>0, <2>1, <2>3 DEF Accepted
<1>8. CASE Remaining = {}
  <2>1. error' = error
    BY <1>8 DEF CheckForLeftOverArgs
  <2>2. \A k \in DOMAIN setup.positionals : PositionalIsRight(k)
    BY <1>0 DEF PositionalPass, PositionalVariables
  <2>3. EnoughOperands(setup, Read)
    <3>1. n > 0 => n <= total
      BY <1>4, <1>5, <2>2 DEF PositionalIsRight
    <3>2. total = IF n > 0 /\ setup.positionals[n].list THEN total ELSE n
      BY <1>2, <1>4, <1>6, <1>8
    <3>3. QED
      BY <1>1, <1>4, <1>5, <3>1, <3>2 DEF EnoughOperands, Operands
  <2>4. \A o \in DOMAIN setup.options : OptionIsRight(o)
    BY DEF PositionalPass, OptionsAreRight
  <2>5. Accepted(setup, Read)
    BY <2>2, <2>3, <2>4
       DEF Accepted, OptionIsRight, PositionalIsRight, PositionalPass, FlagsAreRight
  <2>6. Outcome(setup, Read)
    <3>1. DOMAIN flag_value = FlagVariables /\ flag_value \in [FlagVariables -> BOOLEAN]
      BY DEF ParseTypeOK
    <3>2. \A v \in DOMAIN flag_value : flag_value[v] =
              (\E f \in DOMAIN setup.flags : setup.flags[f].value = v /\ Read.flags[f] # {})
      BY <3>1 DEF PositionalPass, FlagsAreRight
    <3>3. \A o \in DOMAIN setup.options : option_value[o] = OrDefault(Read.options[o])
      BY <2>4 DEF OptionIsRight
    <3>4. \A k \in DOMAIN setup.positionals : positional_value[k] = OperandsOf(setup, Read, k)
      BY <2>2 DEF PositionalIsRight
    <3>5. QED
      BY <3>2, <3>3, <3>4 DEF Outcome
  <2>7. Outcome(setup, Read)'
    BY <1>0, <2>6, SameCommandLine DEF Outcome, OperandsOf, OrDefault
  <2>8. QED
    BY <1>0, <2>1, <2>5, <2>7
<1>9. QED
  BY <1>7, <1>8

----------------------------------------------------------------------------
(***************************************************************************)
(* parse() agrees with the reading at every statement, where no argument   *)
(* can be taken for two things.                                            *)
(***************************************************************************)
Undisturbed ==
    /\ pc = "begin" => ParseBegins
    /\ pc # "done" => error = "none"
    /\ InOptions => \A v \in FlagVariables : ~flag_value[v]

PassesAgree ==
    /\ InOptions => OptionPass
    /\ pc \in {"flag", "check_unknown"} => FlagPass
    /\ InPositionals => PositionalPass
    /\ pc = "done" => /\ error = "none" <=> Accepted(setup, Read)
                      /\ error = "none" => Outcome(setup, Read)

ParseAgrees == Undisturbed /\ (Clean(setup, format_arguments) => PassesAgree)

\* What holds whatever the command line is.
LEMMA NextUndisturbed == Undisturbed /\ [ParseStep]_parse_vars => Undisturbed'
<1>. SUFFICES ASSUME Undisturbed, [ParseStep]_parse_vars PROVE Undisturbed'
  OBVIOUS
<1>. DEFINE Kept == /\ pc' # "begin" /\ (pc' # "done" => error' = "none")
                    /\ InOptions' => \A v \in FlagVariables' : ~flag_value'[v]
<1>1. Kept => Undisturbed'
  BY DEF Undisturbed
<1>2. CASE FindEndOfOptions
  <2>1. error = "none" /\ flag_value = [v \in FlagVariables |-> FALSE]
    BY <1>2 DEF FindEndOfOptions, Undisturbed, ParseBegins
  <2>2. /\ pc' # "begin" /\ error' = error /\ flag_value' = flag_value
        /\ FlagVariables' = FlagVariables
    BY <1>2 DEF FindEndOfOptions, AfterOptions, outputs, config, FlagVariables
  <2>3. QED
    BY <1>1, <2>1, <2>2
<1>3. CASE LookUpOption \/ RetrieveGluedValue \/ RetrieveSeparateValue \/ MissingOptionValue
           \/ LookUpOptionAgain \/ FinishOption
  <2>1. InOptions /\ pc # "done"
    BY <1>3 DEF InOptions, LookUpOption, RetrieveGluedValue, RetrieveSeparateValue,
                MissingOptionValue, LookUpOptionAgain, FinishOption
  <2>2. UNCHANGED config /\ flag_value' = flag_value
    BY <1>3 DEF LookUpOption, RetrieveGluedValue, RetrieveSeparateValue,
                MissingOptionValue, LookUpOptionAgain, FinishOption, outputs
  <2>3. pc' # "begin" /\ (pc' # "done" => error' = error)
    BY <1>3 DEF LookUpOption, RetrieveGluedValue, RetrieveSeparateValue, StoreOptionValue, Throw,
                MissingOptionValue, LookUpOptionAgain, FinishOption, LeaveGetOptionById, NextCall,
                AfterOptions
  <2>4. FlagVariables' = FlagVariables
    BY <2>2 DEF config, FlagVariables
  <2>5. QED
    BY <1>1, <2>1, <2>2, <2>3, <2>4 DEF Undisturbed
<1>4. CASE GetFlag \/ CheckForUnknownIds \/ BeginPositionalOption \/ TakePositionalValue
           \/ FinishPositionalOption \/ CheckForLeftOverArgs
  <2>1. pc # "done"
    BY <1>4 DEF GetFlag, CheckForUnknownIds, BeginPositionalOption, TakePositionalValue,
                FinishPositionalOption, CheckForLeftOverArgs
  <2>2. /\ pc' \notin {"begin", "look_up", "retrieve", "look_up_again", "option_result"}
        /\ pc' \in {"flag", "check_unknown", "positional", "take", "validate", "left_over"}
              => error' = error
    BY <1>4 DEF GetFlag, CheckForUnknownIds, BeginPositionalOption, TakePositionalValue,
                FinishPositionalOption, CheckForLeftOverArgs, NextCall, Throw
  <2>3. pc' # "done" => error' = error
    BY <1>4 DEF GetFlag, CheckForUnknownIds, BeginPositionalOption, TakePositionalValue,
                FinishPositionalOption, CheckForLeftOverArgs, NextCall, Throw
  <2>4. QED
    BY <1>1, <2>1, <2>2, <2>3 DEF Undisturbed, InOptions
<1>5. CASE UNCHANGED parse_vars
  <2>1. UNCHANGED <<setup, format_arguments, arguments, end_of_options_it, pc, call, id, it, seen,
                    option_value, flag_value, positional_value, positional_option_count, error>>
    BY <1>5 DEF parse_vars, config, lookup, outputs
  <2>2. FlagVariables' = FlagVariables /\ InOptions' = InOptions
    BY <2>1 DEF FlagVariables, InOptions
  <2>3. ParseBegins => ParseBegins'
    BY <2>1, <2>2 DEF ParseBegins
  <2>4. QED
    BY <2>1, <2>2, <2>3 DEF Undisturbed
<1>6. QED
  BY <1>2, <1>3, <1>4, <1>5 DEF ParseStep

\* A step that changes nothing.
LEMMA StutterAgrees ==
    ASSUME UNCHANGED parse_vars, PassesAgree
    PROVE  PassesAgree'
<1>1. UNCHANGED <<setup, format_arguments, arguments, end_of_options_it, pc, call, id, it, seen,
                  option_value, flag_value, positional_value, positional_option_count, error>>
  BY DEF parse_vars, config, lookup, outputs
<1>2. /\ Read' = Read /\ (\A p : ReadUpTo(p)' = ReadUpTo(p)) /\ Operands' = Operands
      /\ (\A o, ident : Places(o, ident)' = Places(o, ident))
      /\ Option' = Option /\ Positional' = Positional /\ InOptions' = InOptions
      /\ InPositionals' = InPositionals /\ Remaining' = Remaining /\ FlagVariables' = FlagVariables
  BY <1>1 DEF Read, ReadUpTo, Operands, Places, Option, Positional, InOptions, InPositionals,
              Remaining, FlagVariables
<1>3. OptionPass => OptionPass'
  <2>1. /\ \A o, ident : IdIsDone(o, ident)' <=> IdIsDone(o, ident)
        /\ \A o, ident : IdIsRunning(o, ident)' <=> IdIsRunning(o, ident)
        /\ \A ident : OnlyBy(ident)' <=> OnlyBy(ident)
        /\ \A o : StoredFits(o)' <=> StoredFits(o)
        /\ \A o : OptionIsRight(o)' <=> OptionIsRight(o)
    BY <1>1, <1>2 DEF IdIsDone, IdIsRunning, OnlyBy, StoredFits, OptionIsRight
  <2>2. \A o, ident, p : IsRead(o, ident, p)' <=> IsRead(o, ident, p)
    BY <1>1, <2>1 DEF IsRead
  <2>3. OptionArguments => OptionArguments'
    <3>1. pc' = "option_result" => pc = "option_result" /\ id' = id
      BY <1>1
    <3>2. OptionArguments => (pc' = "option_result" => id' = "short")
      BY <3>1 DEF OptionArguments
    <3>3. UNCHANGED <<config, arguments>>
      BY <1>1 DEF config
    <3>4. QED
      BY <2>2, <3>2, <3>3, SameOptionArguments
  <2>4. RunningOption => RunningOption'
    BY <1>1, <1>2, <2>1 DEF RunningOption
  <2>5. OptionVariables => OptionVariables'
    BY <1>1, <2>1 DEF OptionVariables
  <2>6. QED
    BY <2>3, <2>4, <2>5 DEF OptionPass
<1>4. FlagPass => FlagPass'
  <2>1. /\ \A f : FlagIsDone(f)' <=> FlagIsDone(f)
        /\ \A f : IsTyped(f)' <=> IsTyped(f)
    BY <1>1 DEF FlagIsDone, IsTyped
  <2>2. /\ \A c, p : LetterIsTaken(c, p)' <=> LetterIsTaken(c, p)
        /\ \A p : LongIsTaken(p)' <=> LongIsTaken(p)
    BY <1>1, <2>1 DEF LetterIsTaken, LongIsTaken
  <2>3. /\ \A p : GroupLeft(p)' <=> GroupLeft(p)
        /\ \A p : LongLeft(p)' <=> LongLeft(p)
    BY <1>1, <2>2 DEF GroupLeft, LongLeft
  <2>4. FlagArguments => FlagArguments'
    BY <1>1, <2>3 DEF FlagArguments
  <2>5. FlagVariablesAre => FlagVariablesAre'
    BY <1>1, <1>2, <2>1 DEF FlagVariablesAre
  <2>6. AllHaveValues => AllHaveValues'
    BY <1>1 DEF AllHaveValues
  <2>7. OptionsAreRight => OptionsAreRight'
    BY <1>1, <1>2 DEF OptionsAreRight, OptionIsRight
  <2>8. QED
    BY <2>4, <2>5, <2>6, <2>7 DEF FlagPass
<1>5. PositionalPass => PositionalPass'
  <2>1. \A m : LeftOver(m)' <=> LeftOver(m)
    BY <1>1, <1>2 DEF LeftOver
  <2>2. \A k : PositionalIsRight(k)' <=> PositionalIsRight(k)
    BY <1>1, <1>2 DEF PositionalIsRight
  <2>3. \A values : AllParse(values)' <=> AllParse(values)
    BY <1>2 DEF AllParse
  <2>4. RunningPositional => RunningPositional'
    BY <1>1, <1>2, <2>1, <2>3 DEF RunningPositional, AllParse
  <2>5. PositionalVariables => PositionalVariables'
    BY <1>1, <2>2 DEF PositionalVariables
  <2>6. OptionsAreRight /\ FlagsAreRight => OptionsAreRight' /\ FlagsAreRight'
    BY <1>1, <1>2 DEF OptionsAreRight, FlagsAreRight, OptionIsRight
  <2>7. QED
    BY <2>4, <2>5, <2>6 DEF PositionalPass
<1>6. Outcome(setup, Read) => Outcome(setup, Read)'
  BY <1>1, <1>2 DEF Outcome
<1>7. QED
  BY <1>1, <1>2, <1>3, <1>4, <1>5, <1>6 DEF PassesAgree

\* Every pass hands on to the next one what the next one needs.
LEMMA PassesKeepAgreeing ==
    ASSUME ParseTypeOK, ArgumentsInv, OptionsRead, Undisturbed, PassesAgree,
           Clean(setup, format_arguments), ParseStep
    PROVE  PassesAgree'
<1>0. setup' = setup /\ Read' = Read
  <2>1. UNCHANGED config
    BY DEF ParseStep, FindEndOfOptions, LookUpOption, RetrieveGluedValue, RetrieveSeparateValue,
           MissingOptionValue, LookUpOptionAgain, FinishOption, GetFlag, CheckForUnknownIds,
           BeginPositionalOption, TakePositionalValue, FinishPositionalOption, CheckForLeftOverArgs
  <2>2. QED
    BY <2>1, SameCommandLine
\* It is enough to know the statement that comes next.
<1>1. ASSUME pc' \in {"look_up", "retrieve", "look_up_again", "option_result"}, OptionPass'
      PROVE  PassesAgree'
  BY <1>1 DEF PassesAgree, InPositionals
<1>2. ASSUME pc' \in {"flag", "check_unknown"}, FlagPass'
      PROVE  PassesAgree'
  BY <1>2 DEF PassesAgree, InOptions, InPositionals
<1>3. ASSUME pc' \in {"positional", "take", "validate", "left_over"}, PositionalPass'
      PROVE  PassesAgree'
  BY <1>3 DEF PassesAgree, InOptions
<1>4. ASSUME pc' = "done", error' # "none", ~Accepted(setup, Read)
      PROVE  PassesAgree'
  BY <1>0, <1>4 DEF PassesAgree, InOptions, InPositionals
<1>5. ASSUME InOptions PROVE OptionPass /\ \A v \in FlagVariables : ~flag_value[v]
  BY <1>5 DEF PassesAgree, Undisturbed
<1>6. CASE FindEndOfOptions
  <2>1. ParseBegins
    BY <1>6 DEF FindEndOfOptions, Undisturbed
  <2>2. CASE pc' = "look_up"
    BY <1>1, <1>6, <2>1, <2>2, FindEndOfOptionsKeeps
  <2>3. CASE pc' \in {"flag", "check_unknown"}
    <3>1. \A v \in FlagVariables : ~flag_value[v]
      BY <2>1 DEF ParseBegins
    <3>2. /\ OptionsAreRight' /\ PlacesAreRead /\ UNCHANGED <<config, arguments, flag_value>>
          /\ pc' = AfterOptions /\ call' = 1
      BY <1>6, <2>1, <2>3, FindEndOfOptionsKeeps
    <3>3. FlagPass'
      BY <3>1, <3>2, FlagPassBegins
    <3>4. QED
      BY <1>2, <2>3, <3>3
  <2>4. QED
    BY <1>6, <2>1, <2>2, <2>3, FindEndOfOptionsKeeps
<1>7. CASE LookUpOption
  <2>1. InOptions /\ pc' \in {"retrieve", "look_up", "option_result"}
    BY <1>7 DEF LookUpOption, LeaveGetOptionById, InOptions
  <2>2. QED
    BY <1>1, <1>5, <1>7, <2>1, LookUpOptionKeeps
<1>8. CASE RetrieveGluedValue \/ RetrieveSeparateValue
  <2>1. InOptions
    BY <1>8 DEF RetrieveGluedValue, RetrieveSeparateValue, InOptions
  <2>2. pc' = "look_up_again" \/ (pc' = "done" /\ error' # "none")
    BY <1>8 DEF RetrieveGluedValue, RetrieveSeparateValue, StoreOptionValue, Throw, InputError
  <2>3. QED
    BY <1>1, <1>4, <1>5, <1>8, <2>1, <2>2, RetrieveKeeps
<1>9. CASE MissingOptionValue
  <2>1. InOptions /\ pc' = "done" /\ error' # "none"
    BY <1>9 DEF MissingOptionValue, Throw, InOptions
  <2>2. QED
    BY <1>4, <1>5, <1>9, <2>1, MissingIsAnError
<1>10. CASE LookUpOptionAgain
  <2>1. InOptions
    BY <1>10 DEF LookUpOptionAgain, InOptions
  <2>2. \/ pc' \in {"retrieve", "look_up", "option_result"}
        \/ pc' = "done" /\ error' # "none"
    BY <1>10 DEF LookUpOptionAgain, LeaveGetOptionById, Throw
  <2>3. QED
    BY <1>1, <1>4, <1>5, <1>10, <2>1, <2>2, LookUpAgainKeeps
<1>11. CASE FinishOption
  <2>1. InOptions
    BY <1>11 DEF FinishOption, InOptions
  <2>2. OptionPass /\ \A v \in FlagVariables : ~flag_value[v]
    BY <1>5, <2>1
  <2>3. CASE pc' = "look_up"
    BY <1>1, <1>11, <2>2, <2>3, FinishOptionKeeps
  <2>4. CASE pc' \in {"flag", "check_unknown"}
    <3>1. /\ OptionsAreRight' /\ PlacesAreRead /\ UNCHANGED <<config, arguments, flag_value>>
          /\ pc' = AfterOptions /\ call' = 1
      BY <1>11, <2>2, <2>4, FinishOptionKeeps
    <3>2. FlagPass'
      BY <2>2, <3>1, FlagPassBegins
    <3>3. QED
      BY <1>2, <2>4, <3>2
  <2>5. CASE pc' = "done"
    BY <1>4, <1>11, <2>2, <2>5, FinishOptionKeeps
  <2>6. QED
    BY <1>11, <2>2, <2>3, <2>4, <2>5, FinishOptionKeeps
<1>12. CASE GetFlag
  <2>1. FlagPass
    BY <1>12 DEF GetFlag, PassesAgree
  <2>2. QED
    BY <1>2, <1>12, <2>1, GetFlagKeeps
<1>13. CASE CheckForUnknownIds
  <2>1. FlagPass
    BY <1>13 DEF CheckForUnknownIds, PassesAgree
  <2>2. QED
    BY <1>3, <1>4, <1>13, <2>1, CheckForUnknownIdsKeeps
<1>14. ASSUME InPositionals PROVE PositionalPass
  BY <1>14 DEF PassesAgree
<1>15. CASE BeginPositionalOption
  <2>1. PositionalPass
    BY <1>14, <1>15 DEF BeginPositionalOption, InPositionals
  <2>2. QED
    BY <1>3, <1>4, <1>15, <2>1, BeginPositionalOptionKeeps
<1>16. CASE TakePositionalValue
  <2>1. PositionalPass
    BY <1>14, <1>16 DEF TakePositionalValue, InPositionals
  <2>2. QED
    BY <1>3, <1>4, <1>16, <2>1, TakePositionalValueKeeps
<1>17. CASE FinishPositionalOption
  <2>1. PositionalPass
    BY <1>14, <1>17 DEF FinishPositionalOption, InPositionals
  <2>2. QED
    BY <1>3, <1>4, <1>17, <2>1, FinishPositionalOptionKeeps
<1>18. CASE CheckForLeftOverArgs
  <2>1. PositionalPass /\ error = "none"
    BY <1>14, <1>18 DEF CheckForLeftOverArgs, InPositionals, Undisturbed
  <2>2. /\ pc' = "done"
        /\ error' = "none" <=> Accepted(setup, Read)
        /\ error' = "none" => Outcome(setup, Read)'
    BY <1>18, <2>1, CheckForLeftOverArgsAgrees
  <2>3. QED
    BY <1>0, <2>2 DEF PassesAgree, InOptions, InPositionals
<1>19. QED
  BY <1>6, <1>7, <1>8, <1>9, <1>10, <1>11, <1>12, <1>13, <1>15, <1>16, <1>17, <1>18 DEF ParseStep

\* The whole of it, for the systems parse() is a part of.
LEMMA InitParseAgrees == ParseBegins => ParseAgrees
BY DEF ParseBegins, ParseAgrees, Undisturbed, PassesAgree, InOptions, InPositionals

LEMMA NextParseAgrees ==
    /\ ParseTypeOK /\ ArgumentsInv /\ OptionsRead /\ ParseAgrees /\ [ParseStep]_parse_vars
    => ParseAgrees'
<1>. SUFFICES ASSUME ParseTypeOK, ArgumentsInv, OptionsRead, ParseAgrees, [ParseStep]_parse_vars
              PROVE  ParseAgrees'
  OBVIOUS
<1>1. Undisturbed'
  BY NextUndisturbed DEF ParseAgrees
<1>2. UNCHANGED config
  BY DEF ParseStep, FindEndOfOptions, LookUpOption, RetrieveGluedValue, RetrieveSeparateValue,
         MissingOptionValue, LookUpOptionAgain, FinishOption, GetFlag, CheckForUnknownIds,
         BeginPositionalOption, TakePositionalValue, FinishPositionalOption, CheckForLeftOverArgs,
         parse_vars
<1>3. Clean(setup, format_arguments)' => Clean(setup, format_arguments)
  BY <1>2 DEF config
<1>4. ASSUME Clean(setup, format_arguments) PROVE PassesAgree'
  <2>1. PassesAgree /\ Undisturbed
    BY <1>4 DEF ParseAgrees
  <2>2. CASE ParseStep
    BY <1>4, <2>1, <2>2, PassesKeepAgreeing
  <2>3. CASE UNCHANGED parse_vars
    BY <2>1, <2>3, StutterAgrees
  <2>4. QED
    BY <2>2, <2>3
<1>5. QED
  BY <1>1, <1>3, <1>4 DEF ParseAgrees

\* What the parser has made sure of is all the property leaves to the setup.
LEMMA AgreementIsTheProperty == WellFormed(setup) /\ ParseAgrees => AgreesWithReading
BY DEF ParseAgrees, PassesAgree, Clean, AgreesWithReading, Read
=============================================================================
