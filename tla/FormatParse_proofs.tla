------------------------- MODULE FormatParse_proofs -------------------------
(***************************************************************************)
(* The steps of FormatParse for every setup and every command line: where  *)
(* parse() begins its invariants hold, and every step keeps them.  The     *)
(* system of FormatParseAlone and the parser rest on the same lemmas.      *)
(***************************************************************************)
EXTENDS FormatParse, SequenceTheorems, WellFoundedInduction, TLAPS

----------------------------------------------------------------------------
(***************************************************************************)
(* What the searches and the erasing of CommandLine return, for all        *)
(* arguments and identifiers.                                              *)
(***************************************************************************)
\* Min of a set of naturals is its least element.
LEMMA MinIsFirst ==
    ASSUME NEW S, S \subseteq Nat, S # {}
    PROVE  Min(S) \in S /\ \A x \in S : Min(S) <= x
<1>1. PICK m \in S : \A x \in S : ~(<<x, m>> \in OpToRel(<, Nat))
  BY NatLessThanWellFounded, WFMin
<1>2. ASSUME NEW x \in S PROVE ~(x < m)
  <2>1. x \in Nat /\ m \in Nat
    OBVIOUS
  <2>2. QED
    BY <1>1, <2>1, Zenon DEF OpToRel
<1>3. \A x \in S : m <= x
  BY <1>2
<1>4. QED
  BY <1>3 DEF Min

\* A search returns a position it was given or the end of its range.
LEMMA FirstOrProperties ==
    ASSUME NEW end \in Nat, NEW S, S \subseteq Nat
    PROVE  /\ FirstOr(S, end) \in S \cup {end}
           /\ FirstOr(S, end) # end => FirstOr(S, end) \in S
           /\ end \notin S /\ FirstOr(S, end) = end => S = {}
BY MinIsFirst DEF FirstOr

\* A lookup stays inside the range it searches.
LEMMA FindOptionIdProperties ==
    ASSUME NEW args, NEW begin \in Nat, NEW end \in Nat, NEW ident
    PROVE  /\ find_option_id(args, begin, end, ident) \in (begin..(end - 1)) \cup {end}
BY FirstOrProperties DEF find_option_id

\* "--" is at a position of the arguments or one past the last of them.
LEMMA EndOfOptionsProperties ==
    ASSUME NEW args \in Seq(Argument)
    PROVE  EndOfOptionsIn(args) \in 1..(Len(args) + 1)
BY FirstOrProperties, LenProperties DEF EndOfOptionsIn

\* Erasing a flag's letter leaves an argument.
LEMMA WithoutFlagType ==
    ASSUME NEW arg \in Argument, NEW c
    PROVE  WithoutFlag(arg, c) \in Argument
<1>. DEFINE k == SelectInSeq(arg, LAMBDA v : v = c)
            I == {i \in 1..Len(arg) : arg[i] = c}
<1>1. ASSUME HasLetter(arg, c) PROVE RemoveAt(arg, k) \in Seq(Symbol)
  <2>1. I # {} /\ I \subseteq Nat
    BY <1>1, LenProperties DEF HasLetter, Argument
  <2>2. k = Min(I)
    BY <2>1 DEF SelectInSeq
  <2>3. k \in 1..Len(arg)
    BY <2>1, <2>2, MinIsFirst
  <2>. HIDE DEF k
  <2>4. SubSeq(arg, 1, k - 1) \in Seq(Symbol) /\ SubSeq(arg, k + 1, Len(arg)) \in Seq(Symbol)
    BY <2>3 DEF Argument
  <2>5. QED
    BY <2>4 DEF RemoveAt
<1>2. RemoveFirst(arg, c) \in Seq(Symbol)
  BY <1>1 DEF RemoveFirst, HasLetter, Argument
<1>3. QED
  <2>. HIDE DEF k, I
  <2>1. Erased \in Argument
    BY EmptySeq DEF Erased, Argument
  <2>2. QED
    BY <1>2, <2>1 DEF WithoutFlag, Argument

\* A lookup that does not return the end has found the identifier, and one that
\* does return it has not passed over any.
LEMMA FindOptionIdFinds ==
    ASSUME NEW args, NEW begin \in Nat, NEW end \in Nat, NEW ident,
           NEW found, found = find_option_id(args, begin, end, ident)
    PROVE  /\ found # end => found \in begin..(end - 1) /\ IdentifiedBy(args[found], ident)
           /\ found = end => \A p \in begin..(end - 1) : ~IdentifiedBy(args[p], ident)
<1> DEFINE S == {p \in begin..(end - 1) : IdentifiedBy(args[p], ident)}
<1>1. S \subseteq Nat /\ end \notin S /\ found = FirstOr(S, end)
  BY DEF find_option_id
<1>2. /\ found # end => found \in S
      /\ found = end => S = {}
  BY <1>1, FirstOrProperties
<1> QED
  BY <1>2

\* Nothing is found by an argument that was erased.
LEMMA ErasedNamesNothing ==
    ASSUME NEW ident
    PROVE  ~IdentifiedBy(Erased, ident)
BY DEF IdentifiedBy, Erased, IsPrefix, prepend_dash_short, prepend_dash_long, EndOfOptions

----------------------------------------------------------------------------
(***************************************************************************)
(* Type correctness.                                                       *)
(***************************************************************************)
\* The empty string is an argument.
LEMMA ErasedType == Erased \in Argument
BY EmptySeq DEF Erased, Argument

\* Erasing positions keeps the number of arguments and all other arguments.
LEMMA EraseProperties ==
    ASSUME arguments \in Seq(Argument), NEW positions
    PROVE  /\ Erase(positions) \in Seq(Argument)
           /\ Len(Erase(positions)) = Len(arguments)
           /\ \A p \in 1..Len(arguments) :
                 Erase(positions)[p] = IF p \in positions THEN Erased ELSE arguments[p]
<1>. DEFINE n == Len(arguments)
            e == [p \in 1..n |-> IF p \in positions THEN Erased ELSE arguments[p]]
<1>1. n \in Nat /\ DOMAIN arguments = 1..n /\ arguments \in [1..n -> Argument]
  BY LenProperties
<1>2. e \in [1..n -> Argument]
  BY <1>1, ErasedType
<1>3. Erase(positions) = e
  BY <1>1 DEF Erase
<1>. HIDE DEF n
<1>4. e \in Seq(Argument) /\ Len(e) = n
  BY <1>1, <1>2, SeqDef, LenProperties
<1>5. QED
  BY <1>1, <1>3, <1>4 DEF n

\* What is read from the command line is a value.
LEMMA ValueType ==
    ASSUME NEW text \in Argument, NEW at \in Nat
    PROVE  [text |-> text, at |-> at] \in Value
BY DEF Value

\* What a variable is initialised with is a value.
LEMMA DefaultType == <<Default>> \in Seq(Value)
<1>1. Default \in Value
  BY EmptySeq DEF Default, Value, Argument
<1>2. QED
  BY <1>1

\* Where parse() begins the state is well typed.
LEMMA ParseBeginsTypeOK ==
    setup \in Setup /\ format_arguments \in Seq(Argument) /\ ParseBegins => ParseTypeOK
<1>. SUFFICES ASSUME setup \in Setup, format_arguments \in Seq(Argument), ParseBegins
             PROVE  ParseTypeOK
  OBVIOUS
<1>. USE DEF ParseBegins
<1>1. Len(arguments) \in Nat
  BY LenProperties
<1>2. /\ option_value \in [DOMAIN setup.options -> Seq(Value)]
      /\ positional_value \in [DOMAIN setup.positionals -> Seq(Value)]
  BY DefaultType
<1>3. QED
  BY <1>1, <1>2 DEF ParseTypeOK, InOptions, Errors

\* What the texts that are stored are made of.
LEMMA TextTypes ==
    ASSUME ParseTypeOK
    PROVE  /\ pc = "retrieve" => GluedText \in Argument
           /\ \A p \in 1..Len(arguments) : arguments[p] \in Argument
           /\ Len(arguments) \in Nat
           /\ DOMAIN arguments = 1..Len(arguments)
<1>. USE DEF ParseTypeOK
<1>1. Len(arguments) \in Nat /\ DOMAIN arguments = 1..Len(arguments)
  BY LenProperties
<1>2. \A p \in 1..Len(arguments) : arguments[p] \in Argument
  BY ElementOfSeq
<1>3. ASSUME pc = "retrieve" PROVE GluedText \in Argument
  <2>. DEFINE arg == arguments[it]
              from == Len(PrependDash) + (IF GluedWithEqual THEN 2 ELSE 1)
  <2>1. it \in 1..Len(arguments)
    BY <1>1, <1>3
  <2>2. arg \in Seq(Symbol)
    BY <1>2, <2>1 DEF Argument
  <2>3. Len(PrependDash) \in {2, 3}
    BY DEF PrependDash, prepend_dash_short, prepend_dash_long, EndOfOptions
  <2>4. from \in Nat \ {0} /\ Len(arg) \in Nat
    BY <2>2, <2>3, LenProperties
  <2>5. \A i \in from..Len(arg) : arg[i] \in Symbol
    BY <2>2, <2>4
  <2>. HIDE DEF arg, from
  <2>6. SubSeq(arg, from, Len(arg)) \in Seq(Symbol)
    BY <2>4, <2>5, SubSeqProperties
  <2>7. QED
    BY <2>6 DEF GluedText, arg, from, Argument
<1>4. QED
  BY <1>1, <1>2, <1>3

\* A stored value is a value, and the only new one.
LEMMA StoredProperties ==
    ASSUME NEW values \in Seq(Value), NEW c, NEW text \in Argument, NEW p \in Nat
    PROVE  /\ Stored(values, c, text, p) \in Seq(Value)
           /\ Stored(values, c, text, p) # <<>>
           /\ \A j \in DOMAIN Stored(values, c, text, p) :
                 \/ j \in DOMAIN values /\ Stored(values, c, text, p)[j] = values[j]
                 \/ Stored(values, c, text, p)[j] = [text |-> text, at |-> p]
<1>. DEFINE read == [text |-> text, at |-> p]
<1>1. read \in Value
  BY ValueType
<1>2. Stored(values, c, text, p) = IF c.list THEN Append(values, read) ELSE <<read>>
  BY DEF Stored
<1>. HIDE DEF read
<1>3. CASE c.list
  BY <1>1, <1>2, <1>3, AppendProperties DEF read
<1>4. CASE ~c.list
  BY <1>1, <1>2, <1>4 DEF read
<1>5. QED
  BY <1>3, <1>4

\* Storing a retrieved value, glued or separate, keeps the type of the state.
LEMMA StoreOptionValueTypeOK ==
    ASSUME ParseTypeOK, pc = "retrieve", NEW text \in Argument, NEW p \in 1..Len(arguments),
           p < end_of_options_it,
           StoreOptionValue(text, p),
           UNCHANGED <<config, end_of_options_it, call, id, seen, flag_value,
                       positional_value, positional_option_count>>
    PROVE  ParseTypeOK'
<1>1. Len(arguments) \in Nat /\ p \in Nat /\ call \in DOMAIN option_value
      /\ option_value[call] \in Seq(Value)
  BY LenProperties DEF ParseTypeOK, InOptions
<1>3. arguments' \in Seq(Argument) /\ Len(arguments') = Len(arguments)
  BY EraseProperties DEF ParseTypeOK, StoreOptionValue
<1>4. option_value' \in [DOMAIN setup.options -> Seq(Value)]
  <2>1. Stored(option_value[call], Option, text, p) \in Seq(Value)
    BY <1>1, StoredProperties
  <2>2. \/ option_value' = [option_value EXCEPT ![call] =
                               Stored(option_value[call], Option, text, p)]
        \/ option_value' = option_value
    BY DEF StoreOptionValue
  <2>3. QED
    BY <2>1, <2>2 DEF ParseTypeOK
<1>5. pc' \in {"look_up_again", "done"} /\ error' \in Errors /\ it' = p
  BY DEF StoreOptionValue, InputError, Throw, ParseTypeOK, Errors
<1>6. QED
  BY <1>1, <1>3, <1>4, <1>5
     DEF ParseTypeOK, InOptions, config, Remaining, FlagVariables

\* The iteration over a list of calls stays inside the list.
LEMMA NextCallProperties ==
    ASSUME NEW S, NEW calls \in Seq(S), call \in DOMAIN calls,
           NEW again, NEW after, NextCall(calls, again, after)
    PROVE  /\ call' \in Nat \ {0}
           /\ pc' \in {again, after}
           /\ pc' = again /\ again # after => call' \in DOMAIN calls
           /\ pc' = after /\ again # after => call' = 1
<1>1. DOMAIN calls = 1..Len(calls) /\ Len(calls) \in Nat
  BY LenProperties
<1>2. QED
  BY <1>1 DEF NextCall

\* The lists of calls, and their first call if there is one.
LEMMA SetupProperties ==
    ASSUME ParseTypeOK
    PROVE  /\ setup.options \in Seq(OptionCall)
           /\ setup.flags \in Seq(FlagCall)
           /\ setup.positionals \in Seq(PositionalCall)
           /\ setup.flags # <<>> => 1 \in DOMAIN setup.flags
           /\ setup.positionals # <<>> => 1 \in DOMAIN setup.positionals
BY EmptySeq, LenProperties DEF ParseTypeOK, Setup

\* Every step keeps the type of the state.
LEMMA NextTypeOK == ParseTypeOK /\ [ParseStep]_parse_vars => ParseTypeOK'
<1>. SUFFICES ASSUME ParseTypeOK, [ParseStep]_parse_vars PROVE ParseTypeOK'
  OBVIOUS
<1>0. Len(arguments) \in Nat /\ DOMAIN arguments = 1..Len(arguments)
  BY TextTypes
<1>1. CASE FindEndOfOptions
  <2>1. end_of_options_it' \in 1..(Len(arguments) + 1)
    BY <1>1, EndOfOptionsProperties DEF FindEndOfOptions, ParseTypeOK
  <2>2. pc' \in {"look_up", "flag", "check_unknown"}
    BY <1>1 DEF FindEndOfOptions, AfterOptions
  <2>3. call \in Nat \ {0} /\ (pc' = "look_up" => 1 \in DOMAIN setup.options)
          /\ (pc' = "flag" => 1 \in DOMAIN setup.flags)
    BY <1>1, EmptySeq, LenProperties DEF FindEndOfOptions, AfterOptions, ParseTypeOK, Setup
  <2>4. call = 1
    BY <1>1 DEF FindEndOfOptions, ParseTypeOK
  <2>5. QED
    BY <1>1, <2>1, <2>2, <2>3, <2>4
       DEF FindEndOfOptions, ParseTypeOK, InOptions, config, lookup, outputs, Remaining,
           FlagVariables
<1>2. CASE LookUpOption
  <2>. DEFINE found == find_option_id(arguments, 1, end_of_options_it, SearchedId)
  <2>1. found \in 1..end_of_options_it /\ end_of_options_it \in 1..(Len(arguments) + 1)
    <3>1. end_of_options_it \in 1..(Len(arguments) + 1) /\ end_of_options_it \in Nat
      BY <1>0 DEF ParseTypeOK
    <3>2. found \in (1..(end_of_options_it - 1)) \cup {end_of_options_it}
      BY <3>1, FindOptionIdProperties
    <3>. HIDE DEF found
    <3>3. QED
      BY <1>0, <3>1, <3>2
  <2>2. option_value' \in [DOMAIN setup.options -> Seq(Value)]
    BY <1>2, EmptySeq DEF LookUpOption, Forget, ParseTypeOK
  <2>3. /\ pc' \in {"look_up", "retrieve", "option_result"}
        /\ id' \in {"short", "long"} /\ seen' \subseteq {"short", "long"}
        /\ it' = found /\ (pc' = "retrieve" => found # end_of_options_it)
    BY <1>2 DEF LookUpOption, LeaveGetOptionById, ParseTypeOK
  <2>. HIDE DEF found
  <2>4. QED
    BY <1>0, <1>2, <2>1, <2>2, <2>3
       DEF LookUpOption, ParseTypeOK, InOptions, config, Remaining, FlagVariables
<1>3. CASE RetrieveGluedValue
  <2>1. it \in 1..Len(arguments) /\ it < end_of_options_it
    BY <1>0, <1>3 DEF RetrieveGluedValue, ParseTypeOK
  <2>2. QED
    BY <1>3, <2>1, TextTypes, StoreOptionValueTypeOK DEF RetrieveGluedValue
<1>4. CASE RetrieveSeparateValue
  <2>1. it + 1 \in 1..Len(arguments) /\ it + 1 < end_of_options_it
    BY <1>0, <1>4 DEF RetrieveSeparateValue, NoSeparateValue, ParseTypeOK
  <2>2. QED
    BY <1>4, <2>1, TextTypes, StoreOptionValueTypeOK DEF RetrieveSeparateValue
<1>5. CASE MissingOptionValue
  <2>1. arguments' \in Seq(Argument) /\ Len(arguments') = Len(arguments)
    BY <1>5, EraseProperties DEF MissingOptionValue, ParseTypeOK
  <2>2. it' \in 1..(Len(arguments) + 1)
    BY <1>0, <1>5 DEF MissingOptionValue, ParseTypeOK
  <2>3. pc' = "done" /\ error' \in Errors
    BY <1>5 DEF MissingOptionValue, Throw, Errors
  <2>4. QED
    BY <1>5, <2>1, <2>2, <2>3
       DEF MissingOptionValue, ParseTypeOK, InOptions, config, outputs, FlagVariables
<1>6. CASE LookUpOptionAgain
  <2>. DEFINE found == find_option_id(arguments, it, end_of_options_it, SearchedId)
  <2>1. found \in it..end_of_options_it /\ end_of_options_it \in 1..(Len(arguments) + 1)
    BY <1>0, <1>6, FindOptionIdProperties DEF LookUpOptionAgain, ParseTypeOK
  <2>2. /\ pc' \in {"look_up", "retrieve", "option_result", "done"}
        /\ id' \in {"short", "long"} /\ it' \in {it, found} /\ error' \in Errors
        /\ (pc' = "retrieve" => it' = found /\ found # end_of_options_it)
    BY <1>6 DEF LookUpOptionAgain, LeaveGetOptionById, ParseTypeOK, Throw, Errors
  <2>. HIDE DEF found
  <2>3. QED
    BY <1>0, <1>6, <2>1, <2>2
       DEF LookUpOptionAgain, ParseTypeOK, InOptions, config, outputs, FlagVariables
<1>7. CASE FinishOption
  <2>1. CASE error' = error /\ NextCall(setup.options, "look_up", AfterOptions) /\ seen' = {}
    <3>1. /\ call' \in Nat \ {0} /\ pc' \in {"look_up", "flag", "check_unknown"}
          /\ pc' = "look_up" => call' \in DOMAIN setup.options
          /\ pc' = "flag" => call' \in DOMAIN setup.flags
          /\ pc' = "check_unknown" => call' = 1
      BY <1>7, <2>1, SetupProperties, NextCallProperties
         DEF FinishOption, AfterOptions, ParseTypeOK, InOptions
    <3>2. QED
      BY <1>7, <2>1, <3>1
         DEF FinishOption, ParseTypeOK, InOptions, config, outputs, FlagVariables
  <2>2. CASE Throw(OptionError) /\ UNCHANGED <<call, seen>>
    <3>1. OptionError \in Errors
      BY DEF OptionError, Errors
    <3>2. QED
      BY <1>7, <2>2, <3>1
         DEF FinishOption, Throw, ParseTypeOK, InOptions, config, outputs, FlagVariables
  <2>3. QED
    BY <1>7, <2>1, <2>2 DEF FinishOption
<1>8. CASE GetFlag
  <2>1. arguments' \in Seq(Argument) /\ Len(arguments') = Len(arguments)
    <3>1. CASE ShortFlagPositions # {}
      <4>. DEFINE p == Min(ShortFlagPositions)
      <4>1. p \in 1..Len(arguments)
        <5>1. ShortFlagPositions \subseteq 1..Len(arguments)
          BY <1>0 DEF ShortFlagPositions
        <5>2. QED
          BY <3>1, <5>1, MinIsFirst, 1..Len(arguments) \subseteq Nat
      <4>2. WithoutFlag(arguments[p], Flag.short) \in Argument
        BY <4>1, TextTypes, WithoutFlagType
      <4>3. arguments' = [arguments EXCEPT ![p] = WithoutFlag(arguments[p], Flag.short)]
        BY <1>8, <3>1, <4>1 DEF GetFlag
      <4>. HIDE DEF p
      <4>4. QED
        BY <4>1, <4>2, <4>3, ExceptSeq DEF ParseTypeOK
    <3>2. CASE ShortFlagPositions = {}
      BY <1>8, <3>2, EraseProperties DEF GetFlag, ParseTypeOK
    <3>3. QED
      BY <3>1, <3>2
  <2>2. flag_value' \in [FlagVariables -> BOOLEAN]
    BY <1>8 DEF GetFlag, ParseTypeOK
  <2>3. /\ call' \in Nat \ {0} /\ pc' \in {"flag", "check_unknown"}
        /\ pc' = "flag" => call' \in DOMAIN setup.flags
        /\ pc' = "check_unknown" => call' = 1
    BY <1>8, SetupProperties, NextCallProperties DEF GetFlag, ParseTypeOK
  <2>4. QED
    BY <1>8, <2>1, <2>2, <2>3 DEF GetFlag, ParseTypeOK, InOptions, config, FlagVariables
<1>9. CASE CheckForUnknownIds
  <2>1. arguments' \in Seq(Argument) /\ Len(arguments') = Len(arguments)
    BY <1>9, EraseProperties DEF CheckForUnknownIds, ParseTypeOK
  <2>2. /\ pc' \in {"left_over", "positional", "done"} /\ error' \in Errors
        /\ pc' = "positional" => setup.positionals # <<>>
    BY <1>9 DEF CheckForUnknownIds, Throw, Errors, ParseTypeOK
  <2>3. call = 1 /\ call' = 1
    BY <1>9 DEF CheckForUnknownIds, ParseTypeOK, lookup
  <2>4. pc' = "positional" => call' \in DOMAIN setup.positionals
    BY <2>2, <2>3, SetupProperties
  <2>5. QED
    BY <1>9, <2>1, <2>2, <2>3, <2>4
       DEF CheckForUnknownIds, ParseTypeOK, InOptions, config, lookup, outputs, FlagVariables
<1>10. CASE BeginPositionalOption
  <2>1. positional_value' \in [DOMAIN setup.positionals -> Seq(Value)]
    BY <1>10, EmptySeq DEF BeginPositionalOption, Forget, ParseTypeOK
  <2>2. /\ pc' \in {"take", "done"} /\ error' \in Errors
        /\ pc' = "take" => Remaining # {}
    BY <1>10 DEF BeginPositionalOption, Throw, Errors, ParseTypeOK
  <2>3. QED
    BY <1>10, <2>1, <2>2
       DEF BeginPositionalOption, ParseTypeOK, InOptions, config, lookup, Remaining, FlagVariables
<1>11. CASE TakePositionalValue
  <2>. DEFINE p == Min(Remaining)
              text == arguments[p]
  <2>1. p \in 1..Len(arguments) /\ p \in Remaining
    <3>1. Remaining \subseteq 1..Len(arguments) /\ Remaining # {}
      BY <1>0, <1>11 DEF TakePositionalValue, ParseTypeOK, Remaining
    <3>2. QED
      BY <3>1, MinIsFirst, 1..Len(arguments) \subseteq Nat
  <2>2. CASE UNCHANGED <<arguments, positional_value, positional_option_count>>
             /\ Throw(InputError(Positional, text))
    BY <1>11, <2>2
       DEF TakePositionalValue, InputError, Throw, Errors, ParseTypeOK, InOptions, config, lookup,
           FlagVariables
  <2>3. CASE arguments' = Erase({p}) /\ error' = error
    <3>1. /\ \/ positional_value' = [positional_value EXCEPT ![call] =
                                        Stored(positional_value[call], Positional, text, p)]
             \/ positional_value' = positional_value
          /\ pc' \in {"take", "validate", "done"}
          /\ pc' = "take" => Remaining # {p}
          /\ positional_option_count' \in Nat
      BY <1>11 DEF TakePositionalValue, Throw, ParseTypeOK
    <3>2. arguments' \in Seq(Argument) /\ Len(arguments') = Len(arguments)
      BY <2>3, EraseProperties DEF ParseTypeOK
    <3>3. text \in Argument /\ p \in Nat
      BY <2>1, TextTypes
    <3>. HIDE DEF p, text
    <3>4. positional_value[call] \in Seq(Value)
      BY <1>11 DEF TakePositionalValue, ParseTypeOK
    <3>5. Stored(positional_value[call], Positional, text, p) \in Seq(Value)
      BY <3>3, <3>4, StoredProperties
    <3>6. positional_value' \in [DOMAIN setup.positionals -> Seq(Value)]
      BY <3>1, <3>5 DEF ParseTypeOK
    <3>7. Remaining' = Remaining \ {p}
      <4>1. DOMAIN arguments' = 1..Len(arguments)
        BY <3>2, LenProperties
      <4>2. \A q \in 1..Len(arguments) : arguments'[q] = IF q = p THEN Erased ELSE arguments[q]
        BY <2>3, EraseProperties DEF ParseTypeOK
      <4>3. QED
        BY <1>0, <4>1, <4>2 DEF Remaining
    <3>8. pc' = "take" => Remaining' # {}
      BY <2>1, <3>1, <3>7
    <3>9. QED
      BY <1>11, <2>3, <3>1, <3>2, <3>6, <3>8
         DEF TakePositionalValue, ParseTypeOK, InOptions, config, lookup, FlagVariables
  <2>4. QED
    BY <1>11, <2>2, <2>3 DEF TakePositionalValue
<1>12. CASE FinishPositionalOption
  <2>1. CASE Throw("validation_error") /\ call' = call
    BY <1>12, <2>1
       DEF FinishPositionalOption, Throw, Errors, ParseTypeOK, InOptions, config, outputs,
           FlagVariables
  <2>2. CASE error' = error /\ NextCall(setup.positionals, "positional", "left_over")
    <3>1. /\ call' \in Nat \ {0} /\ pc' \in {"positional", "left_over"}
          /\ pc' = "positional" => call' \in DOMAIN setup.positionals
      BY <1>12, <2>2, SetupProperties, NextCallProperties DEF FinishPositionalOption, ParseTypeOK
    <3>2. QED
      BY <1>12, <2>2, <3>1
         DEF FinishPositionalOption, ParseTypeOK, InOptions, config, outputs, FlagVariables
  <2>3. QED
    BY <1>12, <2>1, <2>2 DEF FinishPositionalOption
<1>13. CASE CheckForLeftOverArgs
  BY <1>13 DEF CheckForLeftOverArgs, Throw, Errors, ParseTypeOK, InOptions, config, lookup,
               outputs, FlagVariables
<1>14. CASE UNCHANGED parse_vars
  <2>1. /\ UNCHANGED <<setup, format_arguments, arguments, end_of_options_it, pc, call, id>>
        /\ UNCHANGED <<it, seen, option_value, flag_value, positional_value>>
        /\ UNCHANGED <<positional_option_count, error>>
    BY <1>14 DEF parse_vars, config, lookup, outputs
  <2>2. QED
    BY <2>1 DEF ParseTypeOK, InOptions, Remaining, FlagVariables
<1>15. QED
  BY <1>1, <1>2, <1>3, <1>4, <1>5, <1>6, <1>7, <1>8, <1>9, <1>10, <1>11, <1>12,
     <1>13, <1>14 DEF ParseStep

----------------------------------------------------------------------------
(***************************************************************************)
(* The pass over the options and the end of the options.                   *)
(***************************************************************************)
\* Erasing positions in front of "--" leaves "--" and what follows alone.
LEMMA EraseInFront ==
    ASSUME ParseTypeOK, NEW positions, \A q \in positions : q < end_of_options_it,
           arguments' = Erase(positions)
    PROVE  \A p \in end_of_options_it..Len(arguments) : arguments'[p] = arguments[p]
<1>1. Len(arguments) \in Nat /\ end_of_options_it \in 1..(Len(arguments) + 1)
  BY TextTypes DEF ParseTypeOK
<1>2. \A p \in 1..Len(arguments) :
          arguments'[p] = IF p \in positions THEN Erased ELSE arguments[p]
  BY EraseProperties DEF ParseTypeOK
<1>3. ASSUME NEW p \in end_of_options_it..Len(arguments)
      PROVE  p \in 1..Len(arguments) /\ p \notin positions
  BY <1>1
<1>4. QED
  BY <1>2, <1>3

(***************************************************************************)
(* No step of the pass over the options changes "--" or what follows it.   *)
(***************************************************************************)
LEMMA OptionStepStopsAtEnd ==
    ASSUME ParseTypeOK, ParseStep, InOptions
    PROVE  \A p \in end_of_options_it..Len(arguments) : arguments'[p] = arguments[p]
<1>0. Len(arguments) \in Nat
  BY TextTypes
<1>1. CASE LookUpOption
  BY <1>1 DEF LookUpOption
<1>2. CASE RetrieveGluedValue
  <2>1. arguments' = Erase(it..it) /\ it < end_of_options_it /\ it \in Nat
    BY <1>0, <1>2 DEF RetrieveGluedValue, StoreOptionValue, ParseTypeOK
  <2>2. \A q \in it..it : q < end_of_options_it
    BY <2>1
  <2>3. QED
    BY <2>1, <2>2, EraseInFront
<1>3. CASE RetrieveSeparateValue
  <2>1. /\ arguments' = Erase(it..(it + 1)) /\ it + 1 < end_of_options_it
        /\ it \in Nat /\ end_of_options_it \in Nat
    BY <1>0, <1>3 DEF RetrieveSeparateValue, NoSeparateValue, StoreOptionValue, ParseTypeOK
  <2>2. \A q \in it..(it + 1) : q < end_of_options_it
    BY <2>1
  <2>3. QED
    BY <2>1, <2>2, EraseInFront
<1>4. CASE MissingOptionValue
  <2>1. pc = "retrieve" /\ it < end_of_options_it
    BY <1>4 DEF MissingOptionValue, ParseTypeOK
  <2>2. arguments' = arguments \/ arguments' = Erase({it})
    BY <1>4 DEF MissingOptionValue
  <2>3. ASSUME arguments' = Erase({it})
        PROVE  \A p \in end_of_options_it..Len(arguments) : arguments'[p] = arguments[p]
    <3>. DEFINE erased == {it}
    <3>1. (\A q \in erased : q < end_of_options_it) /\ arguments' = Erase(erased)
      BY <2>1, <2>3
    <3>. HIDE DEF erased
    <3>2. QED
      BY <3>1, EraseInFront
  <2>4. QED
    BY <2>2, <2>3
<1>5. CASE LookUpOptionAgain
  BY <1>5 DEF LookUpOptionAgain
<1>6. CASE FinishOption
  BY <1>6 DEF FinishOption
<1>7. QED
  BY <1>1, <1>2, <1>3, <1>4, <1>5, <1>6
     DEF ParseStep, InOptions, FindEndOfOptions, GetFlag, CheckForUnknownIds,
         BeginPositionalOption, TakePositionalValue, FinishPositionalOption,
         CheckForLeftOverArgs

----------------------------------------------------------------------------
(***************************************************************************)
(* Positional options are no identifiers.  The strengthening: until "--"   *)
(* is located nothing was assigned, and after check_for_unknown_ids no     *)
(* argument in front of it looks like an identifier.                       *)
(***************************************************************************)
NoIdentifierLeft ==
    /\ pc = "begin" => \A k \in DOMAIN positional_value : positional_value[k] = <<Default>>
    /\ InPositionals => \A p \in 1..(end_of_options_it - 1) : ~MayBeIdentifier(arguments[p])

PositionalInv == NoIdentifierLeft /\ PositionalsAreNoIdentifiers

\* No positional option has a value when parsing begins.
LEMMA InitPositionalInv == ParseBegins => PositionalInv
BY DEF ParseBegins, PositionalInv, NoIdentifierLeft, InPositionals, PositionalsAreNoIdentifiers,
       Default

\* The first remaining argument is an argument.
LEMMA FirstRemaining ==
    ASSUME ParseTypeOK, Remaining # {}
    PROVE  Min(Remaining) \in 1..Len(arguments) /\ Min(Remaining) \in Remaining
<1>1. Remaining \subseteq 1..Len(arguments)
  BY TextTypes DEF Remaining
<1>2. QED
  BY <1>1, MinIsFirst, 1..Len(arguments) \subseteq Nat

\* An erased argument is not taken for an identifier.
LEMMA ErasedIsNoIdentifier == ~MayBeIdentifier(Erased)
BY DEF MayBeIdentifier

\* Every step keeps the strengthened invariant.
LEMMA NextPositionalInv == ParseTypeOK /\ PositionalInv /\ [ParseStep]_parse_vars => PositionalInv'
<1>. SUFFICES ASSUME ParseTypeOK, PositionalInv, [ParseStep]_parse_vars PROVE PositionalInv'
  OBVIOUS
<1>0. /\ Len(arguments) \in Nat /\ DOMAIN arguments = 1..Len(arguments)
      /\ end_of_options_it \in 1..(Len(arguments) + 1)
  BY TextTypes DEF ParseTypeOK
<1>1. CASE FindEndOfOptions
  <2>1. \A k \in DOMAIN positional_value : positional_value'[k] = <<Default>>
    BY <1>1 DEF FindEndOfOptions, PositionalInv, NoIdentifierLeft, outputs
  <2>2. pc' \in {"look_up", "flag", "check_unknown"} /\ positional_value' = positional_value
    BY <1>1 DEF FindEndOfOptions, AfterOptions, outputs
  <2>3. \A k \in DOMAIN positional_value : \A j \in DOMAIN positional_value'[k] :
            positional_value'[k][j].at = 0
    BY <2>1 DEF Default
  <2>4. \A n : 0 \notin 1..n
    OBVIOUS
  <2>5. QED
    BY <2>2, <2>3, <2>4 DEF PositionalInv, NoIdentifierLeft, InPositionals,
                            PositionalsAreNoIdentifiers
<1>2. CASE LookUpOption \/ RetrieveGluedValue \/ RetrieveSeparateValue \/ MissingOptionValue
           \/ LookUpOptionAgain \/ FinishOption \/ GetFlag
  <2>1. UNCHANGED <<positional_value, end_of_options_it>> /\ pc' \notin {"begin"}
        /\ ~InPositionals'
    BY <1>2 DEF LookUpOption, RetrieveGluedValue, RetrieveSeparateValue, MissingOptionValue,
                LookUpOptionAgain, FinishOption, GetFlag, LeaveGetOptionById, StoreOptionValue,
                Throw, NextCall, AfterOptions, outputs, InPositionals
  <2>2. QED
    BY <2>1 DEF PositionalInv, NoIdentifierLeft, PositionalsAreNoIdentifiers
<1>3. CASE CheckForUnknownIds
  <2>1. UNCHANGED <<positional_value, end_of_options_it>> /\ pc' # "begin"
    BY <1>3 DEF CheckForUnknownIds, Throw, outputs
  <2>2. ASSUME InPositionals', NEW p \in 1..(end_of_options_it - 1)
        PROVE  ~MayBeIdentifier(arguments'[p])
    <3>1. UnknownIds = {} /\ arguments' = Erase({end_of_options_it})
      BY <1>3, <2>2 DEF CheckForUnknownIds, Throw, InPositionals
    <3>2. p \in 1..Len(arguments) /\ p # end_of_options_it
      BY <1>0
    <3>3. arguments'[p] = arguments[p]
      BY <3>1, <3>2, EraseProperties DEF ParseTypeOK
    <3>4. QED
      BY <3>1, <3>3 DEF UnknownIds
  <2>3. QED
    BY <2>1, <2>2 DEF PositionalInv, NoIdentifierLeft, PositionalsAreNoIdentifiers
<1>4. CASE BeginPositionalOption
  <2>1. UNCHANGED <<arguments, end_of_options_it>> /\ pc' # "begin" /\ InPositionals
        /\ (positional_value' = positional_value
            \/ positional_value' = [positional_value EXCEPT ![call] = <<>>])
    BY <1>4 DEF BeginPositionalOption, Forget, Throw, InPositionals
  <2>2. QED
    BY <2>1 DEF PositionalInv, NoIdentifierLeft, PositionalsAreNoIdentifiers, InPositionals
<1>5. CASE TakePositionalValue
  <2>. DEFINE p == Min(Remaining)
              text == arguments[p]
  <2>0. InPositionals
    BY <1>5 DEF TakePositionalValue, InPositionals
  <2>1. p \in 1..Len(arguments) /\ text \in Argument /\ p \in Nat
    BY <1>5, FirstRemaining, TextTypes DEF TakePositionalValue, ParseTypeOK
  <2>2. p \in 1..(end_of_options_it - 1) => ~MayBeIdentifier(text)
    BY <2>0 DEF PositionalInv, NoIdentifierLeft
  <2>3. /\ arguments' \in {arguments, Erase({p})}
        /\ \/ positional_value' = [positional_value EXCEPT ![call] =
                                      Stored(positional_value[call], Positional, text, p)]
           \/ positional_value' = positional_value
        /\ pc' # "begin"
        /\ end_of_options_it' = end_of_options_it
        /\ call \in DOMAIN positional_value
    BY <1>5 DEF TakePositionalValue, Throw, ParseTypeOK
  <2>. HIDE DEF p, text
  <2>4. ASSUME NEW q \in 1..(end_of_options_it - 1)
        PROVE  ~MayBeIdentifier(arguments'[q])
    <3>1. q \in 1..Len(arguments) /\ ~MayBeIdentifier(arguments[q])
      BY <1>0, <2>0 DEF PositionalInv, NoIdentifierLeft
    <3>2. Erase({p})[q] = IF q \in {p} THEN Erased ELSE arguments[q]
      BY <3>1, EraseProperties DEF ParseTypeOK
    <3>3. QED
      BY <2>3, <3>1, <3>2, ErasedIsNoIdentifier
  <2>5. positional_value[call] \in Seq(Value)
    BY <2>3 DEF ParseTypeOK
  <2>6. ASSUME NEW k \in DOMAIN positional_value, NEW j \in DOMAIN positional_value'[k],
               positional_value'[k][j].at \in 1..(end_of_options_it - 1)
        PROVE  ~MayBeIdentifier(positional_value'[k][j].text)
    <3>1. CASE j \in DOMAIN positional_value[k]
               /\ positional_value'[k][j] = positional_value[k][j]
      BY <2>6, <3>1 DEF PositionalInv, PositionalsAreNoIdentifiers
    <3>2. CASE positional_value'[k][j] = [text |-> text, at |-> p]
      BY <2>2, <2>6, <3>2
    <3>3. CASE positional_value'[k] = positional_value[k]
      BY <3>1, <3>3
    <3>4. CASE positional_value'[k] = Stored(positional_value[k], Positional, text, p) /\ k = call
      <4>1. \/ j \in DOMAIN positional_value[k]
               /\ positional_value'[k][j] = positional_value[k][j]
            \/ positional_value'[k][j] = [text |-> text, at |-> p]
        BY <2>1, <2>5, <3>4, StoredProperties
      <4>2. QED
        BY <3>1, <3>2, <4>1
    <3>5. QED
      BY <2>3, <3>3, <3>4
  <2>7. DOMAIN positional_value' = DOMAIN positional_value
    BY <2>3
  <2>8. QED
    BY <2>3, <2>4, <2>6, <2>7 DEF PositionalInv, NoIdentifierLeft, PositionalsAreNoIdentifiers
<1>6. CASE FinishPositionalOption \/ CheckForLeftOverArgs \/ UNCHANGED parse_vars
  <2>1. UNCHANGED <<arguments, positional_value, end_of_options_it>>
        /\ (InPositionals' => InPositionals) /\ (pc' = "begin" => pc = "begin")
    BY <1>6 DEF FinishPositionalOption, CheckForLeftOverArgs, parse_vars, outputs,
                InPositionals, Throw, NextCall
  <2>2. QED
    BY <2>1 DEF PositionalInv, NoIdentifierLeft, PositionalsAreNoIdentifiers
<1>7. QED
  BY <1>1, <1>2, <1>3, <1>4, <1>5, <1>6 DEF ParseStep

----------------------------------------------------------------------------
(***************************************************************************)
(* Values come from the command line.  The strengthening says, for every   *)
(* place in the passes, which variables have been read: the container that *)
(* is being filled, the option that was seen, the required options behind  *)
(* the running call, and all of them once their pass is over.              *)
(***************************************************************************)
RequiredRead(o) ==
    setup.options[o].required => ReadFromCommandLine(option_value[o], setup.options[o])

PositionalRead(k) == ReadFromCommandLine(positional_value[k], setup.positionals[k])

BehindOptions == (pc \notin {"begin", "done"} /\ ~InOptions) \/ Succeeded

OptionsRead ==
    /\ \A o \in DOMAIN option_value :
          option_value[o] = <<Default>> \/ AllRead(option_value[o])
    /\ pc = "begin" => seen = {}
    /\ pc = "retrieve" /\ Option.list => AllRead(option_value[call])
    /\ pc = "look_up_again" => ReadFromCommandLine(option_value[call], Option)
    /\ pc \in {"look_up", "option_result"} /\ seen # {}
          => ReadFromCommandLine(option_value[call], Option)
    /\ InOptions => \A o \in DOMAIN setup.options : o < call => RequiredRead(o)
    /\ BehindOptions => \A o \in DOMAIN setup.options : RequiredRead(o)

PositionalsRead ==
    /\ \A k \in DOMAIN positional_value :
          positional_value[k] = <<Default>> \/ AllRead(positional_value[k])
    /\ pc = "take" /\ Positional.list => AllRead(positional_value[call])
    /\ pc = "validate" => ReadFromCommandLine(positional_value[call], Positional)
    /\ pc \in {"positional", "take", "validate"} =>
          \A k \in DOMAIN setup.positionals :
              k < call => PositionalRead(k)
    /\ pc = "left_over" \/ Succeeded =>
          \A k \in DOMAIN setup.positionals : PositionalRead(k)

\* A value that was read makes a single value or a container one that was read.
LEMMA StoredIsRead ==
    ASSUME NEW values \in Seq(Value), NEW c, NEW text \in Argument, NEW p \in Nat \ {0},
           c.list => AllRead(values)
    PROVE  ReadFromCommandLine(Stored(values, c, text, p), c)
<1>1. [text |-> text, at |-> p] \in Value /\ [text |-> text, at |-> p].at # 0
  BY ValueType
<1>. DEFINE read == [text |-> text, at |-> p]
<1>. HIDE DEF read
<1>2. CASE c.list
  <2>1. Stored(values, c, text, p) = Append(values, read)
    BY <1>2 DEF Stored, read
  <2>2. Append(values, read) # <<>>
    BY <1>1 DEF read
  <2>3. ASSUME NEW j \in DOMAIN Append(values, read)
        PROVE  \/ j \in DOMAIN values /\ Append(values, read)[j] = values[j]
               \/ Append(values, read)[j] = read
    BY <1>1 DEF read
  <2>4. AllRead(Append(values, read))
    BY <1>1, <1>2, <2>3 DEF AllRead, read
  <2>5. QED
    BY <2>1, <2>2, <2>4 DEF ReadFromCommandLine
<1>3. CASE ~c.list
  <2>1. Stored(values, c, text, p) = <<read>>
    BY <1>3 DEF Stored, read
  <2>2. QED
    BY <1>1, <2>1 DEF ReadFromCommandLine, AllRead, read
<1>4. QED
  BY <1>2, <1>3

\* A container that drops a value is a container of numbers.
LEMMA DroppedIsRead ==
    ASSUME NEW values, NEW c, NEW text, c.type \in Type, IsDropped(c, text), AllRead(values)
    PROVE  ReadFromCommandLine(values, c)
BY DEF IsDropped, parse_option_value, Type, ReadFromCommandLine

\* A container that was cleared holds no default.
LEMMA ClearedIsRead == AllRead(<<>>)
BY DEF AllRead

\* A parser that was just constructed has read nothing and owes nothing yet.
LEMMA InitRead == ParseBegins => OptionsRead /\ PositionalsRead
BY DEF ParseBegins, OptionsRead, PositionalsRead, InOptions, BehindOptions, Succeeded

\* Storing an option's value, glued or separate, keeps the invariant.
LEMMA StoreOptionValueRead ==
    ASSUME ParseTypeOK, OptionsRead, pc = "retrieve", NEW text \in Argument,
           NEW p \in 1..Len(arguments), StoreOptionValue(text, p),
           UNCHANGED <<config, call, seen>>
    PROVE  OptionsRead'
<1>1. /\ call \in DOMAIN option_value /\ option_value[call] \in Seq(Value)
      /\ p \in Nat \ {0} /\ Option' = Option
  BY TextTypes DEF ParseTypeOK, InOptions, Option, config
<1>2. Option \in OptionCall
  BY SetupProperties, ElementOfSeq DEF Option, ParseTypeOK, InOptions
<1>3. CASE option_value' = [option_value EXCEPT ![call] =
                               Stored(option_value[call], Option, text, p)]
           /\ pc' = "look_up_again"
  <2>1. ReadFromCommandLine(option_value'[call], Option)
    BY <1>1, <1>3, StoredIsRead DEF OptionsRead
  <2>2. \A o \in DOMAIN option_value : o # call => option_value'[o] = option_value[o]
    BY <1>3
  <2>3. /\ DOMAIN option_value' = DOMAIN option_value
        /\ DOMAIN option_value = DOMAIN setup.options
    BY <1>3 DEF ParseTypeOK
  <2>4. DOMAIN setup.options \subseteq Nat /\ call \in Nat
    <3>1. DOMAIN setup.options = 1..Len(setup.options)
      BY SetupProperties, LenProperties
    <3>2. QED
      BY <3>1 DEF ParseTypeOK
  <2>5. QED
    BY <1>1, <1>3, <2>1, <2>2, <2>3, <2>4
       DEF OptionsRead, ReadFromCommandLine, RequiredRead, InOptions, BehindOptions,
           Succeeded, config
<1>4. CASE IsDropped(Option, text) /\ option_value' = option_value /\ pc' = "look_up_again"
  <2>1. AllRead(option_value[call]) /\ Option.type \in Type
    BY <1>2, <1>4 DEF OptionsRead, IsDropped, OptionCall
  <2>2. ReadFromCommandLine(option_value[call], Option)
    BY <1>4, <2>1, DroppedIsRead
  <2>3. QED
    BY <1>1, <1>4, <2>2
       DEF OptionsRead, RequiredRead, InOptions, BehindOptions, Succeeded, config
<1>5. CASE option_value' = option_value /\ Throw(InputError(Option, text))
  BY <1>5 DEF Throw, InputError, OptionsRead, InOptions, BehindOptions, Succeeded
<1>6. QED
  BY <1>3, <1>4, <1>5 DEF StoreOptionValue

\* Every step keeps what holds of the options.
LEMMA NextOptionsRead == ParseTypeOK /\ OptionsRead /\ [ParseStep]_parse_vars => OptionsRead'
<1>. SUFFICES ASSUME ParseTypeOK, OptionsRead, [ParseStep]_parse_vars PROVE OptionsRead'
  OBVIOUS
<1>0. /\ DOMAIN option_value = DOMAIN setup.options
      /\ DOMAIN setup.options = 1..Len(setup.options) /\ Len(setup.options) \in Nat
      /\ call \in Nat
  BY SetupProperties, LenProperties DEF ParseTypeOK
<1>1. CASE FindEndOfOptions
  <2>1. /\ UNCHANGED <<setup, call, seen, option_value, error>> /\ call = 1 /\ seen = {}
        /\ pc' = IF setup.options = <<>> THEN AfterOptions ELSE "look_up"
    BY <1>1 DEF FindEndOfOptions, config, lookup, outputs, ParseTypeOK, OptionsRead
  <2>2. setup.options = <<>> => DOMAIN setup.options = {}
    OBVIOUS
  <2>3. \A o \in DOMAIN setup.options : ~(o < call)
    BY <1>0, <2>1
  <2>4. QED
    BY <2>1, <2>2, <2>3 DEF OptionsRead, InOptions, BehindOptions, AfterOptions, Succeeded
<1>2. CASE LookUpOption
  <2>1. CASE pc' = "retrieve"
    <3>1. /\ UNCHANGED <<setup, call>> /\ InOptions /\ InOptions' /\ ~BehindOptions'
          /\ option_value' = IF Option.list THEN [option_value EXCEPT ![call] = <<>>]
                                            ELSE option_value
      BY <1>2, <2>1 DEF LookUpOption, Forget, LeaveGetOptionById, InOptions, BehindOptions,
                        Succeeded, config
    <3>2. Option' = Option
      BY <3>1 DEF Option
    <3>3. call \in DOMAIN option_value
      BY <1>0, <3>1 DEF ParseTypeOK
    <3>4. QED
      BY <1>0, <2>1, <3>1, <3>2, <3>3, ClearedIsRead DEF OptionsRead, RequiredRead
  <2>2. CASE pc' # "retrieve"
    <3>1. /\ UNCHANGED <<setup, call, seen, option_value>> /\ pc = "look_up"
          /\ pc' \in {"look_up", "option_result"}
      BY <1>2, <2>2 DEF LookUpOption, LeaveGetOptionById, config
    <3>2. QED
      BY <3>1 DEF OptionsRead, RequiredRead, Option, InOptions, BehindOptions, Succeeded
  <2>3. QED
    BY <2>1, <2>2
<1>3. CASE RetrieveGluedValue
  <2>1. it \in 1..Len(arguments)
    BY <1>3, TextTypes DEF RetrieveGluedValue, ParseTypeOK
  <2>2. QED
    BY <1>3, <2>1, TextTypes, StoreOptionValueRead DEF RetrieveGluedValue
<1>4. CASE RetrieveSeparateValue
  <2>1. it + 1 \in 1..Len(arguments)
    BY <1>4, TextTypes DEF RetrieveSeparateValue, NoSeparateValue, ParseTypeOK
  <2>2. QED
    BY <1>4, <2>1, TextTypes, StoreOptionValueRead DEF RetrieveSeparateValue
<1>5. CASE MissingOptionValue
  BY <1>5 DEF MissingOptionValue, Throw, OptionsRead, InOptions, BehindOptions, Succeeded,
              outputs
<1>6. CASE LookUpOptionAgain
  <2>1. /\ UNCHANGED <<setup, call, seen, option_value>> /\ pc = "look_up_again"
        /\ \/ pc' \in {"retrieve", "look_up", "option_result"}
           \/ pc' = "done" /\ error' # "none"
    BY <1>6 DEF LookUpOptionAgain, LeaveGetOptionById, Throw, config, outputs
  <2>2. QED
    BY <2>1 DEF OptionsRead, RequiredRead, Option, ReadFromCommandLine, InOptions, BehindOptions,
                Succeeded
<1>7. CASE FinishOption
  <2>1. CASE OptionError # "none" /\ Throw(OptionError)
    BY <1>7, <2>1 DEF FinishOption, Throw, OptionsRead, InOptions, BehindOptions, Succeeded,
                      outputs
  <2>2. CASE OptionError = "none" /\ NextCall(setup.options, "look_up", AfterOptions)
             /\ seen' = {}
    <3>1. /\ UNCHANGED <<setup, option_value>> /\ InOptions /\ pc = "option_result"
      BY <1>7 DEF FinishOption, InOptions, config, outputs
    <3>2. call \in DOMAIN setup.options /\ RequiredRead(call)
      BY <2>2, <3>1 DEF OptionError, RequiredRead, Option, OptionsRead, ParseTypeOK
    <3>3. CASE call < Len(setup.options)
      <4>1. call' = call + 1 /\ pc' = "look_up"
        BY <2>2, <3>3 DEF NextCall
      <4>2. \A o \in DOMAIN setup.options : o < call + 1 => o < call \/ o = call
        BY <1>0
      <4>3. QED
        BY <2>2, <3>1, <3>2, <4>1, <4>2
           DEF OptionsRead, RequiredRead, InOptions, BehindOptions, Succeeded
    <3>4. CASE ~(call < Len(setup.options))
      <4>1. pc' \in {"flag", "check_unknown"}
        BY <2>2, <3>4 DEF NextCall, AfterOptions
      <4>2. \A o \in DOMAIN setup.options : o < call \/ o = call
        BY <1>0, <3>2, <3>4
      <4>3. QED
        BY <2>2, <3>1, <3>2, <4>1, <4>2
           DEF OptionsRead, RequiredRead, InOptions, BehindOptions, Succeeded
    <3>5. QED
      BY <3>3, <3>4
  <2>3. QED
    BY <1>7, <2>1, <2>2 DEF FinishOption
<1>8. CASE GetFlag \/ CheckForUnknownIds \/ BeginPositionalOption \/ TakePositionalValue
           \/ FinishPositionalOption \/ CheckForLeftOverArgs
  <2>1. /\ UNCHANGED <<setup, option_value>> /\ BehindOptions
        /\ pc' # "begin" /\ ~InOptions'
    BY <1>8 DEF GetFlag, CheckForUnknownIds, BeginPositionalOption, TakePositionalValue,
                FinishPositionalOption, CheckForLeftOverArgs, Throw, NextCall, InOptions,
                BehindOptions, config, outputs
  <2>2. QED
    BY <2>1 DEF OptionsRead, RequiredRead, InOptions
<1>9. CASE UNCHANGED parse_vars
  BY <1>9 DEF parse_vars, config, lookup, outputs, OptionsRead, RequiredRead, Option,
              InOptions, BehindOptions, Succeeded
<1>10. QED
  BY <1>1, <1>2, <1>3, <1>4, <1>5, <1>6, <1>7, <1>8, <1>9 DEF ParseStep

\* Every step keeps what holds of the positional options.
LEMMA NextPositionalsRead ==
    ParseTypeOK /\ PositionalsRead /\ [ParseStep]_parse_vars => PositionalsRead'
<1>. SUFFICES ASSUME ParseTypeOK, PositionalsRead, [ParseStep]_parse_vars PROVE PositionalsRead'
  OBVIOUS
<1>0. /\ DOMAIN positional_value = DOMAIN setup.positionals
      /\ DOMAIN setup.positionals = 1..Len(setup.positionals) /\ Len(setup.positionals) \in Nat
      /\ call \in Nat
  BY SetupProperties, LenProperties DEF ParseTypeOK
<1>1. CASE FindEndOfOptions \/ LookUpOption \/ RetrieveGluedValue \/ RetrieveSeparateValue
           \/ MissingOptionValue \/ LookUpOptionAgain \/ FinishOption \/ GetFlag
  <2>1. /\ UNCHANGED <<setup, positional_value>> /\ ~Succeeded'
        /\ pc' \notin {"positional", "take", "validate", "left_over"}
    BY <1>1 DEF FindEndOfOptions, LookUpOption, RetrieveGluedValue, RetrieveSeparateValue,
                MissingOptionValue, LookUpOptionAgain, FinishOption, GetFlag, LeaveGetOptionById,
                StoreOptionValue, InputError, OptionError, Throw, NextCall, AfterOptions, Succeeded,
                config, outputs
  <2>2. QED
    BY <2>1 DEF PositionalsRead
<1>2. CASE CheckForUnknownIds
  <2>1. /\ UNCHANGED <<setup, positional_value, call>> /\ call = 1 /\ ~Succeeded'
        /\ pc' = "done" \/ pc' = IF setup.positionals = <<>> THEN "left_over" ELSE "positional"
    BY <1>2 DEF CheckForUnknownIds, Throw, Succeeded, config, outputs, lookup, ParseTypeOK
  <2>2. setup.positionals = <<>> => DOMAIN setup.positionals = {}
    OBVIOUS
  <2>3. \A k \in DOMAIN setup.positionals : ~(k < call)
    BY <1>0, <2>1
  <2>4. QED
    BY <2>1, <2>2, <2>3 DEF PositionalsRead
<1>3. CASE BeginPositionalOption
  <2>1. CASE pc' = "take"
    <3>1. /\ UNCHANGED <<setup, call>> /\ ~Succeeded' /\ pc = "positional"
          /\ positional_value' = IF Positional.list
                                 THEN [positional_value EXCEPT ![call] = <<>>]
                                 ELSE positional_value
      BY <1>3, <2>1 DEF BeginPositionalOption, Forget, Throw, Succeeded, config, lookup
    <3>2. Positional' = Positional /\ call \in DOMAIN positional_value
      BY <1>0, <3>1 DEF Positional, ParseTypeOK
    <3>3. QED
      BY <1>0, <2>1, <3>1, <3>2, ClearedIsRead DEF PositionalsRead, PositionalRead
  <2>2. CASE pc' # "take"
    BY <1>3, <2>2 DEF BeginPositionalOption, Throw, PositionalsRead, Succeeded
  <2>3. QED
    BY <2>1, <2>2
<1>4. CASE TakePositionalValue
  <2>. DEFINE p == Min(Remaining)
              text == arguments[p]
  <2>1. p \in Nat \ {0} /\ text \in Argument
    BY <1>4, FirstRemaining, TextTypes DEF TakePositionalValue, ParseTypeOK
  <2>2. /\ pc = "take" /\ call \in DOMAIN positional_value /\ UNCHANGED <<setup, call>>
        /\ Positional' = Positional
    BY <1>4 DEF TakePositionalValue, ParseTypeOK, config, lookup, Positional
  <2>3. positional_value[call] \in Seq(Value) /\ Positional \in PositionalCall
    BY <1>0, <2>2, SetupProperties, ElementOfSeq DEF ParseTypeOK, Positional
  <2>4. CASE pc' \in {"take", "validate"}
             /\ positional_value' = [positional_value EXCEPT ![call] =
                                       Stored(positional_value[call], Positional, text, p)]
    <3>. HIDE DEF p, text
    <3>1. ReadFromCommandLine(positional_value'[call], Positional)
      BY <2>1, <2>2, <2>3, <2>4, StoredIsRead DEF PositionalsRead
    <3>2. /\ DOMAIN positional_value' = DOMAIN positional_value
          /\ \A k \in DOMAIN positional_value :
                k # call => positional_value'[k] = positional_value[k]
      BY <2>4
    <3>3. QED
      BY <1>0, <2>2, <2>4, <3>1, <3>2
         DEF PositionalsRead, PositionalRead, ReadFromCommandLine, Succeeded
  <2>5. CASE pc' \in {"take", "validate"} /\ IsDropped(Positional, text)
             /\ positional_value' = positional_value
    <3>. HIDE DEF p, text
    <3>1. AllRead(positional_value[call]) /\ Positional.type \in Type
      BY <2>2, <2>3, <2>5 DEF PositionalsRead, IsDropped, PositionalCall
    <3>2. ReadFromCommandLine(positional_value[call], Positional)
      BY <2>5, <3>1, DroppedIsRead
    <3>3. QED
      BY <2>2, <2>5, <3>1, <3>2 DEF PositionalsRead, PositionalRead, Succeeded
  <2>6. CASE pc' = "done" /\ error' # "none" /\ positional_value' = positional_value
    BY <2>2, <2>6 DEF PositionalsRead, Succeeded
  <2>7. QED
    BY <1>4, <2>4, <2>5, <2>6 DEF TakePositionalValue, Throw, InputError
<1>5. CASE FinishPositionalOption
  <2>1. /\ UNCHANGED <<setup, positional_value>> /\ pc = "validate" /\ ~Succeeded'
        /\ call \in DOMAIN setup.positionals
    BY <1>5 DEF FinishPositionalOption, Throw, NextCall, Succeeded, config, outputs, ParseTypeOK
  <2>2. CASE pc' = "done"
    BY <2>1, <2>2 DEF PositionalsRead
  <2>3. CASE NextCall(setup.positionals, "positional", "left_over")
    <3>1. CASE call < Len(setup.positionals)
      <4>1. call' = call + 1 /\ pc' = "positional"
        BY <2>3, <3>1 DEF NextCall
      <4>2. \A k \in DOMAIN setup.positionals : k < call + 1 => k < call \/ k = call
        BY <1>0
      <4>3. QED
        BY <2>1, <4>1, <4>2 DEF PositionalsRead, PositionalRead, Positional
    <3>2. CASE ~(call < Len(setup.positionals))
      <4>1. pc' = "left_over"
        BY <2>3, <3>2 DEF NextCall
      <4>2. \A k \in DOMAIN setup.positionals : k < call \/ k = call
        BY <1>0, <2>1, <3>2
      <4>3. QED
        BY <2>1, <4>1, <4>2 DEF PositionalsRead, PositionalRead, Positional
    <3>3. QED
      BY <3>1, <3>2
  <2>4. QED
    BY <1>5, <2>2, <2>3 DEF FinishPositionalOption, Throw
<1>6. CASE CheckForLeftOverArgs
  BY <1>6 DEF CheckForLeftOverArgs, Throw, PositionalsRead, PositionalRead, Positional,
              Succeeded, config, outputs
<1>7. CASE UNCHANGED parse_vars
  BY <1>7 DEF parse_vars, config, lookup, outputs, PositionalsRead, PositionalRead, Positional,
              Succeeded
<1>8. QED
  BY <1>1, <1>2, <1>3, <1>4, <1>5, <1>6, <1>7 DEF ParseStep

----------------------------------------------------------------------------
(***************************************************************************)
(* Where the values stand.  First what an argument that is identified      *)
(* looks like, and what is cut from it.                                    *)
(***************************************************************************)
\* A prefix and what is behind it make the whole.
LEMMA PrefixSplits ==
    ASSUME NEW arg \in Argument, NEW dash \in Argument, IsPrefix(dash, arg)
    PROVE  arg = dash \o SubSeq(arg, Len(dash) + 1, Len(arg))
<1>1. arg \in Seq(Symbol) /\ Len(arg) \in Nat /\ Len(dash) \in Nat
  BY DEF Argument
<1>2. Len(dash) <= Len(arg) /\ SubSeq(arg, 1, Len(dash)) = dash
  <2>1. SubSeq(dash, 1, Len(dash)) = dash
    BY SubSeqFull DEF Argument
  <2>2. QED
    BY <2>1 DEF IsPrefix
<1>3. SubSeq(arg, 1, Len(dash)) \o SubSeq(arg, Len(dash) + 1, Len(arg)) = SubSeq(arg, 1, Len(arg))
  <2>1. /\ 1 \in 1..(Len(arg) + 1) /\ Len(dash) \in (1 - 1)..Len(arg)
        /\ Len(arg) \in Len(dash)..Len(arg)
    BY <1>1, <1>2
  <2>2. QED
    BY <1>1, <2>1, ConcatAdjacentSubSeq
<1>4. SubSeq(arg, 1, Len(arg)) = arg
  BY <1>1, SubSeqFull
<1>5. QED
  BY <1>2, <1>3, <1>4

\* A prefix that is as long as the whole is the whole.
LEMMA PrefixIsAll ==
    ASSUME NEW arg \in Argument, NEW dash \in Argument, IsPrefix(dash, arg), ~(Len(arg) > Len(dash))
    PROVE  arg = dash
<1>1. Len(arg) \in Nat /\ Len(dash) \in Nat /\ Len(dash) <= Len(arg)
  BY DEF IsPrefix, Argument
<1>2. SubSeq(dash, 1, Len(dash)) = dash /\ SubSeq(arg, 1, Len(arg)) = arg
  BY SubSeqFull DEF Argument
<1>3. QED
  BY <1>1, <1>2 DEF IsPrefix

\* Identifiers are arguments.
LEMMA DashTypes ==
    ASSUME NEW c \in Identifier
    PROVE  /\ c # NoId => prepend_dash_short(c) \in Argument /\ Len(prepend_dash_short(c)) = 2
           /\ c # NoId => prepend_dash_long(c) \in Argument /\ Len(prepend_dash_long(c)) = 3
           /\ c # NoId => Append(prepend_dash_long(c), "=") \in Argument
           /\ c # NoId => Len(Append(prepend_dash_long(c), "=")) = 4
<1>1. "-" \in Symbol /\ "=" \in Symbol
  BY SymbolAssumption
<1>2. QED
  BY <1>1 DEF Identifier, prepend_dash_short, prepend_dash_long, Argument

\* What is identified begins with a dash and goes on.
LEMMA IdentifiedIsIdentifier ==
    ASSUME NEW arg \in Argument, NEW ident \in [short : Identifier, long : Identifier],
           IdentifiedBy(arg, ident)
    PROVE  arg # Erased /\ MayBeIdentifier(arg)
<1>1. ASSUME NEW dash \in Argument, IsPrefix(dash, arg), Len(dash) >= 2, dash[1] = "-"
      PROVE  arg # Erased /\ MayBeIdentifier(arg)
  <2>1. /\ Len(arg) \in Nat /\ Len(dash) \in Nat /\ Len(arg) >= 2
        /\ SubSeq(dash, 1, Len(dash)) = SubSeq(arg, 1, Len(dash))
    BY <1>1 DEF IsPrefix, Argument
  <2>2. /\ SubSeq(dash, 1, Len(dash))[1] = dash[1]
        /\ SubSeq(arg, 1, Len(dash))[1] = arg[1]
    BY <1>1, <2>1 DEF Argument
  <2>3. arg[1] = "-" /\ arg # Erased /\ arg # <<"-">>
    BY <1>1, <2>1, <2>2 DEF Erased
  <2>4. QED
    BY <2>3 DEF MayBeIdentifier
<1>2. CASE ident.short # NoId /\ IsPrefix(prepend_dash_short(ident.short), arg)
  <2>1. prepend_dash_short(ident.short)[1] = "-"
    BY DEF prepend_dash_short
  <2>2. QED
    BY <1>1, <1>2, <2>1, DashTypes
<1>3. CASE ident.long # NoId /\ arg = prepend_dash_long(ident.long)
  <2>1. arg = <<"-", "-", ident.long>>
    BY <1>3 DEF prepend_dash_long
  <2>2. Len(arg) = 3 /\ arg[1] = "-"
    BY <2>1
  <2>3. arg # <<>> /\ arg # <<"-">>
    BY <2>2
  <2>4. QED
    BY <2>2, <2>3 DEF MayBeIdentifier, Erased
<1>4. CASE ident.long # NoId /\ IsPrefix(Append(prepend_dash_long(ident.long), "="), arg)
  <2>1. Append(prepend_dash_long(ident.long), "=")[1] = "-"
    BY <1>4 DEF prepend_dash_long
  <2>2. Append(prepend_dash_long(ident.long), "=") \in Argument
        /\ Len(Append(prepend_dash_long(ident.long), "=")) >= 2
    BY <1>4, DashTypes
  <2>3. QED
    BY <1>1, <1>4, <2>1, <2>2
<1>5. QED
  BY <1>2, <1>3, <1>4 DEF IdentifiedBy

\* A prefix and the symbol behind it are a prefix.
LEMMA PrefixGrows ==
    ASSUME NEW arg \in Argument, NEW dash \in Argument, IsPrefix(dash, arg), Len(arg) > Len(dash)
    PROVE  /\ Append(dash, arg[Len(dash) + 1]) \in Argument
           /\ IsPrefix(Append(dash, arg[Len(dash) + 1]), arg)
<1>. DEFINE n == Len(dash)
            longer == Append(dash, arg[n + 1])
<1>1. /\ arg \in Seq(Symbol) /\ dash \in Seq(Symbol) /\ Len(arg) \in Nat /\ n \in Nat
      /\ n + 1 \in 1..Len(arg) /\ arg[n + 1] \in Symbol
  BY DEF Argument
<1>2. SubSeq(arg, 1, n) = dash
  <2>1. SubSeq(dash, 1, Len(dash)) = dash
    BY <1>1, SubSeqFull
  <2>2. QED
    BY <2>1 DEF IsPrefix
<1>3. longer \in Seq(Symbol) /\ Len(longer) = n + 1
  BY <1>1
<1>4. SubSeq(arg, 1, n + 1) = longer
  <2>1. SubSeq(arg, 1, n + 1) = Append(SubSeq(arg, 1, n), arg[n + 1])
    BY <1>1
  <2>2. QED
    BY <1>2, <2>1
<1>5. SubSeq(longer, 1, n + 1) = longer
  <2>. HIDE DEF longer, n
  <2>1. QED
    BY <1>3, SubSeqFull
<1>6. Len(longer) <= Len(arg)
  BY <1>1, <1>3
<1>. HIDE DEF longer
<1>7. longer \in Argument /\ IsPrefix(longer, arg)
  BY <1>3, <1>4, <1>5, <1>6 DEF IsPrefix, Argument
<1>8. QED
  BY <1>7 DEF longer

\* What is behind an identifier and an equal sign.
LEMMA PrefixWithEqual ==
    ASSUME NEW arg \in Argument, NEW dash \in Argument, IsPrefix(dash, arg), Len(arg) > Len(dash),
           arg[Len(dash) + 1] = "="
    PROVE  arg = Append(dash, "=") \o SubSeq(arg, Len(dash) + 2, Len(arg))
<1>. DEFINE more == Append(dash, "=")
<1>1. more \in Argument /\ IsPrefix(more, arg)
  BY PrefixGrows
<1>2. Len(dash) \in Nat /\ Len(more) = Len(dash) + 1
  BY DEF Argument
<1>. HIDE DEF more
<1>3. arg = more \o SubSeq(arg, Len(more) + 1, Len(arg))
  BY <1>1, PrefixSplits
<1>4. Len(more) + 1 = Len(dash) + 2
  BY <1>2
<1>5. arg = more \o SubSeq(arg, Len(dash) + 2, Len(arg))
  BY <1>3, <1>4
<1>6. QED
  BY <1>5 DEF more

\* What is behind an identifier alone.
LEMMA PrefixWithoutEqual ==
    ASSUME NEW arg \in Argument, NEW dash \in Argument, IsPrefix(dash, arg), Len(arg) > Len(dash),
           arg[Len(dash) + 1] # "=", NEW text, text = SubSeq(arg, Len(dash) + 1, Len(arg))
    PROVE  arg = dash \o text /\ text # <<>> /\ text[1] # "="
<1>1. /\ arg \in Seq(Symbol) /\ Len(dash) \in Nat /\ Len(arg) \in Nat
      /\ Len(dash) + 1 \in 1..Len(arg)
  BY DEF Argument
<1>. DEFINE n == Len(dash) + 1
<1>2. n \in Nat /\ n >= 1 /\ n <= Len(arg) /\ text = SubSeq(arg, n, Len(arg))
  BY <1>1
<1>3. arg[n] # "="
  OBVIOUS
<1>. HIDE DEF n
<1>4. \A i \in n..Len(arg) : arg[i] \in Symbol
  BY <1>1, <1>2
<1>5. Len(text) = Len(arg) - n + 1 /\ \A i \in 1..(Len(arg) - n + 1) : text[i] = arg[n + i - 1]
  <2>1. n \in Int /\ Len(arg) \in Int
    BY <1>1, <1>2
  <2>2. /\ Len(SubSeq(arg, n, Len(arg))) = IF n <= Len(arg) THEN Len(arg) - n + 1 ELSE 0
        /\ \A i \in 1..(Len(arg) - n + 1) : SubSeq(arg, n, Len(arg))[i] = arg[n + i - 1]
    BY <1>4, <2>1, SubSeqProperties
  <2>3. QED
    BY <1>2, <2>2
<1>6. 1 \in 1..(Len(arg) - n + 1) /\ n + 1 - 1 = n
  BY <1>1, <1>2
<1>7. text[1] = arg[n] /\ Len(text) # 0
  BY <1>1, <1>2, <1>5, <1>6
<1>8. QED
  BY <1>3, <1>7, PrefixSplits

\* What is behind a long identifier that is glued to its value.
LEMMA EqualIsBehind ==
    ASSUME NEW arg \in Argument, NEW dash \in Argument, IsPrefix(Append(dash, "="), arg)
    PROVE  Len(arg) > Len(dash) /\ arg[Len(dash) + 1] = "=" /\ IsPrefix(dash, arg)
<1>. DEFINE more == Append(dash, "=")
            n == Len(dash)
<1>1. /\ arg \in Seq(Symbol) /\ dash \in Seq(Symbol) /\ more \in Seq(Symbol)
      /\ Len(arg) \in Nat /\ n \in Nat /\ Len(more) = n + 1
      /\ more[n + 1] = "=" /\ \A i \in 1..n : more[i] = dash[i]
  BY SymbolAssumption DEF Argument
<1>2. n + 1 <= Len(arg) /\ SubSeq(more, 1, n + 1) = SubSeq(arg, 1, n + 1)
  BY <1>1 DEF IsPrefix
<1>. HIDE DEF more, n
<1>3. \A i \in 1..(n + 1) : SubSeq(more, 1, n + 1)[i] = more[i] /\ SubSeq(arg, 1, n + 1)[i] = arg[i]
  BY <1>1, <1>2
<1>4. \A i \in 1..(n + 1) : arg[i] = more[i]
  BY <1>2, <1>3
<1>5. n + 1 \in 1..(n + 1) /\ 1..n \subseteq 1..(n + 1)
  BY <1>1
<1>6. arg[n + 1] = "=" /\ \A i \in 1..n : arg[i] = dash[i]
  BY <1>1, <1>4, <1>5
<1>7. SubSeq(dash, 1, n) = SubSeq(arg, 1, n)
  <2>1. /\ \A i \in 1..n : dash[i] \in Symbol /\ arg[i] \in Symbol
        /\ n \in Nat
    BY <1>1, <1>2 DEF n
  <2>2. /\ SubSeq(dash, 1, n) \in Seq(Symbol) /\ SubSeq(arg, 1, n) \in Seq(Symbol)
        /\ Len(SubSeq(dash, 1, n)) = n /\ Len(SubSeq(arg, 1, n)) = n
        /\ \A i \in 1..n : SubSeq(dash, 1, n)[i] = dash[i] /\ SubSeq(arg, 1, n)[i] = arg[i]
    BY <2>1, <1>1, <1>2
  <2>3. QED
    BY <1>6, <2>1, <2>2, SeqEqual
<1>8. QED
  BY <1>1, <1>2, <1>6, <1>7 DEF IsPrefix, n

\* Where an option is found, either its value is glued to the identifier or
\* the argument is the identifier.
LEMMA FoundGluesOrSpells ==
    ASSUME ParseTypeOK, pc = "retrieve", IdentifiedBy(arguments[it], SearchedId)
    PROVE  /\ Glued /\ ~(GluedWithEqual /\ GluedText = <<>>)
                 => Glues(Option, arguments[it], GluedText)
           /\ ~Glued => Spells(Option, arguments[it])
<1>. DEFINE arg == arguments[it]
            dash == PrependDash
<1>1. arg \in Argument /\ Len(arg) \in Nat
  <2>1. it \in 1..Len(arguments)
    BY TextTypes DEF ParseTypeOK
  <2>2. QED
    BY <2>1, TextTypes DEF Argument
<1>2. Option.short \in Identifier /\ Option.long \in Identifier
  <2>1. Option \in OptionCall
    BY SetupProperties, ElementOfSeq DEF Option, ParseTypeOK, InOptions
  <2>. HIDE DEF arg, dash
  <2>2. QED
    BY <2>1 DEF OptionCall
<1>3. ASSUME dash \in Argument, IsPrefix(dash, arg), Glued, ~(GluedWithEqual /\ GluedText = <<>>)
      PROVE  \/ arg = Append(dash, "=") \o GluedText
             \/ arg = dash \o GluedText /\ GluedText # <<>> /\ GluedText[1] # "="
  <2>1. Len(arg) > Len(dash)
    BY <1>3 DEF Glued
  <2>2. CASE arg[Len(dash) + 1] = "="
    <3>1. GluedText = SubSeq(arg, Len(dash) + 2, Len(arg))
      BY <1>3, <2>2 DEF GluedText, GluedWithEqual
    <3>. HIDE DEF arg, dash
    <3>2. QED
      BY <1>1, <1>3, <2>1, <2>2, <3>1, PrefixWithEqual
  <2>3. CASE arg[Len(dash) + 1] # "="
    <3>1. GluedText = SubSeq(arg, Len(dash) + 1, Len(arg))
      BY <1>3, <2>3 DEF GluedText, GluedWithEqual
    <3>. HIDE DEF arg, dash
    <3>2. IsPrefix(dash, arg) /\ dash \in Argument
      BY <1>3
    <3>3. arg = dash \o GluedText /\ GluedText # <<>> /\ GluedText[1] # "="
      BY <1>1, <2>1, <2>3, <3>1, <3>2, PrefixWithoutEqual
    <3>4. QED
      BY <3>3
  <2>4. QED
    BY <2>2, <2>3
<1>4. CASE id = "short"
  <2>1. /\ Option.short # NoId /\ IsPrefix(dash, arg) /\ dash = prepend_dash_short(Option.short)
        /\ dash \in Argument
    BY <1>2, <1>4, DashTypes DEF IdentifiedBy, SearchedId, OnlyShort, PrependDash
  <2>2. CASE ~Glued
    <3>1. ~(Len(arg) > Len(dash))
      BY <2>2 DEF Glued
    <3>. HIDE DEF arg, dash
    <3>2. arg = dash
      BY <1>1, <2>1, <3>1, PrefixIsAll
    <3>3. QED
      BY <2>1, <2>2, <3>2 DEF Spells, arg
  <2>3. CASE Glued
    BY <1>3, <2>1, <2>3 DEF Glues
  <2>4. QED
    BY <2>2, <2>3
<1>5. CASE id = "long"
  <2>1. /\ Option.long # NoId /\ dash = prepend_dash_long(Option.long)
        /\ arg = dash \/ IsPrefix(Append(dash, "="), arg)
        /\ dash \in Argument
    BY <1>2, <1>5, DashTypes DEF IdentifiedBy, SearchedId, OnlyLong, PrependDash
  <2>2. CASE arg = dash
    <3>1. ~(Len(arg) > Len(dash))
      BY <1>1, <2>2
    <3>2. ~Glued
      BY <3>1 DEF Glued
    <3>3. QED
      BY <2>1, <2>2, <3>2 DEF Spells
  <2>3. CASE IsPrefix(Append(dash, "="), arg)
    <3>1. Len(arg) > Len(dash) /\ arg[Len(dash) + 1] = "=" /\ IsPrefix(dash, arg)
      <4>. HIDE DEF arg, dash
      <4>1. QED
        BY <1>1, <2>1, <2>3, EqualIsBehind
    <3>2. Glued /\ GluedText = SubSeq(arg, Len(dash) + 2, Len(arg))
      BY <3>1 DEF Glued, GluedText, GluedWithEqual
    <3>3. arg = Append(dash, "=") \o SubSeq(arg, Len(dash) + 2, Len(arg))
      <4>. HIDE DEF arg, dash
      <4>1. QED
        BY <1>1, <2>1, <3>1, PrefixWithEqual
    <3>4. QED
      BY <2>1, <3>2, <3>3 DEF Glues
  <2>4. QED
    BY <2>1, <2>2, <2>3
<1>6. QED
  BY <1>4, <1>5 DEF ParseTypeOK

----------------------------------------------------------------------------
(***************************************************************************)
(* The arguments while they are taken apart: an option only erases, and a  *)
(* word is erased or left as it is by every pass.                          *)
(***************************************************************************)
ErasedOrLeft(p) == arguments[p] \in {Erased, format_arguments[p]}

ArgumentsInv ==
    /\ pc = "begin" => arguments = format_arguments
    /\ pc # "begin" => end_of_options_it = EndOfOptionsIn(format_arguments)
    /\ InOptions => \A p \in DOMAIN arguments : ErasedOrLeft(p)
    /\ \A p \in DOMAIN arguments : IsWord(p) => ErasedOrLeft(p)
    /\ pc = "retrieve" => IdentifiedBy(arguments[it], SearchedId)
    /\ Succeeded => Remaining = {}

\* Nothing is erased when parsing begins.
LEMMA InitArgumentsInv == ParseBegins => ArgumentsInv
BY DEF ParseBegins, ArgumentsInv, ErasedOrLeft, InOptions, Succeeded

\* Whatever is erased, an argument is erased or left as it is.
LEMMA EraseLeaves ==
    ASSUME ParseTypeOK, NEW positions, arguments' = Erase(positions)
    PROVE  /\ DOMAIN arguments' = DOMAIN arguments
           /\ \A p \in DOMAIN arguments :
                 /\ arguments'[p] \in {Erased, arguments[p]}
                 /\ p \notin positions => arguments'[p] = arguments[p]
                 /\ p \in positions => arguments'[p] = Erased
<1>1. /\ DOMAIN arguments = 1..Len(arguments) /\ Len(arguments') = Len(arguments)
      /\ arguments' \in Seq(Argument)
  BY TextTypes, EraseProperties DEF ParseTypeOK
<1>2. \A p \in DOMAIN arguments :
          arguments'[p] = IF p \in positions THEN Erased ELSE arguments[p]
  BY <1>1, EraseProperties DEF ParseTypeOK
<1>3. DOMAIN arguments' = DOMAIN arguments
  BY <1>1
<1>4. QED
  BY <1>2, <1>3

\* The first group that holds the letter of a flag is a group.
LEMMA FirstShortGroup ==
    ASSUME ParseTypeOK, ShortFlagPositions # {}
    PROVE  /\ Min(ShortFlagPositions) \in DOMAIN arguments
           /\ IsShortGroup(arguments[Min(ShortFlagPositions)])
           /\ arguments[Min(ShortFlagPositions)] # Erased
<1>. DEFINE q == Min(ShortFlagPositions)
<1>1. ShortFlagPositions \subseteq Nat
  BY TextTypes DEF ShortFlagPositions
<1>2. q \in ShortFlagPositions
  BY <1>1, MinIsFirst
<1>. HIDE DEF q
<1>3. q \in DOMAIN arguments /\ IsShortGroup(arguments[q])
  BY <1>2 DEF ShortFlagPositions
<1>4. ~IsShortGroup(Erased)
  BY DEF IsShortGroup, Erased
<1>5. QED
  BY <1>3, <1>4 DEF q

\* A group of flags is no word.
LEMMA ShortGroupIsNoWord ==
    ASSUME ArgumentsInv, NEW p \in DOMAIN arguments, IsShortGroup(arguments[p])
    PROVE  ~IsWord(p)
<1>1. ASSUME IsWord(p) PROVE FALSE
  <2>1. arguments[p] # Erased
    BY DEF IsShortGroup, Erased
  <2>2. arguments[p] = format_arguments[p]
    BY <1>1, <2>1 DEF ArgumentsInv, ErasedOrLeft
  <2>3. IsShortGroup(format_arguments[p]) /\ format_arguments[p] # Erased
    BY <2>1, <2>2
  <2>4. format_arguments[p] # <<"-">>
    BY <2>3 DEF IsShortGroup
  <2>5. MayBeIdentifier(format_arguments[p])
    BY <2>3, <2>4 DEF IsShortGroup, MayBeIdentifier
  <2>6. QED
    BY <1>1, <2>3, <2>5 DEF IsWord
<1>2. QED
  BY <1>1

\* What a pass does that erases arguments or changes groups of flags.
LEMMA PassKeepsArguments ==
    ASSUME ArgumentsInv, UNCHANGED <<format_arguments, end_of_options_it>>,
           DOMAIN arguments' = DOMAIN arguments,
           \A p \in DOMAIN arguments :
               \/ arguments'[p] \in {Erased, arguments[p]}
               \/ ~InOptions' /\ IsShortGroup(arguments[p]),
           InOptions' => InOptions, pc # "begin", pc' # "begin", pc' # "retrieve", ~Succeeded'
    PROVE  ArgumentsInv'
<1>1. \A p \in DOMAIN arguments : IsWord(p)' <=> IsWord(p)
  BY DEF IsWord
<1>2. ASSUME NEW p \in DOMAIN arguments, arguments'[p] \in {Erased, arguments[p]}, ErasedOrLeft(p)
      PROVE  ErasedOrLeft(p)'
  BY <1>2 DEF ErasedOrLeft
<1>3. ASSUME NEW p \in DOMAIN arguments, IsWord(p) PROVE ErasedOrLeft(p)'
  BY <1>2, <1>3, ShortGroupIsNoWord DEF ArgumentsInv
<1>4. ASSUME NEW p \in DOMAIN arguments, InOptions' PROVE ErasedOrLeft(p)'
  BY <1>2, <1>4 DEF ArgumentsInv
<1>5. QED
  BY <1>1, <1>3, <1>4 DEF ArgumentsInv

\* What looks for an identifier and changes no argument.
LEMMA LookUpKeepsArguments ==
    ASSUME ParseTypeOK, ArgumentsInv, LookUpOption \/ LookUpOptionAgain
    PROVE  ArgumentsInv'
<1>1. /\ UNCHANGED <<setup, format_arguments, arguments, end_of_options_it, call>>
      /\ InOptions /\ pc # "begin" /\ pc' # "begin" /\ ~Succeeded'
  BY DEF LookUpOption, LookUpOptionAgain, LeaveGetOptionById, Throw, InOptions, Succeeded, config
<1>2. ASSUME pc' = "retrieve" PROVE IdentifiedBy(arguments[it'], SearchedId) /\ id' = id
  <2>1. PICK begin \in {1, it} :
            LET found == find_option_id(arguments, begin, end_of_options_it, SearchedId)
            IN  it' = found /\ found # end_of_options_it /\ id' = id
    BY <1>2 DEF LookUpOption, LookUpOptionAgain, LeaveGetOptionById, Throw
  <2>2. begin \in Nat /\ end_of_options_it \in Nat
    BY TextTypes DEF ParseTypeOK
  <2>3. QED
    BY <2>1, <2>2, FindOptionIdFinds
<1>3. pc' = "retrieve" => SearchedId' = SearchedId
  BY <1>1, <1>2 DEF SearchedId, Option
<1>5. QED
  BY <1>1, <1>2, <1>3 DEF ArgumentsInv, ErasedOrLeft, IsWord, InOptions

\* Every step keeps the arguments so.
LEMMA NextArgumentsInv ==
    ASSUME ParseTypeOK, ArgumentsInv, [ParseStep]_parse_vars
    PROVE  ArgumentsInv'
<1>1. CASE FindEndOfOptions
  <2>1. /\ UNCHANGED <<format_arguments, arguments>> /\ pc = "begin"
        /\ pc' \in {"look_up", "flag", "check_unknown"}
        /\ end_of_options_it' = EndOfOptionsIn(arguments) /\ arguments = format_arguments
    BY <1>1 DEF FindEndOfOptions, AfterOptions, ArgumentsInv, config
  <2>2. QED
    BY <2>1 DEF ArgumentsInv, ErasedOrLeft, IsWord, Succeeded
<1>2. CASE LookUpOption \/ LookUpOptionAgain
  BY <1>2, LookUpKeepsArguments
<1>3. CASE RetrieveGluedValue \/ RetrieveSeparateValue \/ MissingOptionValue
  <2>1. /\ arguments' = arguments \/ \E positions : arguments' = Erase(positions)
        /\ UNCHANGED <<format_arguments, end_of_options_it>>
        /\ pc = "retrieve" /\ pc' \in {"look_up_again", "done"} /\ ~Succeeded'
    BY <1>3 DEF RetrieveGluedValue, RetrieveSeparateValue, MissingOptionValue, StoreOptionValue,
         Throw, InputError, Succeeded, config
  <2>2. DOMAIN arguments' = DOMAIN arguments
        /\ \A p \in DOMAIN arguments : arguments'[p] \in {Erased, arguments[p]}
    BY <2>1, EraseLeaves
  <2>3. QED
    BY <2>1, <2>2, PassKeepsArguments DEF InOptions
<1>4. CASE FinishOption
  <2>1. /\ UNCHANGED <<format_arguments, end_of_options_it, arguments>>
        /\ pc = "option_result" /\ pc' \in {"look_up", "flag", "check_unknown", "done"}
        /\ ~Succeeded'
    BY <1>4 DEF FinishOption, NextCall, AfterOptions, Throw, Succeeded, config
  <2>2. QED
    BY <2>1, PassKeepsArguments DEF InOptions
<1>5. CASE GetFlag
  <2>1. /\ UNCHANGED <<format_arguments, end_of_options_it>> /\ pc = "flag"
        /\ pc' \in {"flag", "check_unknown"}
    BY <1>5 DEF GetFlag, NextCall, config
  <2>2. CASE ShortFlagPositions # {}
    <3>. DEFINE q == Min(ShortFlagPositions)
    <3>2. q \in DOMAIN arguments /\ IsShortGroup(arguments[q])
      BY <2>2, FirstShortGroup
    <3>3. arguments' = [arguments EXCEPT ![q] = WithoutFlag(@, Flag.short)]
      BY <1>5, <2>2 DEF GetFlag
    <3>. HIDE DEF q
    <3>4. DOMAIN arguments' = DOMAIN arguments
          /\ \A p \in DOMAIN arguments : p # q => arguments'[p] = arguments[p]
      BY <3>3
    <3>5. QED
      BY <2>1, <3>2, <3>4, PassKeepsArguments DEF InOptions, Succeeded
  <2>3. CASE ShortFlagPositions = {}
    <3>1. arguments' = arguments \/ \E positions : arguments' = Erase(positions)
      BY <1>5, <2>3 DEF GetFlag
    <3>2. DOMAIN arguments' = DOMAIN arguments
          /\ \A p \in DOMAIN arguments : arguments'[p] \in {Erased, arguments[p]}
      BY <3>1, EraseLeaves
    <3>3. QED
      BY <2>1, <3>2, PassKeepsArguments DEF InOptions, Succeeded
  <2>4. QED
    BY <2>2, <2>3
<1>6. CASE CheckForUnknownIds \/ BeginPositionalOption \/ TakePositionalValue
           \/ FinishPositionalOption
  <2>1. /\ arguments' = arguments \/ \E positions : arguments' = Erase(positions)
        /\ UNCHANGED <<format_arguments, end_of_options_it>>
        /\ pc # "begin" /\ ~InOptions' /\ pc' # "begin" /\ ~Succeeded'
    BY <1>6 DEF CheckForUnknownIds, BeginPositionalOption, TakePositionalValue,
         FinishPositionalOption, Throw, InputError, NextCall, Succeeded, InOptions, config
  <2>2. DOMAIN arguments' = DOMAIN arguments
        /\ \A p \in DOMAIN arguments : arguments'[p] \in {Erased, arguments[p]}
    BY <2>1, EraseLeaves
  <2>3. QED
    BY <2>1, <2>2, PassKeepsArguments DEF InOptions
<1>7. CASE CheckForLeftOverArgs
  <2>1. /\ UNCHANGED <<format_arguments, arguments, end_of_options_it>> /\ pc = "left_over"
        /\ pc' = "done"
        /\ Succeeded' => Remaining = {}
    BY <1>7 DEF CheckForLeftOverArgs, Throw, Succeeded, config
  <2>2. QED
    BY <2>1 DEF ArgumentsInv, ErasedOrLeft, IsWord, InOptions, Remaining
<1>8. CASE UNCHANGED parse_vars
  BY <1>8 DEF parse_vars, config, lookup, ArgumentsInv, ErasedOrLeft, IsWord, InOptions,
         SearchedId, Option, Succeeded, Remaining
<1>9. QED
  BY <1>1, <1>2, <1>3, <1>4, <1>5, <1>6, <1>7, <1>8 DEF ParseStep

----------------------------------------------------------------------------
(***************************************************************************)
(* The values of the options.  The strengthening: where a value was read   *)
(* the argument is erased, so it is not read again, and a container that   *)
(* is being filled has its values from in front of option_it.              *)
(***************************************************************************)
ReadFrom(values) == \A p \in Positions(values) : p \in DOMAIN arguments /\ arguments[p] = Erased

OptionPlaces ==
    /\ OptionsReadTheirOwn
    /\ \A o \in DOMAIN option_value : ReadFrom(option_value[o])
    /\ pc = "retrieve" /\ Option.list =>
          /\ AllRead(option_value[call])
          /\ \A p \in Positions(option_value[call]) : p < it
    /\ pc = "look_up_again" =>
          /\ AllRead(option_value[call])
          /\ \A p \in Positions(option_value[call]) : p <= it
    /\ pc = "begin" => \A o \in DOMAIN option_value : option_value[o] = <<Default>>

\* A default has no position.
LEMMA DefaultHasNoPlace ==
    /\ Positions(<<Default>>) = {} /\ InOrder(<<Default>>)
    /\ Positions(<<>>) = {} /\ InOrder(<<>>)
BY DEF Positions, InOrder, Default

\* Nothing has been read when parsing begins.
LEMMA InitOptionPlaces == ParseBegins => OptionPlaces
<1>. SUFFICES ASSUME ParseBegins PROVE OptionPlaces
  OBVIOUS
<1>1. pc = "begin" /\ \A o \in DOMAIN option_value : option_value[o] = <<Default>>
  BY DEF ParseBegins
<1>2. \A j \in DOMAIN <<Default>> : <<Default>>[j].at = 0
  BY DEF Default
<1>3. OptionsReadTheirOwn
  BY <1>1, <1>2, DefaultHasNoPlace DEF OptionsReadTheirOwn
<1>4. QED
  BY <1>1, <1>3, DefaultHasNoPlace DEF OptionPlaces, ReadFrom

\* Erasing keeps what was read.
LEMMA ErasingKeepsRead ==
    ASSUME NEW values, ReadFrom(values), DOMAIN arguments' = DOMAIN arguments,
           \A p \in DOMAIN arguments : arguments[p] = Erased => arguments'[p] = Erased
    PROVE  \A p \in Positions(values) : p \in DOMAIN arguments' /\ arguments'[p] = Erased
BY DEF ReadFrom

\* A stored value comes behind those the container had.
LEMMA StoredInOrder ==
    ASSUME NEW values \in Seq(Value), NEW c, NEW text \in Argument, NEW p \in Nat \ {0},
           InOrder(values),
           c.list => AllRead(values) /\ \A q \in Positions(values) : q < p
    PROVE  /\ InOrder(Stored(values, c, text, p))
           /\ AllRead(Stored(values, c, text, p))
           /\ Positions(Stored(values, c, text, p)) \subseteq
                 {p} \cup IF c.list THEN Positions(values) ELSE {}
           /\ \A q \in Positions(Stored(values, c, text, p)) : q <= p
<1>. DEFINE read == [text |-> text, at |-> p]
<1>1. read \in Value /\ read.at = p
  BY ValueType
<1>. HIDE DEF read
<1>2. CASE ~c.list
  <2>1. Stored(values, c, text, p) = <<read>>
    BY <1>2 DEF Stored, read
  <2>2. DOMAIN <<read>> = {1} /\ <<read>>[1] = read
    OBVIOUS
  <2>3. InOrder(<<read>>) /\ AllRead(<<read>>) /\ Positions(<<read>>) = {p}
    BY <1>1, <2>2 DEF InOrder, AllRead, Positions
  <2>4. QED
    BY <2>1, <2>3
<1>3. CASE c.list
  <2>. DEFINE all == Append(values, read)
              n   == Len(values)
  <2>1. Stored(values, c, text, p) = all
    BY <1>3 DEF Stored, read
  <2>2. /\ n \in Nat /\ DOMAIN values = 1..n /\ DOMAIN all = 1..(n + 1)
        /\ all[n + 1] = read /\ \A j \in 1..n : all[j] = values[j]
    BY <1>1
  <2>. HIDE DEF all, n
  <2>3. \A j \in 1..n : values[j].at # 0 /\ values[j].at \in Positions(values) /\ values[j].at < p
    BY <1>3, <2>2 DEF AllRead, Positions
  <2>4. \A j \in 1..(n + 1) : j \in 1..n \/ j = n + 1
    BY <2>2
  <2>5. \A j \in 1..(n + 1) : all[j].at # 0 /\ (all[j].at = p \/ all[j].at \in Positions(values))
    BY <1>1, <2>2, <2>3, <2>4
  <2>6. InOrder(all)
    <3>1. SUFFICES ASSUME NEW i \in 1..(n + 1), NEW j \in 1..(n + 1), i < j
                   PROVE  all[i].at < all[j].at
      BY <2>2 DEF InOrder
    <3>2. i \in 1..n
      BY <2>2, <3>1
    <3>3. CASE j \in 1..n
      BY <2>2, <3>1, <3>2, <3>3 DEF InOrder
    <3>4. CASE j = n + 1
      BY <1>1, <2>2, <2>3, <3>2, <3>4
    <3>5. QED
      BY <2>4, <3>3, <3>4
  <2>7. AllRead(all)
    BY <2>2, <2>5 DEF AllRead
  <2>8. Positions(all) \subseteq {p} \cup Positions(values)
    BY <2>2, <2>5 DEF Positions
  <2>9. \A q \in Positions(all) : q <= p
    <3>1. SUFFICES ASSUME NEW j \in 1..(n + 1) PROVE all[j].at <= p
      BY <2>2 DEF Positions
    <3>2. j \in 1..n => values[j].at \in Nat
      <4>1. j \in 1..n => values[j] \in Value
        BY <2>2, ElementOfSeq DEF n
      <4>2. QED
        BY <4>1 DEF Value
    <3>3. QED
      BY <1>1, <2>2, <2>3, <2>4, <3>2
  <2>10. QED
    BY <1>3, <2>1, <2>6, <2>7, <2>8, <2>9
<1>4. QED
  BY <1>2, <1>3

\* A retrieved value stands where it was typed.
LEMMA RetrievedIsReadFor ==
    ASSUME ParseTypeOK, ArgumentsInv, RetrieveGluedValue \/ RetrieveSeparateValue
    PROVE  \E text \in Argument : \E p \in DOMAIN arguments :
              /\ StoreOptionValue(text, p) /\ it <= p
              /\ ReadFor(Option, [text |-> text, at |-> p])
<1>1. /\ it \in 1..Len(arguments) /\ it < end_of_options_it /\ pc = "retrieve" /\ it \in DOMAIN arguments
      /\ end_of_options_it \in Nat /\ DOMAIN arguments = 1..Len(arguments) /\ Len(arguments) \in Nat
      /\ end_of_options_it <= Len(arguments) + 1
      /\ end_of_options_it = EndOfOptionsIn(format_arguments)
  BY TextTypes DEF RetrieveGluedValue, RetrieveSeparateValue, ParseTypeOK, ArgumentsInv
<1>2. IdentifiedBy(arguments[it], SearchedId) /\ ErasedOrLeft(it)
  BY <1>1 DEF ArgumentsInv, InOptions
<1>3. arguments[it] = format_arguments[it]
  BY <1>2, ErasedNamesNothing DEF ErasedOrLeft
<1>4. CASE RetrieveGluedValue
  <2>1. StoreOptionValue(GluedText, it) /\ GluedText \in Argument
        /\ Glued /\ ~(GluedWithEqual /\ GluedText = <<>>)
    BY <1>1, <1>4, TextTypes DEF RetrieveGluedValue
  <2>2. Glues(Option, format_arguments[it], GluedText)
    BY <1>1, <1>2, <1>3, <2>1, FoundGluesOrSpells
  <2>3. ReadFor(Option, [text |-> GluedText, at |-> it])
    BY <1>1, <2>2 DEF ReadFor
  <2>4. QED
    BY <1>1, <2>1, <2>3
<1>5. CASE RetrieveSeparateValue
  <2>. DEFINE p == it + 1
              text == arguments[p]
  <2>1. StoreOptionValue(text, p) /\ ~Glued /\ p # end_of_options_it
    BY <1>5 DEF RetrieveSeparateValue, NoSeparateValue
  <2>2. p \in DOMAIN arguments /\ p < end_of_options_it /\ p > 1 /\ p - 1 = it /\ it <= p
    BY <1>1, <2>1
  <2>3. text \in {Erased, format_arguments[p]} /\ text \in Argument
    BY <1>1, <2>2, TextTypes DEF ArgumentsInv, InOptions, ErasedOrLeft
  <2>4. Spells(Option, format_arguments[it])
    BY <1>1, <1>2, <1>3, <2>1, FoundGluesOrSpells
  <2>. HIDE DEF p, text
  <2>5. Behind(Option, p)
    BY <2>2, <2>4 DEF Behind
  <2>6. ReadFor(Option, [text |-> text, at |-> p])
    BY <1>1, <2>2, <2>3, <2>5 DEF ReadFor
  <2>7. QED
    BY <2>1, <2>2, <2>3, <2>6
<1>6. QED
  BY <1>4, <1>5

\* What is erased stays erased.
LEMMA StepKeepsErased ==
    ASSUME ParseTypeOK, [ParseStep]_parse_vars
    PROVE  /\ DOMAIN arguments' = DOMAIN arguments
           /\ \A p \in DOMAIN arguments : arguments[p] = Erased => arguments'[p] = Erased
<1>1. ASSUME arguments' = arguments \/ \E positions : arguments' = Erase(positions)
      PROVE  /\ DOMAIN arguments' = DOMAIN arguments
             /\ \A p \in DOMAIN arguments : arguments[p] = Erased => arguments'[p] = Erased
  BY <1>1, EraseLeaves
<1>2. CASE GetFlag
  <2>1. CASE ShortFlagPositions # {}
    <3>. DEFINE q == Min(ShortFlagPositions)
    <3>2. q \in DOMAIN arguments /\ arguments[q] # Erased
      BY <2>1, FirstShortGroup
    <3>3. arguments' = [arguments EXCEPT ![q] = WithoutFlag(@, Flag.short)]
      BY <1>2, <2>1 DEF GetFlag
    <3>. HIDE DEF q
    <3>4. QED
      BY <3>2, <3>3
  <2>2. CASE ShortFlagPositions = {}
    BY <1>1, <1>2, <2>2 DEF GetFlag
  <2>3. QED
    BY <2>1, <2>2
<1>3. CASE LookUpOption \/ LookUpOptionAgain \/ FindEndOfOptions \/ FinishOption
  BY <1>3 DEF LookUpOption, LookUpOptionAgain, FindEndOfOptions, FinishOption
<1>4. CASE RetrieveGluedValue \/ RetrieveSeparateValue \/ MissingOptionValue
  BY <1>1, <1>4 DEF RetrieveGluedValue, RetrieveSeparateValue, MissingOptionValue, StoreOptionValue
<1>5. CASE CheckForUnknownIds \/ BeginPositionalOption \/ TakePositionalValue
           \/ FinishPositionalOption \/ CheckForLeftOverArgs
  BY <1>1, <1>5 DEF CheckForUnknownIds, BeginPositionalOption, TakePositionalValue,
         FinishPositionalOption, CheckForLeftOverArgs
<1>6. CASE UNCHANGED parse_vars
  BY <1>6 DEF parse_vars
<1>7. QED
  BY <1>2, <1>3, <1>4, <1>5, <1>6 DEF ParseStep

\* Steps that take no value and do not go on with the option.
LEMMA OtherStepKeepsOptionPlaces ==
    ASSUME OptionPlaces, UNCHANGED <<setup, format_arguments, option_value>>,
           DOMAIN arguments' = DOMAIN arguments,
           \A p \in DOMAIN arguments : arguments[p] = Erased => arguments'[p] = Erased,
           pc' \notin {"begin", "retrieve", "look_up_again"}
    PROVE  OptionPlaces'
<1>1. OptionsReadTheirOwn'
  BY DEF OptionPlaces, OptionsReadTheirOwn, ReadFor, Behind, InOrder
<1>2. \A o \in DOMAIN option_value : ReadFrom(option_value[o])'
  BY ErasingKeepsRead DEF OptionPlaces, ReadFrom, Positions
<1>3. QED
  BY <1>1, <1>2 DEF OptionPlaces

\* A variable of an option changes.
LEMMA ChangedOption ==
    ASSUME ParseTypeOK, OptionPlaces, UNCHANGED <<setup, format_arguments>>,
           DOMAIN arguments' = DOMAIN arguments,
           \A p \in DOMAIN arguments : arguments[p] = Erased => arguments'[p] = Erased,
           call \in DOMAIN option_value, NEW values,
           option_value' = [option_value EXCEPT ![call] = values],
           \A j \in DOMAIN values : values[j].at # 0 => ReadFor(Option, values[j]),
           InOrder(values),
           \A p \in Positions(values) : p \in DOMAIN arguments /\ arguments'[p] = Erased
    PROVE  OptionsReadTheirOwn' /\ \A o \in DOMAIN option_value' : ReadFrom(option_value[o])'
<1>1. /\ DOMAIN option_value' = DOMAIN option_value /\ option_value'[call] = values
      /\ \A o \in DOMAIN option_value : o # call => option_value'[o] = option_value[o]
  OBVIOUS
<1>2. ASSUME NEW o \in DOMAIN option_value
      PROVE  /\ \A j \in DOMAIN option_value'[o] :
                    option_value'[o][j].at # 0 => ReadFor(setup.options[o], option_value'[o][j])
             /\ InOrder(option_value'[o])
             /\ \A p \in Positions(option_value'[o]) : p \in DOMAIN arguments /\ arguments'[p] = Erased
  <2>1. CASE o = call
    BY <1>1, <2>1 DEF Option
  <2>2. CASE o # call
    BY <1>1, <1>2, <2>2 DEF OptionPlaces, OptionsReadTheirOwn, ReadFrom
  <2>3. QED
    BY <2>1, <2>2
<1>3. OptionsReadTheirOwn'
  BY <1>1, <1>2 DEF OptionsReadTheirOwn, ReadFor, Behind, InOrder
<1>4. \A o \in DOMAIN option_value' : ReadFrom(option_value[o])'
  BY <1>1, <1>2 DEF ReadFrom, Positions
<1>5. QED
  BY <1>3, <1>4

\* The first lookup clears a container.
LEMMA LookUpKeepsOptionPlaces ==
    ASSUME ParseTypeOK, OptionPlaces, LookUpOption
    PROVE  OptionPlaces'
<1>1. /\ UNCHANGED <<setup, format_arguments, arguments, call>> /\ pc = "look_up"
      /\ pc' \in {"retrieve", "look_up", "option_result"} /\ Option' = Option
      /\ call \in DOMAIN option_value
  BY DEF LookUpOption, LeaveGetOptionById, config, Option, ParseTypeOK, InOptions
<1>2. CASE pc' # "retrieve"
  <2>1. option_value' = option_value
    BY <1>2 DEF LookUpOption
  <2>2. QED
    BY <1>1, <1>2, <2>1, OtherStepKeepsOptionPlaces
<1>3. CASE pc' = "retrieve" /\ ~Option.list
  <2>1. option_value' = option_value
    BY <1>3 DEF LookUpOption, LeaveGetOptionById, Forget
  <2>2. QED
    BY <1>1, <1>3, <2>1
       DEF OptionPlaces, OptionsReadTheirOwn, ReadFor, Behind, InOrder, ReadFrom, Positions
<1>4. CASE pc' = "retrieve" /\ Option.list
  <2>1. option_value' = [option_value EXCEPT ![call] = <<>>]
    BY <1>4 DEF LookUpOption, LeaveGetOptionById, Forget
  <2>. DEFINE values == <<>>
  <2>2. InOrder(values) /\ Positions(values) = {} /\ DOMAIN values = {}
    BY DefaultHasNoPlace
  <2>3. option_value' = [option_value EXCEPT ![call] = values]
    BY <2>1
  <2>4. /\ \A j \in DOMAIN values : values[j].at # 0 => ReadFor(Option, values[j])
        /\ \A p \in Positions(values) : p \in DOMAIN arguments /\ arguments'[p] = Erased
        /\ DOMAIN arguments' = DOMAIN arguments
        /\ \A p \in DOMAIN arguments : arguments[p] = Erased => arguments'[p] = Erased
    BY <1>1, <2>2
  <2>. HIDE DEF values
  <2>5. OptionsReadTheirOwn' /\ \A o \in DOMAIN option_value' : ReadFrom(option_value[o])'
    BY <1>1, <2>2, <2>3, <2>4, ChangedOption
  <2>6. option_value'[call'] = <<>>
    BY <1>1, <2>1
  <2>7. QED
    BY <1>1, <1>4, <2>5, <2>6, DefaultHasNoPlace, ClearedIsRead DEF OptionPlaces
<1>5. QED
  BY <1>2, <1>3, <1>4

\* A retrieved value is put behind the others.
LEMMA RetrieveKeepsOptionPlaces ==
    ASSUME ParseTypeOK, ArgumentsInv, OptionPlaces, RetrieveGluedValue \/ RetrieveSeparateValue
    PROVE  OptionPlaces'
<1>1. PICK text \in Argument, p \in DOMAIN arguments :
          /\ StoreOptionValue(text, p) /\ it <= p
          /\ ReadFor(Option, [text |-> text, at |-> p])
  BY RetrievedIsReadFor
<1>2. /\ UNCHANGED <<setup, format_arguments, call>> /\ pc = "retrieve" /\ Option' = Option
      /\ call \in DOMAIN option_value /\ option_value[call] \in Seq(Value)
      /\ it \in Nat /\ p \in Nat \ {0} /\ DOMAIN arguments \subseteq Nat
      /\ it' = p /\ pc' \in {"look_up_again", "done"} /\ p \in it..p
  BY <1>1, TextTypes
     DEF RetrieveGluedValue, RetrieveSeparateValue, StoreOptionValue, Throw, config, Option,
         ParseTypeOK, InOptions
<1>3. /\ DOMAIN arguments' = DOMAIN arguments
      /\ \A q \in DOMAIN arguments : arguments[q] = Erased => arguments'[q] = Erased
      /\ arguments'[p] = Erased
  <2>1. arguments' = Erase(it..p)
    BY <1>1 DEF StoreOptionValue
  <2>2. QED
    BY <1>1, <1>2, <2>1, EraseLeaves
<1>4. Option.list => /\ AllRead(option_value[call])
                     /\ \A q \in Positions(option_value[call]) : q < p
  <2>1. ASSUME Option.list, NEW q \in Positions(option_value[call]) PROVE q < p
    <3>1. q < it /\ q \in Nat
      BY <1>2, <2>1 DEF OptionPlaces, ReadFrom
    <3>2. QED
      BY <1>1, <1>2, <3>1
  <2>2. QED
    BY <1>2, <2>1 DEF OptionPlaces
<1>5. CASE option_value' = option_value /\ (pc' = "done" \/ Option.list)
  <2>1. CASE pc' = "done"
    BY <1>2, <1>3, <1>5, <2>1, OtherStepKeepsOptionPlaces
  <2>2. CASE pc' = "look_up_again" /\ Option.list
    <3>1. OptionsReadTheirOwn' /\ \A o \in DOMAIN option_value' : ReadFrom(option_value[o])'
      BY <1>2, <1>3, <1>5, ErasingKeepsRead
         DEF OptionPlaces, OptionsReadTheirOwn, ReadFor, Behind, InOrder, ReadFrom, Positions
    <3>2. \A q \in Positions(option_value[call]) : q <= p
      BY <1>2, <1>4, <2>2 DEF OptionPlaces, ReadFrom
    <3>3. QED
      BY <1>2, <1>4, <1>5, <2>2, <3>1, <3>2 DEF OptionPlaces, AllRead, Positions
  <2>3. QED
    BY <1>2, <1>5, <2>1, <2>2
<1>6. CASE /\ option_value' = [option_value EXCEPT ![call] =
                                  Stored(option_value[call], Option, text, p)]
           /\ pc' = "look_up_again"
  <2>. DEFINE values == Stored(option_value[call], Option, text, p)
  <2>1. InOrder(option_value[call])
    BY <1>2 DEF OptionPlaces, OptionsReadTheirOwn
  <2>2. /\ InOrder(values) /\ AllRead(values)
        /\ Positions(values) \subseteq {p} \cup Positions(option_value[call])
        /\ \A q \in Positions(values) : q <= p
    BY <1>2, <1>4, <2>1, StoredInOrder
  <2>3. \A j \in DOMAIN values : \/ j \in DOMAIN option_value[call] /\ values[j] = option_value[call][j]
                                 \/ values[j] = [text |-> text, at |-> p]
    BY <1>2, StoredProperties
  <2>. HIDE DEF values
  <2>4. \A j \in DOMAIN values : values[j].at # 0 => ReadFor(Option, values[j])
    BY <1>1, <1>2, <2>3 DEF OptionPlaces, OptionsReadTheirOwn, Option
  <2>5. \A q \in Positions(values) : q \in DOMAIN arguments /\ arguments'[q] = Erased
    BY <1>1, <1>2, <1>3, <2>2 DEF OptionPlaces, ReadFrom
  <2>6. option_value' = [option_value EXCEPT ![call] = values]
    BY <1>6 DEF values
  <2>7. OptionsReadTheirOwn' /\ \A o \in DOMAIN option_value' : ReadFrom(option_value[o])'
    BY <1>2, <1>3, <2>2, <2>4, <2>5, <2>6, ChangedOption
  <2>8. option_value'[call'] = values
    BY <1>2, <2>6
  <2>9. QED
    BY <1>2, <1>6, <2>2, <2>7, <2>8 DEF OptionPlaces
<1>7. QED
  BY <1>1, <1>5, <1>6 DEF StoreOptionValue, IsDropped, Throw

\* A container that is looked for again is found behind what it has.
LEMMA LookUpAgainKeepsOptionPlaces ==
    ASSUME ParseTypeOK, OptionPlaces, LookUpOptionAgain
    PROVE  OptionPlaces'
<1>. DEFINE found == find_option_id(arguments, it, end_of_options_it, SearchedId)
<1>1. /\ UNCHANGED <<setup, format_arguments, arguments, call, option_value>>
      /\ pc = "look_up_again" /\ Option' = Option /\ call \in DOMAIN option_value
      /\ pc' = "retrieve" => Option.list /\ it' = found /\ found # end_of_options_it
      /\ pc' \in {"retrieve", "look_up", "option_result", "done"}
  BY DEF LookUpOptionAgain, LeaveGetOptionById, Throw, config, outputs, Option, ParseTypeOK,
         InOptions
<1>2. it \in Nat /\ end_of_options_it \in Nat /\ DOMAIN arguments \subseteq Nat
  BY TextTypes DEF ParseTypeOK
<1>3. found # end_of_options_it =>
          found \in it..(end_of_options_it - 1) /\ IdentifiedBy(arguments[found], SearchedId)
  BY <1>2, FindOptionIdFinds
<1>. HIDE DEF found
<1>4. CASE pc' = "retrieve"
  <2>1. ASSUME NEW p \in Positions(option_value[call]) PROVE p < found
    <3>1. p <= it /\ p \in Nat /\ arguments[p] = Erased
      BY <1>1, <1>2 DEF OptionPlaces, ReadFrom
    <3>2. p # found
      BY <1>1, <1>3, <1>4, <3>1, ErasedNamesNothing
    <3>3. QED
      BY <1>1, <1>2, <1>3, <1>4, <3>1, <3>2
  <2>2. AllRead(option_value[call])
    BY <1>1 DEF OptionPlaces
  <2>3. QED
    BY <1>1, <1>4, <2>1, <2>2
       DEF OptionPlaces, OptionsReadTheirOwn, ReadFor, Behind, InOrder, ReadFrom, Positions,
           AllRead
<1>5. CASE pc' # "retrieve"
  BY <1>1, <1>5, OtherStepKeepsOptionPlaces
<1>6. QED
  BY <1>4, <1>5

\* Every step keeps the values of the options where they were typed.
LEMMA NextOptionPlaces ==
    ASSUME ParseTypeOK, ArgumentsInv, OptionPlaces, [ParseStep]_parse_vars
    PROVE  OptionPlaces'
<1>0. /\ DOMAIN arguments' = DOMAIN arguments
      /\ \A p \in DOMAIN arguments : arguments[p] = Erased => arguments'[p] = Erased
  BY StepKeepsErased
<1>1. CASE FindEndOfOptions \/ MissingOptionValue \/ FinishOption \/ GetFlag \/ CheckForUnknownIds
           \/ BeginPositionalOption \/ TakePositionalValue \/ FinishPositionalOption
           \/ CheckForLeftOverArgs
  <2>1. /\ UNCHANGED <<setup, format_arguments, option_value>>
        /\ pc' \notin {"begin", "retrieve", "look_up_again"}
    BY <1>1 DEF FindEndOfOptions, MissingOptionValue, FinishOption, GetFlag, CheckForUnknownIds,
         BeginPositionalOption, TakePositionalValue, FinishPositionalOption,
         CheckForLeftOverArgs, AfterOptions, NextCall, Throw, config, outputs
  <2>2. QED
    BY <1>0, <2>1, OtherStepKeepsOptionPlaces
<1>2. CASE UNCHANGED parse_vars
  BY <1>2 DEF parse_vars, config, lookup, outputs, OptionPlaces, OptionsReadTheirOwn, ReadFor,
         Behind, InOrder, ReadFrom, Positions, AllRead, Option
<1>3. QED
  BY <1>1, <1>2, LookUpKeepsOptionPlaces, RetrieveKeepsOptionPlaces, LookUpAgainKeepsOptionPlaces
     DEF ParseStep

----------------------------------------------------------------------------
(***************************************************************************)
(* No text reaches two options: where an option has read the argument is   *)
(* erased, so what a later one reads there is the empty string.            *)
(***************************************************************************)
\* What a retrieval reads is empty or stands where nothing has been read.
LEMMA RetrievedIsNewOrErased ==
    ASSUME ParseTypeOK, OptionPlaces, RetrieveGluedValue \/ RetrieveSeparateValue
    PROVE  \E text \in Argument : \E p \in Nat :
              /\ StoreOptionValue(text, p)
              /\ \/ text = Erased
                 \/ \A o \in DOMAIN option_value : p \notin Positions(option_value[o])
<1>1. it \in Nat /\ it \in DOMAIN arguments /\ end_of_options_it <= Len(arguments) + 1
      /\ it < end_of_options_it /\ end_of_options_it \in Nat
      /\ DOMAIN arguments = 1..Len(arguments) /\ Len(arguments) \in Nat
  BY TextTypes DEF RetrieveGluedValue, RetrieveSeparateValue, ParseTypeOK
<1>2. CASE RetrieveGluedValue
  <2>1. StoreOptionValue(GluedText, it) /\ GluedText \in Argument /\ Glued
    BY <1>1, <1>2, TextTypes DEF RetrieveGluedValue
  <2>2. arguments[it] # Erased
    <3>1. Len(PrependDash) \in Nat /\ Len(Erased) = 0
      BY <1>1, <1>2, TextTypes DEF RetrieveGluedValue, Erased
    <3>2. QED
      BY <2>1, <3>1 DEF Glued
  <2>3. \A o \in DOMAIN option_value : it \notin Positions(option_value[o])
    BY <2>2 DEF OptionPlaces, ReadFrom
  <2>4. QED
    BY <1>1, <2>1, <2>3
<1>3. CASE RetrieveSeparateValue
  <2>. DEFINE p == it + 1
  <2>1. StoreOptionValue(arguments[p], p) /\ p # end_of_options_it
    BY <1>3 DEF RetrieveSeparateValue, NoSeparateValue
  <2>2. p \in DOMAIN arguments /\ p \in Nat
    BY <1>1, <2>1
  <2>3. arguments[p] \in Argument
    BY <2>2, TextTypes
  <2>. HIDE DEF p
  <2>4. \/ arguments[p] = Erased
        \/ \A o \in DOMAIN option_value : p \notin Positions(option_value[o])
    BY DEF OptionPlaces, ReadFrom
  <2>5. QED
    BY <2>1, <2>2, <2>3, <2>4
<1>4. QED
  BY <1>2, <1>3

\* The values a retrieval leaves the running option.
LEMMA StoredIsOldOrNew ==
    ASSUME ParseTypeOK, call \in DOMAIN option_value, NEW text \in Argument, NEW p \in Nat,
           StoreOptionValue(text, p)
    PROVE  /\ DOMAIN option_value' = DOMAIN option_value
           /\ \A o \in DOMAIN option_value : \A j \in DOMAIN option_value'[o] :
                 \/ j \in DOMAIN option_value[o] /\ option_value'[o][j] = option_value[o][j]
                 \/ o = call /\ option_value'[o][j] = [text |-> text, at |-> p]
<1>1. option_value[call] \in Seq(Value)
  BY DEF ParseTypeOK
<1>2. CASE option_value' = option_value
  BY <1>2
<1>3. CASE option_value' = [option_value EXCEPT ![call] =
                               Stored(option_value[call], Option, text, p)]
  <2>. DEFINE values == Stored(option_value[call], Option, text, p)
  <2>1. \A j \in DOMAIN values : \/ j \in DOMAIN option_value[call] /\ values[j] = option_value[call][j]
                                 \/ values[j] = [text |-> text, at |-> p]
    BY <1>1, StoredProperties
  <2>. HIDE DEF values
  <2>2. option_value' = [option_value EXCEPT ![call] = values]
    BY <1>3 DEF values
  <2>3. QED
    BY <2>1, <2>2
<1>4. QED
  BY <1>2, <1>3 DEF StoreOptionValue

LEMMA RetrieveUsesNoTextTwice ==
    ASSUME ParseTypeOK, OptionPlaces, NoTextIsUsedTwice,
           RetrieveGluedValue \/ RetrieveSeparateValue
    PROVE  NoTextIsUsedTwice'
<1>1. PICK text \in Argument, p \in Nat :
          /\ StoreOptionValue(text, p)
          /\ \/ text = Erased
             \/ \A o \in DOMAIN option_value : p \notin Positions(option_value[o])
  BY RetrievedIsNewOrErased
<1>2. call \in DOMAIN option_value
  BY DEF RetrieveGluedValue, RetrieveSeparateValue, ParseTypeOK, InOptions
<1>3. /\ DOMAIN option_value' = DOMAIN option_value
      /\ \A o \in DOMAIN option_value : \A j \in DOMAIN option_value'[o] :
            \/ j \in DOMAIN option_value[o] /\ option_value'[o][j] = option_value[o][j]
            \/ o = call /\ option_value'[o][j] = [text |-> text, at |-> p]
  BY <1>1, <1>2, StoredIsOldOrNew
<1>. DEFINE new == [text |-> text, at |-> p]
<1>4. new.text = text /\ new.at = p
  OBVIOUS
<1>. HIDE DEF new
<1>5. ASSUME NEW o \in DOMAIN option_value, NEW j \in DOMAIN option_value[o],
             option_value[o][j].at = p, p # 0
      PROVE  text = Erased
  BY <1>1, <1>5 DEF Positions
<1>6. SUFFICES ASSUME NEW m \in DOMAIN option_value, NEW n \in DOMAIN option_value, m # n,
                      NEW i \in DOMAIN option_value'[m], NEW j \in DOMAIN option_value'[n],
                      option_value'[m][i].at = option_value'[n][j].at,
                      option_value'[m][i].at # 0
               PROVE  \/ option_value'[m][i].text = Erased
                      \/ option_value'[n][j].text = Erased
  BY <1>3 DEF NoTextIsUsedTwice
<1>7. \/ i \in DOMAIN option_value[m] /\ option_value'[m][i] = option_value[m][i]
      \/ m = call /\ option_value'[m][i] = new
  BY <1>3 DEF new
<1>8. \/ j \in DOMAIN option_value[n] /\ option_value'[n][j] = option_value[n][j]
      \/ n = call /\ option_value'[n][j] = new
  BY <1>3 DEF new
<1>9. CASE i \in DOMAIN option_value[m] /\ option_value'[m][i] = option_value[m][i]
  <2>1. CASE j \in DOMAIN option_value[n] /\ option_value'[n][j] = option_value[n][j]
    BY <1>6, <1>9, <2>1 DEF NoTextIsUsedTwice
  <2>2. CASE n = call /\ option_value'[n][j] = new
    BY <1>4, <1>5, <1>6, <1>9, <2>2
  <2>3. QED
    BY <1>8, <2>1, <2>2
<1>10. CASE m = call /\ option_value'[m][i] = new
  BY <1>4, <1>5, <1>6, <1>8, <1>10
<1>11. QED
  BY <1>7, <1>9, <1>10

\* A first lookup can only take values away; the other steps leave them.
LEMMA NextUsesNoTextTwice ==
    ASSUME ParseTypeOK, OptionPlaces, NoTextIsUsedTwice, [ParseStep]_parse_vars
    PROVE  NoTextIsUsedTwice'
<1>1. CASE LookUpOption
  <2>1. call \in DOMAIN option_value
    BY <1>1 DEF LookUpOption, ParseTypeOK, InOptions
  <2>2. \/ option_value' = option_value
        \/ option_value' = [option_value EXCEPT ![call] = <<>>]
    BY <1>1 DEF LookUpOption, Forget
  <2>3. /\ DOMAIN option_value' = DOMAIN option_value
        /\ \A o \in DOMAIN option_value : \A j \in DOMAIN option_value'[o] :
              j \in DOMAIN option_value[o] /\ option_value'[o][j] = option_value[o][j]
    BY <2>1, <2>2
  <2>4. QED
    BY <2>3 DEF NoTextIsUsedTwice
<1>2. CASE FindEndOfOptions \/ MissingOptionValue \/ LookUpOptionAgain \/ FinishOption \/ GetFlag
           \/ CheckForUnknownIds \/ BeginPositionalOption \/ TakePositionalValue
           \/ FinishPositionalOption \/ CheckForLeftOverArgs \/ UNCHANGED parse_vars
  <2>1. option_value' = option_value
    BY <1>2 DEF FindEndOfOptions, MissingOptionValue, LookUpOptionAgain, FinishOption, GetFlag,
         CheckForUnknownIds, BeginPositionalOption, TakePositionalValue,
         FinishPositionalOption, CheckForLeftOverArgs, outputs, parse_vars
  <2>2. QED
    BY <2>1 DEF NoTextIsUsedTwice
<1>3. QED
  BY <1>1, <1>2, RetrieveUsesNoTextTwice DEF ParseStep

----------------------------------------------------------------------------
(***************************************************************************)
(* The values of the positional options.  The strengthening: everything up *)
(* to the last operand that was taken is erased, and the positional        *)
(* options whose turn has not come have taken none.                        *)
(***************************************************************************)
TakenFrom(values) ==
    \A p \in Positions(values) : p \in DOMAIN arguments /\ \A q \in 1..p : arguments[q] = Erased

PositionalPlaces ==
    /\ OperandsKeepTheirOrder
    /\ InPositionals => \A k \in DOMAIN positional_value : TakenFrom(positional_value[k])
    /\ ~InPositionals /\ pc # "done"
          => \A k \in DOMAIN positional_value : positional_value[k] = <<Default>>
    /\ \A k \in DOMAIN positional_value :
          \/ pc = "positional" /\ call <= k
          \/ pc \in {"take", "validate"} /\ call < k
          => Positions(positional_value[k]) = {}

\* The positional options are numbered.
LEMMA PositionalNumbers ==
    ASSUME ParseTypeOK
    PROVE  /\ DOMAIN positional_value = DOMAIN setup.positionals
           /\ DOMAIN positional_value \subseteq Nat /\ call \in Nat
           /\ pc \in {"positional", "take", "validate"} => call \in DOMAIN positional_value
<1>1. DOMAIN setup.positionals = 1..Len(setup.positionals)
  BY SetupProperties, LenProperties
<1>2. DOMAIN setup.positionals \subseteq Nat
  BY <1>1
<1>3. DOMAIN positional_value = DOMAIN setup.positionals
  BY DEF ParseTypeOK
<1>4. QED
  BY <1>2, <1>3 DEF ParseTypeOK

\* No operand has been taken when parsing begins.
LEMMA InitPositionalPlaces == ParseBegins => PositionalPlaces
<1>. SUFFICES ASSUME ParseBegins PROVE PositionalPlaces
  OBVIOUS
<1>1. pc = "begin" /\ \A k \in DOMAIN positional_value : positional_value[k] = <<Default>>
  BY DEF ParseBegins
<1>2. OperandsKeepTheirOrder
  BY <1>1, DefaultHasNoPlace DEF OperandsKeepTheirOrder
<1>3. QED
  BY <1>1, <1>2 DEF PositionalPlaces, InPositionals

\* Until the positional options begin, none of them takes anything.
LEMMA NothingIsTaken ==
    ASSUME PositionalPlaces, ~InPositionals, pc # "done",
           positional_value' = positional_value
    PROVE  PositionalPlaces'
<1>1. \A k \in DOMAIN positional_value : positional_value[k] = <<Default>>
  BY DEF PositionalPlaces
<1>2. \A k \in DOMAIN positional_value' : positional_value'[k] = <<Default>>
  BY <1>1
<1>3. OperandsKeepTheirOrder'
  BY <1>2, DefaultHasNoPlace DEF OperandsKeepTheirOrder, InOrder, Positions
<1>4. \A k \in DOMAIN positional_value' : Positions(positional_value'[k]) = {}
  BY <1>2, DefaultHasNoPlace
<1>5. \A k \in DOMAIN positional_value' : TakenFrom(positional_value[k])'
  BY <1>4 DEF TakenFrom, Positions
<1>6. QED
  BY <1>2, <1>3, <1>4, <1>5 DEF PositionalPlaces, Positions

\* A positional option changes: what it has now stands where it stood.
LEMMA BeginKeepsPositionalPlaces ==
    ASSUME ParseTypeOK, PositionalPlaces, BeginPositionalOption
    PROVE  PositionalPlaces'
<1>1. /\ UNCHANGED <<setup, arguments, call, option_value>> /\ pc = "positional"
      /\ pc' \in {"take", "done"} /\ call \in DOMAIN positional_value /\ InPositionals
      /\ DOMAIN positional_value \subseteq Nat
  BY PositionalNumbers DEF BeginPositionalOption, config, lookup, Throw, InPositionals
<1>2. /\ DOMAIN positional_value' = DOMAIN positional_value
      /\ \A k \in DOMAIN positional_value :
            positional_value'[k] = positional_value[k] \/ positional_value'[k] = <<>>
  BY <1>1 DEF BeginPositionalOption, Forget
<1>3. \A k \in DOMAIN positional_value :
          /\ InOrder(positional_value'[k])
          /\ Positions(positional_value'[k]) \subseteq Positions(positional_value[k])
  BY <1>2, DefaultHasNoPlace DEF PositionalPlaces, OperandsKeepTheirOrder
<1>4. OperandsKeepTheirOrder'
  <2>1. \A k \in DOMAIN positional_value' :
           /\ InOrder(positional_value'[k])
           /\ \A l \in DOMAIN positional_value' :
                 l < k => \A p \in Positions(positional_value'[l]), q \in Positions(positional_value'[k]) :
                             p < q
           /\ \A o \in DOMAIN option_value :
                 Positions(positional_value'[k]) \cap Positions(option_value[o]) = {}
    BY <1>2, <1>3 DEF PositionalPlaces, OperandsKeepTheirOrder
  <2>2. QED
    BY <1>1, <2>1 DEF OperandsKeepTheirOrder, InOrder, Positions
<1>5. \A k \in DOMAIN positional_value' : TakenFrom(positional_value[k])'
  <2>1. \A k \in DOMAIN positional_value : TakenFrom(positional_value[k])
    BY <1>1 DEF PositionalPlaces
  <2>2. \A k \in DOMAIN positional_value : TakenFrom(positional_value'[k])
    BY <1>2, <1>3, <2>1 DEF TakenFrom
  <2>3. QED
    BY <1>1, <1>2, <2>2 DEF TakenFrom, Positions
<1>6. \A k \in DOMAIN positional_value' : call < k => Positions(positional_value'[k]) = {}
  <2>1. \A k \in DOMAIN positional_value : call < k => Positions(positional_value[k]) = {}
    BY <1>1 DEF PositionalPlaces
  <2>2. QED
    BY <1>2, <1>3, <2>1
<1>7. QED
  BY <1>1, <1>4, <1>5, <1>6 DEF PositionalPlaces, InPositionals, Positions

\* The next call, or the end: nothing is taken.
LEMMA FinishKeepsPositionalPlaces ==
    ASSUME ParseTypeOK, PositionalPlaces, FinishPositionalOption \/ CheckForLeftOverArgs
    PROVE  PositionalPlaces'
<1>1. /\ UNCHANGED <<arguments, option_value, positional_value>> /\ InPositionals
      /\ DOMAIN positional_value \subseteq Nat /\ call \in Nat
      /\ pc' = "positional" => pc = "validate" /\ call' = call + 1
      /\ pc' \in {"positional", "left_over", "done"}
  BY PositionalNumbers
     DEF FinishPositionalOption, CheckForLeftOverArgs, outputs, Throw, NextCall, InPositionals
<1>2. OperandsKeepTheirOrder'
  BY <1>1 DEF PositionalPlaces, OperandsKeepTheirOrder, InOrder, Positions
<1>3. \A k \in DOMAIN positional_value' : TakenFrom(positional_value[k])'
  BY <1>1 DEF PositionalPlaces, TakenFrom, Positions
<1>4. \A k \in DOMAIN positional_value :
          pc' = "positional" /\ call' <= k => Positions(positional_value[k]) = {}
  BY <1>1 DEF PositionalPlaces
<1>5. QED
  BY <1>1, <1>2, <1>3, <1>4 DEF PositionalPlaces, InPositionals, Positions

\* The operand that is taken stands behind those that were taken, and no option has used it.
LEMMA FirstRemainingIsNew ==
    ASSUME ParseTypeOK, OptionPlaces, Remaining # {}
    PROVE  /\ \A values : TakenFrom(values) =>
                  \A q \in Positions(values) : q \in Nat => q < Min(Remaining)
           /\ \A o \in DOMAIN option_value : Min(Remaining) \notin Positions(option_value[o])
           /\ \A q \in 1..(Min(Remaining) - 1) : arguments[q] = Erased
<1>. DEFINE p == Min(Remaining)
<1>1. /\ p \in 1..Len(arguments) /\ arguments[p] # Erased
      /\ DOMAIN arguments = 1..Len(arguments) /\ Len(arguments) \in Nat
  BY FirstRemaining, TextTypes DEF Remaining
<1>2. \A q \in Remaining : p <= q
  BY <1>1, MinIsFirst DEF Remaining
<1>. HIDE DEF p
<1>3. \A q \in 1..(p - 1) : arguments[q] = Erased
  BY <1>1, <1>2 DEF Remaining
<1>4. ASSUME NEW values, TakenFrom(values), NEW q \in Positions(values), q \in Nat PROVE q < p
  <2>1. p \in 1..q => arguments[p] = Erased
    BY <1>4 DEF TakenFrom
  <2>2. QED
    BY <1>1, <1>4, <2>1
<1>5. \A o \in DOMAIN option_value : p \notin Positions(option_value[o])
  BY <1>1 DEF OptionPlaces, ReadFrom
<1>6. QED
  BY <1>3, <1>4, <1>5 DEF p

\* What has to hold of the values after a step.
LEMMA OrderOfOperands ==
    ASSUME option_value' = option_value,
           \A k \in DOMAIN positional_value' :
              /\ InOrder(positional_value'[k])
              /\ \A l \in DOMAIN positional_value' :
                    l < k => \A q \in Positions(positional_value'[l]),
                                r \in Positions(positional_value'[k]) : q < r
              /\ \A o \in DOMAIN option_value :
                    Positions(positional_value'[k]) \cap Positions(option_value[o]) = {}
    PROVE  OperandsKeepTheirOrder'
BY DEF OperandsKeepTheirOrder, InOrder, Positions

\* The positional option whose turn it is gets an operand.
LEMMA TakenInOrder ==
    ASSUME ParseTypeOK, PositionalPlaces, OptionPlaces, InPositionals,
           call \in DOMAIN positional_value, NEW values, NEW p \in DOMAIN arguments,
           arguments[p] # Erased,
           positional_value' = [positional_value EXCEPT ![call] = values],
           UNCHANGED <<option_value, setup>>,
           InOrder(values), Positions(values) \subseteq {p} \cup Positions(positional_value[call]),
           \A k \in DOMAIN positional_value : \A q \in Positions(positional_value[k]) : q < p,
           \A k \in DOMAIN positional_value : call < k => Positions(positional_value[k]) = {}
    PROVE  OperandsKeepTheirOrder'
<1>1. /\ DOMAIN positional_value' = DOMAIN positional_value /\ positional_value'[call] = values
      /\ \A k \in DOMAIN positional_value : k # call => positional_value'[k] = positional_value[k]
      /\ DOMAIN positional_value \subseteq Nat /\ call \in Nat
  BY PositionalNumbers
<1>2. \A o \in DOMAIN option_value : p \notin Positions(option_value[o])
  BY DEF OptionPlaces, ReadFrom
<1>3. ASSUME NEW k \in DOMAIN positional_value
      PROVE  /\ InOrder(positional_value'[k])
             /\ \A o \in DOMAIN option_value :
                   Positions(positional_value'[k]) \cap Positions(option_value[o]) = {}
  <2>1. CASE k = call
    <3>1. Positions(positional_value'[k]) \subseteq {p} \cup Positions(positional_value[k])
      BY <1>1, <2>1
    <3>2. QED
      BY <1>1, <1>2, <2>1, <3>1 DEF PositionalPlaces, OperandsKeepTheirOrder
  <2>2. CASE k # call
    BY <1>1, <2>2 DEF PositionalPlaces, OperandsKeepTheirOrder
  <2>3. QED
    BY <2>1, <2>2
<1>4. ASSUME NEW k \in DOMAIN positional_value, NEW l \in DOMAIN positional_value, l < k,
             NEW q \in Positions(positional_value'[l]), NEW r \in Positions(positional_value'[k])
      PROVE  q < r
  <2>1. l # k
    BY <1>1, <1>4
  <2>2. CASE k = call
    <3>1. q \in Positions(positional_value[l]) /\ q < p
      BY <1>1, <2>1, <2>2, <1>4
    <3>2. r = p \/ r \in Positions(positional_value[k])
      BY <1>1, <2>2, <1>4
    <3>3. QED
      BY <1>4, <3>1, <3>2 DEF PositionalPlaces, OperandsKeepTheirOrder
  <2>3. CASE l = call
    BY <1>1, <1>4, <2>1, <2>3
  <2>4. CASE k # call /\ l # call
    BY <1>1, <1>4, <2>4 DEF PositionalPlaces, OperandsKeepTheirOrder
  <2>5. QED
    BY <2>2, <2>3, <2>4
<1>5. \A k \in DOMAIN positional_value' :
         /\ InOrder(positional_value'[k])
         /\ \A l \in DOMAIN positional_value' :
               l < k => \A q \in Positions(positional_value'[l]), r \in Positions(positional_value'[k]) :
                           q < r
         /\ \A o \in DOMAIN option_value :
               Positions(positional_value'[k]) \cap Positions(option_value[o]) = {}
  BY <1>1, <1>3, <1>4
<1>6. option_value' = option_value
  OBVIOUS
<1>7. QED
  BY <1>5, <1>6, OrderOfOperands

\* Taking an operand keeps them in order.
LEMMA TakeKeepsPositionalPlaces ==
    ASSUME ParseTypeOK, PositionalsRead, OptionPlaces, PositionalPlaces, TakePositionalValue
    PROVE  PositionalPlaces'
<1>. DEFINE p    == Min(Remaining)
            text == arguments[p]
<1>1. /\ UNCHANGED <<setup, call, option_value>> /\ pc = "take" /\ Remaining # {} /\ InPositionals
      /\ call \in DOMAIN positional_value
      /\ pc' \in {"take", "validate", "done"}
  BY DEF TakePositionalValue, config, lookup, Throw, ParseTypeOK, InPositionals
<1>2. /\ p \in DOMAIN arguments /\ p \in Nat \ {0} /\ arguments[p] # Erased /\ text \in Argument
      /\ DOMAIN arguments \subseteq Nat
  BY <1>1, FirstRemaining, TextTypes DEF Remaining
<1>3. /\ \A o \in DOMAIN option_value : p \notin Positions(option_value[o])
      /\ \A q \in 1..(p - 1) : arguments[q] = Erased
      /\ \A k \in DOMAIN positional_value : \A q \in Positions(positional_value[k]) : q < p
  BY <1>1, <1>2, FirstRemainingIsNew DEF PositionalPlaces, TakenFrom
<1>4. /\ \A k \in DOMAIN positional_value : TakenFrom(positional_value[k])
      /\ \A k \in DOMAIN positional_value : call < k => Positions(positional_value[k]) = {}
      /\ InOrder(positional_value[call])
  BY <1>1 DEF PositionalPlaces, OperandsKeepTheirOrder
<1>5. CASE arguments' = Erase({p}) /\ pc' \in {"take", "validate"}
  <2>. DEFINE values == Stored(positional_value[call], Positional, text, p)
  <2>1. /\ DOMAIN arguments' = DOMAIN arguments
        /\ \A q \in DOMAIN arguments : arguments[q] = Erased => arguments'[q] = Erased
        /\ arguments'[p] = Erased
    BY <1>2, <1>5, EraseLeaves
  <2>2. \A q \in 1..p : arguments'[q] = Erased
    <3>1. \A q \in 1..p : q \in 1..(p - 1) \/ q = p
      BY <1>2
    <3>2. 1..p \subseteq DOMAIN arguments
      BY <1>2, TextTypes
    <3>3. QED
      BY <1>3, <2>1, <3>1, <3>2
  <2>3. CASE positional_value' = positional_value
    <3>1. OperandsKeepTheirOrder'
      BY <1>1, <2>3 DEF PositionalPlaces, OperandsKeepTheirOrder, InOrder, Positions
    <3>2. \A k \in DOMAIN positional_value' : TakenFrom(positional_value[k])'
      <4>1. ASSUME NEW k \in DOMAIN positional_value, NEW q \in Positions(positional_value[k]),
                   NEW r \in 1..q
            PROVE  q \in DOMAIN arguments' /\ arguments'[r] = Erased
        <5>1. q \in DOMAIN arguments /\ arguments[r] = Erased
          BY <1>4, <4>1 DEF TakenFrom
        <5>2. r \in 1..p
          BY <1>2, <1>3, <4>1, <5>1
        <5>3. QED
          BY <2>1, <2>2, <5>1, <5>2
      <4>2. \A k \in DOMAIN positional_value : \A q \in Positions(positional_value[k]) :
               q \in DOMAIN arguments'
        BY <1>4, <2>1 DEF TakenFrom
      <4>3. QED
        BY <2>3, <4>1, <4>2 DEF TakenFrom, Positions
    <3>3. QED
      BY <1>1, <1>4, <1>5, <2>3, <3>1, <3>2 DEF PositionalPlaces, InPositionals, Positions
  <2>4. CASE positional_value' = [positional_value EXCEPT ![call] = values]
    <3>0. positional_value[call] \in Seq(Value)
      BY <1>1 DEF ParseTypeOK
    <3>1. Positional.list => AllRead(positional_value[call])
      BY <1>1 DEF PositionalsRead
    <3>2. /\ InOrder(values)
          /\ Positions(values) \subseteq {p} \cup Positions(positional_value[call])
          /\ \A q \in Positions(values) : q <= p
      <4>1. Positional.list => AllRead(positional_value[call])
                               /\ \A q \in Positions(positional_value[call]) : q < p
        BY <1>1, <1>3, <3>1
      <4>. HIDE DEF p, text
      <4>2. QED
        BY <1>2, <1>4, <3>0, <4>1, StoredInOrder
    <3>. HIDE DEF values, p, text
    <3>3. OperandsKeepTheirOrder'
      BY <1>1, <1>2, <1>3, <1>4, <2>4, <3>2, TakenInOrder
    <3>4. /\ DOMAIN positional_value' = DOMAIN positional_value /\ positional_value'[call] = values
          /\ \A k \in DOMAIN positional_value :
                k # call => positional_value'[k] = positional_value[k]
      BY <1>1, <2>4
    <3>5. \A k \in DOMAIN positional_value' : \A q \in Positions(positional_value'[k]) :
             q \in DOMAIN arguments /\ q <= p
      <4>1. ASSUME NEW k \in DOMAIN positional_value, NEW q \in Positions(positional_value'[k])
            PROVE  q = p \/ q \in Positions(positional_value[k])
        BY <1>1, <3>2, <3>4, <4>1
      <4>2. QED
        BY <1>2, <1>3, <1>4, <3>4, <4>1 DEF TakenFrom
    <3>6. \A k \in DOMAIN positional_value' : TakenFrom(positional_value[k])'
      <4>1. \A q \in DOMAIN arguments : \A r \in 1..q : q <= p => arguments'[r] = Erased
        BY <1>2, <2>2
      <4>2. QED
        BY <2>1, <3>5, <4>1 DEF TakenFrom, Positions
    <3>7. \A k \in DOMAIN positional_value' : call < k => Positions(positional_value'[k]) = {}
      BY <1>1, <1>4, <3>4, TextTypes DEF ParseTypeOK
    <3>8. QED
      BY <1>1, <1>5, <3>3, <3>6, <3>7 DEF PositionalPlaces, InPositionals, Positions
  <2>5. QED
    BY <1>5, <2>3, <2>4 DEF TakePositionalValue, Throw
<1>6. CASE arguments' = arguments /\ pc' = "done" /\ positional_value' = positional_value
  <2>1. OperandsKeepTheirOrder'
    BY <1>1, <1>6 DEF PositionalPlaces, OperandsKeepTheirOrder, InOrder, Positions
  <2>2. QED
    BY <1>6, <2>1 DEF PositionalPlaces, InPositionals
<1>7. QED
  BY <1>5, <1>6 DEF TakePositionalValue, Throw

\* Every step keeps the operands in order.
LEMMA NextPositionalPlaces ==
    ASSUME ParseTypeOK, PositionalsRead, OptionPlaces, PositionalPlaces, [ParseStep]_parse_vars
    PROVE  PositionalPlaces'
<1>1. CASE FindEndOfOptions \/ LookUpOption \/ RetrieveGluedValue \/ RetrieveSeparateValue
           \/ MissingOptionValue \/ LookUpOptionAgain \/ FinishOption \/ GetFlag
           \/ CheckForUnknownIds
  <2>1. positional_value' = positional_value /\ ~InPositionals /\ pc # "done"
    BY <1>1 DEF FindEndOfOptions, LookUpOption, RetrieveGluedValue, RetrieveSeparateValue,
         MissingOptionValue, LookUpOptionAgain, FinishOption, GetFlag, CheckForUnknownIds,
         InPositionals, outputs
  <2>2. QED
    BY <2>1, NothingIsTaken
<1>2. CASE UNCHANGED parse_vars
  <2>1. UNCHANGED <<arguments, call, pc, option_value, positional_value>>
    BY <1>2 DEF parse_vars, lookup, outputs
  <2>2. OperandsKeepTheirOrder'
    BY <2>1 DEF PositionalPlaces, OperandsKeepTheirOrder, InOrder, Positions
  <2>3. \A k \in DOMAIN positional_value :
           TakenFrom(positional_value[k]) => TakenFrom(positional_value[k])'
    BY <2>1 DEF TakenFrom, Positions
  <2>4. QED
    BY <2>1, <2>2, <2>3 DEF PositionalPlaces, InPositionals, Positions
<1>3. QED
  BY <1>1, <1>2, BeginKeepsPositionalPlaces, TakeKeepsPositionalPlaces,
     FinishKeepsPositionalPlaces DEF ParseStep

----------------------------------------------------------------------------
(***************************************************************************)
(* No word is lost: at any time a word that is erased is used.  What an    *)
(* option takes besides its own identifiers stands behind one, and what a  *)
(* positional option takes it keeps.                                       *)
(***************************************************************************)
WordsUsed ==
    /\ \A p \in DOMAIN arguments : IsWord(p) /\ arguments[p] = Erased => WordIsUsed(p)
    /\ pc = "take" /\ ~Positional.list => Positions(positional_value[call]) = {}

\* What erases a word in front of "--": it stands behind an identifier of an option.
BehindOption(p) ==
    /\ p < EndOfOptionsIn(format_arguments)
    /\ \E o \in DOMAIN setup.options : Behind(setup.options[o], p)

\* Nothing is erased when parsing begins, but for what was empty.
LEMMA InitWordsUsed == ParseBegins => WordsUsed
BY DEF ParseBegins, WordsUsed, IsWord

\* A pass that keeps the operands that were taken and erases no word that is not used.
LEMMA PassKeepsWords ==
    ASSUME WordsUsed, UNCHANGED <<setup, format_arguments>>, DOMAIN arguments' = DOMAIN arguments,
           \A k \in DOMAIN positional_value :
               /\ k \in DOMAIN positional_value'
               /\ \A j \in DOMAIN positional_value[k] :
                     positional_value[k][j].at # 0
                        => \E i \in DOMAIN positional_value'[k] :
                              positional_value'[k][i] = positional_value[k][j],
           0 \notin DOMAIN arguments,
           \A p \in DOMAIN arguments :
               IsWord(p) /\ arguments'[p] = Erased => arguments[p] = Erased \/ WordIsUsed(p)',
           pc' = "take" => (Positional.list)' \/ Positions(positional_value'[call']) = {}
    PROVE  WordsUsed'
<1>1. ASSUME NEW p \in DOMAIN arguments, WordIsUsed(p) PROVE WordIsUsed(p)'
  <2>1. CASE \E k \in DOMAIN positional_value : \E j \in DOMAIN positional_value[k] :
                positional_value[k][j] = [text |-> format_arguments[p], at |-> p]
    <3>0. PICK k \in DOMAIN positional_value : \E j \in DOMAIN positional_value[k] :
             positional_value[k][j] = [text |-> format_arguments[p], at |-> p]
      BY <2>1
    <3>1. PICK j \in DOMAIN positional_value[k] :
             positional_value[k][j] = [text |-> format_arguments[p], at |-> p]
      BY <3>0
    <3>2. positional_value[k][j].at = p /\ p # 0
      BY <3>1
    <3>3. PICK i \in DOMAIN positional_value'[k] :
             positional_value'[k][i] = positional_value[k][j]
      BY <3>2
    <3>4. k \in DOMAIN positional_value'
          /\ positional_value'[k][i] = [text |-> format_arguments'[p], at |-> p]
      BY <3>1, <3>3
    <3>5. QED
      BY <3>4 DEF WordIsUsed
  <2>2. CASE \E k \in DOMAIN setup.positionals :
                IsDropped(setup.positionals[k], format_arguments[p])
    BY <2>2 DEF WordIsUsed
  <2>3. CASE \E o \in DOMAIN setup.options :
                p < EndOfOptionsIn(format_arguments) /\ Behind(setup.options[o], p)
    BY <2>3 DEF WordIsUsed, Behind
  <2>4. QED
    BY <1>1, <2>1, <2>2, <2>3 DEF WordIsUsed
<1>2. \A p : IsWord(p)' <=> IsWord(p)
  BY DEF IsWord
<1>3. \A p \in DOMAIN arguments : IsWord(p) /\ arguments'[p] = Erased => WordIsUsed(p)'
  BY <1>1 DEF WordsUsed
<1>4. \A p \in DOMAIN arguments' : IsWord(p)' /\ arguments'[p] = Erased => WordIsUsed(p)'
  BY <1>2, <1>3
<1>5. QED
  BY <1>4 DEF WordsUsed, Positions

\* An argument that looks like an identifier is no word, unless it stands behind "--".
LEMMA IdentifierIsNoWord ==
    ASSUME ArgumentsInv, pc # "begin", NEW p \in DOMAIN arguments, p <= end_of_options_it,
           arguments[p] = format_arguments[p], MayBeIdentifier(arguments[p]),
           end_of_options_it \in Nat, p \in Nat
    PROVE  ~IsWord(p)
<1>1. p <= EndOfOptionsIn(format_arguments) /\ MayBeIdentifier(format_arguments[p])
      /\ EndOfOptionsIn(format_arguments) \in Nat
  BY DEF ArgumentsInv
<1>2. QED
  BY <1>1 DEF IsWord

\* An option is looked for by a pair of identifiers.
LEMMA SearchedIsIdentifier ==
    ASSUME ParseTypeOK, InOptions
    PROVE  SearchedId \in [short : Identifier, long : Identifier]
<1>1. Option \in OptionCall
  BY SetupProperties, ElementOfSeq DEF Option, ParseTypeOK
<1>2. Option.short \in Identifier /\ Option.long \in Identifier /\ NoId \in Identifier
  BY <1>1 DEF OptionCall, Identifier
<1>3. QED
  BY <1>2 DEF SearchedId, OnlyShort, OnlyLong

\* An option erases its identifiers and what stands behind them.
LEMMA OptionErasesNoWord ==
    ASSUME ParseTypeOK, ArgumentsInv,
           RetrieveGluedValue \/ RetrieveSeparateValue \/ MissingOptionValue
    PROVE  /\ DOMAIN arguments' = DOMAIN arguments
           /\ \A p \in DOMAIN arguments : IsWord(p) /\ arguments'[p] = Erased
                 => arguments[p] = Erased \/ BehindOption(p)
<1>1. /\ it \in 1..Len(arguments) /\ it < end_of_options_it /\ pc = "retrieve" /\ it \in DOMAIN arguments
      /\ end_of_options_it \in Nat /\ DOMAIN arguments = 1..Len(arguments) /\ Len(arguments) \in Nat
      /\ it \in Nat /\ end_of_options_it = EndOfOptionsIn(format_arguments)
      /\ call \in DOMAIN setup.options
  BY TextTypes DEF RetrieveGluedValue, RetrieveSeparateValue, MissingOptionValue, ParseTypeOK,
         ArgumentsInv, InOptions
<1>2. IdentifiedBy(arguments[it], SearchedId) /\ ErasedOrLeft(it)
  BY <1>1 DEF ArgumentsInv, InOptions
<1>3. arguments[it] = format_arguments[it]
  BY <1>2, ErasedNamesNothing DEF ErasedOrLeft
<1>4. MayBeIdentifier(arguments[it])
  <2>1. SearchedId \in [short : Identifier, long : Identifier] /\ arguments[it] \in Argument
    BY <1>1, SearchedIsIdentifier, TextTypes DEF InOptions
  <2>2. QED
    BY <1>2, <2>1, IdentifiedIsIdentifier
<1>5. ~IsWord(it)
  BY <1>1, <1>3, <1>4, IdentifierIsNoWord
<1>6. CASE arguments' = arguments \/ arguments' = Erase({it}) \/ arguments' = Erase(it..it)
  <2>1. /\ DOMAIN arguments' = DOMAIN arguments
        /\ \A p \in DOMAIN arguments : p # it => arguments'[p] = arguments[p]
    BY <1>1, <1>6, EraseLeaves
  <2>2. QED
    BY <1>5, <2>1
<1>7. CASE ~Glued /\ arguments' = Erase(it..(it + 1)) /\ it + 1 < end_of_options_it
  <2>1. /\ DOMAIN arguments' = DOMAIN arguments
        /\ \A p \in DOMAIN arguments : p \notin it..(it + 1) => arguments'[p] = arguments[p]
    BY <1>7, EraseLeaves
  <2>2. Spells(Option, format_arguments[it])
    BY <1>1, <1>2, <1>3, <1>7, FoundGluesOrSpells
  <2>3. BehindOption(it + 1)
    <3>1. PICK p : p = it + 1 /\ p > 1 /\ p - 1 = it
      BY <1>1
    <3>2. Behind(setup.options[call], p)
      BY <2>2, <3>1 DEF Behind, Option
    <3>3. QED
      BY <1>1, <1>7, <3>1, <3>2 DEF BehindOption
  <2>4. \A p \in it..(it + 1) : p = it \/ p = it + 1
    BY <1>1
  <2>5. QED
    BY <1>5, <2>1, <2>3, <2>4
<1>8. QED
  <2>1. RetrieveSeparateValue => it + 1 < end_of_options_it
    BY <1>1 DEF RetrieveSeparateValue, NoSeparateValue
  <2>2. QED
    BY <1>6, <1>7, <2>1 DEF RetrieveGluedValue, RetrieveSeparateValue, MissingOptionValue,
           StoreOptionValue

\* A flag erases no word.
LEMMA FlagErasesNoWord ==
    ASSUME ParseTypeOK, ArgumentsInv, GetFlag
    PROVE  /\ DOMAIN arguments' = DOMAIN arguments
           /\ \A p \in DOMAIN arguments :
                 IsWord(p) /\ arguments'[p] = Erased => arguments[p] = Erased
<1>1. /\ pc = "flag" /\ end_of_options_it \in Nat /\ DOMAIN arguments = 1..Len(arguments)
      /\ Len(arguments) \in Nat /\ end_of_options_it <= Len(arguments) + 1
  BY TextTypes DEF GetFlag, ParseTypeOK
<1>2. CASE ShortFlagPositions # {}
  <2>. DEFINE q == Min(ShortFlagPositions)
  <2>2. q \in DOMAIN arguments /\ IsShortGroup(arguments[q])
    BY <1>2, FirstShortGroup
  <2>3. arguments' = [arguments EXCEPT ![q] = WithoutFlag(@, Flag.short)]
    BY <1>2 DEF GetFlag
  <2>. HIDE DEF q
  <2>4. ~IsWord(q)
    BY <2>2, ShortGroupIsNoWord
  <2>5. QED
    BY <2>2, <2>3, <2>4
<1>3. CASE ShortFlagPositions = {} /\ LongFlagPositions # {}
  <2>. DEFINE q == Min(LongFlagPositions)
  <2>1. LongFlagPositions \subseteq Nat
    BY <1>1 DEF LongFlagPositions
  <2>2. q \in 1..(end_of_options_it - 1) /\ arguments[q] = prepend_dash_long(Flag.long)
    BY <1>3, <2>1, MinIsFirst DEF LongFlagPositions
  <2>3. arguments' = Erase({q})
    BY <1>3 DEF GetFlag
  <2>. HIDE DEF q
  <2>4. q \in DOMAIN arguments /\ q \in Nat /\ q <= end_of_options_it
    BY <1>1, <2>2
  <2>5. MayBeIdentifier(arguments[q]) /\ arguments[q] # Erased
    <3>1. Len(prepend_dash_long(Flag.long)) \in {2, 3} /\ prepend_dash_long(Flag.long)[1] = "-"
      BY DEF prepend_dash_long, EndOfOptions
    <3>2. prepend_dash_long(Flag.long) # <<>> /\ prepend_dash_long(Flag.long) # <<"-">>
      BY <3>1
    <3>3. QED
      BY <2>2, <3>1, <3>2 DEF MayBeIdentifier, Erased
  <2>6. ~IsWord(q)
    <3>1. IsWord(q) => arguments[q] = format_arguments[q]
      BY <2>4, <2>5 DEF ArgumentsInv, ErasedOrLeft
    <3>2. QED
      BY <1>1, <2>4, <2>5, <3>1, IdentifierIsNoWord
  <2>7. /\ DOMAIN arguments' = DOMAIN arguments
        /\ \A p \in DOMAIN arguments : p # q => arguments'[p] = arguments[p]
    BY <2>3, EraseLeaves
  <2>8. QED
    BY <2>6, <2>7
<1>4. CASE ShortFlagPositions = {} /\ LongFlagPositions = {}
  BY <1>4 DEF GetFlag
<1>5. QED
  BY <1>2, <1>3, <1>4

\* Until the positional options begin, what is erased is used.
LEMMA OptionPassKeepsWords ==
    ASSUME ParseTypeOK, WordsUsed, UNCHANGED <<setup, format_arguments, positional_value>>,
           DOMAIN arguments' = DOMAIN arguments, pc' # "take",
           \A p \in DOMAIN arguments :
               IsWord(p) /\ arguments'[p] = Erased => arguments[p] = Erased \/ BehindOption(p)
    PROVE  WordsUsed'
<1>1. 0 \notin DOMAIN arguments
  BY TextTypes
<1>2. \A p \in DOMAIN arguments : BehindOption(p) => WordIsUsed(p)'
  BY DEF BehindOption, WordIsUsed, Behind
<1>3. \A p \in DOMAIN arguments :
         IsWord(p) /\ arguments'[p] = Erased => arguments[p] = Erased \/ WordIsUsed(p)'
  BY <1>2
<1>4. \A k \in DOMAIN positional_value :
         /\ k \in DOMAIN positional_value'
         /\ \A j \in DOMAIN positional_value[k] :
               positional_value[k][j].at # 0
                  => \E i \in DOMAIN positional_value'[k] :
                        positional_value'[k][i] = positional_value[k][j]
  OBVIOUS
<1>5. QED
  BY <1>1, <1>3, <1>4, PassKeepsWords

\* A positional option forgets only what the application has given it.
LEMMA BeginKeepsWords ==
    ASSUME ParseTypeOK, PositionalPlaces, WordsUsed, BeginPositionalOption
    PROVE  WordsUsed'
<1>1. /\ UNCHANGED <<setup, format_arguments, arguments, call>> /\ pc = "positional"
      /\ call \in DOMAIN positional_value /\ call <= call /\ 0 \notin DOMAIN arguments
  BY PositionalNumbers, TextTypes DEF BeginPositionalOption, config, lookup
<1>2. Positions(positional_value[call]) = {}
  BY <1>1 DEF PositionalPlaces
<1>3. CASE positional_value' = positional_value
  <2>1. Positions(positional_value'[call']) = {}
    BY <1>1, <1>2, <1>3
  <2>2. QED
    BY <1>1, <1>3, <2>1, PassKeepsWords
<1>4. CASE Positional.list /\ positional_value' = [positional_value EXCEPT ![call] = <<>>]
  <2>1. (Positional.list)'
    BY <1>1, <1>4 DEF Positional
  <2>2. \A j \in DOMAIN positional_value[call] : positional_value[call][j].at = 0
    BY <1>2 DEF Positions
  <2>3. \A k \in DOMAIN positional_value :
           /\ k \in DOMAIN positional_value'
           /\ \A j \in DOMAIN positional_value[k] :
                 positional_value[k][j].at # 0
                    => \E i \in DOMAIN positional_value'[k] :
                          positional_value'[k][i] = positional_value[k][j]
    BY <1>1, <1>4, <2>2
  <2>4. QED
    BY <1>1, <2>1, <2>3, PassKeepsWords
<1>5. QED
  BY <1>3, <1>4 DEF BeginPositionalOption, Forget

\* A value is among the values of a variable.
Holds(values, v) == \E i \in DOMAIN values : values[i] = v

\* What is stored is among the values, and a container keeps what it had.
LEMMA StoredKeeps ==
    ASSUME NEW values \in Seq(Value), NEW c, NEW text \in Argument, NEW p \in Nat
    PROVE  /\ Holds(Stored(values, c, text, p), [text |-> text, at |-> p])
           /\ c.list => \A j \in DOMAIN values : Holds(Stored(values, c, text, p), values[j])
<1>. DEFINE read == [text |-> text, at |-> p]
<1>1. read \in Value
  BY ValueType
<1>2. Stored(values, c, text, p) = IF c.list THEN Append(values, read) ELSE <<read>>
  BY DEF Stored
<1>. HIDE DEF read
<1>3. CASE c.list
  <2>. DEFINE all == Append(values, read)
              n   == Len(values)
  <2>1. /\ n \in Nat /\ DOMAIN values = 1..n /\ DOMAIN all = 1..(n + 1)
        /\ all[n + 1] = read /\ \A j \in 1..n : all[j] = values[j]
    BY <1>1
  <2>. HIDE DEF all, n
  <2>2. n + 1 \in DOMAIN all /\ \A j \in DOMAIN values : j \in DOMAIN all /\ all[j] = values[j]
    BY <2>1
  <2>3. Stored(values, c, text, p) = all
    BY <1>2, <1>3 DEF all
  <2>4. Holds(all, read) /\ \A j \in DOMAIN values : Holds(all, values[j])
    BY <2>1, <2>2 DEF Holds
  <2>5. QED
    BY <2>3, <2>4 DEF read
<1>4. CASE ~c.list
  <2>1. DOMAIN <<read>> = {1} /\ <<read>>[1] = read
    OBVIOUS
  <2>2. Holds(<<read>>, read)
    BY <2>1 DEF Holds
  <2>3. QED
    BY <1>2, <1>4, <2>2 DEF read
<1>5. QED
  BY <1>3, <1>4

\* An operand that is taken is kept or dropped.
LEMMA TakeKeepsWords ==
    ASSUME ParseTypeOK, ArgumentsInv, WordsUsed, TakePositionalValue
    PROVE  WordsUsed'
<1>0. PICK p, text : p = Min(Remaining) /\ text = arguments[p]
  OBVIOUS
<1>1. /\ UNCHANGED <<setup, format_arguments, call>> /\ pc = "take" /\ Remaining # {}
      /\ call \in DOMAIN positional_value /\ call \in DOMAIN setup.positionals
      /\ positional_value[call] \in Seq(Value)
      /\ 0 \notin DOMAIN arguments
  BY TextTypes DEF TakePositionalValue, config, lookup, ParseTypeOK
<1>2. p \in DOMAIN arguments /\ p \in Nat /\ text # Erased /\ text \in Argument
  BY <1>0, <1>1, FirstRemaining, TextTypes DEF Remaining
<1>3. IsWord(p) => text = format_arguments[p]
  BY <1>0, <1>2 DEF ArgumentsInv, ErasedOrLeft
<1>4. ASSUME arguments' = Erase({p})
      PROVE  /\ DOMAIN arguments' = DOMAIN arguments
             /\ \A q \in DOMAIN arguments : q # p => arguments'[q] = arguments[q]
  BY <1>4, EraseLeaves
<1>5. pc' = "take" => (Positional.list)'
  BY <1>1 DEF TakePositionalValue, Positional, Throw
<1>6. CASE arguments' = Erase({p})
           /\ positional_value' = [positional_value EXCEPT ![call] =
                                     Stored(positional_value[call], Positional, text, p)]
  <2>. DEFINE values == Stored(positional_value[call], Positional, text, p)
  <2>1. DOMAIN arguments' = DOMAIN arguments
        /\ \A q \in DOMAIN arguments : q # p => arguments'[q] = arguments[q]
    BY <1>4, <1>6
  <2>2. /\ Holds(values, [text |-> text, at |-> p])
        /\ Positional.list => \A j \in DOMAIN positional_value[call] :
              Holds(values, positional_value[call][j])
    BY <1>1, <1>2, StoredKeeps
  <2>. HIDE DEF values
  <2>3. /\ DOMAIN positional_value' = DOMAIN positional_value /\ positional_value'[call] = values
        /\ \A k \in DOMAIN positional_value :
              k # call => positional_value'[k] = positional_value[k]
    BY <1>1, <1>6 DEF values
  <2>4. IsWord(p) => WordIsUsed(p)'
    BY <1>1, <1>3, <2>2, <2>3 DEF WordIsUsed, Holds
  <2>5. ~Positional.list => \A j \in DOMAIN positional_value[call] :
                               positional_value[call][j].at = 0
    BY <1>1 DEF WordsUsed, Positions
  <2>6. ASSUME NEW k \in DOMAIN positional_value, NEW j \in DOMAIN positional_value[k],
               positional_value[k][j].at # 0
        PROVE  \E i \in DOMAIN positional_value'[k] :
                  positional_value'[k][i] = positional_value[k][j]
    <3>1. CASE k = call
      BY <2>2, <2>3, <2>5, <2>6, <3>1 DEF Holds
    <3>2. CASE k # call
      BY <2>3, <2>6, <3>2
    <3>3. QED
      BY <3>1, <3>2
  <2>7. \A q \in DOMAIN arguments :
           IsWord(q) /\ arguments'[q] = Erased => arguments[q] = Erased \/ WordIsUsed(q)'
    BY <2>1, <2>4
  <2>8. QED
    BY <1>1, <1>5, <2>1, <2>3, <2>6, <2>7, PassKeepsWords
<1>7. CASE arguments' = Erase({p}) /\ positional_value' = positional_value
           /\ IsDropped(Positional, text)
  <2>1. DOMAIN arguments' = DOMAIN arguments
        /\ \A q \in DOMAIN arguments : q # p => arguments'[q] = arguments[q]
    BY <1>4, <1>7
  <2>2. IsWord(p) => WordIsUsed(p)'
    BY <1>1, <1>3, <1>7 DEF WordIsUsed, Positional
  <2>3. \A q \in DOMAIN arguments :
           IsWord(q) /\ arguments'[q] = Erased => arguments[q] = Erased \/ WordIsUsed(q)'
    BY <2>1, <2>2
  <2>4. QED
    BY <1>1, <1>5, <1>7, <2>1, <2>3, PassKeepsWords
<1>8. CASE arguments' = arguments /\ positional_value' = positional_value
  BY <1>1, <1>5, <1>8, PassKeepsWords
<1>9. QED
  BY <1>0, <1>6, <1>7, <1>8 DEF TakePositionalValue, Parses, IsDropped

\* No step loses a word.
LEMMA NextWordsUsed ==
    ASSUME ParseTypeOK, ArgumentsInv, PositionalPlaces, WordsUsed, [ParseStep]_parse_vars
    PROVE  WordsUsed'
<1>1. CASE RetrieveGluedValue \/ RetrieveSeparateValue \/ MissingOptionValue
  <2>1. UNCHANGED <<setup, format_arguments, positional_value>> /\ pc' # "take"
    BY <1>1 DEF RetrieveGluedValue, RetrieveSeparateValue, MissingOptionValue, StoreOptionValue,
         Throw, config, outputs
  <2>2. QED
    BY <1>1, <2>1, OptionErasesNoWord, OptionPassKeepsWords
<1>2. CASE GetFlag
  <2>1. UNCHANGED <<setup, format_arguments, positional_value>> /\ pc' # "take"
    BY <1>2 DEF GetFlag, NextCall, config
  <2>2. QED
    BY <1>2, <2>1, FlagErasesNoWord, OptionPassKeepsWords
<1>3. CASE CheckForUnknownIds
  <2>1. /\ UNCHANGED <<setup, format_arguments, positional_value>> /\ pc' # "take"
        /\ arguments' = arguments \/ arguments' = Erase({end_of_options_it})
        /\ pc = "check_unknown"
    BY <1>3 DEF CheckForUnknownIds, Throw, config, outputs
  <2>2. /\ DOMAIN arguments' = DOMAIN arguments
        /\ \A p \in DOMAIN arguments : p # end_of_options_it => arguments'[p] = arguments[p]
    BY <2>1, EraseLeaves
  <2>3. ~IsWord(end_of_options_it)
    BY <2>1 DEF ArgumentsInv, IsWord, ParseTypeOK
  <2>4. QED
    BY <2>1, <2>2, <2>3, OptionPassKeepsWords
<1>4. CASE FindEndOfOptions \/ LookUpOption \/ LookUpOptionAgain \/ FinishOption
           \/ FinishPositionalOption \/ CheckForLeftOverArgs
  <2>1. UNCHANGED <<setup, format_arguments, arguments, positional_value>> /\ pc' # "take"
    BY <1>4 DEF FindEndOfOptions, LookUpOption, LookUpOptionAgain, FinishOption,
         FinishPositionalOption, CheckForLeftOverArgs, LeaveGetOptionById, AfterOptions,
         NextCall, Throw, config, outputs
  <2>2. QED
    BY <2>1, OptionPassKeepsWords
<1>5. CASE UNCHANGED parse_vars
  BY <1>5 DEF parse_vars, config, lookup, outputs, WordsUsed, IsWord, WordIsUsed, Behind,
         Positions, Positional
<1>6. QED
  BY <1>1, <1>2, <1>3, <1>4, <1>5, BeginKeepsWords, TakeKeepsWords DEF ParseStep
=============================================================================
