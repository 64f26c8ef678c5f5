---------------------- MODULE FormatParseAlone_proofs ----------------------
(***************************************************************************)
(* Theorems about FormatParseAlone for every setup and every command line. *)
(***************************************************************************)
EXTENDS FormatParseAlone, PosixReading_proofs

\* What is to be shown of a step of the system is to be shown of a step of parse().
LEMMA NextIsParseStep == [Next]_parse_vars => [ParseStep]_parse_vars
BY DEF Next, Returned

\* A new parser is well typed.
LEMMA InitTypeOK == Init => ParseTypeOK
BY SetupsAssumption, ParseBeginsTypeOK DEF Init

(***************************************************************************)
(* The state is well typed in every reachable state, for every setup and   *)
(* every command line.                                                     *)
(***************************************************************************)
THEOREM TypeCorrect == Spec => []ParseTypeOK
BY InitTypeOK, NextIsParseStep, NextTypeOK, PTL DEF Spec

(***************************************************************************)
(* For every command line an option in front of "--" leaves "--" and what  *)
(* follows to the positional options.                                      *)
(***************************************************************************)
THEOREM OptionsStopAtEndHolds == Spec => OptionsStopAtEnd
<1>. DEFINE Kept == InOptions => \A p \in end_of_options_it..Len(arguments) :
                                      arguments'[p] = arguments[p]
<1>1. ParseTypeOK /\ [Next]_parse_vars => [Kept]_parse_vars
  BY NextIsParseStep, OptionStepStopsAtEnd
<1>2. QED
  BY <1>1, TypeCorrect, PTL DEF Spec, OptionsStopAtEnd

(***************************************************************************)
(* For every setup and every command line, no positional option is given   *)
(* an argument in front of "--" that looks like an option or a flag.       *)
(***************************************************************************)
THEOREM PositionalsAreNoIdentifiersHolds == Spec => []PositionalsAreNoIdentifiers
<1>1. PositionalInv => PositionalsAreNoIdentifiers
  BY DEF PositionalInv
<1>2. Init => PositionalInv
  BY InitPositionalInv DEF Init
<1>3. QED
  BY <1>1, <1>2, NextIsParseStep, NextPositionalInv, TypeCorrect, PTL DEF Spec

\* Both parts of what is read hold in every reachable state.
LEMMA ReadInvariant == Spec => [](OptionsRead /\ PositionalsRead)
<1>1. Init => OptionsRead /\ PositionalsRead
  BY InitRead DEF Init
<1>2. QED
  BY <1>1, NextIsParseStep, NextOptionsRead, NextPositionalsRead, TypeCorrect, PTL DEF Spec

(***************************************************************************)
(* For every setup and every command line, a variable that was given a     *)
(* value of the command line holds no default of the application.          *)
(***************************************************************************)
THEOREM DefaultsNeverMixWithInputHolds == Spec => []DefaultsNeverMixWithInput
<1>1. OptionsRead /\ PositionalsRead => DefaultsNeverMixWithInput
  BY DEF OptionsRead, PositionalsRead, DefaultsNeverMixWithInput
<1>2. QED
  BY <1>1, ReadInvariant, PTL

(***************************************************************************)
(* For every setup and every command line, parse() returns only with every *)
(* required option and every positional option read.                       *)
(***************************************************************************)
THEOREM RequiredAreReadHolds == Spec => []RequiredAreRead
<1>1. OptionsRead /\ PositionalsRead => RequiredAreRead
  BY DEF OptionsRead, PositionalsRead, RequiredAreRead, BehindOptions, RequiredRead, PositionalRead
<1>2. QED
  BY <1>1, ReadInvariant, PTL

\* What holds of the arguments and of the values of the options in every reachable state.
LEMMA PlacesInvariant == Spec => [](ArgumentsInv /\ OptionPlaces /\ PositionalPlaces)
<1>1. Init => ArgumentsInv /\ OptionPlaces /\ PositionalPlaces
  BY InitArgumentsInv, InitOptionPlaces, InitPositionalPlaces DEF Init
<1>2. /\ ParseTypeOK /\ OptionsRead /\ PositionalsRead
      /\ ArgumentsInv /\ OptionPlaces /\ PositionalPlaces
      /\ [ParseStep]_parse_vars
      => (ArgumentsInv /\ OptionPlaces /\ PositionalPlaces)'
  BY NextArgumentsInv, NextOptionPlaces, NextPositionalPlaces
<1>3. QED
  BY <1>1, <1>2, NextIsParseStep, TypeCorrect, ReadInvariant, PTL DEF Spec

(***************************************************************************)
(* For every setup and every command line, an option reads what is glued   *)
(* to one of its identifiers or stands right behind one, in front of "--"; *)
(* containers and positional options keep the order of the command line,   *)
(* no text reaches two options, and no positional option gets what an      *)
(* option has used.                                                        *)
(***************************************************************************)
THEOREM ValuesStandWhereTypedHolds == Spec => []ValuesStandWhereTyped
<1>1. Init => NoTextIsUsedTwice
  <2>1. Init => \A o \in DOMAIN option_value : \A j \in DOMAIN option_value[o] :
                    option_value[o][j].at = 0
    BY DEF Init, ParseBegins, Default
  <2>2. QED
    BY <2>1 DEF NoTextIsUsedTwice
<1>2. ParseTypeOK /\ OptionPlaces /\ NoTextIsUsedTwice /\ [ParseStep]_parse_vars
      => NoTextIsUsedTwice'
  BY NextUsesNoTextTwice
<1>3. Spec => []NoTextIsUsedTwice
  BY <1>1, <1>2, NextIsParseStep, TypeCorrect, PlacesInvariant, PTL DEF Spec
<1>4. OptionPlaces /\ PositionalPlaces /\ NoTextIsUsedTwice => ValuesStandWhereTyped
  BY DEF OptionPlaces, PositionalPlaces, ValuesStandWhereTyped
<1>5. QED
  BY <1>3, <1>4, PlacesInvariant, PTL

(***************************************************************************)
(* For every setup and every command line, every word has reached a        *)
(* positional option unchanged when parse() returns, unless an option may  *)
(* have used it or it is a number too large for a container.               *)
(***************************************************************************)
THEOREM NoWordIsLostHolds == Spec => []NoWordIsLost
<1>1. Init => WordsUsed
  BY InitWordsUsed DEF Init
<1>2. ParseTypeOK /\ ArgumentsInv /\ PositionalPlaces /\ WordsUsed /\ [ParseStep]_parse_vars
      => WordsUsed'
  BY NextWordsUsed
<1>3. Spec => []WordsUsed
  BY <1>1, <1>2, NextIsParseStep, TypeCorrect, PlacesInvariant, PTL DEF Spec
<1>4. ParseTypeOK /\ ArgumentsInv /\ WordsUsed => NoWordIsLost
  <2>1. ParseTypeOK => DOMAIN arguments = DOMAIN format_arguments
    BY LenProperties DEF ParseTypeOK
  <2>2. QED
    BY <2>1 DEF ArgumentsInv, WordsUsed, NoWordIsLost, Remaining
<1>5. QED
  BY <1>3, <1>4, TypeCorrect, PlacesInvariant, PTL

(***************************************************************************)
(* For every setup the parser lets through and every command line on which *)
(* no argument can be taken for two things, the passes of parse() throw    *)
(* exactly on the user errors of the reading from left to right, and       *)
(* otherwise hand every option, flag and positional option what the        *)
(* reading gives it.                                                       *)
(***************************************************************************)
THEOREM AgreesWithReadingHolds == Spec => []AgreesWithReading
<1>1. Init => ParseAgrees /\ WellFormed(setup)
  BY SetupsAssumption, InitParseAgrees DEF Init
<1>2. WellFormed(setup) /\ [ParseStep]_parse_vars => WellFormed(setup)'
  <2>1. [ParseStep]_parse_vars => setup' = setup
    BY DEF ParseStep, FindEndOfOptions, LookUpOption, RetrieveGluedValue, RetrieveSeparateValue,
           MissingOptionValue, LookUpOptionAgain, FinishOption, GetFlag, CheckForUnknownIds,
           BeginPositionalOption, TakePositionalValue, FinishPositionalOption, CheckForLeftOverArgs,
           parse_vars, config
  <2>2. QED
    BY <2>1
<1>3. QED
  BY <1>1, <1>2, NextParseAgrees, AgreementIsTheProperty, NextIsParseStep, TypeCorrect, ReadInvariant,
     PlacesInvariant, PTL DEF Spec
=============================================================================
