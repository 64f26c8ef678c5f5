--------------------------- MODULE Parser_proofs ---------------------------
(***************************************************************************)
(* Theorems about Parser for every application and every command line.     *)
(***************************************************************************)
EXTENDS Parser, PosixReading_proofs

----------------------------------------------------------------------------
(***************************************************************************)
(* Facts about the operators of the setup.                                 *)
(***************************************************************************)
\* Two pairs share an identifier in either order.
LEMMA SamePairSymmetric ==
    ASSUME NEW a, NEW b
    PROVE  SamePair(a, b) <=> SamePair(b, a)
BY DEF SamePair

\* A call shares identifiers with the pairs its own pair shares them with.
LEMMA SamePairOfCalls ==
    ASSUME NEW a, NEW b
    PROVE  SamePair(a, b) <=> SamePair(Pair(a), Pair(b))
BY DEF SamePair, Pair

\* The identifiers of help, version, export and copyright differ.
LEMMA ReservedAreDistinct ==
    \A a, b \in ReservedIds : SamePair(a, b) => a = b
<1>. DEFINE Words == {"", "h", "help", "advanced-help", "hh", "export-help", "version",
                       "copyright"}
            OneOf(a) ==
                /\ a \in [short : Words, long : Words]
                /\ a.long # ""
                /\ \/ a.short = "h" /\ a.long = "help"
                   \/ a.short = "" /\ a.long # "help"
<1>1. OneOf([short |-> "h", long |-> "help"])
  OBVIOUS
<1>2. ASSUME NEW n \in {"advanced-help", "hh", "export-help", "version", "copyright"}
      PROVE  OneOf(OnlyLong(n))
  BY DEF OnlyLong, NoId
<1>3. \A a \in ReservedIds : OneOf(a)
  <2>. HIDE DEF OneOf
  <2>1. QED
    BY <1>1, <1>2 DEF ReservedIds
<1>4. ASSUME NEW a \in ReservedIds, NEW b \in ReservedIds, SamePair(a, b)
      PROVE  a.short = b.short /\ a.long = b.long
  BY <1>3, <1>4 DEF SamePair, NoId
<1>5. \A a, b \in [short : Words, long : Words] :
          a.short = b.short /\ a.long = b.long => a = b
  <2>. HIDE DEF Words
  <2>1. QED
    OBVIOUS
<1>6. QED
  BY <1>3, <1>4, <1>5

\* format_parse reads the setup and the arguments it was given, it never
\* changes them.
LEMMA FormatParseKeepsConfig ==
    ASSUME FormatParseStep
    PROVE  UNCHANGED <<setup, format_arguments>>
BY DEF FormatParseStep, ParseStep, config, FindEndOfOptions, LookUpOption, RetrieveGluedValue,
       RetrieveSeparateValue, MissingOptionValue, LookUpOptionAgain, FinishOption, GetFlag,
       CheckForUnknownIds, BeginPositionalOption, TakePositionalValue, FinishPositionalOption,
       CheckForLeftOverArgs

\* Only the setup calls and a new sub-parser change what was added.
LEMMA ParseKeepsAdded ==
    ASSUME Parse
    PROVE  UNCHANGED added
<1>1. CASE FormatParseStep
  BY <1>1, FormatParseKeepsConfig DEF FormatParseStep, added
<1>2. CASE ~FormatParseStep
  BY <1>2 DEF Parse, BeginParse, KnownOption, FoundSubcommand, UnknownSubcommand,
              SpecialFormat, export_help, ExportTo, version_check, OtherArgument,
              EndOfArguments, parse_format, EndParse, Loops, Stops
<1>3. QED
  BY <1>1, <1>2

----------------------------------------------------------------------------
(***************************************************************************)
(* The setup is well formed.  The strengthening: the setup is made of      *)
(* sequences of calls, and the parser knows whether a container is among   *)
(* the positional options.                                                 *)
(***************************************************************************)
SetupType ==
    setup \in [options : Seq(OptionCalls), flags : Seq(FlagCalls),
               positionals : Seq(PositionalCalls)]

ListIsKnown ==
    \A k \in DOMAIN setup.positionals : setup.positionals[k].list => has_positional_list_option

SetupInv == SetupType /\ ListIsKnown /\ SetupIsWellFormed

\* The constructor registers the reserved identifiers and nothing else.
LEMMA NewParserSetup ==
    ASSUME used_option_ids = ReservedIds, setup = NoSetup
    PROVE  SetupInv
BY ReservedAreDistinct
   DEF SetupInv, SetupType, ListIsKnown, SetupIsWellFormed, NoIdentifierTwice,
       CallsAreRegistered, WellFormed, ListIsLast, CallsAreDistinct, DashIsNoIdentifier, NoSetup

\* Registering a pair that verify_identifiers accepts keeps the pairs distinct
\* and different from every call.
LEMMA RegisterKeepsDistinct ==
    ASSUME SetupInv, NEW c, Register(c)
    PROVE  /\ NoIdentifierTwice'
           /\ used_option_ids' = used_option_ids \cup {Pair(c)}
           /\ \A o \in DOMAIN setup.options : ~SamePair(setup.options[o], c)
           /\ \A f \in DOMAIN setup.flags : ~SamePair(setup.flags[f], c)
           /\ c.short # "-"
<1>1. /\ used_option_ids' = used_option_ids \cup {Pair(c)}
      /\ \A used \in used_option_ids : ~SamePair(used, Pair(c))
  BY DEF Register, verify_identifiers, contains
<1>2. NoIdentifierTwice'
  BY <1>1, SamePairSymmetric DEF SetupInv, SetupIsWellFormed, NoIdentifierTwice
<1>3. /\ \A o \in DOMAIN setup.options : ~SamePair(setup.options[o], c)
      /\ \A f \in DOMAIN setup.flags : ~SamePair(setup.flags[f], c)
  BY <1>1, SamePairOfCalls DEF SetupInv, SetupIsWellFormed, CallsAreRegistered
<1>4. c.short # "-"
  <2>1. c.short \in ShortIds \cup {NoId}
    BY DEF Register, verify_identifiers, Pair
  <2>2. "-" \notin ShortIds
    BY ParserAssumption
  <2>3. "-" # NoId
    BY Zenon DEF NoId
  <2>4. QED
    BY <2>1, <2>2, <2>3
<1>5. QED
  BY <1>1, <1>2, <1>3, <1>4

\* add_option keeps the setup well formed, refused or not.
LEMMA AddOptionKeepsSetup ==
    ASSUME SetupInv, NEW c \in OptionCalls, NEW d, add_option(c, d)
    PROVE  SetupInv'
<1>1. /\ NoIdentifierTwice'
      /\ used_option_ids' = used_option_ids \cup {Pair(c)}
      /\ \A o \in DOMAIN setup.options : ~SamePair(setup.options[o], c)
      /\ \A f \in DOMAIN setup.flags : ~SamePair(setup.flags[f], c)
      /\ c.short # "-"
  BY RegisterKeepsDistinct DEF add_option
<1>2. /\ options' = options \cup IdentifiersOf(Pair(c))
      /\ has_positional_list_option' = has_positional_list_option
  BY DEF add_option
<1>3. CASE setup' = setup
  BY <1>1, <1>2, <1>3
     DEF SetupInv, SetupType, ListIsKnown, SetupIsWellFormed, CallsAreRegistered,
         WellFormed, ListIsLast, CallsAreDistinct, DashIsNoIdentifier
<1>4. CASE setup' = [setup EXCEPT !.options = Append(@, c)]
  <2>1. /\ setup'.options = Append(setup.options, c)
        /\ setup'.flags = setup.flags /\ setup'.positionals = setup.positionals
        /\ setup.options \in Seq(OptionCalls) /\ SetupType'
    <3>1. /\ setup.options \in Seq(OptionCalls)
         /\ setup \in [options : Seq(OptionCalls), flags : Seq(FlagCalls),
                      positionals : Seq(PositionalCalls)]
      BY DEF SetupInv, SetupType
    <3>2. Append(setup.options, c) \in Seq(OptionCalls)
      BY <3>1
    <3>3. /\ setup'.options = Append(setup.options, c)
         /\ setup'.flags = setup.flags /\ setup'.positionals = setup.positionals
      BY <1>4, <3>1
    <3>4. SetupType'
      BY <1>4, <3>1, <3>2 DEF SetupType
    <3>5. QED
      BY <3>1, <3>3, <3>4
  <2>2. /\ DOMAIN setup'.options = DOMAIN setup.options \cup {Len(setup.options) + 1}
        /\ setup'.options[Len(setup.options) + 1] = c
        /\ \A o \in DOMAIN setup.options : setup'.options[o] = setup.options[o]
    BY <2>1
  <2>3. CallsAreRegistered'
    <3>1. \A o \in DOMAIN setup.options :
              /\ Pair(setup.options[o]) \in used_option_ids
              /\ IdentifiersOf(Pair(setup.options[o])) \subseteq options
      BY DEF SetupInv, SetupIsWellFormed, CallsAreRegistered
    <3>2. \A o \in DOMAIN setup'.options :
              /\ Pair(setup'.options[o]) \in used_option_ids'
              /\ IdentifiersOf(Pair(setup'.options[o])) \subseteq options'
      BY <1>1, <1>2, <2>2, <3>1
    <3>3. \A f \in DOMAIN setup'.flags : Pair(setup'.flags[f]) \in used_option_ids'
      BY <1>1, <2>1 DEF SetupInv, SetupIsWellFormed, CallsAreRegistered
    <3>4. QED
      BY <3>2, <3>3 DEF CallsAreRegistered
  <2>4. CallsAreDistinct(setup') /\ DashIsNoIdentifier(setup')
    BY <1>1, <2>1, <2>2, SamePairSymmetric
       DEF SetupInv, SetupIsWellFormed, WellFormed, CallsAreDistinct, DashIsNoIdentifier
  <2>5. ListIsLast(setup') /\ ListIsKnown'
    BY <1>2, <2>1 DEF SetupInv, SetupIsWellFormed, WellFormed, ListIsLast, ListIsKnown
  <2>6. QED
    BY <1>1, <2>1, <2>3, <2>4, <2>5 DEF SetupInv, SetupIsWellFormed, WellFormed
<1>5. QED
  BY <1>3, <1>4 DEF add_option

\* add_flag keeps the setup well formed, refused or not.
LEMMA AddFlagKeepsSetup ==
    ASSUME SetupInv, NEW c \in FlagCalls, NEW d, NEW v, add_flag(c, d, v)
    PROVE  SetupInv'
<1>1. /\ NoIdentifierTwice'
      /\ used_option_ids' = used_option_ids \cup {Pair(c)}
      /\ \A o \in DOMAIN setup.options : ~SamePair(setup.options[o], c)
      /\ \A f \in DOMAIN setup.flags : ~SamePair(setup.flags[f], c)
      /\ c.short # "-"
  BY RegisterKeepsDistinct DEF add_flag
<1>2. options' = options /\ has_positional_list_option' = has_positional_list_option
  BY DEF add_flag
<1>3. CASE setup' = setup
  BY <1>1, <1>2, <1>3
     DEF SetupInv, SetupType, ListIsKnown, SetupIsWellFormed, CallsAreRegistered,
         WellFormed, ListIsLast, CallsAreDistinct, DashIsNoIdentifier
<1>4. CASE setup' = [setup EXCEPT !.flags = Append(@, c)]
  <2>1. /\ setup'.flags = Append(setup.flags, c)
        /\ setup'.options = setup.options /\ setup'.positionals = setup.positionals
        /\ setup.flags \in Seq(FlagCalls) /\ SetupType'
    <3>1. /\ setup.flags \in Seq(FlagCalls)
         /\ setup \in [options : Seq(OptionCalls), flags : Seq(FlagCalls),
                      positionals : Seq(PositionalCalls)]
      BY DEF SetupInv, SetupType
    <3>2. Append(setup.flags, c) \in Seq(FlagCalls)
      BY <3>1
    <3>3. /\ setup'.flags = Append(setup.flags, c)
         /\ setup'.options = setup.options /\ setup'.positionals = setup.positionals
      BY <1>4, <3>1
    <3>4. SetupType'
      BY <1>4, <3>1, <3>2 DEF SetupType
    <3>5. QED
      BY <3>1, <3>3, <3>4
  <2>2. /\ DOMAIN setup'.flags = DOMAIN setup.flags \cup {Len(setup.flags) + 1}
        /\ setup'.flags[Len(setup.flags) + 1] = c
        /\ \A f \in DOMAIN setup.flags : setup'.flags[f] = setup.flags[f]
    BY <2>1
  <2>3. CallsAreRegistered'
    <3>1. \A f \in DOMAIN setup.flags : Pair(setup.flags[f]) \in used_option_ids
      BY DEF SetupInv, SetupIsWellFormed, CallsAreRegistered
    <3>2. \A f \in DOMAIN setup'.flags : Pair(setup'.flags[f]) \in used_option_ids'
      BY <1>1, <2>2, <3>1
    <3>3. \A o \in DOMAIN setup'.options :
              /\ Pair(setup'.options[o]) \in used_option_ids'
              /\ IdentifiersOf(Pair(setup'.options[o])) \subseteq options'
      BY <1>1, <1>2, <2>1 DEF SetupInv, SetupIsWellFormed, CallsAreRegistered
    <3>4. QED
      BY <3>2, <3>3 DEF CallsAreRegistered
  <2>4. CallsAreDistinct(setup') /\ DashIsNoIdentifier(setup')
    BY <1>1, <2>1, <2>2, SamePairSymmetric
       DEF SetupInv, SetupIsWellFormed, WellFormed, CallsAreDistinct, DashIsNoIdentifier
  <2>5. ListIsLast(setup') /\ ListIsKnown'
    BY <1>2, <2>1 DEF SetupInv, SetupIsWellFormed, WellFormed, ListIsLast, ListIsKnown
  <2>6. QED
    BY <1>1, <2>1, <2>3, <2>4, <2>5 DEF SetupInv, SetupIsWellFormed, WellFormed
<1>5. QED
  BY <1>3, <1>4 DEF add_flag

\* add_positional_option puts nothing behind a container.
LEMMA AddPositionalKeepsSetup ==
    ASSUME SetupInv, NEW c \in PositionalCalls, add_positional_option(c)
    PROVE  SetupInv'
<1>1. /\ ~has_positional_list_option /\ has_positional_list_option' = c.list
      /\ setup' = [setup EXCEPT !.positionals = Append(@, c)]
      /\ UNCHANGED <<used_option_ids, options>>
  BY DEF add_positional_option
<1>2. /\ setup'.positionals = Append(setup.positionals, c)
      /\ setup'.options = setup.options /\ setup'.flags = setup.flags
      /\ setup.positionals \in Seq(PositionalCalls) /\ SetupType'
  <2>1. /\ setup.positionals \in Seq(PositionalCalls)
       /\ setup \in [options : Seq(OptionCalls), flags : Seq(FlagCalls),
                    positionals : Seq(PositionalCalls)]
    BY DEF SetupInv, SetupType
  <2>2. Append(setup.positionals, c) \in Seq(PositionalCalls)
    BY <2>1
  <2>3. /\ setup'.positionals = Append(setup.positionals, c)
       /\ setup'.options = setup.options /\ setup'.flags = setup.flags
    BY <1>1, <2>1
  <2>4. SetupType'
    BY <1>1, <2>1, <2>2 DEF SetupType
  <2>5. QED
    BY <2>1, <2>3, <2>4
<1>3. /\ DOMAIN setup'.positionals = DOMAIN setup.positionals \cup {Len(setup.positionals) + 1}
      /\ Len(setup'.positionals) = Len(setup.positionals) + 1
      /\ setup'.positionals[Len(setup.positionals) + 1] = c
      /\ \A k \in DOMAIN setup.positionals :
            setup'.positionals[k] = setup.positionals[k]
  BY <1>2
<1>4. ListIsLast(setup') /\ ListIsKnown'
  BY <1>1, <1>3 DEF SetupInv, ListIsKnown, ListIsLast
<1>5. NoIdentifierTwice' /\ CallsAreRegistered'
  BY <1>1, <1>2 DEF SetupInv, SetupIsWellFormed, NoIdentifierTwice, CallsAreRegistered
<1>6. CallsAreDistinct(setup') /\ DashIsNoIdentifier(setup')
  BY <1>1, <1>2
     DEF SetupInv, SetupIsWellFormed, WellFormed, CallsAreDistinct, DashIsNoIdentifier
<1>7. QED
  BY <1>2, <1>4, <1>5, <1>6 DEF SetupInv, SetupIsWellFormed, WellFormed

\* Every step keeps the setup well formed.
LEMMA NextSetupInv ==
    ASSUME SetupInv, [Next]_vars
    PROVE  SetupInv'
<1>1. CASE UNCHANGED added
  BY <1>1
     DEF added, SetupInv, SetupType, ListIsKnown, SetupIsWellFormed, NoIdentifierTwice,
         CallsAreRegistered, WellFormed, ListIsLast, CallsAreDistinct, DashIsNoIdentifier
<1>2. ASSUME NEW c \in OptionCalls, NEW d \in BOOLEAN, add_option(c, d) PROVE SetupInv'
  BY <1>2, AddOptionKeepsSetup
<1>3. ASSUME NEW c \in FlagCalls, NEW d \in BOOLEAN, NEW v \in BOOLEAN, add_flag(c, d, v)
      PROVE  SetupInv'
  BY <1>3, AddFlagKeepsSetup
<1>4. ASSUME NEW c \in PositionalCalls, add_positional_option(c) PROVE SetupInv'
  BY <1>4, AddPositionalKeepsSetup
<1>5. ASSUME NEW names \in SubcommandLists, add_subcommands(names) PROVE UNCHANGED added
  BY <1>5 DEF add_subcommands
<1>6. CASE get_sub_parser
  <2>1. used_option_ids' = ReservedIds /\ setup' = NoSetup
    BY <1>6 DEF get_sub_parser
  <2>2. QED
    BY <2>1, ReservedAreDistinct
       DEF SetupInv, SetupType, ListIsKnown, SetupIsWellFormed, NoIdentifierTwice,
           CallsAreRegistered, WellFormed, ListIsLast, CallsAreDistinct, DashIsNoIdentifier, NoSetup
<1>7. CASE Parse
  BY <1>1, <1>7, ParseKeepsAdded
<1>8. CASE UNCHANGED vars
  BY <1>1, <1>8 DEF vars
<1>9. QED
  BY <1>1, <1>2, <1>3, <1>4, <1>5, <1>6, <1>7, <1>8 DEF Next, SetUp, Ended

(***************************************************************************)
(* No sequence of setup calls, refused ones included, gives an identifier  *)
(* to two options or flags or puts a positional option behind a container. *)
(***************************************************************************)
THEOREM SetupIsWellFormedHolds == Spec => []SetupIsWellFormed
<1>1. Init => SetupInv
  BY NewParserSetup DEF Init
<1>2. SetupInv /\ [Next]_vars => SetupInv'
  BY NextSetupInv
<1>3. SetupInv => SetupIsWellFormed
  BY DEF SetupInv
<1>4. QED
  BY <1>1, <1>2, <1>3, PTL DEF Spec

----------------------------------------------------------------------------
(***************************************************************************)
(* Keywords and subcommands reach format_parse only as values.  The        *)
(* strengthening: nothing is left for format_parse before parse() begins,  *)
(* and the splitting moves inside a sequence of arguments.                 *)
(***************************************************************************)
SplitType ==
    /\ command_line \in Seq(Argument)
    /\ sub_parser \in Seq(Argument)
    /\ format_arguments \in Seq(Argument)
    /\ arg_it \in Nat \ {0}

KeywordInv ==
    /\ SplitType
    /\ phase = "setup" => format_arguments = <<>>
    /\ KeywordsAreValues

ValuesOnly(args) ==
    \A p \in DOMAIN args : IsTaken(args[p]) => p > 1 /\ args[p - 1] \in options

\* What is left for format_parse stays so when an argument that is no keyword
\* and no subcommand, or is an option, is appended.
LEMMA AppendKeepsValues ==
    ASSUME NEW args \in Seq(Argument), NEW a \in Argument, ValuesOnly(args),
           ~IsTaken(a) \/ (Len(args) > 0 /\ args[Len(args)] \in options)
    PROVE  ValuesOnly(Append(args, a))
BY DEF ValuesOnly

\* The rest of the command line is a sequence of arguments.
LEMMA RestType ==
    ASSUME SplitType
    PROVE  Rest \in Seq(Argument)
<1>1. Len(command_line) \in Nat
  BY DEF SplitType
<1>2. \A i \in arg_it..Len(command_line) : command_line[i] \in Argument
  BY <1>1 DEF SplitType
<1>3. QED
  BY <1>1, <1>2, SubSeqProperties DEF SplitType, Rest

\* A known option is handed over together with its value.
LEMMA KnownOptionKeepsValues ==
    ASSUME KeywordInv, KnownOption
    PROVE  /\ SplitType'
           /\ ValuesOnly(format_arguments')
<1>1. /\ phase = "determine_format" /\ arg_it <= Len(command_line) /\ arg \in options
      /\ format_arguments' = format_arguments \o SubSeq(command_line, arg_it, LastOfOption)
      /\ arg_it' = LastOfOption + 1
      /\ UNCHANGED <<command_line, sub_parser>>
  BY DEF KnownOption, AtArgument, Loops, source
<1>2. /\ command_line \in Seq(Argument) /\ Len(command_line) \in Nat
      /\ arg_it \in 1..Len(command_line) /\ arg \in Argument
      /\ sub_parser \in Seq(Argument)
      /\ format_arguments \in Seq(Argument) /\ Len(format_arguments) \in Nat
      /\ ValuesOnly(format_arguments)
  BY <1>1 DEF KeywordInv, SplitType, KeywordsAreValues, ValuesOnly, arg
<1>3. /\ Append(format_arguments, arg) \in Seq(Argument)
      /\ ValuesOnly(Append(format_arguments, arg))
  BY <1>1, <1>2, AppendKeepsValues DEF IsTaken
<1>4. CASE arg_it < Len(command_line)
  <2>. DEFINE next == command_line[arg_it + 1]
  <2>1. LastOfOption = arg_it + 1 /\ next \in Argument
    BY <1>2, <1>4 DEF LastOfOption
  <2>2. format_arguments' = Append(Append(format_arguments, arg), next)
    BY <1>1, <1>2, <2>1 DEF arg
  <2>3. /\ Len(Append(format_arguments, arg)) > 0
        /\ Append(format_arguments, arg)[Len(Append(format_arguments, arg))] = arg
    BY <1>2
  <2>4. ValuesOnly(format_arguments')
    BY <1>1, <1>3, <2>1, <2>2, <2>3, AppendKeepsValues
  <2>5. SplitType'
    BY <1>1, <1>2, <1>3, <2>1, <2>2 DEF SplitType
  <2>6. QED
    BY <2>4, <2>5
<1>5. CASE ~(arg_it < Len(command_line))
  <2>1. LastOfOption = arg_it
    BY <1>5 DEF LastOfOption
  <2>2. format_arguments' = Append(format_arguments, arg)
    BY <1>1, <1>2, <2>1 DEF arg
  <2>3. SplitType'
    BY <1>1, <1>2, <1>3, <2>1, <2>2 DEF SplitType
  <2>4. QED
    BY <1>3, <2>2, <2>3
<1>6. QED
  BY <1>4, <1>5

\* An argument that no earlier test has claimed is neither keyword nor subcommand.
LEMMA OtherArgumentKeepsValues ==
    ASSUME KeywordInv, OtherArgument
    PROVE  /\ SplitType'
           /\ ValuesOnly(format_arguments')
<1>1. /\ phase = "determine_format" /\ arg_it <= Len(command_line)
      /\ arg \notin subcommands /\ ~IsKeyword(arg)
      /\ format_arguments' = Append(format_arguments, arg)
      /\ arg_it' = arg_it + 1
      /\ UNCHANGED <<command_line, sub_parser>>
  BY DEF OtherArgument, NoSubcommand, AtArgument, Loops, source
<1>2. /\ arg \in Argument /\ format_arguments \in Seq(Argument)
      /\ ValuesOnly(format_arguments)
  BY <1>1 DEF KeywordInv, SplitType, KeywordsAreValues, ValuesOnly, arg
<1>3. ValuesOnly(format_arguments')
  BY <1>1, <1>2, AppendKeepsValues DEF IsTaken
<1>4. SplitType'
  BY <1>1, <1>2 DEF KeywordInv, SplitType
<1>5. QED
  BY <1>3, <1>4

\* The other steps of parse() hand nothing over.
LEMMA OtherStepsHandNothingOver ==
    ASSUME KeywordInv, Parse, ~KnownOption, ~OtherArgument
    PROVE  /\ SplitType'
           /\ UNCHANGED <<format_arguments, options, subcommands>>
           /\ phase \in {"setup", "determine_format", "parse_format", "format_parse"}
           /\ phase' # "setup"
<1>1. CASE FormatParseStep
  BY <1>1, FormatParseKeepsConfig DEF FormatParseStep, KeywordInv, SplitType, source
<1>2. CASE FoundSubcommand
  BY <1>2, RestType DEF FoundSubcommand, KeywordInv, SplitType, source, added, AtArgument
<1>3. CASE BeginParse
  BY <1>3 DEF BeginParse, KeywordInv, SplitType, added, ParserThrows
<1>4. CASE UnknownSubcommand
  BY <1>4 DEF UnknownSubcommand, AtArgument, Stops, ParserThrows, KeywordInv, SplitType, source,
              added, detected
<1>5. CASE SpecialFormat
  BY <1>5 DEF SpecialFormat, NoSubcommand, AtArgument, Loops, KeywordInv, SplitType, source,
              added
<1>6. CASE export_help
  <2>1. ASSUME NEW value, NEW at \in Nat, ExportTo(value, at)
        PROVE  /\ arg_it' = at + 1 \/ arg_it' = arg_it
               /\ UNCHANGED <<format_arguments, options, subcommands, command_line, sub_parser>>
               /\ phase' = phase \/ phase' = "threw"
    BY <2>1 DEF ExportTo, Loops, Stops, ParserThrows, source, added, detected
  <2>2. arg_it \in Nat \ {0}
    BY DEF KeywordInv, SplitType
  <2>3. /\ arg_it' \in Nat \ {0}
        /\ UNCHANGED <<format_arguments, options, subcommands, command_line, sub_parser>>
        /\ phase = "determine_format"
        /\ phase' = phase \/ phase' = "threw"
    BY <1>6, <2>1, <2>2 DEF export_help, NoSubcommand, AtArgument, Stops, ParserThrows, source,
                            added, detected
  <2>4. QED
    BY <2>3 DEF KeywordInv, SplitType
<1>7. CASE version_check
  <2>1. /\ phase = "determine_format"
        /\ UNCHANGED <<format_arguments, options, subcommands, command_line, sub_parser>>
        /\ phase' = phase \/ phase' = "threw"
        /\ arg_it' = arg_it + 2 \/ arg_it' = arg_it
    BY <1>7 DEF version_check, NoSubcommand, AtArgument, Loops, Stops, ParserThrows, source, added,
                detected
  <2>2. QED
    BY <2>1 DEF KeywordInv, SplitType
<1>8. CASE EndOfArguments
  BY <1>8 DEF EndOfArguments, KeywordInv, SplitType, source, added
<1>9. CASE parse_format
  BY <1>9 DEF parse_format, KeywordInv, SplitType, source, added, detected
<1>10. CASE EndParse
  BY <1>10 DEF EndParse, KeywordInv, SplitType, source, added, detected
<1>11. QED
  BY <1>1, <1>2, <1>3, <1>4, <1>5, <1>6, <1>7, <1>8, <1>9, <1>10 DEF Parse

\* Every step keeps the strengthening.
LEMMA NextKeywordInv ==
    ASSUME KeywordInv, [Next]_vars
    PROVE  KeywordInv'
<1>1. CASE UNCHANGED vars
  BY <1>1 DEF vars, source, added, detected, KeywordInv, SplitType, KeywordsAreValues, IsTaken
<1>2. ASSUME SetUp PROVE KeywordInv'
  <2>1. /\ UNCHANGED <<command_line, sub_parser, format_arguments, arg_it, phase>>
        /\ phase \in {"setup", "returned"}
    BY <1>2 DEF SetUp, SetsUp, add_option, add_flag, add_positional_option, add_subcommands,
                source, detected
  <2>2. QED
    BY <2>1 DEF KeywordInv, SplitType, KeywordsAreValues
<1>3. CASE get_sub_parser
  BY <1>3 DEF get_sub_parser, KeywordInv, SplitType, KeywordsAreValues
<1>4. CASE KnownOption \/ OtherArgument
  <2>1. SplitType' /\ ValuesOnly(format_arguments')
    BY <1>4, KnownOptionKeepsValues, OtherArgumentKeepsValues
  <2>2. UNCHANGED <<options, subcommands, phase>> /\ phase = "determine_format"
    BY <1>4 DEF KnownOption, OtherArgument, NoSubcommand, AtArgument, Loops, added
  <2>3. KeywordsAreValues'
    BY <2>1, <2>2 DEF ValuesOnly, KeywordsAreValues, IsTaken
  <2>4. QED
    BY <2>1, <2>2, <2>3 DEF KeywordInv
<1>5. ASSUME Parse, ~KnownOption, ~OtherArgument PROVE KeywordInv'
  <2>1. /\ SplitType'
        /\ UNCHANGED <<format_arguments, options, subcommands>>
        /\ phase \in {"setup", "determine_format", "parse_format", "format_parse"}
        /\ phase' # "setup"
    BY <1>5, OtherStepsHandNothingOver
  <2>2. ValuesOnly(format_arguments)
    BY <2>1 DEF KeywordInv, KeywordsAreValues, ValuesOnly
  <2>3. KeywordsAreValues'
    BY <2>1, <2>2 DEF ValuesOnly, KeywordsAreValues, IsTaken
  <2>4. QED
    BY <2>1, <2>3 DEF KeywordInv
<1>6. QED
  BY <1>1, <1>2, <1>3, <1>4, <1>5 DEF Next, Ended

(***************************************************************************)
(* For every application and every command line, a keyword or a subcommand *)
(* reaches format_parse only behind an option that takes it for its value. *)
(***************************************************************************)
THEOREM KeywordsAreValuesHolds == Spec => []KeywordsAreValues
<1>1. Init => KeywordInv
  BY ParserAssumption DEF Init, KeywordInv, SplitType, KeywordsAreValues
<1>2. KeywordInv /\ [Next]_vars => KeywordInv'
  BY NextKeywordInv
<1>3. KeywordInv => KeywordsAreValues
  BY DEF KeywordInv
<1>4. QED
  BY <1>1, <1>2, <1>3, PTL DEF Spec

----------------------------------------------------------------------------
(***************************************************************************)
(* parse() and is_option_set agree.  The strengthening: a variable that    *)
(* was read has its option named in the command line of format_parse; and  *)
(* while the options are read, the arguments are those of that command     *)
(* line but for the erased ones, so that what is found in the one is found *)
(* in the other.                                                           *)
(***************************************************************************)
Named(o) ==
    \E p \in 1..(EndOfOptionsIn(format_arguments) - 1) :
        IdentifiedBy(format_arguments[p], Pair(setup.options[o]))

BeforeParsing == {"setup", "determine_format", "parse_format"}

Lookup ==
    /\ it \in Nat \ {0}
    /\ end_of_options_it = EndOfOptionsIn(format_arguments)
    /\ DOMAIN arguments = DOMAIN format_arguments
    /\ \A p \in DOMAIN arguments : arguments[p] \in {Erased, format_arguments[p]}

ReadInv ==
    /\ DOMAIN option_value = DOMAIN setup.options
    /\ phase \in BeforeParsing =>
          it = 1 /\ pc = "begin" /\ option_value \in Seq({<<Default>>})
    /\ phase \in {"format_parse", "returned"} =>
          \A o \in DOMAIN setup.options : WasRead(o) => Named(o)
    /\ phase = "format_parse" =>
          /\ pc = "begin" => it = 1 /\ arguments = format_arguments
          /\ InOptions => Lookup
          /\ pc = "retrieve" => Named(call)

\* What an application has not parsed yet was not read.
LEMMA DefaultsAreUnread ==
    ASSUME option_value \in Seq({<<Default>>}), NEW o \in DOMAIN option_value
    PROVE  ~WasRead(o)
<1>1. option_value[o] = <<Default>>
  OBVIOUS
<1> QED
  BY <1>1 DEF WasRead, Default

\* An option is found by one identifier only if its pair is found.
LEMMA FoundIsNamed ==
    ASSUME SplitType, Lookup, NEW begin \in Nat \ {0}, NEW found,
           found = find_option_id(arguments, begin, end_of_options_it,
                                              SearchedId)
    PROVE  found \in Nat \ {0} /\ (found # end_of_options_it => Named(call))
<1>1. format_arguments \in Seq(Argument) /\ Len(format_arguments) \in Nat
  BY DEF SplitType
<1>2. end_of_options_it \in 1..(Len(format_arguments) + 1)
  BY <1>1, EndOfOptionsProperties DEF Lookup
<1>3. found # end_of_options_it =>
         /\ found \in begin..(end_of_options_it - 1)
         /\ IdentifiedBy(arguments[found], SearchedId)
  BY <1>2, FindOptionIdFinds
<1>4. found \in Nat \ {0}
  BY <1>2, <1>3
<1>5. ASSUME found # end_of_options_it PROVE Named(call)
  <2>1. found \in 1..(end_of_options_it - 1) /\ found \in DOMAIN format_arguments
    BY <1>1, <1>2, <1>3, <1>5
  <2>2. arguments[found] = format_arguments[found]
    BY <1>3, <1>5, <2>1, ErasedNamesNothing DEF Lookup
  <2>3. IdentifiedBy(format_arguments[found], SearchedId)
    BY <1>3, <1>5, <2>2
  <2> DEFINE c == setup.options[call]
  <2>4. SearchedId = OnlyShort(c.short) \/ SearchedId = OnlyLong(c.long)
    BY DEF SearchedId, Option, OnlyShort, OnlyLong, NoId, OnlyShort, OnlyLong, NoId
  <2> HIDE DEF c
  <2>5. IdentifiedBy(format_arguments[found], Pair(c))
    BY <2>3, <2>4 DEF IdentifiedBy, OnlyShort, OnlyLong, Pair
  <2> USE DEF c
  <2> QED
    BY <2>1, <2>5 DEF Named, Lookup
<1> QED
  BY <1>4, <1>5

\* A step of format_parse that takes no value and stays outside of the options.
LEMMA SameValuesKeepRead ==
    ASSUME ReadInv, phase = "format_parse",
           UNCHANGED <<phase, setup, format_arguments, option_value>>,
           pc' # "begin", ~InOptions'
    PROVE  ReadInv'
<1>1. \A o : (WasRead(o)' <=> WasRead(o)) /\ (Named(o)' <=> Named(o))
  BY DEF WasRead, Named
<1> QED
  BY <1>1 DEF ReadInv, BeforeParsing, InOptions

\* The first step of format_parse.
LEMMA FindEndKeepsRead ==
    ASSUME ReadInv, phase = "format_parse", UNCHANGED <<phase, setup, format_arguments>>,
           FindEndOfOptions
    PROVE  ReadInv'
<1>1. /\ pc = "begin" /\ pc' \in {"flag", "check_unknown", "look_up"}
      /\ end_of_options_it' = EndOfOptionsIn(arguments)
      /\ UNCHANGED <<arguments, it, option_value>>
  BY DEF FindEndOfOptions, AfterOptions, lookup, outputs
<1>2. arguments = format_arguments /\ it = 1
  BY <1>1 DEF ReadInv
<1>3. Lookup'
  BY <1>1, <1>2 DEF Lookup
<1>4. \A o : (WasRead(o)' <=> WasRead(o)) /\ (Named(o)' <=> Named(o))
  BY <1>1 DEF WasRead, Named
<1> QED
  BY <1>1, <1>3, <1>4 DEF ReadInv, BeforeParsing

\* Both lookups.
LEMMA LookUpKeepsRead ==
    ASSUME ReadInv, SplitType, phase = "format_parse", UNCHANGED <<phase, setup, format_arguments>>,
           LookUpOption \/ LookUpOptionAgain
    PROVE  ReadInv'
<1>1. \A o : Named(o)' <=> Named(o)
  BY DEF Named
<1>2. Lookup /\ it \in Nat \ {0}
  BY DEF ReadInv, InOptions, LookUpOption, LookUpOptionAgain, Lookup
<1>3. CASE LookUpOption
  <2> DEFINE found == find_option_id(arguments, 1, end_of_options_it, SearchedId)
  <2>1. found \in Nat \ {0} /\ (found # end_of_options_it => Named(call))
    BY <1>2, FoundIsNamed
  <2>2. /\ it' = found /\ UNCHANGED <<arguments, end_of_options_it, call>>
        /\ \/ /\ found # end_of_options_it /\ pc' = "retrieve"
              /\ option_value' = Forget(option_value, Option.list)
           \/ pc' \in {"look_up", "option_result"} /\ option_value' = option_value
    BY <1>3 DEF LookUpOption, LeaveGetOptionById
  <2> HIDE DEF found
  <2>3. Lookup'
    BY <1>2, <2>1, <2>2 DEF Lookup
  <2>4. CASE option_value' = option_value
    <3>1. \A o : WasRead(o)' <=> WasRead(o)
      BY <2>4 DEF WasRead
    <3>2. pc' = "retrieve" => Named(call)'
      BY <1>1, <2>1, <2>2
    <3> QED
      BY <1>1, <2>2, <2>3, <2>4, <3>1, <3>2 DEF ReadInv, BeforeParsing
  <2>5. CASE /\ found # end_of_options_it /\ pc' = "retrieve"
             /\ option_value' = [option_value EXCEPT ![call] = <<>>]
    <3>1. \A o \in DOMAIN option_value : o # call => (WasRead(o)' <=> WasRead(o))
      BY <2>5 DEF WasRead
    <3>2. Named(call) /\ (pc' = "retrieve" => Named(call)')
      BY <1>1, <2>1, <2>2, <2>5
    <3>3. DOMAIN option_value' = DOMAIN option_value
      BY <2>5
    <3> QED
      BY <1>1, <2>2, <2>3, <2>5, <3>1, <3>2, <3>3 DEF ReadInv, BeforeParsing
  <2> QED
    BY <2>2, <2>4, <2>5 DEF Forget
<1>4. CASE LookUpOptionAgain
  <2> DEFINE found == find_option_id(arguments, it, end_of_options_it, SearchedId)
  <2>1. found \in Nat \ {0} /\ (found # end_of_options_it => Named(call))
    BY <1>2, FoundIsNamed
  <2>2. /\ it' \in {it, found} /\ UNCHANGED <<arguments, end_of_options_it, call, option_value>>
        /\ pc' \in {"retrieve", "done", "look_up", "option_result"}
        /\ pc' = "retrieve" => found # end_of_options_it
    BY <1>4 DEF LookUpOptionAgain, LeaveGetOptionById, Throw, outputs
  <2> HIDE DEF found
  <2>3. Lookup'
    BY <1>2, <2>1, <2>2 DEF Lookup
  <2>4. \A o : WasRead(o)' <=> WasRead(o)
    BY <2>2 DEF WasRead
  <2>5. pc' = "retrieve" => Named(call)'
    BY <1>1, <2>1, <2>2
  <2> QED
    BY <1>1, <2>2, <2>3, <2>4, <2>5 DEF ReadInv, BeforeParsing
<1> QED
  BY <1>3, <1>4

\* The variable of the option that was found is the only one that changes.
LEMMA RetrieveKeepsRead ==
    ASSUME ReadInv, phase = "format_parse", UNCHANGED <<phase, setup, format_arguments>>,
           RetrieveGluedValue \/ RetrieveSeparateValue
    PROVE  ReadInv'
<1>1. \A o : Named(o)' <=> Named(o)
  BY DEF Named
<1>2. Lookup /\ Named(call) /\ pc = "retrieve"
  BY DEF ReadInv, InOptions, RetrieveGluedValue, RetrieveSeparateValue
<1>3. PICK p \in {it, it + 1} :
         /\ \E text : StoreOptionValue(text, p)
         /\ UNCHANGED <<end_of_options_it, call>>
  <2>1. CASE RetrieveGluedValue
    BY <2>1 DEF RetrieveGluedValue
  <2>2. CASE RetrieveSeparateValue
    BY <2>2 DEF RetrieveSeparateValue
  <2> QED
    BY <2>1, <2>2
<1>4. /\ it' = p /\ arguments' = Erase(it..p)
      /\ pc' \in {"look_up_again", "done"}
      /\ \/ option_value' = option_value
         \/ \E values : option_value' = [option_value EXCEPT ![call] = values]
  BY <1>3 DEF StoreOptionValue, Throw
<1>5. Lookup'
  <2>1. it' \in Nat \ {0}
    BY <1>2, <1>3, <1>4 DEF Lookup
  <2>2. /\ DOMAIN arguments' = DOMAIN arguments
        /\ \A q \in DOMAIN arguments : arguments'[q] \in {Erased, arguments[q]}
    BY <1>4 DEF Erase, Erased, Erased
  <2> QED
    BY <1>2, <1>3, <2>1, <2>2 DEF Lookup
<1>6. /\ DOMAIN option_value' = DOMAIN option_value
      /\ \A o \in DOMAIN option_value : o # call => (WasRead(o)' <=> WasRead(o))
  BY <1>4 DEF WasRead
<1>7. \A o \in DOMAIN setup.options : WasRead(o)' => Named(o)
  BY <1>2, <1>6 DEF ReadInv
<1> QED
  BY <1>1, <1>4, <1>5, <1>6, <1>7 DEF ReadInv, BeforeParsing

LEMMA FinishOptionKeepsRead ==
    ASSUME ReadInv, phase = "format_parse", UNCHANGED <<phase, setup, format_arguments>>,
           FinishOption
    PROVE  ReadInv'
<1>1. /\ Lookup /\ UNCHANGED <<arguments, end_of_options_it, it, option_value>>
      /\ pc' \in {"look_up", "flag", "check_unknown", "done"}
  BY DEF FinishOption, NextCall, AfterOptions, Throw, outputs, ReadInv, InOptions
<1>2. Lookup'
  BY <1>1 DEF Lookup
<1>3. \A o : (WasRead(o)' <=> WasRead(o)) /\ (Named(o)' <=> Named(o))
  BY <1>1 DEF WasRead, Named
<1> QED
  BY <1>1, <1>2, <1>3 DEF ReadInv, BeforeParsing

LEMMA FormatParseKeepsRead ==
    ASSUME ReadInv, SplitType, FormatParseStep
    PROVE  ReadInv'
<1>1. /\ phase = "format_parse" /\ UNCHANGED <<phase, setup, format_arguments>>
      /\ ParseStep /\ pc # "done"
  BY FormatParseKeepsConfig DEF FormatParseStep
<1>2. CASE MissingOptionValue \/ GetFlag \/ CheckForUnknownIds
           \/ CheckForLeftOverArgs
  BY <1>1, <1>2, SameValuesKeepRead
     DEF MissingOptionValue, GetFlag, CheckForUnknownIds,
         CheckForLeftOverArgs, Throw, NextCall,
         outputs, InOptions
<1>3. CASE BeginPositionalOption \/ TakePositionalValue
           \/ FinishPositionalOption
  BY <1>1, <1>3, SameValuesKeepRead
     DEF BeginPositionalOption, TakePositionalValue, FinishPositionalOption, Throw, NextCall,
         outputs, InOptions
<1> QED
  BY <1>1, <1>2, <1>3, FindEndKeepsRead, LookUpKeepsRead, RetrieveKeepsRead, FinishOptionKeepsRead
     DEF ParseStep

\* The calls of the application; nothing is read yet.
LEMMA SetUpKeepsRead ==
    ASSUME ReadInv, SetupInv, SetUp
    PROVE  ReadInv'
<1>1. UNCHANGED <<it, pc, phase>>
  BY DEF SetUp, add_option, add_flag, add_positional_option, add_subcommands, parsing
<1>2. setup.options \in Seq(OptionCalls) /\ SetupType
  BY DEF SetupInv, SetupType
<1>3. phase \in {"setup", "returned"}
  BY DEF SetUp, add_option, add_flag, add_positional_option, add_subcommands, SetsUp
<1>4. CASE UNCHANGED <<option_value, format_arguments>> /\ setup'.options = setup.options
  <2>1. \A o : (WasRead(o)' <=> WasRead(o)) /\ (Named(o)' <=> Named(o))
    BY <1>4 DEF WasRead, Named
  <2> QED
    BY <1>1, <1>3, <1>4, <2>1 DEF ReadInv, BeforeParsing
<1>5. ASSUME NEW c \in OptionCalls, NEW d \in BOOLEAN, add_option(c, d)
      PROVE  ReadInv'
  <2>1. CASE UNCHANGED <<setup, option_value>>
    BY <1>4, <1>5, <2>1 DEF add_option, detected
  <2>2. CASE /\ setup' = [setup EXCEPT !.options = Append(@, c)]
             /\ option_value' = Append(option_value, <<Default>>)
    <3>1. phase = "setup"
      BY <1>5 DEF add_option, SetsUp
    <3>2. option_value \in Seq({<<Default>>}) /\ it = 1 /\ pc = "begin"
          /\ DOMAIN option_value = DOMAIN setup.options
      BY <3>1 DEF ReadInv, BeforeParsing
    <3>3. setup'.options = Append(setup.options, c)
      BY <1>2, <2>2 DEF SetupType
    <3>4. Len(option_value) = Len(setup.options)
      BY <1>2, <3>2
    <3>5. /\ option_value' \in Seq({<<Default>>})
          /\ DOMAIN option_value' = DOMAIN setup'.options
      BY <1>2, <2>2, <3>2, <3>3, <3>4
    <3> QED
      BY <1>1, <3>1, <3>2, <3>5 DEF ReadInv
  <2> QED
    BY <1>5, <2>1, <2>2 DEF add_option
<1>6. ASSUME NEW c \in FlagCalls, NEW d \in BOOLEAN, NEW e \in BOOLEAN, add_flag(c, d, e)
      PROVE  ReadInv'
  <2>1. setup' = setup \/ setup' = [setup EXCEPT !.flags = Append(@, c)]
    BY <1>6 DEF add_flag
  <2>2. setup'.options = setup.options
    BY <1>2, <2>1 DEF SetupType
  <2> QED
    BY <1>4, <1>6, <2>2 DEF add_flag, detected
<1>7. ASSUME NEW c \in PositionalCalls, add_positional_option(c) PROVE ReadInv'
  <2>1. setup'.options = setup.options
    BY <1>2, <1>7 DEF add_positional_option, SetupType
  <2> QED
    BY <1>4, <1>7, <2>1 DEF add_positional_option, detected
<1>8. ASSUME NEW names \in SubcommandLists, add_subcommands(names) PROVE ReadInv'
  BY <1>4, <1>8 DEF add_subcommands, added, outputs, detected
<1> QED
  BY <1>5, <1>6, <1>7, <1>8 DEF SetUp

\* What parse() does before and after format_parse.
LEMMA ParseKeepsRead ==
    ASSUME ReadInv, SplitType, Parse
    PROVE  ReadInv'
<1>1. CASE FormatParseStep
  BY <1>1, FormatParseKeepsRead
<1>2. CASE BeginParse \/ KnownOption \/ FoundSubcommand \/ UnknownSubcommand \/ SpecialFormat
           \/ export_help \/ version_check \/ OtherArgument \/ EndOfArguments
  <2>1. /\ phase \in {"setup", "determine_format"}
        /\ phase' \in {"determine_format", "parse_format", "threw"}
        /\ UNCHANGED <<setup, option_value, it, pc>>
    BY <1>2 DEF BeginParse, KnownOption, FoundSubcommand, UnknownSubcommand, SpecialFormat,
         export_help, ExportTo, version_check, OtherArgument, EndOfArguments, Loops, Stops,
         ParserThrows, AtArgument, NoSubcommand, added, outputs, parsing
  <2> QED
    BY <2>1 DEF ReadInv, BeforeParsing
<1>3. CASE parse_format
  <2>1. /\ phase = "parse_format" /\ phase' \in {"format_parse", "exited"}
        /\ UNCHANGED <<setup, format_arguments, option_value, it, pc>>
        /\ phase' = "format_parse" => arguments' = format_arguments
    BY <1>3 DEF parse_format, added, outputs, detected
  <2>2. it = 1 /\ pc = "begin" /\ option_value \in Seq({<<Default>>})
    BY <2>1 DEF ReadInv, BeforeParsing
  <2>3. \A o \in DOMAIN setup'.options : ~WasRead(o)'
    <3>1. \A o : WasRead(o)' <=> WasRead(o)
      BY <2>1 DEF WasRead
    <3> QED
      BY <2>1, <2>2, <3>1, DefaultsAreUnread DEF ReadInv
  <2> QED
    BY <2>1, <2>2, <2>3 DEF ReadInv, BeforeParsing, InOptions
<1>4. CASE EndParse
  <2>1. /\ phase = "format_parse" /\ phase' \in {"returned", "threw"}
        /\ UNCHANGED <<setup, format_arguments, option_value>>
    BY <1>4 DEF EndParse, added, outputs, detected
  <2>2. \A o : (WasRead(o)' <=> WasRead(o)) /\ (Named(o)' <=> Named(o))
    BY <2>1 DEF WasRead, Named
  <2> QED
    BY <2>1, <2>2 DEF ReadInv, BeforeParsing
<1> QED
  BY <1>1, <1>2, <1>3, <1>4 DEF Parse

LEMMA NextKeepsRead ==
    ASSUME ReadInv, SplitType, SetupInv, [Next]_vars
    PROVE  ReadInv'
<1>1. CASE UNCHANGED vars
  <2>1. UNCHANGED <<setup, format_arguments, option_value, it, pc, phase, arguments,
                    end_of_options_it, call>>
    BY <1>1 DEF vars, added, outputs, detected, parsing
  <2>2. \A o : (WasRead(o)' <=> WasRead(o)) /\ (Named(o)' <=> Named(o))
    BY <2>1 DEF WasRead, Named
  <2>3. Lookup' <=> Lookup
    BY <2>1 DEF Lookup
  <2> QED
    BY <2>1, <2>2, <2>3 DEF ReadInv, InOptions
<1>2. CASE get_sub_parser
  <2>1. /\ setup' = NoSetup /\ option_value' = <<>> /\ it' = 1 /\ pc' = "begin" /\ phase' = "setup"
    BY <1>2 DEF get_sub_parser
  <2> QED
    BY <2>1 DEF ReadInv, NoSetup
<1> QED
  BY <1>1, <1>2, SetUpKeepsRead, ParseKeepsRead DEF Next, Ended

\* The pair of an option is the one is_option_set finds by either identifier.
LEMMA RegisteredPairOfOption ==
    ASSUME SetupInv, NEW o \in DOMAIN setup.options, NEW i \in IdsOf(setup.options[o])
    PROVE  RegisteredPair(i) = Pair(setup.options[o])
<1> DEFINE c == setup.options[o]
<1>1. Pair(c) \in used_option_ids
  BY DEF SetupInv, SetupIsWellFormed, CallsAreRegistered
<1>2. \/ c.short # NoId /\ i = OnlyShort(c.short)
      \/ c.long # NoId /\ i = OnlyLong(c.long)
  BY DEF IdsOf
<1> HIDE DEF c
<1>3. SamePair(Pair(c), i)
  BY <1>2 DEF SamePair, Pair, OnlyShort, OnlyLong
<1>4. ASSUME NEW pair \in used_option_ids, SamePair(pair, i) PROVE pair = Pair(c)
  <2>1. SamePair(pair, Pair(c))
    <3>1. CASE c.short # NoId /\ i = OnlyShort(c.short)
      <4>1. i.short = c.short /\ i.long = NoId /\ Pair(c).short = c.short
        BY <3>1 DEF OnlyShort, Pair
      <4> QED
        BY <3>1, <4>1, <1>4 DEF SamePair
    <3>2. CASE c.long # NoId /\ i = OnlyLong(c.long)
      <4>1. i.long = c.long /\ i.short = NoId /\ Pair(c).long = c.long
        BY <3>2 DEF OnlyLong, Pair
      <4> QED
        BY <3>2, <4>1, <1>4 DEF SamePair
    <3> QED
      BY <1>2, <3>1, <3>2
  <2> QED
    BY <1>1, <2>1 DEF SetupInv, SetupIsWellFormed, NoIdentifierTwice
<1>5. RegisteredPair(i) = Pair(c)
  BY <1>1, <1>3, <1>4 DEF RegisteredPair
<1> QED
  BY <1>5 DEF c

(***************************************************************************)
(* For every application and every command line, an option that            *)
(* format_parse has read a value for is set, by either of its identifiers: *)
(* the search of is_option_set in the untouched arguments finds what the   *)
(* passes have found while they erased them.                               *)
(***************************************************************************)
THEOREM ReadOptionsAreSetHolds == Spec => []ReadOptionsAreSet
<1>1. Init => ReadInv /\ KeywordInv /\ SetupInv
  <2>1. Init => ReadInv
    BY DEF Init, ReadInv, NoSetup
  <2> QED
    BY <2>1, NewParserSetup, ParserAssumption DEF Init, KeywordInv, SplitType, KeywordsAreValues
<1>2. ReadInv /\ KeywordInv /\ SetupInv /\ [Next]_vars => (ReadInv /\ KeywordInv /\ SetupInv)'
  BY NextKeepsRead, NextKeywordInv, NextSetupInv DEF KeywordInv
<1>3. ReadInv /\ KeywordInv /\ SetupInv => ReadOptionsAreSet
  <2> SUFFICES ASSUME ReadInv, KeywordInv, SetupInv, phase = "returned",
                      NEW o \in DOMAIN setup.options, WasRead(o),
                      NEW i \in IdsOf(setup.options[o])
               PROVE  is_option_set(i)
    BY DEF ReadOptionsAreSet
  <2> DEFINE end == EndOfOptionsIn(format_arguments)
             found == find_option_id(format_arguments, 1, end, Pair(setup.options[o]))
  <2>1. end \in Nat
    BY EndOfOptionsProperties DEF KeywordInv, SplitType
  <2>2. Named(o)
    BY DEF ReadInv
  <2> HIDE DEF end
  <2>3. found # end
    BY <2>1, <2>2, FindOptionIdFinds DEF Named, end
  <2> QED
    BY <2>3, RegisteredPairOfOption DEF is_option_set, end
<1> QED
  BY <1>1, <1>2, <1>3, PTL DEF Spec

----------------------------------------------------------------------------
(***************************************************************************)
(* Type correctness.  The strengthening: until format_parse runs, its      *)
(* state is the one it starts in and every bound variable holds its        *)
(* default, whatever was added and refused; so format_parse starts in a    *)
(* state of its own type.                                                  *)
(***************************************************************************)
BoundVariablesAreDefaults ==
    /\ option_value = [o \in DOMAIN setup.options |-> <<Default>>]
    /\ flag_value = [v \in FlagVariables |-> FALSE]
    /\ positional_value = [p \in DOMAIN setup.positionals |-> <<Default>>]

NotStarted ==
    /\ end_of_options_it = 1 /\ pc = "begin" /\ call = 1
    /\ id = "short" /\ it = 1 /\ seen = {} /\ positional_option_count = 0
    /\ error = "none"

Unparsed == phase \in BeforeParsing => BoundVariablesAreDefaults /\ NotStarted

TypeInv == TypeOK /\ Unparsed

\* The set of calls an application has made is one format_parse can be given.
LEMMA SetupIsSetup == SetupInv => setup \in Setup
<1>. SUFFICES ASSUME SetupInv PROVE setup \in Setup
  OBVIOUS
<1>1. /\ Seq(OptionCalls) \subseteq Seq(OptionCall)
      /\ Seq(FlagCalls) \subseteq Seq(FlagCall)
      /\ Seq(PositionalCalls) \subseteq Seq(PositionalCall)
  BY CallsAssumption
<1>2. QED
  BY <1>1 DEF SetupInv, SetupType, Setup

\* A registered identifier makes an argument.
LEMMA IdentifiersAreArguments ==
    ASSUME NEW pair \in Pairs
    PROVE  IdentifiersOf(pair) \subseteq Argument
<1>1. \A c \in Symbol : <<"-", c>> \in Argument /\ <<"-", "-", c>> \in Argument
  BY SymbolAssumption DEF Argument
<1>2. /\ pair.short # NoId => pair.short \in Symbol
      /\ pair.long # NoId => pair.long \in Symbol
  BY DEF Pairs, Identifier
<1>3. QED
  BY <1>1, <1>2 DEF IdentifiersOf, prepend_dash_short, prepend_dash_long

\* A pair that verify_identifiers accepts has the type of a pair.
LEMMA RegisteredType ==
    ASSUME TypeOK, NEW c, Register(c)
    PROVE  used_option_ids' \subseteq Pairs /\ Pair(c) \in Pairs
<1>1. Pair(c) \in Pairs
  <2>1. c.short \in Identifier /\ c.long \in Identifier
    BY ParserAssumption DEF Register, verify_identifiers, Pair, Identifier
  <2>2. QED
    BY <2>1 DEF Pair, Pairs
<1>2. QED
  BY <1>1 DEF Register, TypeOK

\* A new parser: what the constructor leaves is well typed.
NewParser ==
    /\ command_line \in Seq(Argument) \ {<<>>} /\ executable_name \in Seq(Argument)
    /\ subcommands \subseteq Argument
    /\ used_option_ids = ReservedIds /\ options = {} /\ has_positional_list_option = FALSE
    /\ setup = NoSetup /\ option_value = <<>> /\ flag_value = <<>> /\ positional_value = <<>>
    /\ format = "short_help" /\ version_check_user_decision = "unset" /\ sub_parser = <<>>
    /\ arg_it = 1 /\ format_arguments = <<>> /\ NotStarted /\ phase = "setup"

LEMMA NewParserType == NewParser => TypeInv
<1>. SUFFICES ASSUME NewParser PROVE TypeInv
  OBVIOUS
<1>. USE DEF NewParser
<1>1. Len(command_line) \in Nat
  BY LenProperties
<1>2. TypeOK
  <2>1. <<>> \in Seq(Argument) /\ arg_it \in 1..(Len(command_line) + 1)
    BY <1>1
  <2>2. has_positional_list_option \in BOOLEAN /\ error \in Errors
    BY DEF NotStarted, Errors
  <2>3. QED
    BY <2>1, <2>2, ReservedIdsAssumption DEF TypeOK, Formats
<1>3. FlagVariables = {}
  BY DEF FlagVariables, NoSetup
<1>4. BoundVariablesAreDefaults
  BY <1>3 DEF BoundVariablesAreDefaults, NoSetup
<1>5. QED
  BY <1>2, <1>4 DEF TypeInv, Unparsed

\* add_option binds one more variable, with its default, if it is not refused.
LEMMA AddOptionKeepsType ==
    ASSUME TypeInv, SetupInv, NEW c \in OptionCalls, NEW d \in BOOLEAN, add_option(c, d)
    PROVE  TypeInv'
<1>1. /\ phase = "setup" /\ UNCHANGED <<source, subcommands, has_positional_list_option,
                                        flag_value, positional_value>>
      /\ UNCHANGED <<detected, parsing, error, phase>>
      /\ options' = options \cup IdentifiersOf(Pair(c)) /\ Register(c)
  BY DEF add_option, SetsUp
<1>2. TypeOK'
  <2>1. used_option_ids' \subseteq Pairs /\ options' \subseteq Argument
    BY <1>1, RegisteredType, IdentifiersAreArguments DEF TypeInv, TypeOK
  <2>2. QED
    BY <1>1, <2>1 DEF TypeInv, TypeOK, source, detected
<1>3. BoundVariablesAreDefaults /\ NotStarted
  BY <1>1 DEF TypeInv, Unparsed, BeforeParsing
<1>4. NotStarted'
  BY <1>1, <1>3 DEF NotStarted, parsing
<1>5. CASE UNCHANGED <<setup, option_value>>
  BY <1>1, <1>2, <1>3, <1>4, <1>5
     DEF TypeInv, Unparsed, BoundVariablesAreDefaults, FlagVariables
<1>6. CASE /\ setup' = [setup EXCEPT !.options = Append(@, c)]
           /\ option_value' = Append(option_value, <<Default>>)
  <2>1. /\ setup.options \in Seq(OptionCalls)
        /\ setup'.options = Append(setup.options, c)
        /\ setup'.flags = setup.flags /\ setup'.positionals = setup.positionals
    BY <1>6 DEF SetupInv, SetupType
  <2>. DEFINE n == Len(setup.options)
              values == [o \in 1..n |-> <<Default>>]
  <2>2. /\ n \in Nat /\ DOMAIN setup.options = 1..n
        /\ DOMAIN setup'.options = 1..(n + 1)
    BY <2>1
  <2>. HIDE DEF n
  <2>3. option_value = values /\ values \in Seq({<<Default>>}) /\ Len(values) = n
    BY <1>3, <2>2 DEF BoundVariablesAreDefaults
  <2>4. Append(values, <<Default>>) = [o \in 1..(n + 1) |-> <<Default>>]
    BY <2>2, <2>3
  <2>5. option_value' = [o \in DOMAIN setup'.options |-> <<Default>>]
    BY <1>6, <2>2, <2>3, <2>4
  <2>6. BoundVariablesAreDefaults'
    BY <1>1, <1>3, <2>1, <2>5 DEF BoundVariablesAreDefaults, FlagVariables
  <2>7. QED
    BY <1>2, <1>4, <2>6 DEF TypeInv, Unparsed
<1>7. QED
  BY <1>5, <1>6 DEF add_option

\* add_flag binds a variable too; two flags may bind the same.
LEMMA AddFlagKeepsType ==
    ASSUME TypeInv, SetupInv, NEW c \in FlagCalls, NEW d \in BOOLEAN, NEW v \in BOOLEAN,
           add_flag(c, d, v)
    PROVE  TypeInv'
<1>1. /\ phase = "setup" /\ UNCHANGED <<source, subcommands, has_positional_list_option, options,
                                        option_value, positional_value>>
      /\ UNCHANGED <<detected, parsing, error, phase>> /\ Register(c)
  BY DEF add_flag, SetsUp
<1>2. TypeOK'
  <2>1. used_option_ids' \subseteq Pairs
    BY <1>1, RegisteredType DEF TypeInv
  <2>2. QED
    BY <1>1, <2>1 DEF TypeInv, TypeOK, source, detected
<1>3. BoundVariablesAreDefaults /\ NotStarted
  BY <1>1 DEF TypeInv, Unparsed, BeforeParsing
<1>4. NotStarted'
  BY <1>1, <1>3 DEF NotStarted, parsing
<1>5. CASE UNCHANGED <<setup, flag_value>>
  BY <1>1, <1>2, <1>3, <1>4, <1>5
     DEF TypeInv, Unparsed, BoundVariablesAreDefaults, FlagVariables
<1>6. CASE /\ setup' = [setup EXCEPT !.flags = Append(@, c)]
           /\ flag_value' = [w \in DOMAIN flag_value \cup {c.value} |-> FALSE]
  <2>1. /\ setup.flags \in Seq(FlagCalls)
        /\ setup'.flags = Append(setup.flags, c)
        /\ setup'.options = setup.options /\ setup'.positionals = setup.positionals
    BY <1>6 DEF SetupInv, SetupType
  <2>2. /\ DOMAIN setup'.flags = DOMAIN setup.flags \cup {Len(setup.flags) + 1}
        /\ setup'.flags[Len(setup.flags) + 1] = c
        /\ \A f \in DOMAIN setup.flags : setup'.flags[f] = setup.flags[f]
    BY <2>1
  <2>3. FlagVariables' = FlagVariables \cup {c.value}
    BY <2>2 DEF FlagVariables
  <2>4. DOMAIN flag_value = FlagVariables
    BY <1>3 DEF BoundVariablesAreDefaults
  <2>5. flag_value' = [w \in FlagVariables' |-> FALSE]
    BY <1>6, <2>3, <2>4
  <2>6. BoundVariablesAreDefaults'
    BY <1>1, <1>3, <2>1, <2>5 DEF BoundVariablesAreDefaults
  <2>7. QED
    BY <1>2, <1>4, <2>6 DEF TypeInv, Unparsed
<1>7. QED
  BY <1>5, <1>6 DEF add_flag

\* add_positional_option binds one more variable.
LEMMA AddPositionalKeepsType ==
    ASSUME TypeInv, SetupInv, NEW c \in PositionalCalls, add_positional_option(c)
    PROVE  TypeInv'
<1>1. /\ phase = "setup" /\ UNCHANGED <<source, subcommands, used_option_ids, options,
                                        option_value, flag_value>>
      /\ UNCHANGED <<detected, parsing, error, phase>>
      /\ has_positional_list_option' = c.list
      /\ setup' = [setup EXCEPT !.positionals = Append(@, c)]
      /\ positional_value' = Append(positional_value, <<Default>>)
  BY DEF add_positional_option, SetsUp
<1>2. TypeOK'
  <2>1. c.list \in BOOLEAN
    BY CallsAssumption DEF PositionalCall
  <2>2. QED
    BY <1>1, <2>1 DEF TypeInv, TypeOK, source, detected
<1>3. BoundVariablesAreDefaults /\ NotStarted
  BY <1>1 DEF TypeInv, Unparsed, BeforeParsing
<1>4. NotStarted'
  BY <1>1, <1>3 DEF NotStarted, parsing
<1>5. /\ setup.positionals \in Seq(PositionalCalls)
      /\ setup'.positionals = Append(setup.positionals, c)
      /\ setup'.options = setup.options /\ setup'.flags = setup.flags
  BY <1>1 DEF SetupInv, SetupType
<1>. DEFINE n == Len(setup.positionals)
            values == [k \in 1..n |-> <<Default>>]
<1>6. /\ n \in Nat /\ DOMAIN setup.positionals = 1..n
      /\ DOMAIN setup'.positionals = 1..(n + 1)
  BY <1>5
<1>. HIDE DEF n
<1>7. positional_value = values /\ values \in Seq({<<Default>>}) /\ Len(values) = n
  BY <1>3, <1>6 DEF BoundVariablesAreDefaults
<1>8. Append(values, <<Default>>) = [k \in 1..(n + 1) |-> <<Default>>]
  BY <1>6, <1>7
<1>9. positional_value' = [k \in DOMAIN setup'.positionals |-> <<Default>>]
  BY <1>1, <1>6, <1>7, <1>8
<1>10. BoundVariablesAreDefaults'
  BY <1>1, <1>3, <1>5, <1>9 DEF BoundVariablesAreDefaults, FlagVariables
<1>11. QED
  BY <1>2, <1>4, <1>10 DEF TypeInv, Unparsed

\* What stutters or adds subcommands.
LEMMA AddSubcommandsKeepsType ==
    ASSUME TypeInv, subcommands' \subseteq Argument,
           UNCHANGED <<source, added, outputs, detected, parsing, error, phase>>
    PROVE  TypeInv'
<1>1. /\ UNCHANGED <<command_line, executable_name, used_option_ids, options, setup>>
      /\ UNCHANGED <<has_positional_list_option, format, version_check_user_decision>>
      /\ UNCHANGED <<sub_parser, arg_it, format_arguments, phase>>
      /\ UNCHANGED <<arguments, end_of_options_it, pc, call, id, it, seen>>
      /\ UNCHANGED <<option_value, flag_value, positional_value, positional_option_count, error>>
  BY DEF source, added, outputs, detected, parsing
<1>2. ParseTypeOK' <=> ParseTypeOK
  BY <1>1 DEF ParseTypeOK, InOptions, Remaining, FlagVariables
<1>3. TypeOK'
  BY <1>1, <1>2 DEF TypeInv, TypeOK
<1>4. QED
  BY <1>1, <1>3
     DEF TypeInv, Unparsed, BoundVariablesAreDefaults, NotStarted, FlagVariables

\* Where the steps of parse() that read the command line leave the variables.
SplitStep ==
    /\ UNCHANGED <<command_line, subcommands, added, outputs, parsing>>
    /\ executable_name' \in Seq(Argument)
    /\ sub_parser' \in Seq(Argument)
    /\ format_arguments' \in Seq(Argument)
    /\ arg_it' \in 1..(Len(command_line) + 1)
    /\ format' \in Formats
    /\ version_check_user_decision' \in {"unset", "on", "off"}
    /\ \/ phase' \in {"determine_format", "parse_format"} /\ error' = error
       \/ phase' = "threw" /\ error' \in Errors \cup {"design_error"}

LEMMA SplitStepKeepsType ==
    ASSUME TypeInv, SplitStep, phase \in BeforeParsing
    PROVE  TypeInv'
<1>1. BoundVariablesAreDefaults /\ NotStarted
  BY DEF TypeInv, Unparsed
<1>2. error' \in Errors \cup {"design_error"}
  BY DEF SplitStep, TypeInv, TypeOK
<1>3. TypeOK'
  BY <1>2 DEF SplitStep, TypeInv, TypeOK, added
<1>4. BoundVariablesAreDefaults'
  BY <1>1 DEF SplitStep, BoundVariablesAreDefaults, FlagVariables, added, outputs
<1>5. phase' # "threw" => NotStarted'
  BY <1>1 DEF SplitStep, NotStarted, parsing
<1>6. QED
  BY <1>3, <1>4, <1>5 DEF TypeInv, Unparsed, BeforeParsing

\* Every step that reads the command line is such a step.
LEMMA SplittingIsSplitStep ==
    ASSUME TypeInv, KeywordInv,
           BeginParse \/ KnownOption \/ FoundSubcommand \/ UnknownSubcommand \/ SpecialFormat
             \/ export_help \/ version_check \/ OtherArgument \/ EndOfArguments
    PROVE  SplitStep /\ phase \in BeforeParsing
<1>0. /\ command_line \in Seq(Argument) \ {<<>>} /\ Len(command_line) \in Nat
      /\ arg_it \in 1..(Len(command_line) + 1)
      /\ executable_name \in Seq(Argument) /\ sub_parser \in Seq(Argument)
      /\ format_arguments \in Seq(Argument) /\ format \in Formats
      /\ version_check_user_decision \in {"unset", "on", "off"}
  BY LenProperties DEF TypeInv, TypeOK
<1>1. CASE BeginParse
  <2>1. 1 \in DOMAIN command_line /\ command_line[1] \in Argument /\ 2 \in 1..(Len(command_line) + 1)
    BY <1>0, EmptySeq
  <2>2. Append(executable_name, command_line[1]) \in Seq(Argument)
    BY <1>0, <2>1
  <2>3. QED
    BY <1>0, <1>1, <2>1, <2>2 DEF BeginParse, SplitStep, ParserThrows, BeforeParsing
<1>2. CASE KnownOption
  <2>1. format_arguments' \in Seq(Argument)
    BY <1>2, KnownOptionKeepsValues DEF SplitType
  <2>2. arg_it' \in 1..(Len(command_line) + 1)
    BY <1>0, <1>2 DEF KnownOption, LastOfOption, AtArgument
  <2>3. QED
    BY <1>0, <1>2, <2>1, <2>2 DEF KnownOption, AtArgument, Loops, source, SplitStep, BeforeParsing
<1>3. CASE FoundSubcommand
  BY <1>0, <1>3, RestType
     DEF FoundSubcommand, AtArgument, KeywordInv, source, SplitStep, BeforeParsing
<1>4. CASE UnknownSubcommand
  BY <1>0, <1>4
     DEF UnknownSubcommand, AtArgument, Stops, ParserThrows, source, detected, SplitStep,
         BeforeParsing, Errors
<1>5. CASE SpecialFormat
  <2>1. format' \in Formats /\ arg_it' \in 1..(Len(command_line) + 1)
    BY <1>0, <1>5 DEF SpecialFormat, NoSubcommand, AtArgument, SpecialFormats, Formats
  <2>2. QED
    BY <1>0, <1>5, <2>1
       DEF SpecialFormat, NoSubcommand, AtArgument, Loops, source, SplitStep, BeforeParsing
<1>6. CASE export_help
  <2>1. ASSUME NEW value, NEW at \in 1..Len(command_line), ExportTo(value, at)
        PROVE  SplitStep \/ phase # "determine_format"
    <3>1. CASE ParserThrows("validation_error") /\ Stops
      BY <1>0, <3>1 DEF Stops, ParserThrows, source, detected, SplitStep, Errors
    <3>2. CASE /\ \E f \in ExportFormats : value = <<f>> /\ format' = f
               /\ arg_it' = at + 1
               /\ UNCHANGED <<version_check_user_decision, format_arguments>> /\ Loops
      <4>1. format' \in Formats /\ arg_it' \in 1..(Len(command_line) + 1)
        BY <1>0, <3>2 DEF Formats
      <4>2. QED
        BY <1>0, <3>2, <4>1 DEF Loops, source, SplitStep
    <3>3. QED
      BY <2>1, <3>1, <3>2 DEF ExportTo
  <2>2. phase = "determine_format" /\ arg_it \in 1..Len(command_line)
    BY <1>0, <1>6 DEF export_help, NoSubcommand, AtArgument
  <2>3. CASE ParserThrows("too_few_arguments") /\ Stops
    BY <1>0, <2>2, <2>3 DEF Stops, ParserThrows, source, detected, SplitStep, Errors, BeforeParsing
  <2>4. CASE \E value : ExportTo(value, arg_it)
    BY <2>1, <2>2, <2>4 DEF BeforeParsing
  <2>5. CASE arg_it < Len(command_line) /\ \E value : ExportTo(value, arg_it + 1)
    <3>1. arg_it + 1 \in 1..Len(command_line)
      BY <1>0, <2>2, <2>5
    <3>2. QED
      BY <2>1, <2>2, <2>5, <3>1 DEF BeforeParsing
  <2>6. QED
    BY <1>6, <2>3, <2>4, <2>5 DEF export_help
<1>7. CASE version_check
  <2>1. phase = "determine_format" /\ arg_it <= Len(command_line)
    BY <1>7 DEF version_check, NoSubcommand, AtArgument
  <2>2. CASE Stops /\ (ParserThrows("validation_error") \/ ParserThrows("too_few_arguments"))
    BY <1>0, <2>1, <2>2 DEF Stops, ParserThrows, source, detected, SplitStep, Errors, BeforeParsing
  <2>3. CASE /\ arg_it < Len(command_line) /\ arg_it' = arg_it + 2
             /\ \E d \in Decisions : version_check_user_decision' = d.decision
             /\ UNCHANGED <<format, format_arguments>> /\ Loops
    <3>1. /\ version_check_user_decision' \in {"unset", "on", "off"}
          /\ arg_it' \in 1..(Len(command_line) + 1)
      BY <1>0, <2>3 DEF Decisions
    <3>2. QED
      BY <1>0, <2>1, <2>3, <3>1 DEF Loops, source, SplitStep, BeforeParsing
  <2>4. QED
    BY <1>7, <2>2, <2>3 DEF version_check
<1>8. CASE OtherArgument
  <2>1. format_arguments' \in Seq(Argument)
    BY <1>8, OtherArgumentKeepsValues DEF SplitType
  <2>2. arg_it' \in 1..(Len(command_line) + 1)
    BY <1>0, <1>8 DEF OtherArgument, NoSubcommand, AtArgument
  <2>3. QED
    BY <1>0, <1>8, <2>1, <2>2
       DEF OtherArgument, NoSubcommand, AtArgument, Loops, source, SplitStep, BeforeParsing
<1>9. CASE EndOfArguments
  <2>1. format' \in Formats
    BY <1>0, <1>9 DEF EndOfArguments, Formats
  <2>2. QED
    BY <1>0, <1>9, <2>1 DEF EndOfArguments, source, SplitStep, BeforeParsing
<1>10. QED
  BY <1>1, <1>2, <1>3, <1>4, <1>5, <1>6, <1>7, <1>8, <1>9

\* The state that format_parse is handed over is one it begins in.
LEMMA ParseFormatBegins ==
    ASSUME TypeInv, SetupInv, parse_format, phase' = "format_parse"
    PROVE  setup' \in Setup /\ format_arguments' \in Seq(Argument) /\ ParseBegins'
<1>1. /\ UNCHANGED <<setup, format_arguments, outputs, end_of_options_it, pc, call, id, it>>
      /\ UNCHANGED <<seen, positional_option_count, error>>
      /\ arguments' = format_arguments /\ phase = "parse_format"
  BY DEF parse_format, added, detected
<1>2. BoundVariablesAreDefaults /\ NotStarted
  BY <1>1 DEF TypeInv, Unparsed, BeforeParsing
<1>3. ParseBegins'
  BY <1>1, <1>2 DEF ParseBegins, BoundVariablesAreDefaults, NotStarted, FlagVariables, outputs
<1>4. QED
  BY <1>1, <1>3, SetupIsSetup DEF TypeInv, TypeOK

\* parse() keeps the types.
LEMMA ParseKeepsType ==
    ASSUME TypeInv, SetupInv, KeywordInv, Parse
    PROVE  TypeInv'
<1>1. CASE BeginParse \/ KnownOption \/ FoundSubcommand \/ UnknownSubcommand \/ SpecialFormat
             \/ export_help \/ version_check \/ OtherArgument \/ EndOfArguments
  BY <1>1, SplittingIsSplitStep, SplitStepKeepsType
<1>2. CASE parse_format
  <2>1. phase' \in {"format_parse", "exited"}
    BY <1>2 DEF parse_format
  <2>2. phase' = "format_parse" => ParseTypeOK'
    <3>1. (setup \in Setup /\ format_arguments \in Seq(Argument) /\ ParseBegins)' => ParseTypeOK'
      BY ParseBeginsTypeOK, PTL
    <3>2. QED
      BY <1>2, <3>1, ParseFormatBegins
  <2>3. TypeOK'
    BY <1>2, <2>1, <2>2
       DEF parse_format, TypeInv, TypeOK, source, added, detected
  <2>4. QED
    BY <2>1, <2>3 DEF TypeInv, Unparsed, BeforeParsing
<1>3. CASE FormatParseStep
  <2>1. /\ phase = "format_parse" /\ ParseStep
        /\ UNCHANGED <<command_line, executable_name, subcommands, used_option_ids, options,
                       has_positional_list_option, format, version_check_user_decision,
                       sub_parser, arg_it, phase, format_arguments>>
    BY <1>3, FormatParseKeepsConfig DEF FormatParseStep, source
  <2>2. ParseTypeOK'
    BY <2>1, NextTypeOK DEF TypeInv, TypeOK
  <2>3. error' \in Errors
    BY <2>2 DEF ParseTypeOK
  <2>4. TypeOK'
    BY <2>1, <2>2, <2>3 DEF TypeInv, TypeOK
  <2>5. QED
    BY <2>1, <2>4 DEF TypeInv, Unparsed, BeforeParsing
<1>4. CASE EndParse
  <2>1. /\ phase' \in {"returned", "threw"} /\ phase = "format_parse"
        /\ UNCHANGED <<source, subcommands, added, outputs, detected, parsing, error>>
    BY <1>4 DEF EndParse
  <2>2. ParseTypeOK' <=> ParseTypeOK
    BY <2>1 DEF ParseTypeOK, InOptions, Remaining, FlagVariables, added, outputs, detected, parsing
  <2>3. TypeOK'
    BY <2>1, <2>2 DEF TypeInv, TypeOK, source, added, detected
  <2>4. QED
    BY <2>1, <2>3 DEF TypeInv, Unparsed, BeforeParsing
<1>5. QED
  BY <1>1, <1>2, <1>3, <1>4 DEF Parse

\* Every step keeps the types.
LEMMA NextTypeInv ==
    ASSUME TypeInv, SetupInv, KeywordInv, [Next]_vars
    PROVE  TypeInv'
<1>1. CASE UNCHANGED vars
  BY <1>1, AddSubcommandsKeepsType DEF vars, TypeInv, TypeOK
<1>2. ASSUME NEW names \in SubcommandLists, add_subcommands(names) PROVE TypeInv'
  BY <1>2, AddSubcommandsKeepsType, ParserAssumption DEF add_subcommands, TypeInv, TypeOK
<1>3. CASE get_sub_parser
  <2>1. /\ command_line' \in Seq(Argument) \ {<<>>} /\ executable_name' \in Seq(Argument)
        /\ subcommands' = {} /\ NotStarted' /\ phase' = "setup"
    BY <1>3 DEF get_sub_parser, TypeInv, TypeOK, NotStarted
  <2>2. NewParser'
    BY <1>3, <2>1 DEF get_sub_parser, NewParser
  <2>3. QED
    BY <2>2, NewParserType, PTL
<1>4. QED
  BY <1>1, <1>2, <1>3, AddOptionKeepsType, AddFlagKeepsType, AddPositionalKeepsType,
     ParseKeepsType
     DEF Next, SetUp, Ended

(***************************************************************************)
(* For every application and every command line the state is well typed:   *)
(* format_parse starts in a state of its own type, whatever sequence of    *)
(* calls the parser was set up with, and stays there until parse() ends.   *)
(***************************************************************************)
THEOREM TypeOKHolds == Spec => []TypeOK
<1>1. Init => TypeInv /\ SetupInv /\ KeywordInv
  <2>1. Init => TypeInv
    <3>1. Init => NewParser
      BY ParserAssumption, EmptySeq DEF Init, NewParser, NotStarted
    <3>2. QED
      BY <3>1, NewParserType
  <2>2. QED
    BY <2>1, NewParserSetup, ParserAssumption DEF Init, KeywordInv, SplitType, KeywordsAreValues
<1>2. TypeInv /\ SetupInv /\ KeywordInv /\ [Next]_vars => (TypeInv /\ SetupInv /\ KeywordInv)'
  BY NextTypeInv, NextSetupInv, NextKeywordInv
<1>3. TypeInv => TypeOK
  BY DEF TypeInv
<1>4. QED
  BY <1>1, <1>2, <1>3, PTL DEF Spec

----------------------------------------------------------------------------
(***************************************************************************)
(* What parse() returns with.  The invariants of FormatParse hold from the *)
(* state it is handed over until the application goes on.                  *)
(***************************************************************************)
ParsedInv ==
    /\ phase \in {"format_parse", "returned"} => PositionalInv /\ OptionsRead /\ PositionalsRead
    /\ phase = "returned" => Succeeded

\* What leaves the state of format_parse alone leaves its invariants alone.
LEMMA SameParsed ==
    ASSUME UNCHANGED parse_vars
    PROVE  /\ PositionalInv' <=> PositionalInv
           /\ OptionsRead' <=> OptionsRead
           /\ PositionalsRead' <=> PositionalsRead
           /\ Succeeded' <=> Succeeded
<1>1. /\ UNCHANGED <<setup, format_arguments, arguments, end_of_options_it, pc, call, id, it, seen>>
      /\ UNCHANGED <<option_value, flag_value, positional_value, positional_option_count, error>>
  BY DEF parse_vars, config, lookup, outputs
<1>2. PositionalInv' <=> PositionalInv
  BY <1>1 DEF PositionalInv, NoIdentifierLeft, PositionalsAreNoIdentifiers, InPositionals
<1>3. OptionsRead' <=> OptionsRead
  BY <1>1 DEF OptionsRead, RequiredRead, Option, InOptions, BehindOptions, Succeeded
<1>4. PositionalsRead' <=> PositionalsRead
  BY <1>1 DEF PositionalsRead, PositionalRead, Positional, Succeeded
<1>5. QED
  BY <1>1, <1>2, <1>3, <1>4 DEF Succeeded

\* Every step keeps them.
LEMMA NextParsedInv ==
    ASSUME ParsedInv, TypeInv, SetupInv, [Next]_vars
    PROVE  ParsedInv'
<1>1. CASE UNCHANGED <<parse_vars, phase>>
  BY <1>1, SameParsed DEF ParsedInv
<1>2. ASSUME NEW names \in SubcommandLists, add_subcommands(names)
      PROVE  UNCHANGED <<parse_vars, phase>>
  BY <1>2 DEF add_subcommands, added, outputs, detected, parsing, parse_vars, config, lookup
<1>3. CASE phase' \notin {"format_parse", "returned"}
  BY <1>3 DEF ParsedInv
<1>4. ASSUME SetUp PROVE ParsedInv'
  <2>1. phase' = "setup" \/ \E names \in SubcommandLists : add_subcommands(names)
    BY <1>4 DEF SetUp, SetsUp, add_option, add_flag, add_positional_option
  <2>2. QED
    BY <1>1, <1>2, <1>3, <2>1
<1>5. CASE parse_format
  <2>1. phase' \in {"format_parse", "exited"}
    BY <1>5 DEF parse_format
  <2>2. ParseBegins' => PositionalInv' /\ OptionsRead' /\ PositionalsRead'
    BY InitPositionalInv, InitRead, PTL
  <2>3. QED
    BY <1>5, <2>1, <2>2, ParseFormatBegins DEF ParsedInv
<1>6. CASE FormatParseStep
  <2>1. phase = "format_parse" /\ phase' = phase /\ ParseStep /\ ParseTypeOK
    BY <1>6 DEF FormatParseStep, TypeInv, TypeOK
  <2>2. QED
    BY <2>1, NextPositionalInv, NextOptionsRead, NextPositionalsRead DEF ParsedInv
<1>7. CASE EndParse
  <2>1. /\ phase = "format_parse" /\ UNCHANGED parse_vars /\ pc = "done"
        /\ phase' = IF error = "none" THEN "returned" ELSE "threw"
    BY <1>7 DEF EndParse, added, outputs, detected, parsing, parse_vars, config, lookup
  <2>2. QED
    BY <2>1, SameParsed DEF ParsedInv, Succeeded
<1>8. CASE BeginParse \/ KnownOption \/ FoundSubcommand \/ UnknownSubcommand \/ SpecialFormat
             \/ export_help \/ version_check \/ OtherArgument \/ EndOfArguments
  <2>1. phase' \in {"determine_format", "parse_format", "threw"}
    BY <1>8 DEF BeginParse, KnownOption, FoundSubcommand, UnknownSubcommand, SpecialFormat,
         export_help, ExportTo, version_check, OtherArgument, EndOfArguments, Loops, Stops,
         ParserThrows, AtArgument, NoSubcommand
  <2>2. QED
    BY <1>3, <2>1
<1>9. CASE get_sub_parser
  BY <1>3, <1>9 DEF get_sub_parser
<1>10. CASE UNCHANGED vars
  BY <1>1, <1>10 DEF vars, added, outputs, detected, parsing, parse_vars, config, lookup
<1>11. QED
  BY <1>4, <1>5, <1>6, <1>7, <1>8, <1>9, <1>10 DEF Next, Parse, Ended

(***************************************************************************)
(* For every application and every command line, parse() returns only with *)
(* a value of the command line for every required option and every         *)
(* positional option the application has added.                            *)
(***************************************************************************)
THEOREM ReturnsWithRequiredHolds == Spec => []ReturnsWithRequired
<1>1. Init => ParsedInv /\ TypeInv /\ SetupInv /\ KeywordInv
  <2>1. Init => NewParser
    BY ParserAssumption, EmptySeq DEF Init, NewParser, NotStarted
  <2>2. Init => ParsedInv
    BY DEF Init, ParsedInv
  <2>3. QED
    BY <2>1, <2>2, NewParserType, NewParserSetup, ParserAssumption
       DEF Init, KeywordInv, SplitType, KeywordsAreValues
<1>2. ParsedInv /\ TypeInv /\ SetupInv /\ KeywordInv /\ [Next]_vars
        => (ParsedInv /\ TypeInv /\ SetupInv /\ KeywordInv)'
  BY NextParsedInv, NextTypeInv, NextSetupInv, NextKeywordInv
<1>3. ParsedInv => ReturnsWithRequired
  BY DEF ParsedInv, ReturnsWithRequired, OptionsRead, PositionalsRead, RequiredAreRead,
         BehindOptions, RequiredRead, PositionalRead
<1>4. QED
  BY <1>1, <1>2, <1>3, PTL DEF Spec

----------------------------------------------------------------------------
(***************************************************************************)
(* Splitting keeps the arguments.  What AreKept says of one argument more; *)
(* the strengthening says where the splitting is: it starts behind the     *)
(* program's name, and a sub-parser has what was not read.                 *)
(***************************************************************************)
\* Nothing is kept of nothing but the program's name.
LEMMA KeptNothing ==
    ASSUME NEW line, NEW n \in 0..1
    PROVE  AreKept(<<>>, line, n)
<1>1. 2..n = {} /\ DOMAIN <<>> = {}
  OBVIOUS
<1>. DEFINE kept == [m \in {} |-> 2]
<1>2. kept \in [{} -> 2..n]
  OBVIOUS
<1>3. QED
  BY <1>1, <1>2 DEF AreKept

\* The argument that is read next is kept.
LEMMA KeptOne ==
    ASSUME NEW args \in Seq(Argument), NEW line \in Seq(Argument), NEW n \in Nat \ {0},
           n + 1 \in DOMAIN line, AreKept(args, line, n)
    PROVE  AreKept(Append(args, line[n + 1]), line, n + 1)
<1>1. PICK kept \in [DOMAIN args -> 2..n] :
          /\ \A m \in DOMAIN args : args[m] = line[kept[m]]
          /\ \A l, m \in DOMAIN args : l < m => kept[l] < kept[m]
          /\ \A p \in 2..n : IsOrdinary(line[p]) => \E m \in DOMAIN args : kept[m] = p
  BY DEF AreKept
<1>. DEFINE size == Len(args)
            all  == Append(args, line[n + 1])
            more == [m \in 1..(size + 1) |-> IF m <= size THEN kept[m] ELSE n + 1]
<1>2. /\ size \in Nat /\ DOMAIN args = 1..size /\ line[n + 1] \in Argument
      /\ DOMAIN all = 1..(size + 1) /\ all[size + 1] = line[n + 1]
      /\ \A m \in 1..size : all[m] = args[m]
  OBVIOUS
<1>. HIDE DEF size, all
<1>3. /\ \A m \in 1..size : m \in DOMAIN all /\ more[m] = kept[m] /\ kept[m] \in 2..n
      /\ size + 1 \in DOMAIN all /\ more[size + 1] = n + 1
      /\ DOMAIN more = 1..(size + 1)
  BY <1>1, <1>2
<1>4. \A m \in 1..(size + 1) : m \in 1..size \/ m = size + 1
  BY <1>2
<1>5. more \in [DOMAIN all -> 2..(n + 1)]
  BY <1>1, <1>2
<1>. HIDE DEF more
<1>6. \A m \in DOMAIN all : all[m] = line[more[m]]
  BY <1>1, <1>2, <1>3, <1>4
<1>7. \A l, m \in DOMAIN all : l < m => more[l] < more[m]
  BY <1>1, <1>2, <1>3, <1>4
<1>8. \A p \in 2..(n + 1) : IsOrdinary(line[p]) => \E m \in DOMAIN all : more[m] = p
  <2>1. SUFFICES ASSUME NEW p \in 2..(n + 1), IsOrdinary(line[p])
                 PROVE  \E m \in DOMAIN all : more[m] = p
    OBVIOUS
  <2>2. CASE p \in 2..n
    BY <1>1, <1>2, <1>3, <2>1, <2>2
  <2>3. CASE p = n + 1
    BY <1>3, <2>3
  <2>4. QED
    BY <2>1, <2>2, <2>3
<1>9. AreKept(all, line, n + 1)
  BY <1>5, <1>6, <1>7, <1>8 DEF AreKept
<1>10. QED
  BY <1>9 DEF all

\* The argument that is read next is left out, if it is not an ordinary one.
LEMMA SkippedOne ==
    ASSUME NEW args, NEW line, NEW n \in Nat, ~IsOrdinary(line[n + 1]), AreKept(args, line, n)
    PROVE  AreKept(args, line, n + 1)
<1>1. PICK kept \in [DOMAIN args -> 2..n] :
          /\ \A m \in DOMAIN args : args[m] = line[kept[m]]
          /\ \A l, m \in DOMAIN args : l < m => kept[l] < kept[m]
          /\ \A p \in 2..n : IsOrdinary(line[p]) => \E m \in DOMAIN args : kept[m] = p
  BY DEF AreKept
<1>2. kept \in [DOMAIN args -> 2..(n + 1)]
  BY <1>1
<1>3. \A p \in 2..(n + 1) : p \in 2..n \/ p = n + 1
  OBVIOUS
<1>4. \A p \in 2..(n + 1) : IsOrdinary(line[p]) => \E m \in DOMAIN args : kept[m] = p
  BY <1>1, <1>3
<1>5. QED
  BY <1>1, <1>2, <1>4 DEF AreKept

Unread == SubSeq(command_line, arg_it, Len(command_line))

KeptInv ==
    /\ phase = "setup" => arg_it = 1 /\ sub_parser = <<>>
    /\ phase = "determine_format" => arg_it > 1
    /\ sub_parser # <<>> => sub_parser = Unread
    /\ ArgumentsAreKept

\* An argument of the command line, and the one that is read next.
LEMMA NextArgument ==
    ASSUME TypeInv, KeptInv, AtArgument
    PROVE  /\ command_line \in Seq(Argument) /\ Len(command_line) \in Nat
           /\ format_arguments \in Seq(Argument)
           /\ arg_it \in 1..Len(command_line) /\ arg_it > 1 /\ arg = command_line[arg_it]
           /\ AreKept(format_arguments, command_line, arg_it - 1)
           /\ phase = "determine_format" /\ sub_parser = <<>>
BY DEF TypeInv, TypeOK, KeptInv, ArgumentsAreKept, AtArgument, arg

\* What a step has to keep that looks at one argument or two.
LEMMA ReadOn ==
    ASSUME TypeInv, KeptInv, AtArgument, Loops,
           arg_it' \in Nat \ {0, 1}, AreKept(format_arguments', command_line, arg_it' - 1)
    PROVE  KeptInv'
BY NextArgument DEF Loops, source, KeptInv, ArgumentsAreKept

\* A step that throws leaves what was read.
LEMMA StopsKeeps ==
    ASSUME KeptInv, Stops, phase' = "threw"
    PROVE  KeptInv'
BY DEF Stops, source, detected, KeptInv, ArgumentsAreKept, Unread

\* An option is kept with its value.
LEMMA KnownOptionKeepsArguments ==
    ASSUME TypeInv, KeptInv, KnownOption
    PROVE  KeptInv'
<1>1. /\ AtArgument /\ Loops /\ arg_it' = LastOfOption + 1
      /\ format_arguments' = format_arguments \o SubSeq(command_line, arg_it, LastOfOption)
  BY DEF KnownOption
<1>2. /\ command_line \in Seq(Argument) /\ Len(command_line) \in Nat
      /\ format_arguments \in Seq(Argument)
      /\ arg_it \in 1..Len(command_line) /\ arg_it > 1 /\ arg_it \in DOMAIN command_line
      /\ AreKept(format_arguments, command_line, arg_it - 1)
  BY <1>1, NextArgument
<1>. DEFINE one == Append(format_arguments, command_line[arg_it])
            two == Append(one, command_line[arg_it + 1])
<1>3. one \in Seq(Argument)
  BY <1>2
<1>4. AreKept(one, command_line, arg_it)
  <2>1. arg_it - 1 \in Nat \ {0} /\ (arg_it - 1) + 1 = arg_it
    BY <1>2
  <2>2. QED
    BY <1>2, <2>1, KeptOne
<1>5. CASE arg_it < Len(command_line)
  <2>1. LastOfOption = arg_it + 1 /\ arg_it + 1 \in DOMAIN command_line
    BY <1>2, <1>5 DEF LastOfOption
  <2>2. format_arguments' = two
    BY <1>1, <1>2, <2>1
  <2>3. AreKept(two, command_line, arg_it + 1)
    <3>. HIDE DEF one
    <3>1. QED
      BY <1>2, <1>3, <1>4, <2>1, KeptOne
  <2>4. arg_it' \in Nat \ {0, 1} /\ arg_it' - 1 = arg_it + 1
    BY <1>1, <1>2, <2>1
  <2>. HIDE DEF one, two
  <2>5. QED
    BY <1>1, <2>2, <2>3, <2>4, ReadOn
<1>6. CASE ~(arg_it < Len(command_line))
  <2>1. LastOfOption = arg_it
    BY <1>6 DEF LastOfOption
  <2>2. format_arguments' = one
    BY <1>1, <1>2, <2>1
  <2>3. arg_it' \in Nat \ {0, 1} /\ arg_it' - 1 = arg_it
    BY <1>1, <1>2, <2>1
  <2>. HIDE DEF one
  <2>4. QED
    BY <1>1, <1>4, <2>2, <2>3, ReadOn
<1>7. QED
  BY <1>5, <1>6

\* An argument for format_parse is kept.
LEMMA OtherArgumentKeepsArguments ==
    ASSUME TypeInv, KeptInv, OtherArgument
    PROVE  KeptInv'
<1>1. /\ AtArgument /\ Loops /\ arg_it' = arg_it + 1
      /\ format_arguments' = Append(format_arguments, arg)
  BY DEF OtherArgument, NoSubcommand
<1>2. /\ command_line \in Seq(Argument) /\ Len(command_line) \in Nat
      /\ format_arguments \in Seq(Argument) /\ arg = command_line[arg_it]
      /\ arg_it \in 1..Len(command_line) /\ arg_it > 1 /\ arg_it \in DOMAIN command_line
      /\ AreKept(format_arguments, command_line, arg_it - 1)
  BY <1>1, NextArgument
<1>3. /\ arg_it - 1 \in Nat \ {0} /\ (arg_it - 1) + 1 = arg_it
      /\ arg_it' \in Nat \ {0, 1} /\ arg_it' - 1 = arg_it
  BY <1>1, <1>2
<1>4. AreKept(Append(format_arguments, command_line[arg_it]), command_line, arg_it)
  BY <1>2, <1>3, KeptOne
<1>5. QED
  BY <1>1, <1>2, <1>3, <1>4, ReadOn

\* A keyword, and a keyword with its value, are left out.
LEMMA KeywordIsLeftOut ==
    ASSUME TypeInv, KeptInv, AtArgument, Loops, UNCHANGED format_arguments,
           ~IsOrdinary(arg), arg_it' = arg_it + 1
    PROVE  KeptInv'
<1>1. /\ arg_it \in Nat /\ arg_it > 1 /\ arg = command_line[arg_it]
      /\ AreKept(format_arguments, command_line, arg_it - 1)
  BY NextArgument
<1>2. arg_it - 1 \in Nat /\ (arg_it - 1) + 1 = arg_it /\ arg_it' - 1 = arg_it
  BY <1>1
<1>3. AreKept(format_arguments, command_line, arg_it)
  BY <1>1, <1>2, SkippedOne
<1>4. arg_it' \in Nat \ {0, 1}
  BY <1>1
<1>5. QED
  BY <1>2, <1>3, <1>4, ReadOn

LEMMA KeywordWithValueIsLeftOut ==
    ASSUME TypeInv, KeptInv, AtArgument, Loops, UNCHANGED format_arguments,
           ~IsOrdinary(arg), ~IsOrdinary(command_line[arg_it + 1]), arg_it' = arg_it + 2
    PROVE  KeptInv'
<1>1. /\ arg_it \in Nat /\ arg_it > 1 /\ arg = command_line[arg_it]
      /\ AreKept(format_arguments, command_line, arg_it - 1)
  BY NextArgument
<1>2. arg_it - 1 \in Nat /\ (arg_it - 1) + 1 = arg_it /\ arg_it' - 1 = arg_it + 1
  BY <1>1
<1>3. AreKept(format_arguments, command_line, arg_it)
  BY <1>1, <1>2, SkippedOne
<1>4. AreKept(format_arguments, command_line, arg_it + 1)
  BY <1>1, <1>3, SkippedOne
<1>5. arg_it' \in Nat \ {0, 1}
  BY <1>1
<1>6. QED
  BY <1>2, <1>4, <1>5, ReadOn

\* The steps that read keywords.
LEMMA KeywordsKeepArguments ==
    ASSUME TypeInv, KeptInv, SpecialFormat \/ export_help \/ version_check
    PROVE  KeptInv'
<1>1. CASE SpecialFormat
  <2>1. AtArgument /\ Loops /\ UNCHANGED format_arguments /\ arg_it' = arg_it + 1
    BY <1>1 DEF SpecialFormat, NoSubcommand
  <2>2. ~IsOrdinary(arg)
    BY <1>1 DEF SpecialFormat, IsOrdinary, IsKeyword
  <2>3. QED
    BY <2>1, <2>2, KeywordIsLeftOut
<1>2. CASE export_help
  <2>1. AtArgument
    BY <1>2 DEF export_help, NoSubcommand
  <2>2. ASSUME NEW value, NEW at, ExportTo(value, at)
        PROVE  \/ Stops /\ phase' = "threw"
               \/ /\ Loops /\ UNCHANGED format_arguments /\ arg_it' = at + 1
                  /\ value \in {<<f>> : f \in ExportFormats}
    BY <2>2 DEF ExportTo, ParserThrows
  <2>3. CASE Stops /\ phase' = "threw"
    BY <2>3, StopsKeeps
  <2>4. CASE IsPrefix(ExportHelpEqual, arg) /\ \E value : ExportTo(value, arg_it)
    <3>1. ~IsOrdinary(arg)
      BY <2>4 DEF IsOrdinary, IsKeyword
    <3>2. QED
      BY <2>1, <2>2, <2>3, <2>4, <3>1, KeywordIsLeftOut
  <2>5. CASE arg = ExportHelp /\ ExportTo(command_line[arg_it + 1], arg_it + 1)
    <3>1. ~IsOrdinary(arg)
      BY <2>5 DEF IsOrdinary, IsKeyword
    <3>2. CASE /\ Loops /\ UNCHANGED format_arguments /\ arg_it' = (arg_it + 1) + 1
               /\ command_line[arg_it + 1] \in {<<f>> : f \in ExportFormats}
      <4>1. ~IsOrdinary(command_line[arg_it + 1])
        BY <3>2 DEF IsOrdinary
      <4>2. arg_it' = arg_it + 2
        BY <2>1, <3>2, NextArgument
      <4>3. QED
        BY <2>1, <3>1, <3>2, <4>1, <4>2, KeywordWithValueIsLeftOut
    <3>3. QED
      BY <2>2, <2>3, <2>5, <3>2
  <2>6. CASE ParserThrows("too_few_arguments") /\ Stops
    BY <2>3, <2>6 DEF ParserThrows
  <2>7. QED
    BY <1>2, <2>4, <2>5, <2>6 DEF export_help
<1>3. CASE version_check
  <2>1. AtArgument /\ arg = VersionCheck
    BY <1>3 DEF version_check, NoSubcommand
  <2>2. ~IsOrdinary(arg)
    BY <2>1 DEF IsOrdinary, IsKeyword
  <2>3. CASE Stops /\ phase' = "threw"
    BY <2>3, StopsKeeps
  <2>4. CASE /\ \E d \in Decisions : command_line[arg_it + 1] = d.value
             /\ arg_it' = arg_it + 2 /\ UNCHANGED format_arguments /\ Loops
    <3>1. ~IsOrdinary(command_line[arg_it + 1])
      BY <2>4 DEF IsOrdinary
    <3>2. QED
      BY <2>1, <2>2, <2>4, <3>1, KeywordWithValueIsLeftOut
  <2>5. QED
    BY <1>3, <2>3, <2>4 DEF version_check, ParserThrows
<1>4. QED
  BY <1>1, <1>2, <1>3

\* Splitting keeps the arguments.
LEMMA SplittingKeepsArguments ==
    ASSUME TypeInv, KeywordInv, KeptInv,
           BeginParse \/ KnownOption \/ FoundSubcommand \/ UnknownSubcommand \/ SpecialFormat
             \/ export_help \/ version_check \/ OtherArgument \/ EndOfArguments
    PROVE  KeptInv'
<1>1. CASE BeginParse
  <2>1. /\ phase = "setup" /\ UNCHANGED <<command_line, sub_parser, format_arguments>>
        /\ arg_it = 1 /\ sub_parser = <<>> /\ format_arguments = <<>>
        /\ \/ arg_it' = 2 /\ phase' = "determine_format"
           \/ arg_it' = 1 /\ phase' = "threw"
    BY <1>1 DEF BeginParse, ParserThrows, KeptInv, KeywordInv
  <2>2. AreKept(<<>>, command_line, arg_it' - 1)
    <3>1. arg_it' - 1 \in 0..1
      BY <2>1
    <3>2. QED
      BY <3>1, KeptNothing
  <2>3. QED
    BY <2>1, <2>2 DEF KeptInv, ArgumentsAreKept
<1>2. CASE FoundSubcommand
  <2>1. /\ sub_parser' = Rest /\ phase = "determine_format"
        /\ UNCHANGED <<command_line, format_arguments, arg_it, phase>>
    BY <1>2 DEF FoundSubcommand, AtArgument, source
  <2>2. QED
    BY <2>1 DEF KeptInv, ArgumentsAreKept, Rest, Unread
<1>3. CASE UnknownSubcommand
  BY <1>3, StopsKeeps DEF UnknownSubcommand, ParserThrows
<1>4. CASE EndOfArguments
  <2>1. /\ phase = "determine_format" /\ phase' = "parse_format"
        /\ sub_parser # <<>> \/ arg_it > Len(command_line)
        /\ UNCHANGED <<command_line, sub_parser, format_arguments, arg_it>>
    BY <1>4 DEF EndOfArguments, source
  <2>2. arg_it > Len(command_line) => Unread = <<>>
    <3>1. command_line \in Seq(Argument) /\ arg_it \in Nat /\ Len(command_line) \in Nat
      BY DEF TypeInv, TypeOK
    <3>2. QED
      BY <3>1, SubSeqEmpty DEF Unread
  <2>3. sub_parser = Unread
    BY <2>1, <2>2 DEF KeptInv
  <2>4. QED
    BY <2>1, <2>3 DEF KeptInv, ArgumentsAreKept, Unread
<1>5. QED
  BY <1>1, <1>2, <1>3, <1>4, KnownOptionKeepsArguments, OtherArgumentKeepsArguments,
     KeywordsKeepArguments

\* Every step keeps the strengthening.
LEMMA NextKeptInv ==
    ASSUME TypeInv, KeywordInv, KeptInv, [Next]_vars
    PROVE  KeptInv'
<1>1. CASE UNCHANGED <<command_line, sub_parser, format_arguments, arg_it, phase>>
  BY <1>1 DEF KeptInv, ArgumentsAreKept, Unread
<1>2. CASE SetUp
  BY <1>1, <1>2
     DEF SetUp, SetsUp, add_option, add_flag, add_positional_option, add_subcommands, source,
         detected
<1>3. CASE parse_format \/ FormatParseStep \/ EndParse
  <2>1. /\ UNCHANGED <<command_line, sub_parser, format_arguments, arg_it>>
        /\ phase \in {"parse_format", "format_parse"}
        /\ phase' \in {"format_parse", "returned", "threw", "exited"}
    BY <1>3, FormatParseKeepsConfig
       DEF parse_format, FormatParseStep, EndParse, source, detected
  <2>2. QED
    BY <2>1 DEF KeptInv, ArgumentsAreKept, Unread
<1>4. CASE get_sub_parser
  <2>1. phase' = "setup" /\ arg_it' = 1 /\ sub_parser' = <<>> /\ format_arguments' = <<>>
    BY <1>4 DEF get_sub_parser
  <2>2. AreKept(<<>>, command_line', 0)
    BY KeptNothing
  <2>3. QED
    BY <2>1, <2>2 DEF KeptInv, ArgumentsAreKept
<1>5. CASE UNCHANGED vars
  BY <1>1, <1>5 DEF vars, source, detected
<1>6. QED
  BY <1>2, <1>3, <1>4, <1>5, SplittingKeepsArguments DEF Next, Parse, Ended

(***************************************************************************)
(* For every application and every command line, splitting loses nothing   *)
(* but keywords and their values, keeps the order and leaves the rest to   *)
(* the sub-parser.                                                         *)
(***************************************************************************)
THEOREM ArgumentsAreKeptHolds == Spec => []ArgumentsAreKept
<1>1. Init => KeptInv /\ TypeInv /\ SetupInv /\ KeywordInv
  <2>1. Init => NewParser
    BY ParserAssumption, EmptySeq DEF Init, NewParser, NotStarted
  <2>2. ASSUME Init PROVE KeptInv
    <3>1. phase = "setup" /\ arg_it = 1 /\ sub_parser = <<>> /\ format_arguments = <<>>
      BY <2>2 DEF Init
    <3>2. AreKept(<<>>, command_line, 0)
      BY KeptNothing
    <3>3. QED
      BY <3>1, <3>2 DEF KeptInv, ArgumentsAreKept
  <2>3. Init => SetupInv /\ KeywordInv
    BY NewParserSetup, ParserAssumption DEF Init, KeywordInv, SplitType, KeywordsAreValues
  <2>4. QED
    BY <2>1, <2>2, <2>3, NewParserType
<1>2. KeptInv /\ TypeInv /\ SetupInv /\ KeywordInv /\ [Next]_vars
        => (KeptInv /\ TypeInv /\ SetupInv /\ KeywordInv)'
  BY NextKeptInv, NextTypeInv, NextSetupInv, NextKeywordInv
<1>3. KeptInv => ArgumentsAreKept
  BY DEF KeptInv
<1>4. QED
  BY <1>1, <1>2, <1>3, PTL DEF Spec

----------------------------------------------------------------------------
(***************************************************************************)
(* parse() and the reading.  format_parse starts on a well-formed setup,   *)
(* whatever the application has added; it agrees with the reading while it *)
(* runs, and what comes behind it leaves its state alone.                  *)
(***************************************************************************)
AgreeInv ==
    /\ phase = "format_parse" => ArgumentsInv /\ ParseAgrees
    /\ phase \in {"returned", "threw", "exited"} => AgreesWithReading

LEMMA SameAgreement == UNCHANGED parse_vars => (AgreesWithReading' <=> AgreesWithReading)
<1>. SUFFICES ASSUME UNCHANGED parse_vars PROVE AgreesWithReading' <=> AgreesWithReading
  OBVIOUS
<1>1. UNCHANGED <<setup, format_arguments, pc, option_value, flag_value, positional_value, error>>
  BY DEF parse_vars, config, outputs
<1>2. QED
  BY <1>1 DEF AgreesWithReading, Outcome

LEMMA NextAgreeInv ==
    ASSUME AgreeInv, ParsedInv, TypeInv, SetupInv, [Next]_vars
    PROVE  AgreeInv'
<1>0. phase \in BeforeParsing => pc = "begin"
  BY DEF TypeInv, Unparsed, NotStarted
<1>1. phase = "format_parse" => WellFormed(setup) /\ ParseTypeOK /\ OptionsRead
  BY DEF SetupInv, SetupIsWellFormed, TypeInv, TypeOK, ParsedInv
<1>2. ASSUME [ParseStep]_parse_vars, phase = "format_parse", phase' = "format_parse" PROVE AgreeInv'
  <2>1. ArgumentsInv' /\ ParseAgrees'
    BY <1>1, <1>2, NextArgumentsInv, NextParseAgrees DEF AgreeInv
  <2>2. QED
    BY <1>2, <2>1 DEF AgreeInv
<1>3. CASE UNCHANGED <<parse_vars, phase>>
  <2>1. CASE phase = "format_parse"
    BY <1>2, <1>3, <2>1
  <2>2. CASE phase # "format_parse"
    BY <1>3, <2>2, SameAgreement DEF AgreeInv
  <2>3. QED
    BY <2>1, <2>2
<1>4. CASE phase' \in BeforeParsing
  BY <1>4 DEF AgreeInv, BeforeParsing
<1>5. ASSUME SetUp PROVE AgreeInv'
  <2>1. phase' = "setup" \/ \E names \in SubcommandLists : add_subcommands(names)
    BY <1>5 DEF SetUp, SetsUp, add_option, add_flag, add_positional_option
  <2>2. \A names \in SubcommandLists : add_subcommands(names) => UNCHANGED <<parse_vars, phase>>
    BY DEF add_subcommands, added, outputs, detected, parsing, parse_vars, config, lookup
  <2>3. QED
    BY <1>3, <1>4, <2>1, <2>2 DEF BeforeParsing
<1>6. CASE parse_format
  <2>1. phase = "parse_format" /\ pc' = pc /\ phase' \in {"format_parse", "exited"}
    BY <1>6 DEF parse_format
  <2>2. CASE phase' = "format_parse"
    <3>1. ParseBegins'
      BY <1>6, <2>2, ParseFormatBegins
    <3>2. ParseBegins' => ArgumentsInv' /\ ParseAgrees'
      BY InitArgumentsInv, InitParseAgrees, PTL
    <3>3. QED
      BY <2>2, <3>1, <3>2 DEF AgreeInv
  <2>3. CASE phase' = "exited"
    <3>1. pc' # "done"
      BY <1>0, <2>1 DEF BeforeParsing
    <3>2. QED
      BY <2>3, <3>1 DEF AgreeInv, AgreesWithReading
  <2>4. QED
    BY <2>1, <2>2, <2>3
<1>7. CASE FormatParseStep
  BY <1>2, <1>7 DEF FormatParseStep
<1>8. CASE EndParse
  <2>1. /\ phase = "format_parse" /\ UNCHANGED parse_vars /\ phase' \in {"returned", "threw"}
    BY <1>8 DEF EndParse, added, outputs, detected, parsing, parse_vars, config, lookup
  <2>2. AgreesWithReading
    BY <1>1, <2>1, AgreementIsTheProperty DEF AgreeInv
  <2>3. QED
    BY <2>1, <2>2, SameAgreement DEF AgreeInv
<1>9. CASE BeginParse \/ KnownOption \/ FoundSubcommand \/ UnknownSubcommand \/ SpecialFormat
             \/ export_help \/ version_check \/ OtherArgument \/ EndOfArguments
  <2>1. /\ phase' \in {"determine_format", "parse_format", "threw"}
        /\ phase \in BeforeParsing /\ pc' = pc
    BY <1>9 DEF BeginParse, KnownOption, FoundSubcommand, UnknownSubcommand, SpecialFormat,
         export_help, ExportTo, version_check, OtherArgument, EndOfArguments, Loops, Stops,
         ParserThrows, AtArgument, NoSubcommand, parsing, BeforeParsing
  <2>2. pc' # "done"
    BY <1>0, <2>1
  <2>3. QED
    BY <2>1, <2>2 DEF AgreeInv, AgreesWithReading
<1>10. CASE get_sub_parser
  BY <1>4, <1>10 DEF get_sub_parser, BeforeParsing
<1>11. CASE UNCHANGED vars
  BY <1>3, <1>11 DEF vars, added, outputs, detected, parsing, parse_vars, config, lookup
<1>12. QED
  BY <1>5, <1>6, <1>7, <1>8, <1>9, <1>10, <1>11 DEF Next, Parse, Ended

(***************************************************************************)
(* For every application and every command line on which no argument that  *)
(* reaches format_parse can be taken for two things, parse() throws what   *)
(* format_parse throws exactly on the user errors of the reading, and      *)
(* otherwise the application has the values of the reading, in whatever    *)
(* order it has added its options and whichever calls were refused.        *)
(***************************************************************************)
THEOREM ParserAgreesWithReading == Spec => []AgreesWithReading
<1>1. Init => AgreeInv /\ ParsedInv /\ TypeInv /\ SetupInv /\ KeywordInv
  <2>1. Init => NewParser
    BY ParserAssumption, EmptySeq DEF Init, NewParser, NotStarted
  <2>2. Init => AgreeInv /\ ParsedInv
    BY DEF Init, ParsedInv, AgreeInv
  <2>3. QED
    BY <2>1, <2>2, NewParserType, NewParserSetup, ParserAssumption
       DEF Init, KeywordInv, SplitType, KeywordsAreValues
<1>2. AgreeInv /\ ParsedInv /\ TypeInv /\ SetupInv /\ KeywordInv /\ [Next]_vars
        => (AgreeInv /\ ParsedInv /\ TypeInv /\ SetupInv /\ KeywordInv)'
  BY NextAgreeInv, NextParsedInv, NextTypeInv, NextSetupInv, NextKeywordInv
<1>3. AgreeInv /\ TypeInv /\ SetupInv => AgreesWithReading
  <2>. SUFFICES ASSUME AgreeInv, TypeInv, SetupInv PROVE AgreesWithReading
    OBVIOUS
  <2>1. phase \in BeforeParsing => pc = "begin"
    BY DEF TypeInv, Unparsed, NotStarted
  <2>2. WellFormed(setup)
    BY DEF SetupInv, SetupIsWellFormed
  <2>3. CASE phase \in BeforeParsing
    BY <2>1, <2>3 DEF AgreesWithReading
  <2>4. CASE phase = "format_parse"
    BY <2>2, <2>4, AgreementIsTheProperty DEF AgreeInv
  <2>5. CASE phase \in {"returned", "threw", "exited"}
    BY <2>5 DEF AgreeInv
  <2>6. QED
    BY <2>3, <2>4, <2>5 DEF TypeInv, TypeOK, BeforeParsing
<1>4. QED
  BY <1>1, <1>2, <1>3, PTL DEF Spec
=============================================================================
