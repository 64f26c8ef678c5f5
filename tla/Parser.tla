------------------------------- MODULE Parser -------------------------------
(***************************************************************************)
(* sharg::parser: an application constructs a parser with the command      *)
(* line, adds its options, flags, positional options and subcommands, and  *)
(* calls parse() once.  parse() splits the command line into what belongs  *)
(* to the parser itself (help, version, export, update notifications),     *)
(* what is left to a subcommand, and what format_parse (FormatParse) takes *)
(* apart.  With a subcommand the application goes on with the sub-parser.  *)
(*                                                                         *)
(* A call that throws design_error and changes nothing is no step here.    *)
(***************************************************************************)
EXTENDS FormatParse

CONSTANTS
    OptionCalls, FlagCalls, PositionalCalls,  \* what an application may add
    SubcommandLists,   \* arguments of the constructor and of add_subcommands
    CommandLines,      \* what a user can type, the program's name first
    ShortIds, LongIds, \* identifiers of permitted characters and length
    Names,             \* texts that match app_name_regex
    MaxCalls           \* bound: identifiers and positional options of a parser

ASSUME CallsAssumption ==
    /\ OptionCalls \subseteq OptionCall
    /\ FlagCalls \subseteq FlagCall
    /\ PositionalCalls \subseteq PositionalCall

ASSUME ParserAssumption ==
    /\ CommandLines \subseteq Seq(Argument) \ {<<>>}
    /\ SubcommandLists \subseteq SUBSET Argument
    /\ ShortIds \subseteq Symbol \ {NoId, "-"} /\ LongIds \subseteq Symbol \ {NoId}

VARIABLES
    command_line,        \* parser::arguments
    executable_name,     \* the commands that led to this parser
    subcommands,
    used_option_ids,
    options,             \* the arguments that name an option
    has_positional_list_option,
    format,
    version_check_user_decision,
    sub_parser,          \* the command line of the sub-parser, <<>> for nullptr
    arg_it,              \* position of the argument that is looked at
    phase                \* where the application and parse() are

source      == <<command_line, executable_name>>
added       == <<used_option_ids, options, has_positional_list_option, setup>>
detected    == <<format, version_check_user_decision, sub_parser, arg_it, format_arguments>>
parsing     == <<arguments, end_of_options_it, pc, call, id, it, seen,
                 positional_option_count>>

vars == <<source, subcommands, added, outputs, detected, parsing, error, phase>>

parse_was_called == phase # "setup"

ParserThrows(e) == error' = e /\ phase' = "threw"

----------------------------------------------------------------------------
(***************************************************************************)
(* Identifiers.                                                            *)
(***************************************************************************)
Pairs == [short : Identifier, long : Identifier]

Pair(c) == [short |-> c.short, long |-> c.long]

ReservedIds ==
    {[short |-> "h", long |-> "help"], OnlyLong("advanced-help"), OnlyLong("hh"),
     OnlyLong("export-help"), OnlyLong("version"), OnlyLong("copyright")}

ASSUME ReservedIdsAssumption == ReservedIds \subseteq Pairs

containsExactly(ids, pair) == pair \in ids        \* mutant

contains(ids, pair) == \E used \in ids : SamePair(used, pair)

verify_identifiers(pair) ==
    /\ pair.short # NoId \/ pair.long # NoId
    /\ pair.short \in ShortIds \cup {NoId}
    /\ pair.long \in LongIds \cup {NoId}
    /\ ~contains(used_option_ids, pair)

IdentifiersOf(pair) ==
    {prepend_dash_short(c) : c \in {pair.short} \ {NoId}}
        \cup {prepend_dash_long(n) : n \in {pair.long} \ {NoId}}

----------------------------------------------------------------------------
(***************************************************************************)
(* The constructor.  The application starts with the parser for the        *)
(* program's command line; a sub-parser knows the commands that led to it. *)
(***************************************************************************)
NoSetup == [options |-> <<>>, flags |-> <<>>, positionals |-> <<>>]

Init ==
    /\ command_line \in CommandLines
    /\ executable_name = <<>>
    /\ subcommands \in SubcommandLists \cup {{}}
    /\ used_option_ids = ReservedIds /\ options = {}
    /\ has_positional_list_option = FALSE
    /\ setup = NoSetup
    /\ option_value = <<>> /\ flag_value = <<>> /\ positional_value = <<>>
    /\ format = "short_help"
    /\ version_check_user_decision = "unset"
    /\ sub_parser = <<>>
    /\ arg_it = 1
    /\ format_arguments = <<>>
    /\ arguments = <<>> /\ end_of_options_it = 1 /\ pc = "begin" /\ call = 1
    /\ id = "short" /\ it = 1 /\ seen = {} /\ positional_option_count = 0
    /\ error = "none"
    /\ phase = "setup"

----------------------------------------------------------------------------
(***************************************************************************)
(* The application sets the parser up.  An option or a flag with a message *)
(* or a value that it may not have is refused, but only after its          *)
(* identifiers were registered (incomplete).                               *)
(***************************************************************************)
CallsMade == Cardinality(used_option_ids \ ReservedIds) + Len(setup.positionals)

SetsUp == phase = "setup" /\ CallsMade < MaxCalls

Register(c) ==
    /\ verify_identifiers(Pair(c))
    /\ used_option_ids' = used_option_ids \cup {Pair(c)}

add_option(c, default_message) ==
    /\ SetsUp
    /\ Register(c)
    /\ options' = options \cup IdentifiersOf(Pair(c))
    /\ \/ /\ c.required /\ default_message
          /\ UNCHANGED <<setup, option_value>>
       \/ /\ ~(c.required /\ default_message)
          /\ setup' = [setup EXCEPT !.options = Append(@, c)]
          /\ option_value' = Append(option_value, <<Default>>)
    /\ UNCHANGED <<source, subcommands, has_positional_list_option, flag_value,
                   positional_value, detected, parsing, error, phase>>

add_flag(c, default_message, default_value) ==
    /\ SetsUp
    /\ Register(c)
    /\ \/ /\ default_message \/ default_value
          /\ UNCHANGED <<setup, flag_value>>
       \/ /\ ~default_message /\ ~default_value
          /\ setup' = [setup EXCEPT !.flags = Append(@, c)]
          /\ flag_value' = [v \in DOMAIN flag_value \cup {c.value} |-> FALSE]
    /\ UNCHANGED <<source, subcommands, options, has_positional_list_option, option_value,
                   positional_value, detected, parsing, error, phase>>

add_positional_option(c) ==
    /\ SetsUp
    /\ subcommands = {}
    /\ ~has_positional_list_option
    /\ has_positional_list_option' = c.list
    /\ setup' = [setup EXCEPT !.positionals = Append(@, c)]
    /\ positional_value' = Append(positional_value, <<Default>>)
    /\ UNCHANGED <<source, subcommands, used_option_ids, options, option_value, flag_value,
                   detected, parsing, error, phase>>

(***************************************************************************)
(* add_subcommands keeps the names sorted and unique.  It checks neither   *)
(* for positional options nor whether parse() was called.                  *)
(***************************************************************************)
add_subcommands(names) ==
    /\ phase \in {"setup", "returned"}
    /\ subcommands' = subcommands \cup names
    /\ UNCHANGED <<source, added, outputs, detected, parsing, error, phase>>

SetUp ==
    \/ \E c \in OptionCalls, default_message \in BOOLEAN : add_option(c, default_message)
    \/ \E c \in FlagCalls, default_message, default_value \in BOOLEAN :
          add_flag(c, default_message, default_value)
    \/ \E c \in PositionalCalls : add_positional_option(c)
    \/ \E names \in SubcommandLists : add_subcommands(names)

----------------------------------------------------------------------------
(***************************************************************************)
(* parse() begins: the names are verified, the program's name is read.     *)
(***************************************************************************)
BeginParse ==
    /\ phase = "setup"
    /\ \/ /\ subcommands \subseteq Names
          /\ executable_name' = Append(executable_name, command_line[1])
          /\ arg_it' = 2
          /\ phase' = "determine_format"
          /\ error' = error
       \/ /\ ~(subcommands \subseteq Names)
          /\ ParserThrows("design_error")
          /\ UNCHANGED <<executable_name, arg_it>>
    /\ UNCHANGED <<command_line, subcommands, added, outputs, format,
                   version_check_user_decision, sub_parser, format_arguments, parsing>>

(***************************************************************************)
(* determine_format_and_subcommand looks at one argument after the other.  *)
(***************************************************************************)
arg == command_line[arg_it]

AtArgument ==
    phase = "determine_format" /\ sub_parser = <<>> /\ arg_it <= Len(command_line)

\* What an argument leaves alone that is no subcommand and no error.
Loops == UNCHANGED <<source, subcommands, added, outputs, sub_parser, parsing, error, phase>>

Stops == UNCHANGED <<source, subcommands, added, outputs, detected, parsing>>

(***************************************************************************)
(* A known option takes the next argument with it, whatever that is.       *)
(***************************************************************************)
LastOfOption == IF arg_it < Len(command_line) THEN arg_it + 1 ELSE arg_it

KnownOption ==
    /\ AtArgument
    /\ arg \in options
    /\ format_arguments' = format_arguments \o SubSeq(command_line, arg_it, LastOfOption)
    /\ arg_it' = LastOfOption + 1
    /\ UNCHANGED <<format, version_check_user_decision>>
    /\ Loops

(***************************************************************************)
(* found_subcommand: the sub-parser gets the subcommand and all that       *)
(* follows.  Another word that is no identifier is an unknown subcommand.  *)
(***************************************************************************)
RestBehindName ==                                 \* mutant
    SubSeq(command_line, arg_it + 1, Len(command_line))

Rest == SubSeq(command_line, arg_it, Len(command_line))

FoundSubcommand ==
    /\ AtArgument
    /\ arg \notin options
    /\ arg \in subcommands
    /\ sub_parser' = Rest
    /\ UNCHANGED <<source, subcommands, added, outputs, format, version_check_user_decision,
                   arg_it, format_arguments, parsing, error, phase>>

StartsWithDash(a) == IsPrefix(<<"-">>, a)

UnknownSubcommand ==
    /\ AtArgument
    /\ arg \notin options \cup subcommands
    /\ subcommands # {}
    /\ ~StartsWithDash(arg)
    /\ ParserThrows("user_input_error")
    /\ Stops

(***************************************************************************)
(* The keywords of the parser itself.  A later one replaces an earlier     *)
(* one.                                                                    *)
(***************************************************************************)
NoSubcommandUnchecked ==                          \* mutant
    AtArgument /\ arg \notin options

NoSubcommand ==
    /\ AtArgument
    /\ arg \notin options \cup subcommands
    /\ subcommands = {} \/ StartsWithDash(arg)

SpecialFormats ==
    {[arg |-> <<"-", "h">>, format |-> "help"],
     [arg |-> <<"-", "-", "help">>, format |-> "help"],
     [arg |-> <<"-", "h", "h">>, format |-> "advanced_help"],
     [arg |-> <<"-", "-", "advanced-help">>, format |-> "advanced_help"],
     [arg |-> <<"-", "-", "version">>, format |-> "version"],
     [arg |-> <<"-", "-", "copyright">>, format |-> "copyright"]}

ExportHelp      == <<"-", "-", "export-help">>
ExportHelpEqual == Append(ExportHelp, "=")
ExportFormats   == {"html", "man", "ctd", "cwl"}
VersionCheck    == <<"-", "-", "version-check">>

SpecialFormat ==
    /\ NoSubcommand
    /\ \E special \in SpecialFormats : arg = special.arg /\ format' = special.format
    /\ arg_it' = arg_it + 1
    /\ UNCHANGED <<version_check_user_decision, format_arguments>>
    /\ Loops

ExportTo(value, at) ==
    \/ /\ \E f \in ExportFormats : value = <<f>> /\ format' = f
       /\ arg_it' = at + 1
       /\ UNCHANGED <<version_check_user_decision, format_arguments>>
       /\ Loops
    \/ value \notin {<<f>> : f \in ExportFormats} /\ ParserThrows("validation_error") /\ Stops

export_help ==
    /\ NoSubcommand
    /\ \/ /\ IsPrefix(ExportHelpEqual, arg)
          /\ ExportTo(SubSeq(arg, Len(ExportHelpEqual) + 1, Len(arg)), arg_it)
       \/ /\ arg = ExportHelp /\ arg_it < Len(command_line)
          /\ ExportTo(command_line[arg_it + 1], arg_it + 1)
       \/ arg = ExportHelp /\ arg_it = Len(command_line)
          /\ ParserThrows("too_few_arguments") /\ Stops

Decisions == {[value |-> <<"1">>, decision |-> "on"], [value |-> <<"true">>, decision |-> "on"],
              [value |-> <<"0">>, decision |-> "off"], [value |-> <<"false">>, decision |-> "off"]}

version_check ==
    /\ NoSubcommand
    /\ arg = VersionCheck
    /\ \/ /\ arg_it < Len(command_line)
          /\ \E d \in Decisions : /\ command_line[arg_it + 1] = d.value
                                  /\ version_check_user_decision' = d.decision
          /\ arg_it' = arg_it + 2
          /\ UNCHANGED <<format, format_arguments>>
          /\ Loops
       \/ /\ arg_it < Len(command_line)
          /\ \A d \in Decisions : command_line[arg_it + 1] # d.value
          /\ ParserThrows("validation_error") /\ Stops
       \/ arg_it = Len(command_line) /\ ParserThrows("too_few_arguments") /\ Stops

IsKeyword(a) ==
    \/ a \in {special.arg : special \in SpecialFormats} \cup {ExportHelp, VersionCheck}
    \/ IsPrefix(ExportHelpEqual, a)

OtherArgument ==
    /\ NoSubcommand
    /\ ~IsKeyword(arg)
    /\ format_arguments' = Append(format_arguments, arg)
    /\ arg_it' = arg_it + 1
    /\ UNCHANGED <<format, version_check_user_decision>>
    /\ Loops

(***************************************************************************)
(* The command line is read.  What is left is for format_parse, unless a   *)
(* keyword was given; without anything the short help is printed.          *)
(***************************************************************************)
EndOfArguments ==
    /\ phase = "determine_format"
    /\ sub_parser # <<>> \/ arg_it > Len(command_line)
    /\ format' = IF format = "short_help" /\ (format_arguments # <<>> \/ sub_parser # <<>>)
                 THEN "parse" ELSE format
    /\ phase' = "parse_format"
    /\ UNCHANGED <<source, subcommands, added, outputs, version_check_user_decision,
                   sub_parser, arg_it, format_arguments, parsing, error>>

(***************************************************************************)
(* The operations are applied, the version check is started (it touches    *)
(* nothing that is modelled here) and the format is parsed: a page is      *)
(* printed and the program exits, or format_parse runs and parse()         *)
(* returns or throws.                                                      *)
(***************************************************************************)
parse_format ==
    /\ phase = "parse_format"
    /\ \/ /\ format = "parse"
          /\ arguments' = format_arguments
          /\ phase' = "format_parse"
       \/ /\ format # "parse"
          /\ arguments' = arguments
          /\ phase' = "exited"
    /\ UNCHANGED <<source, subcommands, added, outputs, detected, end_of_options_it, pc,
                   call, id, it, seen, positional_option_count, error>>

FormatParseStep ==
    /\ phase = "format_parse"
    /\ pc # "done"
    /\ ParseStep
    /\ UNCHANGED <<source, subcommands, used_option_ids, options, has_positional_list_option,
                   format, version_check_user_decision, sub_parser, arg_it, phase>>

EndParse ==
    /\ phase = "format_parse"
    /\ pc = "done"
    /\ phase' = IF error = "none" THEN "returned" ELSE "threw"
    /\ UNCHANGED <<source, subcommands, added, outputs, detected, parsing, error>>

Parse ==
    \/ BeginParse
    \/ KnownOption
    \/ FoundSubcommand
    \/ UnknownSubcommand
    \/ SpecialFormat
    \/ export_help
    \/ version_check
    \/ OtherArgument
    \/ EndOfArguments
    \/ parse_format
    \/ FormatParseStep
    \/ EndParse

(***************************************************************************)
(* The application goes on with the sub-parser.                            *)
(***************************************************************************)
get_sub_parser ==
    /\ phase = "returned"
    /\ sub_parser # <<>>
    /\ command_line' = sub_parser
    /\ executable_name' = executable_name
    /\ subcommands' = {}
    /\ used_option_ids' = ReservedIds /\ options' = {}
    /\ has_positional_list_option' = FALSE
    /\ setup' = NoSetup
    /\ option_value' = <<>> /\ flag_value' = <<>> /\ positional_value' = <<>>
    /\ format' = "short_help"
    /\ version_check_user_decision' = "unset"
    /\ sub_parser' = <<>>
    /\ arg_it' = 1
    /\ format_arguments' = <<>>
    /\ arguments' = <<>> /\ end_of_options_it' = 1 /\ pc' = "begin" /\ call' = 1
    /\ id' = "short" /\ it' = 1 /\ seen' = {} /\ positional_option_count' = 0
    /\ error' = "none"
    /\ phase' = "setup"

(***************************************************************************)
(* The application ends: after an exit, an exception or its last parser.   *)
(***************************************************************************)
Ended ==
    /\ \/ phase \in {"exited", "threw"}
       \/ phase = "returned" /\ sub_parser = <<>>
    /\ UNCHANGED vars

Next == SetUp \/ Parse \/ get_sub_parser \/ Ended

(***************************************************************************)
(* Whoever calls parse() waits for it; nobody has to call it.              *)
(***************************************************************************)
Spec == Init /\ [][Next]_vars /\ WF_vars(parse_was_called /\ Parse)

----------------------------------------------------------------------------
(***************************************************************************)
(* is_option_set: the pair with the identifier i is looked up, and then    *)
(* either of its identifiers in front of the end of the options.           *)
(***************************************************************************)
PairAsGiven(i) == i                               \* mutant

RegisteredPair(i) == CHOOSE pair \in used_option_ids : SamePair(pair, i)

is_option_set(i) ==
    LET option_end == EndOfOptionsIn(format_arguments)
    IN  find_option_id(format_arguments, 1, option_end, RegisteredPair(i)) # option_end

----------------------------------------------------------------------------
Formats == {"short_help", "help", "advanced_help", "version", "copyright", "parse"}
               \cup ExportFormats

(***************************************************************************)
(* The type of the state; format_parse runs in a state of its own type.    *)
(***************************************************************************)
TypeOK ==
    /\ command_line \in Seq(Argument) \ {<<>>}
    /\ executable_name \in Seq(Argument)
    /\ subcommands \subseteq Argument
    /\ used_option_ids \subseteq Pairs
    /\ options \subseteq Argument
    /\ has_positional_list_option \in BOOLEAN
    /\ format \in Formats
    /\ version_check_user_decision \in {"unset", "on", "off"}
    /\ sub_parser \in Seq(Argument)
    /\ arg_it \in 1..(Len(command_line) + 1)
    /\ format_arguments \in Seq(Argument)
    /\ phase \in {"setup", "determine_format", "parse_format", "format_parse",
                  "returned", "threw", "exited"}
    /\ phase \in {"format_parse", "returned"} => ParseTypeOK
    /\ error \in Errors \cup {"design_error"}

(***************************************************************************)
(* Whatever sequence of calls sets a parser up, and whichever of them are  *)
(* refused half way (parser.hpp:1029-1050): no identifier belongs to two   *)
(* pairs, so that format_parse and is_option_set have one option or flag   *)
(* for each; every option and flag that is parsed is registered, and every *)
(* argument that names an option; and only the last positional option is a *)
(* container, as get_positional_option asserts (format_parse.hpp:757).     *)
(***************************************************************************)
NoIdentifierTwice ==
    \A a, b \in used_option_ids : SamePair(a, b) => a = b

CallsAreRegistered ==
    /\ \A o \in DOMAIN setup.options :
          /\ Pair(setup.options[o]) \in used_option_ids
          /\ IdentifiersOf(Pair(setup.options[o])) \subseteq options
    /\ \A f \in DOMAIN setup.flags : Pair(setup.flags[f]) \in used_option_ids

SetupIsWellFormed == NoIdentifierTwice /\ CallsAreRegistered /\ WellFormed(setup)

(***************************************************************************)
(* While parse() runs: an argument that is a keyword or a subcommand is    *)
(* handed to format_parse only as the value of the option in front of it   *)
(* (determine_format_and_subcommand, parser.hpp:887-972).                  *)
(***************************************************************************)
IsTaken(a) == (IsKeyword(a) \/ a \in subcommands) /\ a \notin options

KeywordsAreValues ==
    phase \in {"determine_format", "parse_format", "format_parse"} =>
        \A p \in DOMAIN format_arguments :
            IsTaken(format_arguments[p]) => p > 1 /\ format_arguments[p - 1] \in options

(***************************************************************************)
(* Splitting the command line loses nothing, invents nothing and keeps the *)
(* order: the arguments of format_parse stand in their order among those   *)
(* read so far, all that are neither keywords nor possible values of       *)
(* keywords are among them, and the sub-parser has all that were not read. *)
(***************************************************************************)
IsOrdinary(a) ==
    /\ ~IsKeyword(a)
    /\ a \notin {<<f>> : f \in ExportFormats} \cup {d.value : d \in Decisions}

\* kept[m] is where args[m] stands in the first n arguments of line.
AreKept(args, line, n) ==
    \E kept \in [DOMAIN args -> 2..n] :
        /\ \A m \in DOMAIN args : args[m] = line[kept[m]]
        /\ \A l, m \in DOMAIN args : l < m => kept[l] < kept[m]
        /\ \A p \in 2..n : IsOrdinary(line[p]) => \E m \in DOMAIN args : kept[m] = p

ArgumentsAreKept ==
    /\ AreKept(format_arguments, command_line, arg_it - 1)
    /\ phase \in {"parse_format", "format_parse", "returned", "exited"} =>
          sub_parser = SubSeq(command_line, arg_it, Len(command_line))

(***************************************************************************)
(* parse() and is_option_set agree: an option that format_parse has read a *)
(* value for is set, by either of its identifiers, although the one        *)
(* searches the arguments before and the other while they are taken apart. *)
(***************************************************************************)
IdsOf(c) == {OnlyShort(s) : s \in {c.short} \ {NoId}} \cup {OnlyLong(n) : n \in {c.long} \ {NoId}}

WasRead(o) == \E k \in DOMAIN option_value[o] : option_value[o][k].at # 0

ReadOptionsAreSet ==
    phase = "returned" =>
        \A o \in DOMAIN setup.options :
            WasRead(o) => \A i \in IdsOf(setup.options[o]) : is_option_set(i)

(***************************************************************************)
(* An application goes on behind parse() only with a value of the command  *)
(* line for every required option and every positional option it added,    *)
(* whatever was refused on the way (format_parse.hpp:696, :749).           *)
(***************************************************************************)
ReturnsWithRequired == phase = "returned" => Succeeded /\ RequiredAreRead

(***************************************************************************)
(* parse() ends: it returns, throws or exits the program.                  *)
(***************************************************************************)
ParseEnds == parse_was_called ~> phase \in {"setup", "returned", "threw", "exited"}

=============================================================================
