---------------------------- MODULE FormatParse ----------------------------
(***************************************************************************)
(* sharg::detail::format_parse: how the arguments that the parser hands    *)
(* over are split into option values, flags and positional options.        *)
(*                                                                         *)
(* parse() makes several passes over one vector of strings.  Every option  *)
(* call, in the order of the add_option calls, searches the whole vector   *)
(* for its identifiers, takes its values out and overwrites what it used   *)
(* with the empty string; then the flags do the same; what still looks     *)
(* like an identifier is unknown; the positional options take what is      *)
(* left.  A step is one lookup, one retrieval or one check.                *)
(***************************************************************************)
EXTENDS CommandLine

CONSTANTS
    InRange,       \* numerals that fit the numeric option type
    OutOfRange     \* numerals that do not

ASSUME NumeralsAssumption == InRange \cup OutOfRange \subseteq Symbol

(***************************************************************************)
(* One record per add_option, add_flag and add_positional_option call.     *)
(* required, list (the variable is a container) and the type of the        *)
(* variable are what the control depends on; a validator is the set of     *)
(* texts it throws for.  Two flags may write the same variable.            *)
(***************************************************************************)
Type == {"string", "number"}

OptionCall     == [short : Identifier, long : Identifier, list : BOOLEAN, type : Type,
                   required : BOOLEAN, rejects : SUBSET Argument]
FlagCall       == [short : Identifier, long : Identifier, value : Nat]
PositionalCall == [list : BOOLEAN, type : Type, rejects : SUBSET Argument]

Setup == [options : Seq(OptionCall), flags : Seq(FlagCall),
          positionals : Seq(PositionalCall)]

(***************************************************************************)
(* What the parser has made sure of when the calls reach format_parse: no  *)
(* identifier names two of them, none is the dash, and only the last       *)
(* positional option is a container.                                       *)
(***************************************************************************)
CallsAreDistinct(s) ==
    /\ \A m, n \in DOMAIN s.options : SamePair(s.options[m], s.options[n]) => m = n
    /\ \A m, n \in DOMAIN s.flags : SamePair(s.flags[m], s.flags[n]) => m = n
    /\ \A m \in DOMAIN s.options, n \in DOMAIN s.flags : ~SamePair(s.options[m], s.flags[n])

DashIsNoIdentifier(s) ==
    /\ \A o \in DOMAIN s.options : s.options[o].short # "-"
    /\ \A f \in DOMAIN s.flags : s.flags[f].short # "-"

ListIsLast(s) ==
    \A k \in DOMAIN s.positionals : s.positionals[k].list => k = Len(s.positionals)

WellFormed(s) == CallsAreDistinct(s) /\ DashIsNoIdentifier(s) /\ ListIsLast(s)

VARIABLES
    setup,                    \* option_calls, flag_calls, positional_option_calls
    format_arguments,         \* the command line as the parser keeps it
    arguments,                \* the copy that parsing takes apart
    end_of_options_it,        \* position of "--", or one past the last argument
    pc,                       \* the statement of parse() that comes next
    call,                     \* the call of the current list that is running
    id,                       \* the identifier get_option_by_id looks for
    it,                       \* option_it
    seen,                     \* identifiers the running option was found by
    option_value,             \* the variables bound to the options ...
    flag_value,               \* ... the flags ...
    positional_value,         \* ... and the positional options
    positional_option_count,
    error                     \* the exception parse() left with, or "none"

config  == <<setup, format_arguments>>
lookup  == <<call, id, it, seen>>
outputs == <<option_value, flag_value, positional_value>>

parse_vars == <<config, arguments, end_of_options_it, pc, lookup, outputs,
                positional_option_count, error>>

Errors == {"none", "option_declared_multiple_times", "too_few_arguments",
           "too_many_arguments", "user_input_error", "validation_error",
           "required_option_missing", "unknown_option", "assertion"}

(***************************************************************************)
(* A value remembers at which position of the command line it was read     *)
(* (0 for the value the application initialised its variable with).  The   *)
(* position is a history variable: no action reads it.                     *)
(***************************************************************************)
Value   == [text : Argument, at : Nat]
Default == [text |-> <<>>, at |-> 0]

FlagVariables == {setup.flags[f].value : f \in DOMAIN setup.flags}

----------------------------------------------------------------------------
(***************************************************************************)
(* parse_option_value.  A string takes any text; std::from_chars reads a   *)
(* numeral with an optional minus and refuses a rest or a value out of     *)
(* range.  bool, enumeration and streamable types differ only in the texts *)
(* they accept.                                                            *)
(***************************************************************************)
NumberOf(text) == IF IsPrefix(<<"-">>, text) THEN Tail(text) ELSE text

parse_option_value(type, text) ==
    IF type = "string" \/ \E n \in InRange : NumberOf(text) = <<n>> THEN "success"
    ELSE IF \E n \in OutOfRange : NumberOf(text) = <<n>> THEN "overflow_error"
    ELSE "error"

Parses(type, text) == parse_option_value(type, text) = "success"

(***************************************************************************)
(* throw_on_input_error<option_type> throws for an overflow only if        *)
(* option_type is arithmetic.  It is not for a container of numbers: then  *)
(* the assert fails, and a build without assertions goes on without the    *)
(* value.                                                                  *)
(***************************************************************************)
IsDropped(c, text) == c.list /\ parse_option_value(c.type, text) = "overflow_error"

InputError(c, text) == IF IsDropped(c, text) THEN "assertion" ELSE "user_input_error"

Stored(values, c, text, p) ==
    LET read == [text |-> text, at |-> p]
    IN  IF c.list THEN Append(values, read) ELSE <<read>>

Rejected(rejects, values) == \E k \in 1..Len(values) : values[k].text \in rejects

Throw(e) == error' = e /\ pc' = "done"

NextCallOnePastTheEnd(calls, again, after) ==     \* mutant
    IF call <= Len(calls) THEN call' = call + 1 /\ pc' = again
                          ELSE call' = 1 /\ pc' = after

NextCallNotAdvanced(calls, again, after) ==       \* mutant
    IF call < Len(calls) THEN call' = call /\ pc' = again
                         ELSE call' = 1 /\ pc' = after

NextCall(calls, again, after) ==
    IF call < Len(calls) THEN call' = call + 1 /\ pc' = again
                         ELSE call' = 1 /\ pc' = after

AfterOptions == IF setup.flags = <<>> THEN "check_unknown" ELSE "flag"

Erase(positions) ==
    [p \in DOMAIN arguments |-> IF p \in positions THEN Erased ELSE arguments[p]]

\* A container forgets the values the application has given it.
ForgetNothing(values, list) == values             \* mutant

Forget(values, list) == IF list THEN [values EXCEPT ![call] = <<>>] ELSE values

(***************************************************************************)
(* The calls and the arguments have reached format_parse; the variables    *)
(* are as the application has initialised them.                            *)
(***************************************************************************)
ParseBegins ==
    /\ arguments = format_arguments
    /\ end_of_options_it = 1
    /\ pc = "begin"
    /\ call = 1 /\ id = "short" /\ it = 1 /\ seen = {}
    /\ option_value = [o \in DOMAIN setup.options |-> <<Default>>]
    /\ flag_value = [v \in FlagVariables |-> FALSE]
    /\ positional_value = [p \in DOMAIN setup.positionals |-> <<Default>>]
    /\ positional_option_count = 0
    /\ error = "none"

(***************************************************************************)
(* end_of_options_it = std::find(arguments.begin(), arguments.end(), "--") *)
(***************************************************************************)
FindEndOfOptions ==
    /\ pc = "begin"
    /\ end_of_options_it' = EndOfOptionsIn(arguments)
    /\ pc' = IF setup.options = <<>> THEN AfterOptions ELSE "look_up"
    /\ UNCHANGED <<config, arguments, lookup, outputs, positional_option_count, error>>

----------------------------------------------------------------------------
(***************************************************************************)
(* Options.  get_option runs get_option_by_id for the short and then for   *)
(* the long identifier of the call; each run is a first lookup, then       *)
(* retrievals, each followed by another lookup.                            *)
(***************************************************************************)
Option == setup.options[call]

SearchedId == IF id = "short" THEN OnlyShort(Option.short) ELSE OnlyLong(Option.long)

PrependDash == IF id = "short" THEN prepend_dash_short(Option.short)
                               ELSE prepend_dash_long(Option.long)

LeaveGetOptionById ==
    IF id = "short" THEN id' = "long" /\ pc' = "look_up"
                    ELSE id' = "short" /\ pc' = "option_result"

(***************************************************************************)
(* The lookup from the first argument.  A container forgets what it held   *)
(* as soon as the identifier is found.                                     *)
(***************************************************************************)
LookUpOption ==
    LET found == find_option_id(arguments, 1, end_of_options_it, SearchedId)
    IN  /\ pc = "look_up"
        /\ it' = found
        /\ \/ /\ found # end_of_options_it
              /\ seen' = seen \cup {id}
              /\ option_value' = Forget(option_value, Option.list)
              /\ pc' = "retrieve"
              /\ id' = id
           \/ /\ found = end_of_options_it
              /\ LeaveGetOptionById
              /\ UNCHANGED <<seen, option_value>>
        /\ UNCHANGED <<config, arguments, end_of_options_it, call, flag_value,
                       positional_value, positional_option_count, error>>

(***************************************************************************)
(* identify_and_retrieve_option_value.  Glued: the value is the rest of    *)
(* the argument, behind an equal sign if there is one.  Separate: the      *)
(* value is the next argument in front of end_of_options_it.               *)
(***************************************************************************)
Glued == Len(arguments[it]) > Len(PrependDash)

GluedWithEqual == Glued /\ arguments[it][Len(PrependDash) + 1] = "="

GluedTextWithEqual ==                             \* mutant
    SubSeq(arguments[it], Len(PrependDash) + 1, Len(arguments[it]))

GluedText ==
    SubSeq(arguments[it], Len(PrependDash) + (IF GluedWithEqual THEN 2 ELSE 1),
           Len(arguments[it]))

NoSeparateValueAtAll == it = Len(arguments)       \* mutant

NoSeparateValue == it + 1 = end_of_options_it

(***************************************************************************)
(* The value found at position p: it is erased, it is parsed, and it goes  *)
(* to the end of a container or replaces a single value.                   *)
(***************************************************************************)
StoreOptionValue(text, p) ==
    /\ arguments' = Erase(it..p)
    /\ it' = p
    /\ \/ /\ Parses(Option.type, text)
          /\ option_value' = [option_value EXCEPT ![call] = Stored(@, Option, text, p)]
          /\ pc' = "look_up_again" /\ error' = error
       \/ /\ IsDropped(Option, text)
          /\ option_value' = option_value
          /\ pc' = "look_up_again" /\ error' = error
       \/ /\ ~Parses(Option.type, text)
          /\ option_value' = option_value
          /\ Throw(InputError(Option, text))

RetrieveGluedValue ==
    /\ pc = "retrieve"
    /\ Glued
    /\ ~(GluedWithEqual /\ GluedText = <<>>)
    /\ StoreOptionValue(GluedText, it)
    /\ UNCHANGED <<config, end_of_options_it, call, id, seen, flag_value,
                   positional_value, positional_option_count>>

RetrieveSeparateValue ==
    /\ pc = "retrieve"
    /\ ~Glued
    /\ ~NoSeparateValue
    /\ StoreOptionValue(arguments[it + 1], it + 1)
    /\ UNCHANGED <<config, end_of_options_it, call, id, seen, flag_value,
                   positional_value, positional_option_count>>

(***************************************************************************)
(* "-i=" has no value, and neither has "-i" in front of the end of the     *)
(* options.  The latter has already been erased.                           *)
(***************************************************************************)
MissingOptionValue ==
    /\ pc = "retrieve"
    /\ \/ GluedWithEqual /\ GluedText = <<>> /\ UNCHANGED <<arguments, it>>
       \/ ~Glued /\ NoSeparateValue /\ arguments' = Erase({it}) /\ it' = it + 1
    /\ Throw("too_few_arguments")
    /\ UNCHANGED <<config, end_of_options_it, call, id, seen, outputs,
                   positional_option_count>>

(***************************************************************************)
(* The lookup from behind the retrieved value: a container takes one more, *)
(* a single value must not be found again.                                 *)
(***************************************************************************)
LookUpOptionAgain ==
    LET found == find_option_id(arguments, it, end_of_options_it, SearchedId)
    IN  /\ pc = "look_up_again"
        /\ \/ /\ found # end_of_options_it /\ Option.list
              /\ it' = found /\ pc' = "retrieve"
              /\ UNCHANGED <<id, error>>
           \/ /\ found # end_of_options_it /\ ~Option.list
              /\ Throw("option_declared_multiple_times")
              /\ UNCHANGED <<id, it>>
           \/ /\ found = end_of_options_it
              /\ LeaveGetOptionById
              /\ UNCHANGED <<it, error>>
        /\ UNCHANGED <<config, arguments, end_of_options_it, call, seen, outputs,
                       positional_option_count>>

(***************************************************************************)
(* The rest of get_option: not both identifiers for a single value, the    *)
(* validator, and required options.                                        *)
(***************************************************************************)
OptionErrorOfSeen ==                              \* mutant
    IF seen = {"short", "long"} /\ ~Option.list THEN "option_declared_multiple_times"
    ELSE IF seen # {} /\ Rejected(Option.rejects, option_value[call]) THEN "validation_error"
    ELSE "none"

OptionError ==
    IF seen = {"short", "long"} /\ ~Option.list THEN "option_declared_multiple_times"
    ELSE IF seen # {} /\ Rejected(Option.rejects, option_value[call]) THEN "validation_error"
    ELSE IF seen = {} /\ Option.required THEN "required_option_missing"
    ELSE "none"

FinishOption ==
    /\ pc = "option_result"
    /\ \/ /\ OptionError = "none"
          /\ NextCall(setup.options, "look_up", AfterOptions)
          /\ seen' = {}
          /\ error' = error
       \/ /\ OptionError # "none"
          /\ Throw(OptionError)
          /\ UNCHANGED <<call, seen>>
    /\ UNCHANGED <<config, arguments, end_of_options_it, id, it, outputs,
                   positional_option_count>>

----------------------------------------------------------------------------
(***************************************************************************)
(* Flags.  flag_is_set(char) walks over all the arguments for a group that *)
(* holds the letter; flag_is_set(string) looks for the long identifier in  *)
(* front of end_of_options_it, and only if the letter was not found.  The  *)
(* variable keeps the value another flag has given it.                     *)
(***************************************************************************)
Flag == setup.flags[call]

ShortFlagPositions ==
    {p \in DOMAIN arguments : /\ IsShortGroup(arguments[p])
                              /\ Flag.short # NoId
                              /\ HasLetter(arguments[p], Flag.short)}

LongFlagPositions ==
    {p \in 1..(end_of_options_it - 1) : arguments[p] = prepend_dash_long(Flag.long)}

GetFlag ==
    /\ pc = "flag"
    /\ \/ /\ ShortFlagPositions # {}
          /\ LET p == Min(ShortFlagPositions)
             IN  arguments' = [arguments EXCEPT ![p] = WithoutFlag(@, Flag.short)]
          /\ flag_value' = [flag_value EXCEPT ![Flag.value] = TRUE]
       \/ /\ ShortFlagPositions = {} /\ LongFlagPositions # {}
          /\ arguments' = Erase({Min(LongFlagPositions)})
          /\ flag_value' = [flag_value EXCEPT ![Flag.value] = TRUE]
       \/ /\ ShortFlagPositions = {} /\ LongFlagPositions = {}
          /\ UNCHANGED <<arguments, flag_value>>
    /\ NextCall(setup.flags, "flag", "check_unknown")
    /\ UNCHANGED <<config, end_of_options_it, id, it, seen, option_value,
                   positional_value, positional_option_count, error>>

----------------------------------------------------------------------------
(***************************************************************************)
(* check_for_unknown_ids, and "--" makes room for the positional options.  *)
(***************************************************************************)
UnknownShortIds ==                                \* mutant
    {p \in 1..(end_of_options_it - 1) : IsShortGroup(arguments[p])}

UnknownIds == {p \in 1..(end_of_options_it - 1) : MayBeIdentifier(arguments[p])}

CheckForUnknownIds ==
    /\ pc = "check_unknown"
    /\ \/ /\ UnknownIds # {}
          /\ Throw("unknown_option")
          /\ arguments' = arguments
       \/ /\ UnknownIds = {}
          /\ arguments' = Erase({end_of_options_it})
          /\ pc' = IF setup.positionals = <<>> THEN "left_over" ELSE "positional"
          /\ error' = error
    /\ UNCHANGED <<config, end_of_options_it, lookup, outputs, positional_option_count>>

----------------------------------------------------------------------------
(***************************************************************************)
(* Positional options: get_positional_option takes the first argument that *)
(* is not empty, a container every one of them.                            *)
(***************************************************************************)
Positional == setup.positionals[call]

Remaining == {p \in DOMAIN arguments : arguments[p] # Erased}

BeginPositionalOption ==
    /\ pc = "positional"
    /\ positional_option_count' = positional_option_count + 1
    /\ \/ /\ Remaining = {}
          /\ Throw("too_few_arguments")
          /\ positional_value' = positional_value
       \/ /\ Remaining # {}
          /\ pc' = "take"
          /\ positional_value' = Forget(positional_value, Positional.list)
          /\ error' = error
    /\ UNCHANGED <<config, arguments, end_of_options_it, lookup, option_value, flag_value>>

TakePositionalValue ==
    LET p    == Min(Remaining)
        text == arguments[p]
    IN  /\ pc = "take"
        /\ \/ /\ Parses(Positional.type, text) \/ IsDropped(Positional, text)
              /\ arguments' = Erase({p})
              /\ positional_value' =
                   IF Parses(Positional.type, text)
                   THEN [positional_value EXCEPT ![call] = Stored(@, Positional, text, p)]
                   ELSE positional_value
              /\ positional_option_count' =
                   positional_option_count + (IF Positional.list THEN 1 ELSE 0)
              /\ pc' = IF Positional.list /\ Remaining # {p} THEN "take" ELSE "validate"
              /\ error' = error
           \/ /\ ~Parses(Positional.type, text)
              /\ Throw(InputError(Positional, text))
              /\ UNCHANGED <<arguments, positional_value, positional_option_count>>
        /\ UNCHANGED <<config, end_of_options_it, lookup, option_value, flag_value>>

FinishPositionalOption ==
    /\ pc = "validate"
    /\ \/ /\ Rejected(Positional.rejects, positional_value[call])
          /\ Throw("validation_error")
          /\ call' = call
       \/ /\ ~Rejected(Positional.rejects, positional_value[call])
          /\ NextCall(setup.positionals, "positional", "left_over")
          /\ error' = error
    /\ UNCHANGED <<config, arguments, end_of_options_it, id, it, seen, outputs,
                   positional_option_count>>

IgnoreLeftOverArgs ==                             \* mutant
    /\ pc = "left_over"
    /\ pc' = "done"
    /\ UNCHANGED <<config, arguments, end_of_options_it, lookup, outputs,
                   positional_option_count, error>>

CheckForLeftOverArgs ==
    /\ pc = "left_over"
    /\ \/ Remaining # {} /\ Throw("too_many_arguments")
       \/ Remaining = {} /\ pc' = "done" /\ error' = error
    /\ UNCHANGED <<config, arguments, end_of_options_it, lookup, outputs,
                   positional_option_count>>

ParseStep ==
    \/ FindEndOfOptions
    \/ LookUpOption
    \/ RetrieveGluedValue
    \/ RetrieveSeparateValue
    \/ MissingOptionValue
    \/ LookUpOptionAgain
    \/ FinishOption
    \/ GetFlag
    \/ CheckForUnknownIds
    \/ BeginPositionalOption
    \/ TakePositionalValue
    \/ FinishPositionalOption
    \/ CheckForLeftOverArgs

----------------------------------------------------------------------------
InOptions == pc \in {"look_up", "retrieve", "look_up_again", "option_result"}

InPositionals == pc \in {"positional", "take", "validate", "left_over"}

Succeeded == pc = "done" /\ error = "none"

(***************************************************************************)
(* The type of the state; no pass changes the number of arguments.         *)
(***************************************************************************)
ParseTypeOK ==
    /\ setup \in Setup
    /\ format_arguments \in Seq(Argument)
    /\ arguments \in Seq(Argument) /\ Len(arguments) = Len(format_arguments)
    /\ end_of_options_it \in 1..(Len(arguments) + 1)
    /\ pc \in {"begin", "look_up", "retrieve", "look_up_again", "option_result",
               "flag", "check_unknown", "positional", "take", "validate",
               "left_over", "done"}
    /\ call \in Nat \ {0}
    /\ pc \in {"begin", "check_unknown"} => call = 1
    /\ InOptions => call \in DOMAIN setup.options
    /\ pc = "flag" => call \in DOMAIN setup.flags
    /\ pc \in {"positional", "take", "validate"} => call \in DOMAIN setup.positionals
    /\ id \in {"short", "long"}
    /\ it \in 1..(Len(arguments) + 1)
    /\ pc = "retrieve" => it < end_of_options_it
    /\ pc = "look_up_again" => it <= end_of_options_it
    /\ pc = "take" => Remaining # {}
    /\ seen \subseteq {"short", "long"}
    /\ option_value \in [DOMAIN setup.options -> Seq(Value)]
    /\ flag_value \in [FlagVariables -> BOOLEAN]
    /\ positional_value \in [DOMAIN setup.positionals -> Seq(Value)]
    /\ positional_option_count \in Nat
    /\ error \in Errors

(***************************************************************************)
(* No positional option is ever given an argument from in front of "--"    *)
(* that looks like an option or a flag: neither a pass that skips one nor  *)
(* an erased flag leaves one behind (format_parse.hpp:602, :729-733).      *)
(***************************************************************************)
PositionalsAreNoIdentifiers ==
    \A k \in DOMAIN positional_value : \A j \in DOMAIN positional_value[k] :
        positional_value[k][j].at \in 1..(end_of_options_it - 1)
            => ~MayBeIdentifier(positional_value[k][j].text)

(***************************************************************************)
(* Once a variable holds a value of the command line it holds no default   *)
(* of the application any more, containers included (the clear() of        *)
(* get_option_by_id and get_positional_option).                            *)
(***************************************************************************)
AllRead(values) == \A j \in DOMAIN values : values[j].at # 0

DefaultsNeverMixWithInput ==
    /\ \A o \in DOMAIN option_value :
          option_value[o] = <<Default>> \/ AllRead(option_value[o])
    /\ \A k \in DOMAIN positional_value :
          positional_value[k] = <<Default>> \/ AllRead(positional_value[k])

(***************************************************************************)
(* When parse() returns, every required option and every positional option *)
(* has at least one value, and all its values come from the command line.  *)
(* Only a container of numbers may be empty: it drops what overflows.      *)
(***************************************************************************)
ReadFromCommandLine(values, c) ==
    AllRead(values) /\ (values = <<>> => c.list /\ c.type = "number")

RequiredAreRead ==
    Succeeded =>
        /\ \A o \in DOMAIN setup.options :
              setup.options[o].required
                  => ReadFromCommandLine(option_value[o], setup.options[o])
        /\ \A k \in DOMAIN setup.positionals :
              ReadFromCommandLine(positional_value[k], setup.positionals[k])

(***************************************************************************)
(* The pass over the options never touches "--" or what follows it: an     *)
(* option in front of "--" does not take it for its value.                 *)
(***************************************************************************)
OptionsStopAtEnd ==
    [][InOptions => \A p \in end_of_options_it..Len(arguments) :
                        arguments'[p] = arguments[p]]_parse_vars

(***************************************************************************)
(* Every value comes from the place it was typed at, although the passes   *)
(* take the arguments apart in the order of the add_* calls: an option's   *)
(* value stands in front of "--", glued to an identifier of the option or  *)
(* right behind one, a container keeps the order of the command line, and  *)
(* so do the positional options among themselves, which never get what an  *)
(* option has used (format_parse.hpp:107-128).  What an earlier pass has   *)
(* erased reads as the empty string: with -s declared first, "-i -sw" is   *)
(* where both options have read, but no text reaches two of them.          *)
(***************************************************************************)
Spells(c, arg) ==
    \/ c.short # NoId /\ arg = prepend_dash_short(c.short)
    \/ c.long  # NoId /\ arg = prepend_dash_long(c.long)

Glues(c, arg, text) ==
    \/ c.short # NoId /\ \/ /\ text # <<>> /\ text[1] # "="
                            /\ arg = prepend_dash_short(c.short) \o text
                         \/ arg = Append(prepend_dash_short(c.short), "=") \o text
    \/ c.long # NoId /\ arg = Append(prepend_dash_long(c.long), "=") \o text

Behind(c, p) == p > 1 /\ Spells(c, format_arguments[p - 1])

ReadFor(c, v) ==
    /\ v.at < EndOfOptionsIn(format_arguments)
    /\ \/ Glues(c, format_arguments[v.at], v.text)
       \/ Behind(c, v.at) /\ v.text \in {format_arguments[v.at], Erased}

InOrder(values) == \A i, j \in DOMAIN values : i < j => values[i].at < values[j].at

Positions(values) == {values[j].at : j \in DOMAIN values} \ {0}

OptionsReadTheirOwn ==
    \A o \in DOMAIN option_value :
        /\ \A j \in DOMAIN option_value[o] :
              option_value[o][j].at # 0 => ReadFor(setup.options[o], option_value[o][j])
        /\ InOrder(option_value[o])

NoTextIsUsedTwice ==
    \A m, n \in DOMAIN option_value : m # n =>
        \A i \in DOMAIN option_value[m], j \in DOMAIN option_value[n] :
            option_value[m][i].at = option_value[n][j].at /\ option_value[m][i].at # 0
                => Erased \in {option_value[m][i].text, option_value[n][j].text}

OperandsKeepTheirOrder ==
    \A k \in DOMAIN positional_value :
        /\ InOrder(positional_value[k])
        /\ \A l \in DOMAIN positional_value :
              l < k => \A p \in Positions(positional_value[l]), q \in Positions(positional_value[k]) :
                          p < q
        /\ \A o \in DOMAIN option_value :
              Positions(positional_value[k]) \cap Positions(option_value[o]) = {}

ValuesStandWhereTyped == OptionsReadTheirOwn /\ NoTextIsUsedTwice /\ OperandsKeepTheirOrder

(***************************************************************************)
(* When parse() returns no word was lost: what does not look like an       *)
(* option or a flag, or follows "--" and is no group of letters, has       *)
(* reached a positional option unchanged, unless it stands right behind an *)
(* identifier of an option or is a number too large for a container.       *)
(***************************************************************************)
IsWord(p) ==
    LET end == EndOfOptionsIn(format_arguments)
    IN  /\ format_arguments[p] # Erased
        /\ \/ p < end /\ ~MayBeIdentifier(format_arguments[p])
           \/ p > end /\ ~IsShortGroup(format_arguments[p])

WordIsUsed(p) ==
    \/ \E k \in DOMAIN positional_value : \E j \in DOMAIN positional_value[k] :
          positional_value[k][j] = [text |-> format_arguments[p], at |-> p]
    \/ \E k \in DOMAIN setup.positionals : IsDropped(setup.positionals[k], format_arguments[p])
    \/ \E o \in DOMAIN setup.options :
          p < EndOfOptionsIn(format_arguments) /\ Behind(setup.options[o], p)

NoWordIsLost ==
    Succeeded => \A p \in DOMAIN format_arguments : IsWord(p) => WordIsUsed(p)

----------------------------------------------------------------------------
(***************************************************************************)
(* What the documentation says and the code does not keep.                 *)
(***************************************************************************)
(***************************************************************************)
(* "-- terminates the options and signals that only positional options     *)
(* follow" (parser.hpp:101): what follows reaches them unchanged.          *)
(***************************************************************************)
OperandsArriveUnchanged ==
    Succeeded =>
        \A k \in DOMAIN positional_value : \A j \in DOMAIN positional_value[k] :
            positional_value[k][j].text = format_arguments[positional_value[k][j].at]

(***************************************************************************)
(* throw_on_input_error "throws user_input_error if res was not success"   *)
(* (format_parse.hpp:440): parse() does not return with a required option  *)
(* or a positional option that no value was stored for.                    *)
(***************************************************************************)
OverflowIsRejected ==
    Succeeded =>
        /\ \A o \in DOMAIN setup.options :
              setup.options[o].required => option_value[o] # <<>>
        /\ \A k \in DOMAIN setup.positionals : positional_value[k] # <<>>
=============================================================================
