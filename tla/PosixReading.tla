---------------------------- MODULE PosixReading ----------------------------
(***************************************************************************)
(* What a command line means by the conventions the parser documents       *)
(* (parser.hpp, "The POSIX conventions"): one reading from left to right   *)
(* in which the order of the add_* calls plays no part.  It is the         *)
(* abstract specification of FormatParse, and none of its definitions      *)
(* translates code.                                                        *)
(***************************************************************************)
EXTENDS FormatParse

(***************************************************************************)
(* The state of the reading: the option that still awaits its value (0 for *)
(* none), whether "--" was read, and what was read so far: the values of   *)
(* the options and the operands in their order, and for every flag the     *)
(* places it was named at.                                                 *)
(***************************************************************************)
NothingRead(s) ==
    [awaits      |-> 0,
     ended       |-> FALSE,
     malformed   |-> FALSE,
     options     |-> [o \in DOMAIN s.options |-> <<>>],
     flags       |-> [f \in DOMAIN s.flags |-> {}],
     positionals |-> <<>>]

(***************************************************************************)
(* The texts an argument can give to option o without a further argument.  *)
(* "-o=" and "--opt=" give none, and neither does an argument that does    *)
(* not begin with an identifier of o.                                      *)
(***************************************************************************)
GluedTexts(o, arg) == {text \in Suffixes(arg) : text # <<>> /\ Glues(o, arg, text)}

OptionsSpelled(s, arg) == {o \in DOMAIN s.options : Spells(s.options[o], arg)}

OptionsGlued(s, arg) == {o \in DOMAIN s.options : GluedTexts(s.options[o], arg) # {}}

IsLongFlag(flag, arg) == flag.long # NoId /\ arg = prepend_dash_long(flag.long)

IsFlagGroup(s, arg) ==
    /\ IsShortGroup(arg)
    /\ \A k \in 2..Len(arg) :
          \E f \in DOMAIN s.flags : s.flags[f].short # NoId /\ s.flags[f].short = arg[k]

NamesFlags(s, arg) ==
    (\E f \in DOMAIN s.flags : IsLongFlag(s.flags[f], arg)) \/ IsFlagGroup(s, arg)

\* Where in an argument that names flags this one is named.
FlagIn(flag, arg) ==
    {k \in 1..Len(arg) :
        \/ k = 1 /\ IsLongFlag(flag, arg)
        \/ IsShortGroup(arg) /\ k > 1 /\ flag.short # NoId /\ arg[k] = flag.short}

The(S) == CHOOSE x \in S : TRUE

ReadValue(r, o, text, p) ==
    [r EXCEPT !.options[o] = Append(@, [text |-> text, at |-> p]), !.awaits = 0]

ReadOperand(r, arg, p) ==
    IF arg = Erased THEN r
                    ELSE [r EXCEPT !.positionals = Append(@, [text |-> arg, at |-> p])]

ReadFlags(s, r, arg, p) ==
    [r EXCEPT !.flags = [f \in DOMAIN s.flags |-> @[f] \cup ({p} \X FlagIn(s.flags[f], arg))]]

\* An argument that is no value of the option in front of it, before "--".
ReadIdentifier(s, r, arg, p) ==
    CASE arg = EndOfOptions -> [r EXCEPT !.ended = TRUE]
      [] OptionsSpelled(s, arg) # {} -> [r EXCEPT !.awaits = The(OptionsSpelled(s, arg))]
      [] OptionsGlued(s, arg) # {} ->
            LET o == The(OptionsGlued(s, arg))
            IN  ReadValue(r, o, The(GluedTexts(s.options[o], arg)), p)
      [] NamesFlags(s, arg) -> ReadFlags(s, r, arg, p)
      [] ~MayBeIdentifier(arg) -> ReadOperand(r, arg, p)
      [] OTHER -> [r EXCEPT !.malformed = TRUE]

ReadArgument(s, r, arg, p) ==
    IF r.awaits # 0 THEN ReadValue(r, r.awaits, arg, p)
    ELSE IF r.ended THEN ReadOperand(r, arg, p)
    ELSE ReadIdentifier(s, r, arg, p)

(***************************************************************************)
(* The readings of the first arguments, one after the other, and of all.   *)
(***************************************************************************)
Readings(s, args) ==
    LET readings[p \in 0..Len(args)] ==
            IF p = 0 THEN NothingRead(s) ELSE ReadArgument(s, readings[p - 1], args[p], p)
    IN  readings

Reading(s, args) == Readings(s, args)[Len(args)]

----------------------------------------------------------------------------
Fits(c, values) ==
    \A k \in DOMAIN values : Parses(c.type, values[k].text) /\ values[k].text \notin c.rejects

(***************************************************************************)
(* The operands of positional call k: one each, the rest for a container.  *)
(***************************************************************************)
OperandsOf(s, r, k) ==
    IF s.positionals[k].list THEN SubSeq(r.positionals, k, Len(r.positionals))
                             ELSE <<r.positionals[k]>>

EnoughOperands(s, r) ==
    LET n == Len(s.positionals)
    IN  IF n > 0 /\ s.positionals[n].list THEN Len(r.positionals) >= n
                                          ELSE Len(r.positionals) = n

(***************************************************************************)
(* The command lines that are no user error.                               *)
(***************************************************************************)
Accepted(s, r) ==
    /\ ~r.malformed /\ r.awaits = 0
    /\ \A o \in DOMAIN s.options :
          /\ ~s.options[o].list => Len(r.options[o]) <= 1
          /\ s.options[o].required => r.options[o] # <<>>
          /\ Fits(s.options[o], r.options[o])
    /\ \A f \in DOMAIN s.flags : \A m, n \in r.flags[f] : m = n
    /\ EnoughOperands(s, r)
    /\ \A k \in DOMAIN s.positionals : Fits(s.positionals[k], OperandsOf(s, r, k))

----------------------------------------------------------------------------
(***************************************************************************)
(* The command lines on which several passes and one reading can disagree. *)
(***************************************************************************)
IdentifiesOption(s, arg) ==
    \E o \in DOMAIN s.options :
        IdentifiedBy(arg, [short |-> s.options[o].short, long |-> s.options[o].long])

\* A separate value that a lookup takes for an identifier or for "--".
ValueLooksLikeIdentifier(s, r, args) ==
    \E o \in DOMAIN s.options : \E k \in DOMAIN r.options[o] :
        LET read == r.options[o][k]
        IN  /\ args[read.at] = read.text
            /\ read.text = EndOfOptions \/ IdentifiesOption(s, read.text)

\* A container option named by its short and by its long identifier.
BothIdsOfAList(s, args) ==
    \E o \in DOMAIN s.options :
        LET opt   == s.options[o]
            By(c) == {p \in 1..(EndOfOptionsIn(args) - 1) : IdentifiedBy(args[p], c)}
        IN  opt.list /\ By(OnlyShort(opt.short)) # {} /\ By(OnlyLong(opt.long)) # {}

\* A letter of a flag in an argument behind "--".
FlagBehindEnd(s, args) ==
    \E p \in EndOfOptionsIn(args)..Len(args) : \E f \in DOMAIN s.flags :
        /\ IsShortGroup(args[p])
        /\ s.flags[f].short # NoId /\ HasLetter(args[p], s.flags[f].short)

\* A group of flags that erasing can turn into "--" or into a long identifier.
DashInGroup(s, args) ==
    \E p \in DOMAIN args :
        /\ IsShortGroup(args[p]) /\ ~IdentifiesOption(s, args[p])
        /\ \E k \in 3..Len(args[p]) : args[p][k] = "-"

\* A numeral that is too large for the numbers of a container.
OverflowInList(s, r) ==
    \/ \E o \in DOMAIN s.options : \E k \in DOMAIN r.options[o] :
          IsDropped(s.options[o], r.options[o][k].text)
    \/ \E n \in DOMAIN s.positionals : \E k \in DOMAIN r.positionals :
          IsDropped(s.positionals[n], r.positionals[k].text)

Unambiguous(s, r, args) ==
    /\ ~OverflowInList(s, r)
    /\ ~ValueLooksLikeIdentifier(s, r, args)
    /\ ~BothIdsOfAList(s, args)
    /\ ~FlagBehindEnd(s, args)
    /\ ~DashInGroup(s, args)

OrDefault(values) == IF values = <<>> THEN <<Default>> ELSE values

Outcome(s, r) ==
    /\ \A o \in DOMAIN s.options : option_value[o] = OrDefault(r.options[o])
    /\ \A v \in DOMAIN flag_value :
          flag_value[v] = \E f \in DOMAIN s.flags : s.flags[f].value = v /\ r.flags[f] # {}
    /\ \A k \in DOMAIN s.positionals : positional_value[k] = OperandsOf(s, r, k)

(***************************************************************************)
(* format_parse implements the reading: when parse() returns, it has       *)
(* thrown exactly on the command lines that are a user error, and          *)
(* otherwise every option, flag and positional option has the values of    *)
(* the reading, in the order of the command line, whatever the order of    *)
(* the add_* calls (format_parse.hpp:107-128).                             *)
(***************************************************************************)
AgreesWithReading ==
    pc = "done" =>
        LET r == Reading(setup, format_arguments)
        IN  Unambiguous(setup, r, format_arguments) =>
                /\ error = "none" <=> Accepted(setup, r)
                /\ error = "none" => Outcome(setup, r)

(***************************************************************************)
(* "The option is a list and can be parsed multiple times"                 *)
(* (format_parse.hpp:567): a container option keeps every value that was   *)
(* typed for it, whichever of its identifiers the user wrote.  Numbers     *)
(* that overflow are OverflowIsRejected's.                                 *)
(***************************************************************************)
ListsKeepEveryValue ==
    Succeeded =>
        LET r == Reading(setup, format_arguments)
        IN  /\ ~OverflowInList(setup, r)
            /\ ~ValueLooksLikeIdentifier(setup, r, format_arguments)
            => \A o \in DOMAIN setup.options :
                   setup.options[o].list =>
                       Len(option_value[o]) >= Len(r.options[o])
=============================================================================
