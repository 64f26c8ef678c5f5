---------------------------- MODULE CommandLine ----------------------------
(***************************************************************************)
(* Command line arguments, identifiers and how one is recognised in the    *)
(* other: the constant-level part of detail/format_parse.hpp that the      *)
(* parsing machine and the parser share.                                   *)
(*                                                                         *)
(* An argument is a sequence of symbols.  The parser compares only the     *)
(* leading dashes, the equal sign, the letters of grouped flags and whole  *)
(* long identifiers, so each of those is one symbol; so is the text of a   *)
(* value.  "-fg" is <<"-", "f", "g">>, "--int=5" is                        *)
(* <<"-", "-", "int", "=", "5">> and the empty string is <<>>.             *)
(***************************************************************************)
EXTENDS Integers, Sequences, SequencesExt

CONSTANT Symbol

ASSUME SymbolAssumption == {"-", "="} \subseteq Symbol

Argument == Seq(Symbol)

Erased       == <<>>               \* what a used argument is overwritten with
EndOfOptions == <<"-", "-">>       \* option_end_identifier
NoId         == ""                 \* '\0' for a short, "" for a long identifier

Identifier == Symbol \cup {NoId}

(***************************************************************************)
(* An identifier pair as the caller of find_option_id builds it: searching *)
(* by one identifier leaves the other one empty.                           *)
(***************************************************************************)
OnlyShort(c) == [short |-> c, long |-> NoId]
OnlyLong(n)  == [short |-> NoId, long |-> n]

(***************************************************************************)
(* Two pairs are equal if their short or their long identifiers are,       *)
(* unless these are empty.                                                 *)
(***************************************************************************)
SamePair(a, b) ==
    \/ a.short # NoId /\ a.short = b.short
    \/ a.long # NoId /\ a.long = b.long

prepend_dash_short(c) == <<"-", c>>
prepend_dash_long(n)  == IF n = NoId THEN EndOfOptions ELSE <<"-", "-", n>>

(***************************************************************************)
(* The comparison of find_option_id: "-o", "-o=value" and "-ovalue" by the *)
(* short identifier; "--opt" and "--opt=value", and no longer word that    *)
(* begins with "--opt", by the long one.                                   *)
(***************************************************************************)
IdentifiedBy(arg, id) ==
    \/ id.short # NoId /\ IsPrefix(prepend_dash_short(id.short), arg)
    \/ id.long # NoId /\ \/ arg = prepend_dash_long(id.long)
                         \/ IsPrefix(Append(prepend_dash_long(id.long), "="), arg)

(***************************************************************************)
(* The first of a set of positions, or end when there is none: what        *)
(* std::find and std::find_if return for a range that ends at end.         *)
(***************************************************************************)
FirstOr(positions, end) == IF positions = {} THEN end ELSE Min(positions)

find_option_id(args, begin, end, id) ==
    FirstOr({p \in begin..(end - 1) : IdentifiedBy(args[p], id)}, end)

EndOfOptionsIn(args) ==
    FirstOr({p \in DOMAIN args : args[p] = EndOfOptions}, Len(args) + 1)

(***************************************************************************)
(* An argument that may be a group of short flags: one dash, and more.     *)
(***************************************************************************)
IsShortGroup(arg) == Len(arg) > 1 /\ arg[1] = "-" /\ arg[2] # "-"

HasLetter(arg, c) == \E k \in 1..Len(arg) : arg[k] = c

(***************************************************************************)
(* arg without the first c; a dash that is left alone is erased with it.   *)
(***************************************************************************)
WithoutFlag(arg, c) ==
    LET rest == RemoveFirst(arg, c)
    IN  IF rest = <<"-">> THEN Erased ELSE rest

(***************************************************************************)
(* What is left in front of "--" and still looks like an option or a flag; *)
(* a dash alone is a positional option.                                    *)
(***************************************************************************)
MayBeIdentifier(arg) == arg # Erased /\ arg[1] = "-" /\ arg # <<"-">>
=============================================================================
