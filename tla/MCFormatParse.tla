--------------------------- MODULE MCFormatParse ---------------------------
(***************************************************************************)
(* Small setups and command lines for FormatParseAlone.                    *)
(***************************************************************************)
EXTENDS FormatParseAlone, PosixReading

Symbols == {"-", "=", "i", "int", "s", "set", "f", "g", "flag", "x", "v", "w", "5", "9e9"}

Num  == {"5"}
Huge == {"9e9"}

IntOption == [short |-> "i", long |-> "int", list |-> FALSE, type |-> "number",
              required |-> FALSE, rejects |-> {}]
NameOption == [short |-> "s", long |-> "set", list |-> TRUE, type |-> "string",
               required |-> FALSE, rejects |-> {<<"v">>}]
File == [list |-> FALSE, type |-> "string", rejects |-> {<<"-">>}]
Numbers == [list |-> TRUE, type |-> "number", rejects |-> {}]
F == [short |-> "f", long |-> "flag", value |-> 1]
G == [short |-> "g", long |-> NoId, value |-> 2]

\* A numeric option, a container option, two flags and one operand.
Mixed == [options |-> <<IntOption, NameOption>>, flags |-> <<F, G>>, positionals |-> <<File>>]

\* The same identifiers in the other order; -i is a required string, both
\* flags write one variable and a container takes the operands.
Reversed ==
    [options     |-> <<NameOption, [IntOption EXCEPT !.type = "string", !.required = TRUE]>>,
     flags       |-> <<[G EXCEPT !.value = 1], F>>,
     positionals |-> <<[File EXCEPT !.rejects = {}], Numbers>>]

\* A short and a long option without the other identifier, the latter a
\* required list of numbers, and no operand.
NumbersOption == [NameOption EXCEPT !.short = NoId, !.type = "number", !.required = TRUE]

Plain == [options     |-> <<[IntOption EXCEPT !.long = NoId], NumbersOption>>,
          flags       |-> <<F>>,
          positionals |-> <<>>]

\* Two short options; the container is declared first.
Shorts == [options     |-> <<[NameOption EXCEPT !.long = NoId],
                             [IntOption EXCEPT !.long = NoId, !.type = "string"]>>,
           flags       |-> <<>>,
           positionals |-> <<>>]

AllSetups == {Mixed, Reversed, Plain}

ShortSetups == {Shorts}

Core == {<<"-", "i">>, <<"-", "-", "int">>, <<"-", "s">>, <<"-", "f">>, <<"-", "-">>,
         <<"-", "s", "w">>, <<"5">>, <<"v">>, <<>>}

Tokens == Core \cup
          {<<"-", "i", "5">>, <<"-", "i", "=">>, <<"-", "i", "=", "v">>,
           <<"-", "-", "int", "=", "9e9">>, <<"-", "-", "set">>, <<"-", "-", "set", "=", "w">>,
           <<"-", "s", "v">>, <<"-", "f", "-">>,
           <<"-", "f", "g">>, <<"-", "-", "flag">>, <<"9e9">>, <<"-">>, <<"-", "5">>, <<"-", "x">>}

Lines == BoundedSeq(Tokens, 3) \cup TupleOf(Core, 4)
=============================================================================
