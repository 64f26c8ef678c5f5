------------------------------ MODULE MCParser ------------------------------
(***************************************************************************)
(* Small applications and command lines for Parser.                        *)
(***************************************************************************)
EXTENDS Parser

Symbols == {"-", "=", "app", "build", "x", "i", "int", "j", "f", "h", "help", "advanced-help",
            "hh", "version", "copyright", "export-help", "version-check",
            "html", "man", "ctd", "cwl", "1", "true", "0", "false", "v"}

Shorts == {"i", "j", "f", "h"}
Longs  == {"int", "version", "version-check"}

Num == {"1"}

\* A string by both identifiers, a list of numbers, and a required option that
\* claims one of the identifiers; flags claim others.
IntOption == [short |-> "i", long |-> "int", list |-> FALSE, type |-> "string",
              required |-> FALSE, rejects |-> {}]
Numbers   == [IntOption EXCEPT !.short = "j", !.long = NoId, !.list = TRUE, !.type = "number"]
Required  == [IntOption EXCEPT !.short = NoId, !.required = TRUE]

Options == {IntOption, Numbers, Required}

Flags == {[short |-> "f", long |-> "int", value |-> 1],
          [short |-> NoId, long |-> "version-check", value |-> 2],
          [short |-> "h", long |-> NoId, value |-> 3]}

Positionals == {[list |-> FALSE, type |-> "string", rejects |-> {}],
                [list |-> TRUE, type |-> "string", rejects |-> {}]}

Build == <<"build">>

Subcommands == {{Build}}
BadSubcommands == {{Build}, {Build, <<"=">>}}

Goodnames == {Build}

Core == {<<"-", "i">>, <<"-", "j">>, <<"-", "f">>, <<"-", "-">>, <<"-", "-", "version-check">>,
         <<"1">>, Build}

Tokens == Core \cup
          {<<"-", "i", "v">>, <<"-", "-", "int">>, <<"-", "h">>, <<"-", "h", "h">>,
           <<"-", "-", "version">>, <<"-", "-", "export-help">>, <<"html">>, <<"v">>, <<>>,
           <<"-", "-", "export-help", "=", "man">>, <<"-", "-", "export-help", "=">>}

Lines == {<< <<"app">> >> \o words : words \in BoundedSeq(Tokens, 2) \cup TupleOf(Core, 3)}
=============================================================================
