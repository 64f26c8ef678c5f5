----------------------------- MODULE MCHelpPage -----------------------------
(***************************************************************************)
(* Small applications for HelpPage.                                        *)
(***************************************************************************)
EXTENDS HelpPage

Ones   == {"(", ")", "[", "]", "|", ",", ".", "-", "a"}
Others == [u \in {"-f", "-o", "--", "of", "[n]"} |-> 2] @@ [u \in {"...", "own", "app"} |-> 3]
          @@ [u \in {"--flag", "List", "int", "file", "text", "word"} |-> 5]
          @@ [u \in {"--own", "--opt", "Default:", "ARGUMENT-n", "phrase"} |-> 11]
          @@ [u \in {"long"} |-> 27] @@ [u \in {"huge"} |-> 40]

Lengths == [u \in Ones |-> 1] @@ Others

Short     == <<"word">>
Sentence  == <<"long", Blank, Bold, "word", Previous, Blank, "a", Blank, "huge", Blank, "a">>
Quoted    == <<"phrase", Blank, "long", Escaped, "a">>
Hyphened  == <<"phrase", Blank, "phrase", Hyphen, "a", Blank, "a", Blank, "word">>
Escapes   == <<"phrase", Blank, Backslash, "phrase", Blank, "word", Escaped>>

Wide      == <<"huge", Blank, "a">>

TextsOfCalls == {<<>>, Short, Sentence, Hyphened, Wide}

Plain == [kind |-> "line", short |-> NoId, long |-> NoId, type |-> "int", list |-> FALSE,
          required |-> FALSE, advanced |-> FALSE, hidden |-> FALSE, paragraph |-> FALSE,
          key |-> <<>>, text |-> Short, value |-> <<"a">>, default_message |-> <<>>,
          message |-> <<>>]

Option == [Plain EXCEPT !.kind = "option", !.short = "-o", !.long = "--opt"]
Flag   == [Plain EXCEPT !.kind = "flag", !.short = "-f", !.text = <<>>]
File   == [Plain EXCEPT !.kind = "positional", !.type = "file", !.text = Sentence]

Options == {Option,
            [Option EXCEPT !.required = TRUE, !.list = TRUE, !.text = <<>>],
            [Option EXCEPT !.list = TRUE, !.short = NoId, !.value = Quoted],
            [Option EXCEPT !.advanced = TRUE, !.default_message = Short],
            [Option EXCEPT !.hidden = TRUE],
            [Option EXCEPT !.required = TRUE, !.long = NoId, !.message = Hyphened]}

FlagEntries == {Flag, [Flag EXCEPT !.long = "--flag", !.text = Sentence, !.advanced = TRUE],
                [Flag EXCEPT !.hidden = TRUE]}

Positionals == {File, [File EXCEPT !.list = TRUE, !.value = <<"[", "]">>, !.message = Short]}

TextEntries ==
    {[Plain EXCEPT !.text = t, !.paragraph = b] : t \in TextsOfCalls, b \in BOOLEAN}
    \cup {[Plain EXCEPT !.kind = "section"], [Plain EXCEPT !.kind = "subsection"],
          [Plain EXCEPT !.kind = "section", !.advanced = TRUE],
          [Plain EXCEPT !.kind = "subsection", !.text = <<Bold>>],
          [Plain EXCEPT !.text = Escapes], [Plain EXCEPT !.text = <<Bold, "word">>],
          [Plain EXCEPT !.kind = "item", !.key = <<"a">>],
          [Plain EXCEPT !.kind = "item", !.key = Short, !.text = <<>>]}

AllEntries == Options \cup FlagEntries \cup Positionals \cup TextEntries

Core == {Option, [Option EXCEPT !.advanced = TRUE], Flag, [Flag EXCEPT !.hidden = TRUE], File,
         [Plain EXCEPT !.text = Sentence, !.paragraph = TRUE], [Plain EXCEPT !.text = <<>>],
         [Plain EXCEPT !.text = Escapes], [Plain EXCEPT !.kind = "section"],
         [Plain EXCEPT !.kind = "item", !.key = <<"a">>]}

NoMeta == [synopsis |-> <<>>, description |-> <<>>, examples |-> <<>>, citation |-> <<>>,
           short_copyright |-> FALSE, long_copyright |-> FALSE, author |-> FALSE,
           email |-> FALSE, url |-> FALSE]

App == [entries |-> <<>>, meta |-> NoMeta, subcommands |-> <<>>, executable |-> <<"app">>,
        version_updates |-> FALSE]

Synopses == {<<>>, <<<<>>>>, <<<<"app">>>>, <<<<"app", Blank, "word">>, <<"app", Blank, "a">>>>,
             <<<<Bold, "app", Blank, "a", Previous, Blank, "word">>, <<"word">>>>}

Metas ==
    {[NoMeta EXCEPT !.synopsis = s, !.description = d] :
        s \in Synopses, d \in {<<>>, <<Short, Sentence>>, <<<<>>>>}}
    \cup {[NoMeta EXCEPT !.examples = <<Hyphened>>, !.citation = c, !.long_copyright = l,
                         !.author = a, !.url = a, !.email = ~l, !.short_copyright = l] :
             c \in {<<>>, <<Sentence, <<>>>>}, l \in BOOLEAN, a \in BOOLEAN}

Apps == {[App EXCEPT !.entries = es] : es \in BoundedSeq(AllEntries, 1) \cup (Core \X AllEntries)}
        \cup {[App EXCEPT !.entries = <<e>>, !.meta = m, !.version_updates = TRUE,
                          !.subcommands = s] :
                 e \in {Option, Flag, File}, m \in Metas, s \in {<<>>, <<"word", "a">>}}

Widths == {0, 30}
=============================================================================
