-------------------------------- MODULE Page --------------------------------
(***************************************************************************)
(* sharg::detail::format_help_base: which elements the page of an          *)
(* application has, in which order, and the synopsis generated from its    *)
(* options.  Constant level; HelpPage is the machine that prints a page.   *)
(***************************************************************************)
EXTENDS HelpText

(***************************************************************************)
(* One record per call the application made on its parser.  key and text   *)
(* are a list item's, text alone is a title, a line or the description;    *)
(* value is the default value of the variable as it is printed.            *)
(* Identifiers are runs that include their dashes.                         *)
(***************************************************************************)
NoId == ""

ASSUME OwnRunsAssumption ==
    {"(", ")", "[", "]", "...", "|", ",", ".", "-", "--", "of", "List", "Default:",
     "ARGUMENT-n", "[n]", "--own", "own", "text"} \subseteq Run

Kinds == {"option", "flag", "positional", "section", "subsection", "line", "item"}

Entry == [kind : Kinds, short : Run \cup {NoId}, long : Run \cup {NoId}, type : Run,
          list : BOOLEAN, required : BOOLEAN, advanced : BOOLEAN, hidden : BOOLEAN,
          paragraph : BOOLEAN, key : Text, text : Text, value : Text,
          default_message : Text, message : Text]

(***************************************************************************)
(* What verify_option_config, verify_flag_config and                       *)
(* verify_positional_option_config let through; texts have no config.      *)
(***************************************************************************)
Verified(e) ==
    /\ e.kind = "option" => ~(e.required /\ e.default_message # <<>>)
    /\ e.kind # "option" => e.default_message = <<>>
    /\ e.kind = "positional" => ~e.advanced /\ ~e.hidden
    /\ e.kind \notin {"option", "flag"} => ~e.hidden

(***************************************************************************)
(* parser_meta_data, as far as its fields decide what is printed.          *)
(***************************************************************************)
Meta == [synopsis : Seq(Text), description : Seq(Text), examples : Seq(Text),
         citation : Seq(Text), short_copyright : BOOLEAN, long_copyright : BOOLEAN,
         author : BOOLEAN, email : BOOLEAN, url : BOOLEAN]

Program == [entries : Seq({e \in Entry : Verified(e)}), meta : Meta, subcommands : Seq(Run),
            executable : Text, version_updates : BOOLEAN]

----------------------------------------------------------------------------
(***************************************************************************)
(* prep_id_for_help, option_type_and_list_info and the description with    *)
(* its default and its validator message.                                  *)
(***************************************************************************)
InFontToTheEnd(font, text) ==                     \* mutant
    IF font = Italic THEN <<font>> \o text ELSE <<font>> \o text \o <<Previous>>

InFont(font, text) == <<font>> \o text \o <<Previous>>

prep_id_for_help(e, separator) ==
    (IF e.short = NoId THEN <<>> ELSE InFont(Bold, <<e.short>>))
    \o (IF e.short # NoId /\ e.long # NoId THEN separator ELSE <<>>)
    \o (IF e.long = NoId THEN <<>> ELSE InFont(Bold, <<e.long>>))

option_type_and_list_info(e) ==
    <<"(">> \o (IF e.list THEN InFont(Italic, <<"List">>) \o <<Blank, "of", Blank>> ELSE <<>>)
            \o InFont(Italic, <<e.type>>) \o <<")">>

get_default_message(text) == <<Blank, "Default:", Blank>> \o text

DefaultOf(e) ==
    CASE e.kind = "option" /\ e.default_message # <<>> -> get_default_message(e.default_message)
      [] e.kind = "option" /\ e.default_message = <<>> /\ ~e.required ->
            get_default_message(e.value)
      [] e.kind = "positional" /\ e.list -> get_default_message(e.value)
      [] OTHER -> <<>>

MessageOf(e) == IF e.message = <<>> THEN <<>> ELSE <<".", Blank>> \o e.message

Info(e) == e.text \o DefaultOf(e) \o MessageOf(e)

----------------------------------------------------------------------------
(***************************************************************************)
(* The synopsis.  An element of it stands for one option, flag or          *)
(* positional option.                                                      *)
(***************************************************************************)
ElementText(e) ==
    LET named == prep_id_for_help(e, <<"|">>) \o <<Blank>> \o InFont(Italic, <<e.type>>)
    IN  CASE e.kind = "flag" -> <<"[">> \o prep_id_for_help(e, <<"|">>) \o <<"]">>
          [] e.kind = "option" /\ ~e.required ->
                <<"[">> \o named \o <<"]">> \o (IF e.list THEN <<"...">> ELSE <<>>)
          [] e.kind = "option" /\ e.required /\ e.list ->
                named \o <<Blank, "[">> \o named \o <<"]", "...">>
          [] e.kind = "option" /\ e.required /\ ~e.list -> named
          [] e.kind = "positional" ->
                InFont(Italic, <<e.type>>) \o (IF e.list THEN <<"...">> ELSE <<>>)

(***************************************************************************)
(* std::ranges::stable_sort by flag < option < positional: element e at    *)
(* position j of the unsorted vector is in front of f at position k.       *)
(***************************************************************************)
Rank(e) == CASE e.kind = "flag" -> 1 [] e.kind = "option" -> 2 [] OTHER -> 3

Precedes(e, j, f, k) == Rank(e) < Rank(f) \/ (Rank(e) = Rank(f) /\ j <= k)

(***************************************************************************)
(* What an element adds to the synopsis; the end of the options is         *)
(* announced in front of the first positional option.                      *)
(***************************************************************************)
Spelled(e, isFirstPositional) ==
    (IF isFirstPositional THEN <<Blank, "[", Bold, "--", Previous, "]">> ELSE <<>>)
    \o <<Blank>> \o ElementText(e)

(***************************************************************************)
(* print_synopsis puts the first word in bold.  A synopsis of one word has *)
(* no place for the \fP: the insert throws std::out_of_range.              *)
(***************************************************************************)
FirstBlank(text) == {i \in DOMAIN text : text[i] = Blank}

InBoldUpToBlank(text) ==
    LET i == Min(FirstBlank(text))
    IN  <<Bold>> \o SubSeq(text, 1, i - 1) \o <<Previous>> \o SubSeq(text, i, Len(text))

----------------------------------------------------------------------------
(***************************************************************************)
(* The formats, and whether one shows what is marked as advanced:          *)
(* format_help is told; format_html and format_man are built with the      *)
(* default argument false, the others with the default member true.        *)
(***************************************************************************)
Formats == {"help", "advanced_help", "html", "man", "short_help", "version", "copyright"}

ShowsAdvanced(format) == format \in {"advanced_help", "short_help", "version", "copyright"}

IsShown(e, advanced) == ~e.hidden /\ (~e.advanced \/ advanced)

(***************************************************************************)
(* What the add_* functions of a format have stored, as indices of the     *)
(* entries: parser_set_up_calls, positional_option_calls and               *)
(* synopsis_elements.  A positional option is never hidden nor advanced.   *)
(***************************************************************************)
Stored == [set_up : Seq(Nat), positional : Seq(Nat), synopsis : Seq(Nat)]

NothingStored == [set_up |-> <<>>, positional |-> <<>>, synopsis |-> <<>>]

\* Indices of entries of program p of the kinds that belong there.
StoresEntries(p, st) ==
    /\ \A k \in DOMAIN st.set_up :
          st.set_up[k] \in DOMAIN p.entries /\ p.entries[st.set_up[k]].kind # "positional"
    /\ \A k \in DOMAIN st.positional :
          st.positional[k] \in DOMAIN p.entries /\ p.entries[st.positional[k]].kind = "positional"
    /\ \A k \in DOMAIN st.synopsis :
          /\ st.synopsis[k] \in DOMAIN p.entries
          /\ p.entries[st.synopsis[k]].kind \in {"option", "flag", "positional"}

store_help_page_element(st, e, n, advanced) ==
    IF IsShown(e, advanced) THEN [st EXCEPT !.set_up = Append(@, n)] ELSE st

store_synopsis_always(st, e, n, advanced) ==      \* mutant
    [st EXCEPT !.synopsis = Append(@, n)]

store_synopsis(st, e, n, advanced) ==
    IF IsShown(e, advanced) THEN [st EXCEPT !.synopsis = Append(@, n)] ELSE st

store_positional_below(st, n) ==                  \* mutant
    [st EXCEPT !.set_up = Append(@, n), !.synopsis = Append(@, n)]

store_positional(st, n) ==
    [st EXCEPT !.positional = Append(@, n), !.synopsis = Append(@, n)]

----------------------------------------------------------------------------
(***************************************************************************)
(* The calls of the derived format that parse() makes.  of is the entry a  *)
(* call was stored for, 0 for the format's own texts, whose wording is     *)
(* left out.                                                               *)
(***************************************************************************)
CallKinds == {"header", "section", "subsection", "line", "item", "footer", "block", "throw"}

Call == [kind : CallKinds, key : Text, text : Text, paragraph : BOOLEAN, of : Nat]

Emit(kind, key, text, paragraph) ==
    [kind |-> kind, key |-> key, text |-> text, paragraph |-> paragraph, of |-> 0]

OwnText == <<"own", Blank, "text">>

Section(title)        == Emit("section", <<>>, title, FALSE)
OwnSection            == Section(<<"own">>)
Line(text, paragraph) == Emit("line", <<>>, text, paragraph)
OwnLine(paragraph)    == Line(OwnText, paragraph)
OwnItem               == Emit("item", InFont(Bold, <<"--own">>), OwnText, FALSE)
Lines(texts)          == [k \in DOMAIN texts |-> Line(texts[k], TRUE)]
Under(title, calls)   == IF calls = <<>> THEN <<>> ELSE <<title>> \o calls
Optional(condition, calls) == IF condition THEN calls ELSE <<>>

CallOf(entries, n) ==
    LET e == entries[n]
    IN  CASE e.kind = "option" ->
                [Emit("item", prep_id_for_help(e, <<",", Blank>>) \o <<Blank>>
                                 \o option_type_and_list_info(e), Info(e), FALSE)
                    EXCEPT !.of = n]
          [] e.kind = "flag" ->
                [Emit("item", prep_id_for_help(e, <<",", Blank>>), e.text, FALSE)
                    EXCEPT !.of = n]
          [] e.kind = "positional" ->
                [Emit("item", InFont(Bold, <<"ARGUMENT-n">>) \o <<Blank>>
                                 \o option_type_and_list_info(e), Info(e), FALSE)
                    EXCEPT !.of = n]
          [] OTHER -> [Emit(e.kind, e.key, e.text, e.paragraph) EXCEPT !.of = n]

CallsOf(entries, indices) == [k \in DOMAIN indices |-> CallOf(entries, indices[k])]

(***************************************************************************)
(* An empty first line of the synopsis disables it.                        *)
(***************************************************************************)
print_synopsis(synopsis) ==
    IF synopsis = <<>> \/ synopsis[1] = <<>> THEN <<>>
    ELSE [k \in DOMAIN synopsis |->
             IF FirstBlank(synopsis[k]) = {} THEN Emit("throw", <<>>, <<>>, FALSE)
             ELSE Line(InBoldUpToBlank(synopsis[k]), FALSE)]

Subcommands(p) ==
    IF p.subcommands = <<>> THEN <<>>
    ELSE <<OwnSection, OwnLine(FALSE)>>
         \o [k \in DOMAIN p.subcommands |->
                Line(<<"-", Blank>> \o InFont(Bold, <<p.subcommands[k]>>), FALSE)]
         \o <<OwnLine(TRUE), OwnLine(TRUE)>>

CommonOptions(p) ==
    <<Emit("subsection", <<>>, <<"own">>, FALSE)>>
    \o [k \in 1..(5 + IF p.version_updates THEN 1 ELSE 0) |-> OwnItem]

print_version(p) ==
    <<OwnSection, OwnLine(FALSE), OwnLine(FALSE), OwnLine(FALSE)>>
    \o Optional(p.meta.url, <<OwnSection, OwnLine(FALSE)>>)

print_legal(p) ==
    LET m == p.meta
        citations == [k \in DOMAIN m.citation |->
                         Emit("item", InFont(Bold, <<"[n]">>), m.citation[k], FALSE)]
    IN  Optional(m.short_copyright \/ m.long_copyright \/ m.citation # <<>>
                 \/ m.author \/ m.email,
            <<OwnSection>>
            \o Optional(m.short_copyright, <<OwnLine(FALSE)>>)
            \o Optional(m.author, <<OwnLine(FALSE)>>)
            \o Optional(m.email, <<OwnLine(FALSE)>>)
            \o <<OwnLine(FALSE)>>
            \o Under(OwnLine(FALSE), citations)
            \o Optional(m.long_copyright, <<OwnLine(FALSE)>>))

FullPage(p, st, synopsis) ==
    <<Emit("header", <<>>, <<>>, FALSE)>>
    \o Under(OwnSection, print_synopsis(synopsis))
    \o Under(OwnSection, Lines(p.meta.description))
    \o Subcommands(p)
    \o Under(OwnSection, CallsOf(p.entries, st.positional))
    \o <<OwnSection>>
    \o CallsOf(p.entries, st.set_up)
    \o CommonOptions(p)
    \o Under(OwnSection, Lines(p.meta.examples))
    \o print_version(p)
    \o print_legal(p)
    \o <<Emit("footer", <<>>, <<>>, FALSE)>>

(***************************************************************************)
(* format_short_help, format_version and format_copyright print less; the  *)
(* last one writes three blocks of its own.                                *)
(***************************************************************************)
PageOf(format, p, st, synopsis) ==
    CASE format = "short_help" ->
            <<Emit("header", <<>>, <<>>, FALSE)>> \o print_synopsis(synopsis)
            \o <<OwnLine(TRUE)>>
      [] format = "version" -> <<Emit("header", <<>>, <<>>, FALSE)>> \o print_version(p)
      [] format = "copyright" -> [k \in 1..3 |-> Emit("block", <<>>, <<>>, FALSE)]
      [] OTHER -> FullPage(p, st, synopsis)
=============================================================================
