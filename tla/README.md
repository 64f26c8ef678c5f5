# Verification of sharg-parser

TLA+ models of the sharg argument parser, the TLC runs that check them on small
instances, and proofs of the properties that matter most. The code is the reference:
every definition is translated from `src/include/sharg/`, and `PROJECT.json` names the
lines each one stands for. The build modelled is the release build (`NDEBUG`): a failed
`assert` is a value of `error` and the program goes on.

## 1. The system

| component | state | operations | talks to |
|---|---|---|---|
| `parser` (`parser.hpp`) | command line, identifiers in use, names of options, subcommands, the chosen format, the sub-parser, `version_check_user_decision`, deferred calls | `add_option`, `add_flag`, `add_positional_option`, `add_subcommands`, `parse`, `is_option_set`, `get_sub_parser`, destructor | hands `format_arguments` and the deferred calls to a format; starts the version check and waits for it; constructs sub-parsers |
| `format_parse` (`detail/format_parse.hpp`) | a vector of arguments that is edited in place, the end of the options, the bound variables, the operand counter | one pass over the vector for each option, each flag, the unknown identifiers, each operand | writes the application's variables, calls validators |
| version check (`detail/version_check.hpp`) | a cookie and a version file per application, shared by all its processes; a promise and a detached thread | decide, ask, write the cookie, send the request | the user, the clock, the file system, a server |
| validators (`validators.hpp`, `detail/safe_filesystem_entry.hpp`) | none of their own; the file system while they try to read and write | output and input, file and directory; values | the file system, other processes |
| page formats (`detail/format_base.hpp`, `format_help.hpp`, `format_html.hpp`, `format_man.hpp`) | the stored calls and synopsis elements; a flag or two and a position per format | the `add_*` functions, `parse()`, one print function per kind of text | called by `parser::parse()`; a stream |
| tool descriptions (`detail/format_tdl.hpp`) | | writes CTD and CWL | a library that is a git submodule |
| enumeration and type names, concepts, exceptions, config records, terminal | none | | |

What makes each of them hard, and what is correct:

* **format_parse** makes several passes over one vector that it changes while it
  searches. A user thinks of a command line as read once, from left to right; the code
  reads it once for every `add_*` call. Correct means: the two agree wherever the command line
  has one meaning, whatever the order of the calls; nothing behind `--` is touched by the
  options; no pass runs beyond the vector; a variable holds input or its default, never
  a mixture; what is required was read; every loop ends.
* **parser** is a protocol: calls of an application in any order, some refused after they
  have already changed something, then `parse()`, then perhaps the same again for a
  sub-parser. Before `format_parse` sees the command line another loop has split it, with
  a different idea of which argument is whose value; `is_option_set` has a third. Correct means: an
  identifier has one owner, the split loses nothing, the views agree,
  every `parse()` ends.
* **version check** is concurrent: processes share a file without a lock, are killed
  while they write it, and leave requests behind that outlive them. Correct means: no
  request the user has not allowed, a settled decision stays, nobody waits for the server.
* **validators** of files find out whether a path can be written by writing to it, and
  remove what they created. Between any two of their calls another process
  can do the same, an application can write, or the process can be killed. Correct means:
  what existed is kept, and an undisturbed validator leaves no trace and answers correctly.
* The **page formats** carry out print calls in whatever order the application has made
  them, and all that is known of the earlier ones is a flag per format (`prev_was_paragraph`;
  `is_dl` and `is_p`; `is_first_in_section`) and a column that is counted beside what is really on
  the line. Correct means: after every sequence of calls HTML elements nest and are closed, man
  joins no two texts, the screen shows each text on lines of its own that fit, and
  the synopsis names what the page explains.

`PROJECT.json` lists the hazards one by one with the line at which each bites.

## 2. Modules

| module | models | about |
|---|---|---|
| `CommandLine` | constants | arguments as sequences of symbols, identifiers, `find_option_id` |
| `FormatParse` | `format_parse` | the machine: one step is one lookup, one retrieval or one check; its properties |
| `FormatParseAlone` | | that machine as a system: any of a set of setups and command lines |
| `PosixReading` | specification | the reading from left to right, argument by argument, and the lines on which it has one meaning |
| `Parser` | `parser` | the setup calls, `parse()`, sub-parsers; extends `FormatParse`, whose steps are the last part of `parse()` |
| `Consent` | specification | who may send a request |
| `VersionCheck` | `version_checker` and the wait of `~parser` | processes, cookie, clock, requests |
| `FileValidators` | the four validators of files | processes, file system, one call to the system per step |
| `HelpText` | `format_help`, `format_html`: texts | units, escape sequences, widths, words, fonts, the screen |
| `Page` | `format_help_base` | what is stored, the generated synopsis, the sequence of print calls of each format |
| `HelpPage` | the formats | the machine: one step is an operation, a synopsis element, a print call or a printed word |
| `*_proofs` | | theorems about the module of that name; `FormatParse_proofs`, `PosixReading_proofs` and `Page_proofs` (which holds those about `HelpText` too) are the lemmas others cite |
| `MC*` | | instances for TLC |

### CommandLine, FormatParse, FormatParseAlone

An argument is a sequence of symbols: the dashes, the equal sign, letters of short
flags, whole long identifiers and texts of values, because the code compares nothing finer.
`setup` are the deferred calls (the `option_calls`, `flag_calls` and
`positional_option_calls` vectors) as records; `parse()` runs them in that order.
`ParseBegins` and `ParseStep` are its first state and its steps. `FormatParseAlone` adds the
setups and command lines it can begin with; `Parser` begins it with what its own steps have
collected.

| action | code |
|---|---|
| `FindEndOfOptions` | finding `--`, the start of `parse()` |
| `LookUpOption`, `LookUpOptionAgain` | `get_option_by_id`: `find_option_id` for the short identifier, then for the long one, and the loop over a container |
| `RetrieveGluedValue`, `RetrieveSeparateValue`, `MissingOptionValue` | `identify_and_retrieve_option_value` with the conversion and the erasing |
| `FinishOption` | the end of `get_option`: required options, the validator |
| `GetFlag` | `get_flag`, `flag_is_set` in both forms, the letter erased from a group |
| `CheckForUnknownIds` | `check_for_unknown_ids` |
| `BeginPositionalOption`, `TakePositionalValue`, `FinishPositionalOption` | `get_positional_option` |
| `CheckForLeftOverArgs` | `check_for_left_over_args` |

`option_value`, `flag_value` and `positional_value` are the application's variables. A
value remembers the position it came from, which no action reads. Value types are
reduced to a text that parses always and a number that may fail or overflow, validators to
the set of texts they throw for.

`PosixReading` is the abstract specification. `Reading` goes over the command line once
(`Readings`, a function of the number of arguments read, so that proofs can speak of it);
`Accepted` says which readings are no user error; `Unambiguous` excludes the lines on which
several passes and one reading really differ. There are five such classes, each one definition:
a separate value that looks like an identifier, a list named by both identifiers, a flag's
letter behind `--`, a dash inside a group of flags, an overflow inside a list. The second, third
and last are findings (section 3).

### Parser

`SetUp` is every `add_*` call, with the calls that throw after they have registered an
identifier; a call that throws and changes nothing is no step. `parse()` is the name test,
`determine_format_and_subcommand` one argument at a time (`arg_it`), the exits for pages
and versions, and the steps of `FormatParse`. `get_sub_parser` resets
everything, as the constructor does for the sub-parser's part of the command line.
`is_option_set` is an operator on the state.

### Consent, VersionCheck

One slot of `Process` stands for all processes that do not overlap. The cookie
is a time and a decision; opening it for writing empties it, closing it writes the text,
and the two are separate steps of which the second may be lost to a kill. Two texts written at
once overlay each other (`ASK` over `NEVER` reads `ASKER`). Only a process that finds no answer in
the cookie looks for a terminal (`LookForTerminal`), and only then can it ask. A process that
found no directory to write to (`has_path`) has no cookie: it neither reads nor changes the one the
others share. Requests outlive their processes. `Consent` has three variables: whether the user has said "always", who
was allowed, who sends; `VersionCheck` is mapped to it by `INSTANCE Consent WITH`.

### FileValidators

A file system is a function from paths to nothing, an empty file, a file with data, a
directory or a link. Every call that looks at it or changes it is a step, in the order of
the code and with the guards' destructors on every way out, those by exception included.
`before` remembers the file system when the first of the running validators began, and
`alone` whether anything else has happened since. What applications do after validation
(`WriteFile`, `WriteInDirectory`) is external.

| action | code |
|---|---|
| `Start`, `Kill` | a validator is called; the process ends at any call |
| `IsNoDirectory`, `CreateNew`, `ValidateFilename` | `output_file_validator` up to `validate_writeability` |
| `ProbeExists`, `Append`, `Create`, `Remove`, `Contingency`, `Release` | `validate_writeability`: what exists, the opens, the guard's removal, by `remove()` or in its destructor |
| `DirExists`, `CreateDirectory`, `ReleaseDirectory` | `output_directory_validator`: the question, the call whose result it drops, the guard of the directory |
| `InputExists`, `InputIsDirectory`, `Readable`, `List`, `IsRegular`, `OpenInput` | the input validators and `validate_readability` |

### HelpText, Page, HelpPage

A text is a sequence of units: a blank, an escape sequence of the page source (`\fB`, `\-`, `\\`, ...) or a
run of other characters, of which `Length` knows how many. Three widths follow: what `to_text` really
prints, what `text_width` counts, and that of a title, which is printed as it is. Wording is left out; the formats' own texts are one
unit `own`.

| action | code |
|---|---|
| `AddOptionOrFlag`, `AddPositionalOption`, `AddText` | the `add_*` functions of `format_help_base`, run by `parser::parse()` |
| `BeginParse`, `AddToSynopsis`, `FinishSynopsis` | `parse()`: the synopsis that is sorted and generated element by element, the order of the page |
| `SynopsisThrows` | the `insert` of `print_synopsis` at a blank that is not there |
| `HelpHeader`, `HelpHeading`, `HelpLine`, `HelpListItem`, `HelpFooter` | `format_help::print_*`, and the blocks of `format_copyright` |
| `FirstWord`, `NextWord`, `EndText` | the loop of `print_text`, a word at a time |
| `HtmlHeader` ... `HtmlFooter`, `ManHeader` ... `ManFooter` | the same five functions of the other two formats |

The output is not kept. Each format has a reader instead, a history variable that no action of
the code reads: the cursor and the empty lines of the `screen`, the `open` elements of the HTML
body, the last request or text of `roff` and whether it has run two texts together. `format_short_help`,
`format_version` and `format_copyright` print other sequences of calls by the functions of `format_help`.

## 3. Runs

| run | instance | what it shows |
|---|---|---|
| `format_parse` | 3 setups; all lines of up to 3 of 23 arguments, and of 4 of 9 | `AgreesWithReading`, `ValuesStandWhereTyped`, `NoWordIsLost`, the other invariants of the proofs, `OptionsStopAtEnd`, `Terminates` |
| `parser` | 2 setup calls from 8 kinds, lines of up to 2 of 18 and of 3 of 7 arguments, one level of sub-parsers | `SetupIsWellFormed`, `KeywordsAreValues`, `ArgumentsAreKept`, `ReadOptionsAreSet`, `ReturnsWithRequired`, `ParseEnds` |
| `version_check` | 2 slots, a day of 2 ticks, clock to 4 | `RequestsAreConsented` (refinement), `DecisionsAreFinal`, `ProcessesEnd` |
| `file_validators` | 2 processes, 4 paths, 10 requests, 48 starting situations | `ExistingIsKept`, `LeavesNoTrace` |
| `help_page` | every entry alone, and pairs of a core of 10 with all 29; every part of the meta data; 7 formats; 2 widths | nine invariants of page and readers (section 5), `PageEnds` |

The bounds and why they are enough:

* *format_parse.* A disagreement between passes needs an identifier, its value, and an
  argument that another pass takes away or leaves; with `--` that is four arguments. The
  arguments are one of each way to write an option, a flag, a value and an operand. The
  setups cover single options and lists, numbers and texts, required ones, an
  identifier of either kind alone, two flags on one variable, no operand, a list of
  operands, and both orders of declaration.
* *parser.* `MaxCalls = 2`: ownership of an identifier is a question about two pairs. Three
  words are a keyword, its value and one argument behind it, or an option, its value and a
  subcommand.
* *version_check.* Two slots overlap; a third would repeat what the first does, since a
  slot is used again. With a day of 2 ticks a cookie can be new, younger than a day and a
  day old; a clock of 4 starts a day after the beginning of time and lets one cookie expire.
* *file_validators.* A directory, a file in it, a link and its target give every branch of
  the validators; permissions give every failure. Two processes suffice for one to act
  between any two calls of the other, and each can start again.

* *help_page.* The state a print call leaves is at most one flag per format, so two entries, between
  the format's own calls, give every call after every other one. The texts have words that fit, just
  fit, do not fit, and are wider than the screen, each kind of escape sequence in the
  middle and at the end, and none at all. Terminal widths 0 and 30 give the default and the
  smallest layout; the largest differs in a number. 154,564 states.

Deadlock is checked everywhere; the one step a finished program takes is stuttering.

### Disagreements

These runs check what a comment or a page of the documentation says, and TLC shows a run
of the code that breaks it. Each is a finding in `PROJECT.json`.

| run | what happens |
|---|---|
| `lists_lose_values` | `-s a --set b`: the container loses `a`, it is cleared again for the long identifier (values that overflow are left out of the property, so that this is the only way to break it) |
| `operands_change` | `-- -fx` with a flag `-f`: the flag is set and the operand becomes `-x` |
| `overflow_accepted` | a value out of range in a list of numbers is dropped in silence; a required list ends up empty |
| `request_on_every_start` | once the cookie of a user who chose "always" is a day old, every start sends a request |
| `links_are_removed` | `output_file_validator` removes a link whose target does not exist |
| `asked_without_directory` | a process that has no directory to write to asks its user, on every start, and writes its time stamp into the working directory, where `version_check.hpp:260` says that the version check will not be done |
| `foreign_directory_removed` | two validators of a new directory: one guards what the other created, and removes it with its content |

Smaller ones that the model contains and no run singles out: the glued `-i-sw` and the
separate `-i -sw` can differ, because an option that was declared earlier takes the `-sw` of the
second for itself, although the two are documented as equivalent (`parser.hpp:100`,
`format_parse.hpp:517`); a flag group `-f-`
leaves `--` behind, which a flag without a long identifier then takes for its own
(`format_parse.hpp:245`, `:267`); `add_subcommands` accepts a parser that already has positional
options, against the comment at `parser.hpp:318`; `input_file_validator` accepts a directory that can
be listed, against "an existing regular file" at `validators.hpp:568`, because `validate_readability`
returns before it tests for one (`Accepts` says what the code does);
`app -- -h` prints the help page (`parser.hpp:911`, against `:101`: the loop over the keywords does not
know `--`); in `-i -j`, where `-j` is the value of `-i`, `is_option_set('j')` is true. A flag named
`version-check` can be added, but `parse()` takes it and the argument behind it for itself.

Who cannot be asked: two comments in the code say that the check is then done by default
(`version_check.hpp:289`, "If we cannot ask the user, the default kicks in (do the check)", and `:334`);
the code ends without one (`:388`, "do not check version today, if you cannot ask the user"), and so
does the documentation (`index.md:24`). `Default` follows the code, and `RequestsAreConsented`
holds because of it: what the comments describe would send a request nobody has allowed.

On pages: `--export-help html` and `man` leave advanced options out, which `config.hpp:98` says are always
shown (the formats are built without the flag, `parser.hpp:943`); a page that ends in its citations leaves `<dl>` open (`HtmlIsClosed` excepts it by
name, `format_html.hpp:163`); a text without a word, as of `add_line("")` or a flag without description, does not end
its line and the next text continues there, where `parser.hpp:582` promises a line break
(`EndsItsLine` in `TextsAreSetApart`, `ShiftsLine` in `LinesFit`); `\\` is two characters on the screen
and one for `text_width`; a synopsis of one word throws `std::out_of_range` after its heading was
printed (`format_base.hpp:625`); `format_short_help` names advanced options in its synopsis,
which the help page of the same program does not.

## 4. Fairness

* `FormatParseAlone`: `WF_parse_vars(ParseStep)`. `parse()` is sequential code that waits for nothing.
* `Parser`: weak fairness of the steps of `parse()` once it was called, and of nothing
  else. An application need not call it.
* `VersionCheck`: weak fairness of each process's own steps. The user need not answer (a
  process may stay at `ask`), the server need not answer, no program need start,
  the clock need not go on. `End` is fair because the destructor waits three seconds at most.
* `HelpPage`: `WF_vars(Next)`; printing is sequential code as well.
* `FileValidators` states safety only.

## 5. Proofs

TLAPS checks the theorems for every value of the constants, under these assumptions:
`SymbolAssumption` (dash and equal sign are symbols), `NumeralsAssumption` (numerals are),
`SetupsAssumption` and `ParserAssumption` (setups and command lines have their types; a program
has a name; a setup of `FormatParseAlone` is well formed, that is, no identifier is used twice,
none is a dash and only the last positional option is a container, which is what `parser` makes
sure of and `SetupIsWellFormedHolds` proves of it, so that theorems of `Parser` assume nothing
of a setup), `CallsAssumption` and `ReservedIdsAssumption` (so have the calls an application
makes, and the reserved identifiers are identifiers), `TimeAssumption`, `PathAssumption` (what
is inside is transitive and irreflexive), `FileSystemAssumption` (initially a tree, a link leads
to no link), `RequestAssumption` (`dummy.txt` is directly in the directory that is validated,
which is no link), `LengthAssumption` (every run has a character), `OwnRunsAssumption` (the
words the formats print themselves are runs), `ProgramsAssumption` (programs have their type:
calls that `verify_option_config` and its kin let through). TLC evaluates each on the instances.

* **FormatParse.** Every proof is about `ParseBegins` and `ParseStep`, so that it serves
  `FormatParseAlone` and `Parser` alike. `TypeCorrect`: the type invariant is inductive because
  it holds what the iterators need, such as `it < end_of_options_it` when a value is retrieved.
  From it `OptionsStopAtEndHolds`. `PositionalsAreNoIdentifiersHolds` needs `NoIdentifierLeft`:
  once the unknown identifiers were checked nothing in front of `--` looks like one, and taking
  an operand keeps that. `DefaultsNeverMixWithInputHolds` and `RequiredAreReadHolds` rest on
  what each option's and each operand's variable holds at every point of its pass
  (`OptionsRead`, `PositionalsRead`). `ValuesStandWhereTypedHolds` says where values come from,
  although the passes edit the vector they search. `ArgumentsInv`: during the options the edited
  vector is the typed one but for erased places, and a word stays erased or as typed to the end.
  `OptionPlaces`: where an option has read, the argument is erased, so nothing reads it again; a
  container that is looked for again has its values from in front of `option_it`. From it also
  `NoTextIsUsedTwice`: no text of the user reaches two options. The position can be the same: in
  `-i -sw` with `-s` declared first, `-s` reads `w` there, and then `-i` reads at that place the empty
  string that marks a used argument.
  `PositionalPlaces`: everything up to the last operand taken is erased, so the next one, the
  first that remains, stands behind all others and is no option's. What is found by an
  identifier is the identifier or glues a text to it (`FoundGluesOrSpells`), for arguments and
  identifiers of any length. `NoWordIsLostHolds` is the converse: `WordsUsed` says at every step
  that a word which is erased was taken by a positional option that still holds it, was dropped
  for overflow, or stands right behind an identifier of an option.
* **PosixReading.** `AgreesWithReadingHolds` is the result the others lead to: on every
  unambiguous command line the passes, one for each `add_*` call over a vector they take apart,
  do what the reading does that goes over the line once. The reading and the passes meet in what
  both say of a single position: which argument begins with which identifier (`PlacesOf`), where
  its value stands and which arguments are used as values (`IsUsed`), what is free. For the
  reading, this is an induction over the arguments read (`ReadingChanges`: what one more
  argument adds), done with a least counterexample, as an induction theorem cannot be
  instantiated. For the passes it is the inductive invariant `ParseAgrees`, whose parts hand on
  to each other: `OptionPass`: what the identifiers that were searched so far have read is
  erased, the rest stands as typed, and the variable of the running option is the reading's list
  up to `option_it`; `FlagPass`: of a group, exactly the letters of the flags that had their
  turn are gone, one of each; `PositionalPass`: what is left are the operands of the reading
  from the next one on. Every exception is shown to be a user error of the reading where it is
  thrown, and reaching the end with nothing left over to exclude all of them. Each of the five
  classes of `Unambiguous` is used in it, `FlagBehindEnd` for instance where `flag_is_set(char)`
  walks over all arguments.
* **Parser.** `ParserAgreesWithReading` is the same of the whole parser: `format_parse` begins
  on a setup that the parser's own steps have built, in whatever order and with whichever calls
  refused, and nothing behind it touches its state. `TypeOKHolds`, and
  `ReturnsWithRequiredHolds`, which carries `RequiredAreRead` through the `parse()` of a parser
  whose setup was built by its own steps. `SetupIsWellFormedHolds`: with the types and
  `ListIsKnown`, which ties `has_positional_list_option` to the setup, well-formedness is
  inductive over every sequence of calls. The refused ones are why the sets of identifiers are
  compared with the calls by inclusion, not equality. `KeywordsAreValuesHolds` follows the loop
  over the arguments, and so does `ArgumentsAreKeptHolds`: `kept` names the place of each
  argument that is handed on, and each round of the loop keeps one, two, or none that is
  ordinary (`KeptOne`, `SkippedOne`). `ReadOptionsAreSetHolds` relates the search of
  `is_option_set` to passes that have long erased what they found. `ReadInv` says that whatever
  was read is named somewhere in the untouched `format_arguments`, and that during the passes
  over the options the edited vector still is `format_arguments` but for the erased places, in
  which nothing is ever found; only the later passes over flags rewrite an argument, and they
  read no option.
* **VersionCheck.** `RequestsAreConsentedHolds` is the refinement: the initial states map to
  `Consent`'s, and each step maps to a step or a stutter. Its invariant says that a process
  about to send was allowed, that "ALWAYS" is in a cookie or a pending message only after the
  user has said it, and that no overlay produces it. `DecisionsAreFinalHolds`: once `[a]` or `[n]` is in
  the cookie and no process with a directory is left that read it before, every later one finds
  the answer when it reads; so the cookie never changes and no process that has a directory asks. A process without a directory still asks, which is a finding, but cannot write
  the cookie, and after `[n]` it goes on to the check only if its own user says so. `TypeCorrect`
  completes it.
* **FileValidators.** `ExistingIsKeptHolds`, for any number of processes: whenever a process is
  at a call that creates or removes something, the path was absent in `before` (or a link to
  nothing). `before` changes only when nobody runs, and every guard is set up after its path was
  seen absent; what was there before the first validator is therefore never seen absent.
  `TypeCorrect` includes that the file system stays a tree. `LeavesNoTraceHolds`: as long as a
  validator is alone, `TraceInv` keeps `fs` equal to `before` plus exactly what the point it has
  reached says it has created, and the point tells what it has seen, hence which answer one look
  at `before` would give. Every way out then removes just that. This needs `dummy.txt` to be the
  only thing the validator puts into its directory.
* **HelpPage.** `Layout` says that what is stored are the entries so far in the order of the
  calls, and `PageShape` what the page, a concatenation of a dozen parts, is made of: a header,
  inner calls that come from stored entries or from no entry, a footer.
  `SynopsisAgreesWithPageHolds` and `EntriesKeepTheirOrderHolds` are statements about it.
  `ElementsNestHolds`, `HtmlIsClosedHolds`, `ManKeepsTextsApartHolds`: `HtmlInv` and `ManInv`
  say what each flag knows of the call before. `LinesFitHolds`: as long as no text has shifted a
  line, each call finds the cursor at the start of a line and `pos` is its column (`LinesInv`),
  for every text, length and width. `TextsAreSetApartHolds`: `GapInv` says that
  `prev_was_paragraph` tells of the call above, that a call which ends its line leaves a fresh
  one, and that the first word of a text, once printed, has the empty lines above it which
  `TextsAreSetApart` asks for. `LineInv` adds that a heading or a text with a word ends its line
  whatever stands before it. What is excepted is named in the property: texts without a word, whose
  line the code does not end; for the empty lines also invisible words and titles, and a first word that
  does not fit.

  `FontsAreClosedHolds`: what is open behind unit `n` of a text is a count, so that a text put
  together from closed pieces is closed; every text of a page is one.

Model-checked only: the liveness properties (`Terminates`, `ParseEnds`, `ProcessesEnd`,
`PageEnds`). Liveness under fairness and `ENABLED` are out of the prover's reach. So are the
induction theorems of the library, which take an operator; the inductions over arguments, units
and words are done by hand on recursive functions, with a least counterexample or a set of
numbers that is closed under the next one (`UpTo`). Every invariant and action property that a
passing run checks is a theorem.

## 6. Comparison with the program

Every terminal state of the runs `format_parse` (57,843 outcomes) and `parser` (100,842)
was compared with a program compiled from `src/include` (g++, C++23, `NDEBUG`) with the
same setup and command line: same exception, same values. The overlaid cookie, the question without a directory, the directory taken for an input file, the removal
of a link and of another process's directory were reproduced with the compiled library, and so
were the open `<dl>`, the text that continues on the line of an empty one, the exception for a synopsis of
one word and the exported pages without advanced options.

## 7. Not modelled

* `format_tdl`: it hands the calls to the TDL library, whose directory is an empty git submodule here; what
  it stores is what `HelpPage` stores.
* Wording of pages, type names, colours of the terminal; `get_terminal_width` is a set of results.
* `enumeration_names`, concepts, the `from_chars` backport: compile time or a
  pure conversion, represented by which texts parse.
* Validators of values: the set of texts they throw for.
* The version file, the comparison of versions and the messages about it.
* Links to directories and links to links; `remove_all` is one step.
* A parser that is moved after calls were added.

## 8. Plan

In order of importance, with what is left of each part.

1. `CommandLine`, `FormatParse`, `FormatParseAlone`, `PosixReading` and proofs: done.
2. `Parser` and proofs: done.
3. `Consent`, `VersionCheck` and proofs. Left: the version file, read while another
   process's request writes it, and the comparison of versions.
4. `FileValidators` and proofs: done.
5. `HelpText`, `Page`, `HelpPage` and proofs: done. Left: `format_tdl`, when its library is at hand.
6. Parsers composed with the version check: `parse()` starts it, the destructor waits.
