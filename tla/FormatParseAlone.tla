-------------------------- MODULE FormatParseAlone --------------------------
(***************************************************************************)
(* FormatParse as a system of its own: the application was set up with any *)
(* of the given sets of calls, the user typed any of the given command     *)
(* lines, and parse() runs.                                                *)
(***************************************************************************)
EXTENDS FormatParse

CONSTANTS
    Setups,        \* sets of calls the parser can have been set up with
    CommandLines   \* the arguments a user can type

ASSUME SetupsAssumption ==
    /\ Setups \subseteq Setup
    /\ \A s \in Setups : WellFormed(s)
    /\ CommandLines \subseteq Seq(Argument)

Init ==
    /\ setup \in Setups
    /\ format_arguments \in CommandLines
    /\ ParseBegins

(***************************************************************************)
(* parse() has returned or thrown.                                         *)
(***************************************************************************)
Returned == pc = "done" /\ UNCHANGED parse_vars

Next == ParseStep \/ Returned

(***************************************************************************)
(* The thread that called parse() runs until it returns.                   *)
(***************************************************************************)
Spec == Init /\ [][Next]_parse_vars /\ WF_parse_vars(ParseStep)

(***************************************************************************)
(* parse() returns or throws: every loop of the passes ends.               *)
(***************************************************************************)
Terminates == <>(pc = "done")
=============================================================================
