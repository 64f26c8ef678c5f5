---------------------------- MODULE VersionCheck ----------------------------
(***************************************************************************)
(* sharg::detail::version_checker: the processes of one application decide *)
(* whether they look for updates.  They share a cookie, a file with the    *)
(* time it was written and the user's last decision, without any lock; a   *)
(* process can be killed between any two accesses of it.  A request to the *)
(* server is a child process that outlives the one that started it.        *)
(*                                                                         *)
(* A process slot is used again when its process and its request ended, so *)
(* a slot stands for all processes that do not overlap.  What the version  *)
(* file tells and the messages that are printed are left out.              *)
(***************************************************************************)
EXTENDS Naturals

CONSTANTS
    Process,   \* slots for processes
    Day,       \* 86400 seconds, in ticks of the clock
    MaxTime    \* bound of the clock

ASSUME TimeAssumption == Day \in Nat \ {0} /\ MaxTime \in Nat

VARIABLES
    now,          \* system_clock::now()
    cookie,       \* the time stamp file, or NoCookie
    pc,           \* where each process is
    has_path,     \* what get_path found: a directory to write to, or none
    msg,          \* the argument of write_cookie
    curr,         \* the time write_cookie took
    server_call,  \* whether the request of the slot is under way
    agreed,       \* history: how the user told this process to check
    always,       \* history: the user has answered [a] at some time
    last_request  \* history: when a process last sent one it was not told to

vars == <<now, cookie, pc, has_path, msg, curr, server_call, agreed, always, last_request>>

history == <<agreed, always, last_request>>
locals  == <<has_path, msg, curr>>

(***************************************************************************)
(* The cookie.  A file that is missing and one that is still empty read    *)
(* alike: no decision, from the beginning of time.  Two processes that     *)
(* write at once both begin at the start of the file, so that the end of a *)
(* longer decision can stay behind a shorter one: "ASK" over "NEVER" is    *)
(* "ASKER".  What is left over "ALWAYS" is called "garbled".               *)
(***************************************************************************)
NoCookie == [time |-> 0, decision |-> ""]

Length(decision) ==
    CASE decision = ""                    -> 0
      [] decision = "ASK"                 -> 3
      [] decision \in {"NEVER", "ASKER"}  -> 5
      [] OTHER                            -> 6

Overlay(new, old) ==
    IF Length(old) <= Length(new) THEN new
    ELSE IF Length(old) = 5 THEN "ASKER" ELSE "garbled"

IsRecent(c) == now - c.time < Day    \* get_time_diff_to_current

GoTo(p, label) == pc' = [pc EXCEPT ![p] = label]

----------------------------------------------------------------------------
Init ==
    /\ now = Day
    /\ cookie = NoCookie
    /\ pc = [p \in Process |-> "idle"]
    /\ has_path = [p \in Process |-> TRUE]
    /\ msg = [p \in Process |-> "ASK"]
    /\ curr = [p \in Process |-> 0]
    /\ server_call = [p \in Process |-> FALSE]
    /\ agreed = [p \in Process |-> FALSE]
    /\ always = FALSE
    /\ last_request = 0

(***************************************************************************)
(* A program starts; the constructor of its version_checker looks for a    *)
(* directory.                                                              *)
(***************************************************************************)
Start(p) ==
    /\ pc[p] = "idle"
    /\ ~server_call[p]
    /\ \E found \in BOOLEAN : has_path' = [has_path EXCEPT ![p] = found]
    /\ GoTo(p, "decide")
    /\ UNCHANGED <<now, cookie, msg, curr, server_call, history>>

(***************************************************************************)
(* decide_if_check_is_performed.  The developer, the environment variable  *)
(* or "--version-check 0" forbid the check, "--version-check 1" asks for   *)
(* it; none of them looks at the cookie.                                   *)
(***************************************************************************)
Decline(p) ==
    /\ pc[p] = "decide"
    /\ GoTo(p, "end")
    /\ UNCHANGED <<now, cookie, locals, server_call, history>>

CheckOnce(p) ==
    /\ pc[p] = "decide"
    /\ agreed' = [agreed EXCEPT ![p] = TRUE]
    /\ GoTo(p, "check")
    /\ UNCHANGED <<now, cookie, locals, server_call, always, last_request>>

Forbids(c) == c.decision = "NEVER"

AllowsByLetter(c) == c.decision \in {"ASK", "ASKER", "ALWAYS"}   \* mutant

Allows(c) == c.decision = "ALWAYS"

AsksUnlessAllowed(c) == ~Allows(c)                \* mutant

Asks(c) == ~Forbids(c) /\ ~Allows(c)

(***************************************************************************)
(* Otherwise the cookie decides, and if it does not it is written anew and *)
(* the user is asked.  Without a directory there is no cookie to read, and *)
(* the decision goes on as on a first start.                               *)
(***************************************************************************)
ReadCookie(p) ==
    /\ pc[p] = "decide"
    /\ \/ has_path[p] /\ IsRecent(cookie) /\ GoTo(p, "end")
       \/ /\ has_path[p] /\ ~IsRecent(cookie) /\ ~Asks(cookie)
          /\ GoTo(p, IF Allows(cookie) THEN "check" ELSE "end")
       \/ /\ ~has_path[p] \/ (~IsRecent(cookie) /\ Asks(cookie))
          /\ GoTo(p, "open_cookie")
    /\ UNCHANGED <<now, cookie, locals, server_call, history>>

(***************************************************************************)
(* write_cookie takes the time and opens the file, which empties it; the   *)
(* text reaches the file when it is closed.  Without a directory another   *)
(* file is written, which nobody reads.                                    *)
(***************************************************************************)
StampOfNextCheck(t) == t + Day                    \* mutant

Stamp(t) == t

OpenCookie(p) ==
    /\ pc[p] = "open_cookie"
    /\ curr' = [curr EXCEPT ![p] = Stamp(now)]
    /\ cookie' = IF has_path[p] THEN NoCookie ELSE cookie
    /\ GoTo(p, "write_cookie")
    /\ UNCHANGED <<now, has_path, msg, server_call, history>>

AfterWriting == [ASK |-> "terminal", ALWAYS |-> "check", NEVER |-> "end"]

WriteCookie(p) ==
    /\ pc[p] = "write_cookie"
    /\ cookie' = IF has_path[p]
                 THEN [time |-> curr[p], decision |-> Overlay(msg[p], cookie.decision)]
                 ELSE cookie
    /\ GoTo(p, AfterWriting[msg[p]])
    /\ UNCHANGED <<now, locals, server_call, history>>

(***************************************************************************)
(* At a terminal the user can take any time to answer; [s], any other      *)
(* answer and the lack of a terminal have the same outcome, no check.      *)
(* That is what doc/about/update_notifications/index.md:24 says.  Two      *)
(* comments in the code (version_check.hpp:289 and :334) say that without  *)
(* a terminal the check is done; it is not (:388).                         *)
(***************************************************************************)
Default == "end"

LookForTerminal(p) ==
    /\ pc[p] = "terminal"
    /\ GoTo(p, "ask") \/ GoTo(p, Default)
    /\ UNCHANGED <<now, cookie, locals, server_call, history>>

NoAnswer(p) ==
    /\ pc[p] = "ask"
    /\ GoTo(p, Default)
    /\ UNCHANGED <<now, cookie, locals, server_call, history>>

AnswerYes(p) ==
    /\ pc[p] = "ask"
    /\ agreed' = [agreed EXCEPT ![p] = TRUE]
    /\ GoTo(p, "check")
    /\ UNCHANGED <<now, cookie, locals, server_call, always, last_request>>

AnswerAlways(p) ==
    /\ pc[p] = "ask"
    /\ agreed' = [agreed EXCEPT ![p] = TRUE] /\ always' = TRUE
    /\ msg' = [msg EXCEPT ![p] = "ALWAYS"]
    /\ GoTo(p, "open_cookie")
    /\ UNCHANGED <<now, cookie, has_path, curr, server_call, last_request>>

AnswerNever(p) ==
    /\ pc[p] = "ask"
    /\ msg' = [msg EXCEPT ![p] = "NEVER"]
    /\ GoTo(p, "open_cookie")
    /\ UNCHANGED <<now, cookie, has_path, curr, server_call, history>>

(***************************************************************************)
(* operator(): without a program for the request there is none; otherwise  *)
(* a detached thread runs it in a child process.                           *)
(***************************************************************************)
Check(p) ==
    /\ pc[p] = "check"
    /\ \/ /\ server_call' = [server_call EXCEPT ![p] = TRUE]
          /\ last_request' = IF agreed[p] THEN last_request ELSE now
       \/ UNCHANGED <<server_call, last_request>>
    /\ GoTo(p, "end")
    /\ UNCHANGED <<now, cookie, locals, agreed, always>>

CallEnds(p) ==
    /\ server_call[p]
    /\ server_call' = [server_call EXCEPT ![p] = FALSE]
    /\ UNCHANGED <<now, cookie, pc, locals, history>>

(***************************************************************************)
(* The program ends.  The destructor of the parser waits until the request *)
(* is answered or three seconds are over, std::exit does not wait; a       *)
(* program that is killed ends anywhere.                                   *)
(***************************************************************************)
WaitsForAnswer(p) == ~server_call[p]              \* mutant

StopsWaiting(p) == TRUE

Ends(p) ==
    /\ GoTo(p, "idle")
    /\ has_path' = [has_path EXCEPT ![p] = TRUE]
    /\ msg' = [msg EXCEPT ![p] = "ASK"]
    /\ curr' = [curr EXCEPT ![p] = 0]
    /\ agreed' = [agreed EXCEPT ![p] = FALSE]
    /\ UNCHANGED <<now, cookie, server_call, always, last_request>>

End(p) == pc[p] = "end" /\ StopsWaiting(p) /\ Ends(p)

Kill(p) == pc[p] # "idle" /\ Ends(p)

Tick ==
    /\ now < MaxTime
    /\ now' = now + 1
    /\ UNCHANGED <<cookie, pc, locals, server_call, history>>

----------------------------------------------------------------------------
Answer(p) == NoAnswer(p) \/ AnswerYes(p) \/ AnswerAlways(p) \/ AnswerNever(p)

Decide(p) ==
    \/ Decline(p) \/ CheckOnce(p) \/ ReadCookie(p)
    \/ OpenCookie(p) \/ WriteCookie(p) \/ LookForTerminal(p)

Next ==
    \/ \E p \in Process :
          Start(p) \/ Decide(p) \/ Answer(p) \/ Check(p) \/ CallEnds(p) \/ End(p) \/ Kill(p)
    \/ Tick

(***************************************************************************)
(* A process that runs goes on until it waits for its user.  Neither the   *)
(* user nor the server has to answer, and no program has to be started.    *)
(***************************************************************************)
Spec == Init /\ [][Next]_vars /\ \A p \in Process : WF_vars(Decide(p) \/ Check(p) \/ End(p))

----------------------------------------------------------------------------
Decisions == {"", "ASK", "ALWAYS", "NEVER", "ASKER", "garbled"}

(***************************************************************************)
(* The type of the state; no time stamp is from the future.                *)
(***************************************************************************)
TypeOK ==
    /\ now \in Nat
    /\ cookie \in [time : 0..now, decision : Decisions]
    /\ pc \in [Process -> {"idle", "decide", "open_cookie", "write_cookie",
                           "terminal", "ask", "check", "end"}]
    /\ has_path \in [Process -> BOOLEAN]
    /\ msg \in [Process -> {"ASK", "ALWAYS", "NEVER"}]
    /\ curr \in [Process -> 0..now]
    /\ server_call \in [Process -> BOOLEAN]
    /\ agreed \in [Process -> BOOLEAN]
    /\ always \in BOOLEAN
    /\ last_request \in 0..now

(***************************************************************************)
(* No request is sent that the user has not allowed, by "--version-check   *)
(* 1" or [y] to this process or by [a] to any (version_check.hpp:291-390), *)
(* however the processes overlap, write over each other's cookie or are    *)
(* killed.                                                                 *)
(***************************************************************************)
Consents == INSTANCE Consent WITH
    standing  <- always,
    permitted <- {p \in Process : agreed[p]},
    sending   <- {p \in Process : server_call[p]}

RequestsAreConsented == Consents!Spec

(***************************************************************************)
(* [a] and [n] stay: once such a decision is in the cookie, and no process *)
(* with a directory is left that read the cookie before, the cookie never  *)
(* changes and no process that has a directory asks its user; after [n] no *)
(* process at all, with or without a directory, goes on to the check       *)
(* unless its own user has told it to (version_check.hpp:317-326).         *)
(***************************************************************************)
MayOverwrite(p) ==
    has_path[p] /\ pc[p] \in {"open_cookie", "write_cookie", "terminal", "ask"}

IsSettled ==
    /\ cookie.decision \in {"NEVER", "ALWAYS"}
    /\ \A p \in Process : ~MayOverwrite(p)

BeginsCheckUntold(p) == pc[p] # "check" /\ pc'[p] = "check" /\ ~agreed'[p]

DecisionsAreFinal ==
    [][IsSettled =>
          /\ IsSettled' /\ cookie' = cookie
          /\ Forbids(cookie) => \A p \in Process : ~BeginsCheckUntold(p)]_vars

(***************************************************************************)
(* No process waits for anything but its user: not for the server          *)
(* (parser.hpp:206-211), not for another process.                          *)
(***************************************************************************)
ProcessesEnd == \A p \in Process : pc[p] # "idle" ~> pc[p] \in {"idle", "ask"}

----------------------------------------------------------------------------
(***************************************************************************)
(* What comments and the documentation say and the code does not keep.     *)
(***************************************************************************)
(***************************************************************************)
(* "We send at most one request per day" (doc/about/update_notifications   *)
(* :34) and "ALWAYS: Do perform the version check once a day"              *)
(* (version_check.hpp:284): a request that the process was not told to     *)
(* send comes a day or more after the last such request.                   *)
(***************************************************************************)
OneRequestPerDay ==
    [][\A p \in Process :
          ~server_call[p] /\ server_call'[p] /\ ~agreed[p] => now - last_request >= Day]_vars

(***************************************************************************)
(* "Empty path signals no available directory to write to, version check   *)
(* will not be done" (version_check.hpp:260): without a directory nobody   *)
(* is asked about the check.                                               *)
(***************************************************************************)
NoQuestionWithoutPath == \A p \in Process : ~has_path[p] => pc[p] # "ask"
=============================================================================
