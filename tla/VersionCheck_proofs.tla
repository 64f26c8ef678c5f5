------------------------- MODULE VersionCheck_proofs -------------------------
(***************************************************************************)
(* Proofs about VersionCheck: its type, that it implements Consent, and    *)
(* that decisions are final once nobody is left who may overwrite them.    *)
(***************************************************************************)
EXTENDS VersionCheck, TLAPS

Steps(p) == Start(p) \/ Decide(p) \/ Answer(p) \/ Check(p) \/ CallEnds(p) \/ End(p) \/ Kill(p)

USE DEF vars, history, locals, GoTo

LEMMA OverlayType ==
    ASSUME NEW new \in Decisions, NEW old \in Decisions
    PROVE  Overlay(new, old) \in Decisions
  BY DEF Overlay, Decisions

(***************************************************************************)
(* Writing over an older decision never makes "ALWAYS" out of another one. *)
(***************************************************************************)
LEMMA OverlayMakesNoAlways ==
    ASSUME NEW new, NEW old, Overlay(new, old) = "ALWAYS"
    PROVE  new = "ALWAYS"
  BY DEF Overlay

LEMMA NoCookieType ==
    ASSUME NEW t \in Nat
    PROVE  NoCookie \in [time : 0..t, decision : Decisions]
<1>1. 0 \in 0..t /\ "" \in Decisions
  BY DEF Decisions
<1> QED
  BY <1>1 DEF NoCookie

LEMMA InitType == Init => TypeOK
<1> SUFFICES ASSUME Init PROVE TypeOK
  OBVIOUS
<1>1. Day \in Nat
  BY TimeAssumption
<1>2. cookie \in [time : 0..now, decision : Decisions]
  BY <1>1, NoCookieType DEF Init
<1>3. 0 \in 0..now
  BY <1>1 DEF Init
<1>4. curr \in [Process -> 0..now] /\ last_request \in 0..now
  BY <1>3 DEF Init
<1> QED
  BY <1>1, <1>2, <1>4 DEF Init, TypeOK

LEMMA TickType == TypeOK /\ Tick => TypeOK'
  BY TimeAssumption DEF TypeOK, Tick

(***************************************************************************)
(* Only two steps put a time stamp anywhere, and it is the present time.   *)
(***************************************************************************)
LEMMA StepType ==
    ASSUME TypeOK, NEW p \in Process, Steps(p)
    PROVE  TypeOK'
<1> USE DEF TypeOK
<1>1. CASE Start(p)
  BY <1>1 DEF Start
<1>2. CASE Decline(p)
  BY <1>2 DEF Decline
<1>3. CASE CheckOnce(p)
  BY <1>3 DEF CheckOnce
<1>4. CASE ReadCookie(p)
  BY <1>4 DEF ReadCookie
<1>5. CASE OpenCookie(p)
  <2>1. cookie' \in [time : 0..now, decision : Decisions]
    BY <1>5, NoCookieType DEF OpenCookie
  <2> QED BY <1>5, <2>1 DEF OpenCookie, Stamp
<1>6. CASE WriteCookie(p)
  <2>1. msg[p] \in Decisions
    BY DEF Decisions
  <2>2. Overlay(msg[p], cookie.decision) \in Decisions
    BY <2>1, OverlayType
  <2>3. cookie' \in [time : 0..now, decision : Decisions]
    BY <1>6, <2>2 DEF WriteCookie
  <2>4. AfterWriting[msg[p]] \in {"terminal", "check", "end"}
    BY DEF AfterWriting
  <2> QED BY <1>6, <2>3, <2>4 DEF WriteCookie
<1>7. CASE LookForTerminal(p) \/ Answer(p)
  BY <1>7 DEF LookForTerminal, Answer, NoAnswer, AnswerYes, AnswerAlways, AnswerNever, Default
<1>8. CASE Check(p)
  <2>1. now' = now /\ now \in 0..now
    BY <1>8 DEF Check
  <2>2. last_request' \in 0..now'
    BY <1>8, <2>1 DEF Check
  <2>3. server_call' \in [Process -> BOOLEAN]
    BY <1>8 DEF Check
  <2>4. pc' = [pc EXCEPT ![p] = "end"]
    BY <1>8 DEF Check
  <2> QED BY <1>8, <2>1, <2>2, <2>3, <2>4 DEF Check
<1>9. CASE CallEnds(p)
  BY <1>9 DEF CallEnds
<1>10. CASE End(p) \/ Kill(p)
  <2>1. Ends(p)
    BY <1>10 DEF End, Kill
  <2>2. curr' \in [Process -> 0..now']
    BY <2>1 DEF Ends
  <2> QED BY <2>1, <2>2 DEF Ends
<1> QED
  BY <1>1, <1>2, <1>3, <1>4, <1>5, <1>6, <1>7, <1>8, <1>9, <1>10 DEF Steps, Decide

LEMMA NextType == TypeOK /\ [Next]_vars => TypeOK'
<1> SUFFICES ASSUME TypeOK, [Next]_vars PROVE TypeOK'
  OBVIOUS
<1>1. CASE \E p \in Process : Steps(p)
  BY <1>1, StepType
<1>2. CASE Tick
  BY <1>2, TickType
<1>3. CASE UNCHANGED vars
  BY <1>3 DEF TypeOK
<1> QED
  BY <1>1, <1>2, <1>3 DEF Next, Steps

(***************************************************************************)
(* The state keeps its type and no time stamp is from the future, for any  *)
(* number of processes and any length of a day.                            *)
(***************************************************************************)
THEOREM TypeCorrect == Spec => []TypeOK
  BY InitType, NextType, PTL DEF Spec

----------------------------------------------------------------------------
(***************************************************************************)
(* Why no request is sent without consent.  The step that sends one looks  *)
(* at nothing but its own program counter, so the invariant traces back    *)
(* how a process gets there: over its user, or over a cookie that says     *)
(* "ALWAYS", and that only the user can have put there.                    *)
(***************************************************************************)
ConsentInv ==
    /\ cookie.decision = "ALWAYS" => always
    /\ \A p \in Process :
          /\ msg[p] = "ALWAYS" => always
          /\ pc[p] = "check" => agreed[p] \/ always

LEMMA InitConsent == Init => ConsentInv
<1> SUFFICES ASSUME Init PROVE ConsentInv
  OBVIOUS
<1>1. cookie.decision # "ALWAYS"
  BY DEF Init, NoCookie
<1>2. ASSUME NEW p \in Process PROVE msg[p] # "ALWAYS" /\ pc[p] # "check"
  BY DEF Init
<1> QED
  BY <1>1, <1>2 DEF ConsentInv

LEMMA StepConsent ==
    ASSUME TypeOK, ConsentInv, NEW p \in Process, Steps(p)
    PROVE  ConsentInv'
<1> USE DEF TypeOK, ConsentInv
<1>1. CASE Start(p) \/ Decline(p) \/ CheckOnce(p)
  BY <1>1 DEF Start, Decline, CheckOnce
<1>2. CASE ReadCookie(p)
  BY <1>2 DEF ReadCookie, Allows
<1>3. CASE OpenCookie(p)
  <2>1. cookie'.decision = "ALWAYS" => always
    BY <1>3 DEF OpenCookie, NoCookie
  <2> QED BY <1>3, <2>1 DEF OpenCookie
<1>4. CASE WriteCookie(p)
  <2>1. cookie'.decision = "ALWAYS" => always
    BY <1>4, OverlayMakesNoAlways DEF WriteCookie
  <2>2. AfterWriting[msg[p]] = "check" => msg[p] = "ALWAYS"
    BY DEF AfterWriting
  <2> QED BY <1>4, <2>1, <2>2 DEF WriteCookie
<1>5. CASE LookForTerminal(p) \/ Answer(p)
  BY <1>5 DEF LookForTerminal, Answer, NoAnswer, AnswerYes, AnswerAlways, AnswerNever, Default
<1>6. CASE Check(p) \/ CallEnds(p)
  BY <1>6 DEF Check, CallEnds
<1>7. CASE End(p) \/ Kill(p)
  BY <1>7 DEF End, Kill, Ends
<1> QED
  BY <1>1, <1>2, <1>3, <1>4, <1>5, <1>6, <1>7 DEF Steps, Decide

LEMMA NextConsent == TypeOK /\ ConsentInv /\ [Next]_vars => ConsentInv'
<1> SUFFICES ASSUME TypeOK, ConsentInv, [Next]_vars PROVE ConsentInv'
  OBVIOUS
<1>1. CASE \E p \in Process : Steps(p)
  BY <1>1, StepConsent
<1>2. CASE Tick \/ UNCHANGED vars
  BY <1>2 DEF Tick, ConsentInv
<1> QED
  BY <1>1, <1>2 DEF Next, Steps

LEMMA ConsentInvHolds == Spec => []ConsentInv
  BY InitConsent, NextConsent, TypeCorrect, PTL DEF Spec

(***************************************************************************)
(* Every step of a process is a step of Consent or leaves alone what it    *)
(* speaks of.                                                              *)
(***************************************************************************)
permitted == {p \in Process : agreed[p]}
sending   == {p \in Process : server_call[p]}

LEMMA StepImplements ==
    ASSUME TypeOK, ConsentInv, NEW p \in Process, Steps(p)
    PROVE  Consents!Next \/ UNCHANGED Consents!consent
<1> USE DEF TypeOK, ConsentInv
<1>1. CASE Start(p) \/ Decline(p) \/ ReadCookie(p) \/ OpenCookie(p) \/ WriteCookie(p)
           \/ LookForTerminal(p) \/ NoAnswer(p) \/ AnswerNever(p)
  <2>1. always' = always /\ agreed' = agreed /\ server_call' = server_call
    BY <1>1 DEF Start, Decline, ReadCookie, OpenCookie, WriteCookie, LookForTerminal, NoAnswer,
                AnswerNever
  <2> QED BY <2>1 DEF Consents!consent
<1>2. CASE CheckOnce(p) \/ AnswerYes(p)
  <2>1. agreed' = [agreed EXCEPT ![p] = TRUE] /\ always' = always /\ server_call' = server_call
    BY <1>2 DEF CheckOnce, AnswerYes
  <2>2. permitted' = permitted \cup {p} /\ sending' = sending
    BY <2>1 DEF permitted, sending
  <2>3. Consents!Allow(p)
    BY <2>1, <2>2 DEF Consents!Allow, permitted, sending
  <2> QED BY <2>3 DEF Consents!Next
<1>3. CASE AnswerAlways(p)
  <2>1. agreed' = [agreed EXCEPT ![p] = TRUE] /\ always' = TRUE /\ server_call' = server_call
    BY <1>3 DEF AnswerAlways
  <2>2. permitted' = permitted \cup {p} /\ sending' = sending
    BY <2>1 DEF permitted, sending
  <2>3. Consents!AllowAlways(p)
    BY <2>1, <2>2 DEF Consents!AllowAlways, permitted, sending
  <2> QED BY <2>3 DEF Consents!Next
<1>4. CASE Check(p)
  <2>1. always' = always /\ agreed' = agreed /\ (agreed[p] \/ always)
    BY <1>4 DEF Check
  <2>2. CASE server_call' = server_call \/ server_call[p]
    <3>1. server_call' = server_call
      BY <1>4, <2>2 DEF Check
    <3> QED BY <2>1, <3>1 DEF Consents!consent
  <2>3. CASE ~server_call[p] /\ server_call' = [server_call EXCEPT ![p] = TRUE]
    <3>1. sending' = sending \cup {p} /\ p \notin sending
      BY <2>3 DEF sending
    <3>2. Consents!Send(p)
      BY <2>1, <3>1 DEF Consents!Send, sending
    <3> QED BY <3>2 DEF Consents!Next
  <2> QED BY <1>4, <2>2, <2>3 DEF Check
<1>5. CASE CallEnds(p)
  <2>1. server_call' = [server_call EXCEPT ![p] = FALSE] /\ always' = always /\ agreed' = agreed
    BY <1>5 DEF CallEnds
  <2>2. sending' = sending \ {p}
    BY <2>1 DEF sending
  <2>3. Consents!Answered(p)
    BY <2>1, <2>2 DEF Consents!Answered, sending
  <2> QED BY <2>3 DEF Consents!Next
<1>6. CASE End(p) \/ Kill(p)
  <2>1. agreed' = [agreed EXCEPT ![p] = FALSE] /\ always' = always /\ server_call' = server_call
    BY <1>6 DEF End, Kill, Ends
  <2>2. permitted' = permitted \ {p}
    BY <2>1 DEF permitted
  <2>3. Consents!End(p)
    BY <2>1, <2>2 DEF Consents!End, permitted
  <2> QED BY <2>3 DEF Consents!Next
<1> QED
  BY <1>1, <1>2, <1>3, <1>4, <1>5, <1>6 DEF Steps, Decide, Answer

LEMMA NextImplements ==
    TypeOK /\ ConsentInv /\ [Next]_vars => [Consents!Next]_(Consents!consent)
<1> SUFFICES ASSUME TypeOK, ConsentInv, [Next]_vars
             PROVE  Consents!Next \/ UNCHANGED Consents!consent
  OBVIOUS
<1>1. CASE \E p \in Process : Steps(p)
  BY <1>1, StepImplements
<1>2. CASE Tick \/ UNCHANGED vars
  BY <1>2 DEF Tick, Consents!consent
<1> QED
  BY <1>1, <1>2 DEF Next, Steps

LEMMA InitImplements == Init => Consents!Init
  BY DEF Init, Consents!Init

(***************************************************************************)
(* Any number of processes that overlap, write over each other's cookie    *)
(* and are killed anywhere send no request the user has not allowed.       *)
(***************************************************************************)
THEOREM RequestsAreConsentedHolds == Spec => RequestsAreConsented
  BY InitImplements, NextImplements, TypeCorrect, ConsentInvHolds, PTL
     DEF Spec, RequestsAreConsented, Consents!Spec

----------------------------------------------------------------------------
(***************************************************************************)
(* "ALWAYS" is written only by a process whose own user has said so.  This *)
(* is why one without a directory, which cannot see the [n] in the cookie, *)
(* still goes on to the check only if its user tells it to.                *)
(***************************************************************************)
MsgIsAgreed == \A p \in Process : msg[p] = "ALWAYS" => agreed[p]

LEMMA InitMsg == Init => MsgIsAgreed
  BY DEF Init, MsgIsAgreed

LEMMA StepIsFinal ==
    ASSUME TypeOK, IsSettled, NEW p \in Process, Steps(p)
    PROVE  IsSettled' /\ cookie' = cookie
<1> USE DEF TypeOK, IsSettled, MayOverwrite
<1>1. CASE Start(p)
  BY <1>1 DEF Start
<1>2. CASE Decline(p) \/ CheckOnce(p)
  BY <1>2 DEF Decline, CheckOnce
<1>3. CASE ReadCookie(p)
  BY <1>3 DEF ReadCookie, Asks, Forbids, Allows
<1>4. CASE OpenCookie(p)
  BY <1>4 DEF OpenCookie
<1>5. CASE WriteCookie(p)
  <2>1. AfterWriting[msg[p]] \in {"terminal", "check", "end"}
    BY DEF AfterWriting
  <2> QED BY <1>5, <2>1 DEF WriteCookie
<1>6. CASE LookForTerminal(p) \/ Answer(p)
  BY <1>6 DEF LookForTerminal, Answer, NoAnswer, AnswerYes, AnswerAlways, AnswerNever, Default
<1>7. CASE Check(p) \/ CallEnds(p)
  BY <1>7 DEF Check, CallEnds
<1>8. CASE End(p) \/ Kill(p)
  BY <1>8 DEF End, Kill, Ends
<1> QED
  BY <1>1, <1>2, <1>3, <1>4, <1>5, <1>6, <1>7, <1>8 DEF Steps, Decide

LEMMA StepKeepsMsg ==
    ASSUME TypeOK, MsgIsAgreed, NEW p \in Process, Steps(p)
    PROVE  MsgIsAgreed'
<1> USE DEF TypeOK, MsgIsAgreed
<1>1. CASE Start(p) \/ Decide(p)
  <2>1. msg' = msg /\ (agreed' = agreed \/ agreed' = [agreed EXCEPT ![p] = TRUE])
    BY <1>1 DEF Start, Decide, Decline, CheckOnce, ReadCookie, OpenCookie, WriteCookie,
                LookForTerminal
  <2> QED BY <2>1
<1>2. CASE Answer(p)
  BY <1>2 DEF Answer, NoAnswer, AnswerYes, AnswerAlways, AnswerNever
<1>3. CASE Check(p) \/ CallEnds(p)
  BY <1>3 DEF Check, CallEnds
<1>4. CASE End(p) \/ Kill(p)
  BY <1>4 DEF End, Kill, Ends
<1> QED
  BY <1>1, <1>2, <1>3, <1>4 DEF Steps

LEMMA NextKeepsMsg == TypeOK /\ MsgIsAgreed /\ [Next]_vars => MsgIsAgreed'
<1> SUFFICES ASSUME TypeOK, MsgIsAgreed, [Next]_vars PROVE MsgIsAgreed'
  OBVIOUS
<1>1. CASE \E p \in Process : Steps(p)
  BY <1>1, StepKeepsMsg
<1>2. CASE Tick \/ UNCHANGED vars
  BY <1>2 DEF Tick, MsgIsAgreed
<1> QED
  BY <1>1, <1>2 DEF Next, Steps

LEMMA MsgHolds == Spec => []MsgIsAgreed
  BY InitMsg, NextKeepsMsg, TypeCorrect, PTL DEF Spec

(***************************************************************************)
(* After [n] a process gets to the check over its own user only: there is  *)
(* no other way through Decide and Answer.                                 *)
(***************************************************************************)
LEMMA StepBeginsNoCheck ==
    ASSUME TypeOK, MsgIsAgreed, IsSettled, Forbids(cookie),
           NEW p \in Process, Steps(p), NEW q \in Process
    PROVE  ~BeginsCheckUntold(q)
<1> USE DEF TypeOK, BeginsCheckUntold
<1>1. CASE Start(p)
  BY <1>1 DEF Start
<1>2. CASE Decline(p) \/ CheckOnce(p)
  BY <1>2 DEF Decline, CheckOnce
<1>3. CASE ReadCookie(p)
  BY <1>3 DEF ReadCookie, Forbids, Allows
<1>4. CASE OpenCookie(p)
  BY <1>4 DEF OpenCookie
<1>5. CASE WriteCookie(p)
  <2>1. AfterWriting[msg[p]] = "check" => agreed[p]
    BY DEF AfterWriting, MsgIsAgreed
  <2> QED BY <1>5, <2>1 DEF WriteCookie
<1>6. CASE LookForTerminal(p) \/ Answer(p)
  BY <1>6 DEF LookForTerminal, Answer, NoAnswer, AnswerYes, AnswerAlways, AnswerNever, Default
<1>7. CASE Check(p) \/ CallEnds(p)
  BY <1>7 DEF Check, CallEnds
<1>8. CASE End(p) \/ Kill(p)
  BY <1>8 DEF End, Kill, Ends
<1> QED
  BY <1>1, <1>2, <1>3, <1>4, <1>5, <1>6, <1>7, <1>8 DEF Steps, Decide

StaysFinal ==
    /\ IsSettled' /\ cookie' = cookie
    /\ Forbids(cookie) => \A p \in Process : ~BeginsCheckUntold(p)

LEMMA NextIsFinal ==
    TypeOK /\ MsgIsAgreed /\ [Next]_vars => [IsSettled => StaysFinal]_vars
<1> SUFFICES ASSUME TypeOK, MsgIsAgreed, [Next]_vars, IsSettled
             PROVE  StaysFinal
  OBVIOUS
<1>1. CASE \E p \in Process : Steps(p)
  BY <1>1, StepIsFinal, StepBeginsNoCheck DEF StaysFinal
<1>2. CASE Tick \/ UNCHANGED vars
  BY <1>2 DEF Tick, IsSettled, MayOverwrite, StaysFinal, BeginsCheckUntold
<1> QED
  BY <1>1, <1>2 DEF Next, Steps

(***************************************************************************)
(* Once [a] or [n] is in the cookie and no process with a directory is     *)
(* left that read the cookie before, the cookie never changes, no process  *)
(* that has a directory asks, and after [n] none, whether it has a         *)
(* directory or not, goes on to the check unless its own user says so.     *)
(***************************************************************************)
THEOREM DecisionsAreFinalHolds == Spec => DecisionsAreFinal
  BY NextIsFinal, MsgHolds, TypeCorrect, PTL DEF Spec, DecisionsAreFinal, StaysFinal
=============================================================================
