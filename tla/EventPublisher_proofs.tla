---- MODULE EventPublisher_proofs ----
(***************************************************************************)
(* Proofs about EventPublisher: the meaning of a refusal and of a success, *)
(* and that the publisher keeps the safety part of Publication, for every  *)
(* number of publishes and attempts.                                       *)
(***************************************************************************)
EXTENDS EventPublisher, TLAPS

\* A reply belongs to the latest attempt, which is then not under way any more and was
\* accepted exactly if the reply says so; a call that was answered ended as it says.
ReplyInv ==
    \A p \in Publishes :
        /\ call[p].phase = "idle" => call[p].tries = 0
        /\ call[p].phase = "backoff" => call[p].tries < Attempts
        /\ call[p].phase = "posting" => call[p].tries \in 1 .. Attempts
        /\ reply[p] # NoReply =>
             /\ call[p].phase \in {"posting", "refused", "published"}
             /\ <<p, call[p].tries>> \notin wire
             /\ reply[p] = "accepted" <=> <<p, call[p].tries>> \in applied
        /\ call[p].phase = "refused" => reply[p] = "refused"
        /\ call[p].phase = "published" => reply[p] \in {"accepted", "redirect"}

Inv == TypeOK /\ ReplyInv /\ RefusedAttemptNotApplied

LEMMA InitInv == Init => Inv
BY AttemptsAssumption
   DEF Init, Inv, TypeOK, ReplyInv, RefusedAttemptNotApplied, Call, NoReply

\* Posting one more attempt keeps the invariant.
LEMMA PostInv ==
    ASSUME Inv, NEW p \in Publishes, call[p].phase \in {"idle", "backoff"}, Post(p)
    PROVE  Inv'
<1>1. /\ call[p].tries \in 0 .. Attempts /\ call[p].tries + 1 \in 1 .. Attempts
      /\ reply[p] = NoReply
  <2>1. call[p] \in Call BY DEF Inv, TypeOK
  <2>2. call[p].tries \in 0 .. Attempts BY <2>1 DEF Call
  <2>3. call[p].tries < Attempts
    <3>1. CASE call[p].phase = "idle"
      <4>1. call[p].tries = 0 BY <3>1 DEF Inv, ReplyInv
      <4> QED BY <4>1, AttemptsAssumption
    <3>2. CASE call[p].phase = "backoff" BY <3>2 DEF Inv, ReplyInv
    <3> QED BY <3>1, <3>2
  <2>4. reply[p] = NoReply BY DEF Inv, ReplyInv
  <2> QED BY <2>2, <2>3, <2>4, AttemptsAssumption
<1>2. /\ call' = [call EXCEPT ![p] = [phase |-> "posting", tries |-> call[p].tries + 1]]
      /\ wire' = wire \cup {<<p, call[p].tries + 1>>}
      /\ UNCHANGED <<reply, applied>>
  BY DEF Post
<1>3. TypeOK'
  <2>1. call' \in [Publishes -> Call]
    BY <1>1, <1>2, AttemptsAssumption DEF Inv, TypeOK, Call, Running, Raised
  <2>2. wire' \subseteq Publishes \X (1 .. Attempts) BY <1>1, <1>2 DEF Inv, TypeOK
  <2>3. /\ \A q \in Publishes : q # p => call'[q] = call[q]
        /\ call'[p].tries = call[p].tries + 1
    BY <1>2 DEF Inv, TypeOK
  <2>4. \A a \in wire \cup applied : a[1] \in Publishes /\ a[2] \in Nat /\ a[2] <= call[a[1]].tries
    BY AttemptsAssumption DEF Inv, TypeOK
  <2>5. \A a \in wire' \cup applied' : a[2] <= call'[a[1]].tries
    BY <1>1, <1>2, <2>3, <2>4
  <2>6. wire' \cap applied' = {} BY <1>1, <1>2, <2>4 DEF Inv, TypeOK
  <2> QED BY <1>2, <2>1, <2>2, <2>5, <2>6 DEF Inv, TypeOK
<1>4. ReplyInv'
  BY <1>1, <1>2 DEF Inv, TypeOK, ReplyInv
<1>5. RefusedAttemptNotApplied'
  BY <1>1, <1>2 DEF Inv, TypeOK, RefusedAttemptNotApplied
<1> QED BY <1>3, <1>4, <1>5 DEF Inv

\* Ending an attempt keeps it, with no answer or with the one that was given.
LEMMA EndInv ==
    ASSUME Inv, NEW p \in Publishes, call[p].phase = "posting",
           NEW phase \in {"backoff", "unreachable", "refused", "published"},
           NEW answer \in {NoReply, reply[p]},
           phase = "backoff" => call[p].tries < Attempts,
           phase \in {"backoff", "unreachable"} => answer = NoReply,
           phase = "refused" => answer = "refused" /\ answer = reply[p],
           phase = "published" => answer \in {"accepted", "redirect"} /\ answer = reply[p],
           End(p, phase, answer), UNCHANGED <<wire, applied>>
    PROVE  Inv'
<1>1. /\ \A q \in Publishes : q # p => call'[q] = call[q] /\ reply'[q] = reply[q]
      /\ call'[p] = [call[p] EXCEPT !.phase = phase] /\ reply'[p] = answer
      /\ call'[p].phase = phase /\ call'[p].tries = call[p].tries
  BY DEF End, Inv, TypeOK, Call
<1>2. TypeOK'
  <2>1. call' \in [Publishes -> Call] BY DEF End, Inv, TypeOK, Call, Running, Raised
  <2>2. reply' \in [Publishes -> Statuses \cup {NoReply}] BY DEF End, Inv, TypeOK
  <2>3. \A q \in Publishes : call'[q].tries = call[q].tries BY <1>1
  <2>4. \A a \in wire \cup applied : a[1] \in Publishes BY DEF Inv, TypeOK
  <2> QED BY <2>1, <2>2, <2>3, <2>4 DEF Inv, TypeOK
<1>3. ReplyInv'
  <2>1. answer # NoReply => /\ phase \in {"refused", "published"}
                            /\ <<p, call[p].tries>> \notin wire
                            /\ answer = "accepted" <=> <<p, call[p].tries>> \in applied
    BY DEF Inv, ReplyInv
  <2> QED BY <1>1, <2>1 DEF Inv, ReplyInv
<1>4. RefusedAttemptNotApplied'
  BY <1>1 DEF Inv, ReplyInv, RefusedAttemptNotApplied, NoReply
<1> QED BY <1>2, <1>3, <1>4 DEF Inv

LEMMA ReceiveInv ==
    ASSUME Inv, NEW p \in Publishes, NEW n \in 1 .. Attempts, NEW status \in Statuses,
           Receive(p, n, status)
    PROVE  Inv'
<1>1. /\ call' = call /\ wire' = wire \ {<<p, n>>}
      /\ <<p, n>> \in wire /\ <<p, n>> \notin applied
      /\ applied' = IF status = "accepted" THEN applied \cup {<<p, n>>} ELSE applied
      /\ \A q \in Publishes : q # p => reply'[q] = reply[q]
      /\ reply'[p] = IF call[p] = [phase |-> "posting", tries |-> n] THEN status ELSE reply[p]
  BY DEF Receive, Inv, TypeOK
<1>2. TypeOK' BY <1>1 DEF Receive, Inv, TypeOK
<1>3. ReplyInv'
  <2>0. ASSUME NEW q \in Publishes, call[q].phase # "posting"
        PROVE  reply'[q] = reply[q]
    BY <1>1, <2>0
  <2> SUFFICES ASSUME NEW q \in Publishes, reply'[q] # NoReply
               PROVE  /\ call[q].phase \in {"posting", "refused", "published"}
                      /\ <<q, call[q].tries>> \notin wire'
                      /\ reply'[q] = "accepted" <=> <<q, call[q].tries>> \in applied'
    BY <1>1, <2>0 DEF Inv, ReplyInv
  <2>1. CASE q = p /\ call[p] = [phase |-> "posting", tries |-> n]
    BY <1>1, <2>1
  <2>2. CASE ~(q = p /\ call[p] = [phase |-> "posting", tries |-> n])
    <3>1. reply'[q] = reply[q] BY <1>1, <2>2
    <3>2. <<q, call[q].tries>> # <<p, n>>
      BY <1>1, <3>1 DEF Inv, ReplyInv
    <3> QED BY <1>1, <3>1, <3>2 DEF Inv, ReplyInv
  <2> QED BY <2>1, <2>2
<1>4. RefusedAttemptNotApplied' BY <1>1 DEF Inv, RefusedAttemptNotApplied
<1> QED BY <1>2, <1>3, <1>4 DEF Inv

LEMMA CrashInv ==
    ASSUME Inv, Crash
    PROVE  Inv'
<1>1. \A p \in Publishes : /\ call'[p].tries = call[p].tries
                           /\ call'[p].phase \in {call[p].phase, "lost"}
                           /\ call'[p].phase \notin Running
                           /\ call'[p] \in Call
                           /\ reply'[p] \in {reply[p], NoReply}
                           /\ call'[p].phase = "lost" => reply'[p] = NoReply
                           /\ call'[p].phase # "lost" => call'[p] = call[p] /\ reply'[p] = reply[p]
  <2> SUFFICES ASSUME NEW p \in Publishes
               PROVE  /\ call'[p].tries = call[p].tries
                      /\ call'[p].phase \in {call[p].phase, "lost"}
                      /\ call'[p].phase \notin Running
                      /\ call'[p] \in Call
                      /\ reply'[p] \in {reply[p], NoReply}
                      /\ call'[p].phase = "lost" => reply'[p] = NoReply
                      /\ call'[p].phase # "lost" => call'[p] = call[p] /\ reply'[p] = reply[p]
    OBVIOUS
  <2>1. call[p] \in Call BY DEF Inv, TypeOK
  <2>2. CASE call[p].phase \in Running
    <3>1. call'[p] = [call[p] EXCEPT !.phase = "lost"] /\ reply'[p] = NoReply
      BY <2>2 DEF Crash
    <3> QED BY <2>1, <3>1 DEF Call, Running
  <2>3. CASE call[p].phase \notin Running
    <3>1. call'[p] = call[p] /\ reply'[p] = reply[p] BY <2>3 DEF Crash
    <3>2. call[p].phase = "lost" => reply[p] = NoReply BY DEF Inv, ReplyInv
    <3> QED BY <2>1, <2>3, <3>1, <3>2
  <2> QED BY <2>2, <2>3
<1>2. TypeOK'
  <2>1. call' \in [Publishes -> Call] /\ reply' \in [Publishes -> Statuses \cup {NoReply}]
    BY <1>1 DEF Crash, Inv, TypeOK
  <2>2. \A a \in wire \cup applied : a[1] \in Publishes BY DEF Inv, TypeOK
  <2> QED BY <1>1, <2>1, <2>2 DEF Crash, Inv, TypeOK
<1>3. ReplyInv'
  <2>1. UNCHANGED <<wire, applied>> BY DEF Crash
  <2> QED BY <1>1, <2>1 DEF Inv, ReplyInv, Running
<1>4. RefusedAttemptNotApplied' BY <1>1 DEF Crash, Inv, RefusedAttemptNotApplied
<1> QED BY <1>2, <1>3, <1>4 DEF Inv

LEMMA StepInv ==
    ASSUME Inv, [Next]_vars
    PROVE  Inv'
<1>1. ASSUME NEW p \in Publishes, Publish(p) \/ Retry(p) PROVE Inv'
  BY <1>1, PostInv DEF Publish, Retry
<1>2. ASSUME NEW p \in Publishes, TransportFailure(p) PROVE Inv'
  BY <1>2, EndInv DEF TransportFailure
<1>3. ASSUME NEW p \in Publishes, Respond(p) PROVE Inv'
  <2>1. reply[p] \in {"accepted", "redirect", "refused"}
    BY <1>3, StatusesAssumption DEF Respond, Inv, TypeOK
  <2> QED BY <1>3, <2>1, EndInv DEF Respond, IsError
<1>4. CASE UNCHANGED vars
  BY <1>4 DEF vars, Inv, TypeOK, ReplyInv, RefusedAttemptNotApplied
<1> QED BY <1>1, <1>2, <1>3, <1>4, ReceiveInv, CrashInv DEF Next

\* A refusal decides its attempt: it was not accepted and never will be.
THEOREM RefusalIsExact == Safety => []RefusedAttemptNotApplied
<1>1. Inv => RefusedAttemptNotApplied BY DEF Inv
<1> QED BY InitInv, StepInv, <1>1, PTL DEF Safety

\* When the 502's "the action was NOT applied" (main.py:43) is right: if event-receiver
\* refused the first attempt, none was accepted or ever will be.
THEOREM FirstRefusalIsTrue ==
    Safety => [](\A p \in Publishes : call[p].phase = "refused" /\ call[p].tries = 1 =>
                   \A n \in 1 .. Attempts : <<p, n>> \notin wire \cup applied)
<1>1. Inv => \A p \in Publishes : call[p].phase = "refused" /\ call[p].tries = 1 =>
               \A n \in 1 .. Attempts : <<p, n>> \notin wire \cup applied
  <2> SUFFICES ASSUME Inv, NEW p \in Publishes, call[p].phase = "refused", call[p].tries = 1,
                      NEW n \in 1 .. Attempts, <<p, n>> \in wire \cup applied
               PROVE  FALSE
    OBVIOUS
  <2>1. <<p, n>>[2] <= call[<<p, n>>[1]].tries BY DEF Inv, TypeOK
  <2>2. n = 1 BY <2>1, AttemptsAssumption
  <2> QED BY <2>2 DEF Inv, RefusedAttemptNotApplied
<1> QED BY InitInv, StepInv, <1>1, PTL DEF Safety

\* The types of the publisher's state hold in every reachable state.
THEOREM TypeCorrect == Safety => []TypeOK
<1>1. Inv => TypeOK BY DEF Inv
<1> QED BY InitInv, StepInv, <1>1, PTL DEF Safety

Ended(p) == call[p].phase \notin Running \cup {"idle"}

\* Only a call that is idle or waits out its backoff posts, only one that posts ends, and
\* a crash takes none of those that have ended.
LEMMA EndedStep ==
    ASSUME Inv, [Next]_vars, NEW p \in Publishes, Ended(p)
    PROVE  call'[p] = call[p] /\ \A n \in 1 .. Attempts : <<p, n>> \in wire' => <<p, n>> \in wire
<1> USE DEF Ended, Running
<1>1. ASSUME NEW q \in Publishes, Publish(q) \/ Retry(q)
      PROVE  call'[p] = call[p] /\ \A n \in 1 .. Attempts : <<p, n>> \in wire' => <<p, n>> \in wire
  <2>1. q # p /\ Post(q) BY <1>1 DEF Publish, Retry
  <2> QED BY <2>1 DEF Post, Inv, TypeOK
<1>2. ASSUME NEW q \in Publishes, TransportFailure(q) \/ Respond(q)
      PROVE  call'[p] = call[p] /\ wire' = wire
  <2>1. q # p /\ wire' = wire BY <1>2 DEF TransportFailure, Respond
  <2>2. \E phase : call' = [call EXCEPT ![q].phase = phase]
    BY <1>2 DEF TransportFailure, Respond, End
  <2> QED BY <2>1, <2>2 DEF Inv, TypeOK
<1>3. ASSUME NEW q \in Publishes, NEW n \in 1 .. Attempts, NEW status \in Statuses,
             Receive(q, n, status)
      PROVE  call'[p] = call[p] /\ wire' \subseteq wire
  BY <1>3 DEF Receive
<1>4. ASSUME Crash PROVE call'[p] = call[p] /\ wire' = wire BY <1>4 DEF Crash
<1>5. CASE UNCHANGED vars BY <1>5 DEF vars
<1> QED BY <1>1, <1>2, <1>3, <1>4, <1>5 DEF Next

\* What has ended stays ended: no answer, retry or restart posts the event again, so the
\* 502 or the 202 an admin has seen is the last word of the process.
THEOREM EndIsFinal == Safety => EndedIsFinal
<1>1. Inv /\ [Next]_vars =>
        [\A p \in Publishes :
           call[p].phase \notin Running \cup {"idle"}
           => call'[p] = call[p] /\ \A n \in 1 .. Attempts : <<p, n>> \in wire' => <<p, n>> \in wire]_vars
  BY EndedStep DEF Ended
<1> QED BY InitInv, StepInv, <1>1, PTL DEF Safety, EndedIsFinal

\* How many steps of its own a call can still take.
StepsLeft(c) ==
    IF c.phase = "idle" THEN 2 * Attempts + 3
    ELSE IF c.phase = "posting" THEN 2 * (Attempts - c.tries) + 2
    ELSE IF c.phase = "backoff" THEN 2 * (Attempts - c.tries) + 1 ELSE 0

\* Every step of a call brings it nearer to its end, whatever event-receiver and the
\* network do: this, and that the waits in between are fair, is why every publish ends.
THEOREM PublishesRunOut ==
    Safety => [][\A p \in Publishes : call'[p] # call[p] =>
                   /\ StepsLeft(call[p]) \in Nat /\ StepsLeft(call'[p]) \in Nat
                   /\ StepsLeft(call'[p]) < StepsLeft(call[p])]_vars
<1> USE AttemptsAssumption
<1>1. ASSUME NEW c \in Call PROVE StepsLeft(c) \in Nat
  <2>1. c.tries \in Nat /\ Attempts - c.tries \in Nat BY DEF Call
  <2> QED BY <2>1 DEF StepsLeft
<1>2. ASSUME Inv, Inv', [Next]_vars, NEW p \in Publishes, call'[p] # call[p]
      PROVE  StepsLeft(call'[p]) < StepsLeft(call[p])
  <2>1. call[p] \in Call /\ call'[p] \in Call BY <1>2 DEF Inv, TypeOK
  <2>2. call[p].tries \in 0 .. Attempts /\ call'[p].tries \in 0 .. Attempts BY <2>1 DEF Call
  <2>3. ASSUME NEW q \in Publishes, Publish(q) \/ Retry(q) PROVE StepsLeft(call'[p]) < StepsLeft(call[p])
    <3>1. q = p BY <1>2, <2>3 DEF Publish, Retry, Post, Inv, TypeOK
    <3>2. /\ call[p].phase \in {"idle", "backoff"} /\ call'[p].phase = "posting"
          /\ call'[p].tries = call[p].tries + 1
      BY <1>2, <2>3, <3>1 DEF Publish, Retry, Post, Inv, TypeOK
    <3>3. call[p].phase = "idle" => call[p].tries = 0 BY <1>2 DEF Inv, ReplyInv
    <3> QED BY <2>2, <3>2, <3>3 DEF StepsLeft
  <2>4. ASSUME NEW q \in Publishes, TransportFailure(q) \/ Respond(q)
        PROVE  StepsLeft(call'[p]) < StepsLeft(call[p])
    <3>1. PICK phase \in {"backoff", "unreachable", "refused", "published"} :
            (\E answer : End(q, phase, answer)) /\ call[q].phase = "posting"
      BY <2>4 DEF TransportFailure, Respond
    <3>2. q = p BY <1>2, <3>1 DEF End, Inv, TypeOK
    <3>3. call'[p].phase = phase /\ call'[p].tries = call[p].tries
      BY <1>2, <2>1, <3>1, <3>2 DEF End, Inv, TypeOK, Call
    <3> QED BY <2>2, <3>1, <3>2, <3>3 DEF StepsLeft
  <2>5. ASSUME Crash PROVE StepsLeft(call'[p]) < StepsLeft(call[p])
    <3>1. call[p].phase \in Running /\ call'[p] = [call[p] EXCEPT !.phase = "lost"]
      BY <1>2, <2>5 DEF Crash
    <3>2. call'[p].phase = "lost" BY <2>1, <3>1 DEF Call
    <3> QED BY <2>2, <3>1, <3>2 DEF StepsLeft, Running
  <2> QED BY <1>2, <2>3, <2>4, <2>5 DEF Next, Receive, vars
<1>3. Inv /\ Inv' /\ [Next]_vars =>
        [\A p \in Publishes : call'[p] # call[p] =>
           /\ StepsLeft(call[p]) \in Nat /\ StepsLeft(call'[p]) \in Nat
           /\ StepsLeft(call'[p]) < StepsLeft(call[p])]_vars
  <2> SUFFICES ASSUME Inv, Inv', [Next]_vars, NEW p \in Publishes, call'[p] # call[p]
               PROVE  /\ StepsLeft(call[p]) \in Nat /\ StepsLeft(call'[p]) \in Nat
                      /\ StepsLeft(call'[p]) < StepsLeft(call[p])
    OBVIOUS
  <2>1. call[p] \in Call /\ call'[p] \in Call BY DEF Inv, TypeOK
  <2> QED BY <1>1, <1>2, <2>1
<1> QED BY <1>3, InitInv, StepInv, PTL DEF Safety
----
(***************************************************************************)
(* Success and refinement.                                                 *)
(***************************************************************************)

\* A publish that returns was accepted by event-receiver in its latest attempt, or
\* answered 3xx, and then this attempt was not accepted and never will be.
THEOREM PublishedIsAnswered == Safety => []PublishedWasAnswered
<1>1. Inv => PublishedWasAnswered
  BY DEF Inv, ReplyInv, PublishedWasAnswered, NoReply
<1> QED BY InitInv, StepInv, <1>1, PTL DEF Safety
----

\* The outcome of every phase, without the CASE.
LEMMA OutcomeOf ==
    ASSUME NEW c \in Call, NEW a
    PROVE  /\ Outcome(c, a) = "none" <=> c.phase = "idle"
           /\ Outcome(c, a) = "returned" <=> c.phase = "published" /\ a # "redirect"
           /\ Outcome(c, a) = "redirected" <=> c.phase = "published" /\ a = "redirect"
           /\ Outcome(c, a) = "lost" <=> c.phase = "lost"
           /\ Outcome(c, a) = "raised" <=> c.phase \in Raised
           /\ Outcome(c, a) = "pending" <=> c.phase \in Running
BY DEF Outcome, Call, Running, Raised

\* The abstract state, as the instance of Publication sees it.
AbsOutcome == [p \in Publishes |-> Outcome(call[p], reply[p])]
AbsApplied == {a[1] : a \in applied}

\* One call's record and answer change, with the outcome in their place.
LEMMA OutcomeUpdate ==
    ASSUME TypeOK, NEW p \in Publishes, NEW c \in Call, NEW a,
           call' = [call EXCEPT ![p] = c], reply' = [reply EXCEPT ![p] = a]
    PROVE  AbsOutcome' = [AbsOutcome EXCEPT ![p] = Outcome(c, a)]
<1>1. /\ call'[p] = c /\ reply'[p] = a
      /\ \A q \in Publishes : q # p => call'[q] = call[q] /\ reply'[q] = reply[q]
  BY DEF TypeOK
<1>2. \A q \in Publishes : Outcome(call'[q], reply'[q]) =
                              IF q = p THEN Outcome(c, a) ELSE Outcome(call[q], reply[q])
  BY <1>1
<1> QED BY <1>2 DEF AbsOutcome

LEMMA RefinesInit == Init => Promise!Init
<1> SUFFICES ASSUME Init PROVE Promise!Init OBVIOUS
<1>1. ASSUME NEW p \in Publishes PROVE Outcome(call[p], reply[p]) = "none"
  <2>1. call[p] \in Call BY InitInv DEF Inv, TypeOK
  <2>2. call[p].phase = "idle" BY DEF Init
  <2> QED BY <2>1, <2>2, OutcomeOf
<1> QED BY <1>1 DEF Init, Promise!Init

LEMMA RefinesStep ==
    ASSUME Inv, [Next]_vars
    PROVE  [Promise!Next]_(Promise!vars)
<1>1. TypeOK' /\ PublishedWasAnswered'
  BY StepInv DEF Inv, ReplyInv, PublishedWasAnswered, NoReply
<1>2. ASSUME NEW p \in Publishes, Publish(p) PROVE Promise!Call(p)
  <2>1. /\ call[p] \in Call /\ call'[p] \in Call /\ call[p].phase = "idle"
        /\ call' = [call EXCEPT ![p] = call'[p]] /\ call'[p].phase = "posting"
        /\ reply' = [reply EXCEPT ![p] = reply[p]] /\ applied' = applied
    BY <1>1, <1>2 DEF Publish, Post, Inv, TypeOK
  <2>2. AbsOutcome' = [AbsOutcome EXCEPT ![p] = Outcome(call'[p], reply[p])]
    BY <2>1, OutcomeUpdate DEF Inv
  <2>3. Outcome(call[p], reply[p]) = "none" /\ Outcome(call'[p], reply[p]) = "pending"
    BY <2>1, OutcomeOf DEF Running
  <2> QED BY <2>1, <2>2, <2>3 DEF Promise!Call, AbsOutcome, AbsApplied
<1>3. ASSUME NEW p \in Publishes, Retry(p) PROVE UNCHANGED Promise!vars
  <2>1. /\ call[p] \in Call /\ call'[p] \in Call /\ call[p].phase = "backoff"
        /\ call' = [call EXCEPT ![p] = call'[p]] /\ call'[p].phase = "posting"
        /\ reply' = [reply EXCEPT ![p] = reply[p]] /\ applied' = applied
    BY <1>1, <1>3 DEF Retry, Post, Inv, TypeOK
  <2>2. AbsOutcome' = [AbsOutcome EXCEPT ![p] = Outcome(call'[p], reply[p])]
    BY <2>1, OutcomeUpdate DEF Inv
  <2>3. Outcome(call[p], reply[p]) = "pending" /\ Outcome(call'[p], reply[p]) = "pending"
    BY <2>1, OutcomeOf DEF Running
  <2> QED BY <2>1, <2>2, <2>3 DEF Promise!vars, AbsOutcome, AbsApplied
<1>4. ASSUME NEW p \in Publishes, NEW phase, NEW answer, call[p].phase = "posting",
             End(p, phase, answer), UNCHANGED <<wire, applied>>
      PROVE  /\ call'[p] \in Call /\ call'[p].phase = phase /\ call'[p].tries = call[p].tries
             /\ reply'[p] = answer
             /\ applied' = applied
             /\ AbsOutcome' = [AbsOutcome EXCEPT ![p] = Outcome(call'[p], answer)]
             /\ Outcome(call[p], reply[p]) = "pending"
  <2>1. /\ call[p] \in Call /\ call'[p] \in Call /\ call'[p].phase = phase
        /\ call'[p].tries = call[p].tries
        /\ call' = [call EXCEPT ![p] = call'[p]] /\ applied' = applied
        /\ reply' = [reply EXCEPT ![p] = answer] /\ reply'[p] = answer
    BY <1>1, <1>4 DEF End, Inv, TypeOK, Call
  <2>2. AbsOutcome' = [AbsOutcome EXCEPT ![p] = Outcome(call'[p], answer)]
    BY <2>1, OutcomeUpdate DEF Inv
  <2> QED BY <1>4, <2>1, <2>2, OutcomeOf DEF Running
<1>5. ASSUME NEW p \in Publishes, TransportFailure(p)
      PROVE  Promise!Raise(p) \/ UNCHANGED Promise!vars
  <2>1. CASE call[p].tries < Attempts
    <3>1. End(p, "backoff", NoReply) /\ UNCHANGED <<wire, applied>> /\ call[p].phase = "posting"
      BY <1>5, <2>1 DEF TransportFailure
    <3>2. Outcome(call'[p], NoReply) = "pending" BY <1>4, <3>1, OutcomeOf DEF Running
    <3>3. AbsOutcome' = [AbsOutcome EXCEPT ![p] = "pending"] /\ AbsOutcome[p] = "pending"
      BY <1>4, <3>1, <3>2 DEF AbsOutcome
    <3>4. AbsOutcome' = AbsOutcome BY <3>3 DEF AbsOutcome
    <3>5. applied' = applied BY <3>1
    <3> QED BY <3>4, <3>5 DEF Promise!vars, AbsOutcome
  <2>2. CASE ~(call[p].tries < Attempts)
    <3>1. End(p, "unreachable", NoReply) /\ UNCHANGED <<wire, applied>> /\ call[p].phase = "posting"
      BY <1>5, <2>2 DEF TransportFailure
    <3>2. Outcome(call'[p], NoReply) = "raised" BY <1>4, <3>1, OutcomeOf DEF Raised
    <3> QED BY <1>4, <3>1, <3>2 DEF Promise!Raise, AbsOutcome, AbsApplied
  <2> QED BY <2>1, <2>2
<1>6. ASSUME NEW p \in Publishes, Respond(p)
      PROVE  Promise!Raise(p) \/ Promise!Return(p) \/ Promise!Redirect(p)
  <2>1. CASE IsError(reply[p])
    <3>1. End(p, "refused", reply[p]) /\ UNCHANGED <<wire, applied>> /\ call[p].phase = "posting"
      BY <1>6, <2>1 DEF Respond
    <3>2. Outcome(call'[p], reply[p]) = "raised" BY <1>4, <3>1, OutcomeOf DEF Raised
    <3> QED BY <1>4, <3>1, <3>2 DEF Promise!Raise, AbsOutcome, AbsApplied
  <2>2. CASE ~IsError(reply[p])
    <3>1. End(p, "published", reply[p]) /\ UNCHANGED <<wire, applied>> /\ call[p].phase = "posting"
      BY <1>6, <2>2 DEF Respond
    <3>2. CASE reply[p] = "redirect"
      <4>1. Outcome(call'[p], reply[p]) = "redirected" BY <1>4, <3>1, <3>2, OutcomeOf
      <4> QED BY <1>4, <3>1, <4>1 DEF Promise!Redirect, AbsOutcome, AbsApplied
    <3>3. CASE reply[p] # "redirect"
      <4>1. Outcome(call'[p], reply[p]) = "returned" BY <1>4, <3>1, <3>3, OutcomeOf
      <4>2. <<p, call'[p].tries>> \in applied
        BY <1>1, <1>4, <3>1, <3>3 DEF PublishedWasAnswered
      <4>3. p \in AbsApplied BY <4>2 DEF AbsApplied
      <4> QED BY <1>4, <3>1, <4>1, <4>3 DEF Promise!Return, AbsOutcome, AbsApplied
    <3> QED BY <3>2, <3>3
  <2> QED BY <2>1, <2>2
<1>7. ASSUME NEW p \in Publishes, NEW n \in 1 .. Attempts, NEW status \in Statuses,
             Receive(p, n, status)
      PROVE  Promise!Apply(p) \/ UNCHANGED Promise!vars
  <2>0. AbsOutcome' = AbsOutcome
    <3>1. \A q \in Publishes : Outcome(call'[q], reply'[q]) = Outcome(call[q], reply[q])
      <4> SUFFICES ASSUME NEW q \in Publishes
                   PROVE  Outcome(call'[q], reply'[q]) = Outcome(call[q], reply[q])
        OBVIOUS
      <4>1. call'[q] = call[q] /\ call[q] \in Call BY <1>7 DEF Receive, Inv, TypeOK
      <4>2. CASE reply'[q] = reply[q] BY <4>1, <4>2
      <4>3. CASE reply'[q] # reply[q]
        <5>1. call[q].phase = "posting"
          BY <1>7, <4>3 DEF Receive, Inv, TypeOK
        <5>2. Outcome(call[q], reply[q]) = "pending" /\ Outcome(call[q], reply'[q]) = "pending"
          BY <4>1, <5>1, OutcomeOf DEF Running
        <5> QED BY <4>1, <5>2
      <4> QED BY <4>2, <4>3
    <3> QED BY <3>1 DEF AbsOutcome
  <2>1. <<p, n>> \in wire /\ n <= call[p].tries /\ n \in 1 .. Attempts /\ call' = call
    BY <1>7 DEF Receive, Inv, TypeOK
  <2>2. call[p] \in Call BY DEF Inv, TypeOK
  <2>3. call[p].phase # "idle"
    <3>1. call[p].phase = "idle" => call[p].tries = 0 BY DEF Inv, ReplyInv
    <3>2. ~(n <= 0) BY AttemptsAssumption
    <3> QED BY <2>1, <3>1, <3>2
  <2>4. Outcome(call[p], reply[p]) # "none" BY <2>2, <2>3, OutcomeOf
  <2>5. AbsApplied' = IF status = "accepted" THEN AbsApplied \cup {p} ELSE AbsApplied
    <3>1. applied' = IF status = "accepted" THEN applied \cup {<<p, n>>} ELSE applied
      BY <1>7 DEF Receive
    <3>2. CASE status = "accepted"
      <4>1. applied' = applied \cup {<<p, n>>} BY <3>1, <3>2
      <4>2. <<p, n>>[1] = p OBVIOUS
      <4>3. \A x : x \in AbsApplied' <=> \E a \in applied' : x = a[1] BY DEF AbsApplied
      <4>4. \A x : x \in AbsApplied <=> \E a \in applied : x = a[1] BY DEF AbsApplied
      <4>5. \A x : x \in AbsApplied' <=> x \in AbsApplied \cup {p}
        BY <4>1, <4>2, <4>3, <4>4, Zenon
      <4> QED BY <3>2, <4>5
    <3>3. CASE status # "accepted" BY <3>1, <3>3 DEF AbsApplied
    <3> QED BY <3>2, <3>3
  <2> QED BY <2>0, <2>1, <2>4, <2>5 DEF Promise!Apply, Promise!vars, AbsOutcome, AbsApplied
<1>8. ASSUME Crash PROVE Promise!Crash
  <2>1. ASSUME NEW p \in Publishes
        PROVE  Outcome(call'[p], reply'[p]) =
                 IF Outcome(call[p], reply[p]) = "pending" THEN "lost" ELSE Outcome(call[p], reply[p])
    <3>1. call[p] \in Call /\ call'[p] \in Call BY <1>1 DEF Inv, TypeOK
    <3>2. CASE call[p].phase \in Running
      <4>1. call'[p] = [call[p] EXCEPT !.phase = "lost"] BY <1>8, <3>2 DEF Crash
      <4>2. call'[p].phase = "lost" BY <3>1, <4>1 DEF Call
      <4> QED BY <3>1, <3>2, <4>2, OutcomeOf
    <3>3. CASE call[p].phase \notin Running
      <4>1. call'[p] = call[p] /\ reply'[p] = reply[p] BY <1>8, <3>3 DEF Crash
      <4> QED BY <3>1, <3>3, <4>1, OutcomeOf
    <3> QED BY <3>2, <3>3
  <2>2. applied' = applied BY <1>8 DEF Crash
  <2> QED BY <2>1, <2>2 DEF Promise!Crash
<1>9. CASE UNCHANGED vars BY <1>9 DEF vars, Promise!vars
<1> QED BY <1>2, <1>3, <1>5, <1>6, <1>7, <1>8, <1>9 DEF Next, Promise!Next

\* The publisher implements the safety part of Publication: whatever is lost, late,
\* repeated or redirected, a call that returns on a 2xx has been accepted.
THEOREM PublisherKeepsPromise == Safety => KeepsSafetyPromise
<1>1. Inv /\ [Next]_vars => [Promise!Next]_(Promise!vars) BY RefinesStep
<1> QED BY <1>1, InitInv, StepInv, RefinesInit, PTL DEF Safety, KeepsSafetyPromise, Promise!Safety
====
