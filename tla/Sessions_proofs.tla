---- MODULE Sessions_proofs ----
(***************************************************************************)
(* Proofs about Login and about Sessions, which extends it.  First the     *)
(* guard: its types, the bound on counted failures, what it remembers of   *)
(* TOTP codes and the lockout, for every number of requests, addresses and *)
(* every setting.  Then the login inside Sessions, which is that of Login, *)
(* so that all of this holds beside changing accounts and settings; and    *)
(* what a token gives.                                                     *)
(***************************************************************************)
EXTENDS Sessions, FiniteSetTheorems, TLAPS

(***************************************************************************)
(* The guard: every theorem of this part is about Spec of module Login.    *)
(***************************************************************************)

\* The replay memory, strengthened until it is inductive: a login was of no later
\* step than the current one and with a code of its step; and while its step lasts,
\* the slot was filled in that very step, with a code that logged the account in.
ReplayInv ==
    \A p \in accepted :
        LET use == usedTotp[Lower[p[1]]] IN
        /\ p[3] <= Step
        /\ p[3] \in StepsOf[p[1]][p[2]]
        /\ p[3] = Step => /\ use.at <= now /\ use.at \div StepSeconds = Step
                          /\ <<p[1], use.code, Step>> \in accepted

\* The number of the step is one, and does not go back.
LEMMA StepsAdvance ==
    ASSUME NEW a \in Nat, NEW b \in Nat, a <= b
    PROVE  /\ a \div StepSeconds \in Nat /\ b \div StepSeconds \in Nat
           /\ a \div StepSeconds <= b \div StepSeconds
<1> StepSeconds \in Nat \ {0} BY LimitsAssumption
<1>1. a \div StepSeconds \in Nat /\ b \div StepSeconds \in Nat BY SMT
<1>2. a \div StepSeconds <= b \div StepSeconds BY SMT
<1> QED BY <1>1, <1>2

\* A code stored in the current step is still remembered.
LEMMA MemoryOutlivesStep ==
    ASSUME TypeOK, NEW e \in Emails, usedTotp[e].code # NoCode,
           usedTotp[e].at <= now, usedTotp[e].at \div StepSeconds = Step
    PROVE  Remembered(e) = usedTotp[e]
<1>1. /\ now \in Nat /\ usedTotp[e].at \in Nat
      /\ StepSeconds \in Nat \ {0} /\ ReplaySeconds \in Nat /\ ReplaySeconds >= StepSeconds
  BY LimitsAssumption DEF TypeOK
<1>2. ASSUME NEW a \in Nat, NEW b \in Nat, a <= b, a \div StepSeconds = b \div StepSeconds
      PROVE  b - a < StepSeconds
  BY <1>1, <1>2, SMT
<1>3. now - usedTotp[e].at < StepSeconds BY <1>1, <1>2 DEF Step
<1>4. ~(now - usedTotp[e].at > ReplaySeconds) BY <1>1, <1>3
<1> QED BY <1>4 DEF Remembered, UseOver

----
(***************************************************************************)
(* Type correctness.                                                       *)
(***************************************************************************)

LEMMA KeysOfRequests ==
    ASSUME TypeOK
    PROVE  /\ \A ip \in Ips, e \in Emails : Key(ip, e) \in Keys
           /\ \A r \in Requests : KeyOf(r) \in Keys
                /\ req[r].email \in Emails /\ Lower[req[r].email] \in Emails
                /\ req[r].code \in Codes
           /\ Step \in Nat
BY AddressAssumption, StepsAdvance DEF TypeOK, Request, Key, KeyOf, Keys, Step

LEMMA TypeInit == Init => TypeOK
BY DEF Init, TypeOK, Request, NoFailures, NoUse

\* What the guard stores is an entry.
LEMMA GuardTypes ==
    ASSUME TypeOK
    PROVE  /\ \A k \in Keys :
                /\ Recorded(k) \in [count : Nat \ {0}, start : Nat]
                /\ Pruned(k) \in [count : Nat, start : Nat]
                /\ Pruned(k).count = 0 => Pruned(k) = NoFailures
           /\ NoFailures \in [count : Nat, start : Nat]
           /\ NoFailures.count = 0
           /\ \A e \in Emails : Remembered(e) \in [code : Codes \cup {NoCode}, at : Nat]
BY DEF TypeOK, Recorded, Pruned, NoFailures, Remembered, NoUse

\* One entry of the failure table replaced by a well-formed one.
LEMMA FailuresUpdate ==
    ASSUME TypeOK, NEW k \in Keys, NEW f \in [count : Nat, start : Nat],
           f.count = 0 => f = NoFailures,
           failures' = [failures EXCEPT ![k] = f]
    PROVE  /\ failures' \in [Keys -> [count : Nat, start : Nat]]
           /\ \A q \in Keys : failures'[q].count = 0 => failures'[q] = NoFailures
BY DEF TypeOK

\* An answered request keeps what the client sent.
LEMMA AnswerType ==
    ASSUME TypeOK, NEW r \in Requests, NEW p \in {"failed", "ok"}, Answer(r, p)
    PROVE  req' \in [Requests -> Request]
BY DEF TypeOK, Answer, Request

LEMMA TypeStep ==
    ASSUME TypeOK, [Next]_vars
    PROVE  TypeOK'
<1>1. ASSUME NEW r \in Requests, NEW ip \in Ips, NEW e \in Emails, NEW c \in Codes,
             NEW p \in {"blocked", "lookup"}, Enter(r, p, ip, e, c)
      PROVE  req' \in [Requests -> Request]
  <2>1. [phase |-> p, ip |-> ip, email |-> e, code |-> c] \in Request
    BY DEF Request
  <2> QED BY <1>1, <2>1 DEF Enter, TypeOK
<1>2. ASSUME NEW r \in Requests, NEW ip \in Ips, NEW e \in Emails, NEW c \in Codes,
             Block(r, ip, e, c)
      PROVE  TypeOK'
  BY <1>1, <1>2 DEF Block, TypeOK
<1>3. ASSUME NEW r \in Requests, NEW ip \in Ips, NEW e \in Emails, NEW c \in Codes,
             Admit(r, ip, e, c)
      PROVE  TypeOK'
  <2>1. /\ failures' \in [Keys -> [count : Nat, start : Nat]]
        /\ \A q \in Keys : failures'[q].count = 0 => failures'[q] = NoFailures
    BY <1>3, KeysOfRequests, GuardTypes, FailuresUpdate DEF Admit
  <2> QED BY <1>1, <1>3, <2>1 DEF Admit, TypeOK
<1>4. ASSUME NEW r \in Requests, LookupFails(r) PROVE TypeOK'
  BY <1>4, AnswerType DEF LookupFails, TypeOK
<1>5. ASSUME NEW r \in Requests, Reject(r), usedTotp' \in [Emails -> [code : Codes \cup {NoCode}, at : Nat]]
      PROVE  TypeOK'
  <2>1. /\ failures' \in [Keys -> [count : Nat, start : Nat]]
        /\ \A q \in Keys : failures'[q].count = 0 => failures'[q] = NoFailures
    BY <1>5, KeysOfRequests, GuardTypes, FailuresUpdate DEF Reject
  <2>2. req' \in [Requests -> Request] BY <1>5, AnswerType DEF Reject
  <2> QED BY <1>5, <2>1, <2>2 DEF Reject, TypeOK
<1>6. ASSUME NEW r \in Requests, RejectCredentials(r) PROVE TypeOK'
  BY <1>5, <1>6 DEF RejectCredentials, TypeOK
<1>7. ASSUME NEW r \in Requests, RejectTotp(r) PROVE TypeOK'
  <2>1. usedTotp' \in [Emails -> [code : Codes \cup {NoCode}, at : Nat]]
    BY <1>7, GuardTypes DEF RejectTotp, TypeOK
  <2> QED BY <1>5, <1>7, <2>1 DEF RejectTotp
<1>8. ASSUME NEW r \in Requests, Accept(r) PROVE TypeOK'
  <2>1. /\ failures' \in [Keys -> [count : Nat, start : Nat]]
        /\ \A q \in Keys : failures'[q].count = 0 => failures'[q] = NoFailures
    BY <1>8, KeysOfRequests, GuardTypes, FailuresUpdate DEF Accept
  <2>2. req[r].code \in Codes /\ Step \in Nat BY KeysOfRequests
  <2>3. req' \in [Requests -> Request] BY <1>8, AnswerType DEF Accept
  <2>4. usedTotp' \in [Emails -> [code : Codes \cup {NoCode}, at : Nat]]
    BY <1>8, <2>2 DEF Accept, TypeOK
  <2>5. accepted' \subseteq Accounts \X Codes \X Nat BY <1>8, <2>2 DEF Accept, TypeOK
  <2> QED BY <1>8, <2>1, <2>3, <2>4, <2>5 DEF Accept, TypeOK
<1>9. CASE Restart
  <2>1. \A r \in Requests : [req[r] EXCEPT !.phase = "idle"] \in Request
    BY DEF TypeOK, Request
  <2>2. NoUse \in [code : Codes \cup {NoCode}, at : Nat] BY DEF NoUse
  <2> QED BY <1>9, <2>1, <2>2, GuardTypes DEF Restart, TypeOK
<1>10. CASE Tick BY <1>10 DEF Tick, TypeOK
<1>11. CASE UNCHANGED vars BY <1>11 DEF vars, TypeOK
<1> QED BY <1>2, <1>3, <1>4, <1>6, <1>7, <1>8, <1>9, <1>10, <1>11
        DEF Next, Begin, Finish

\* Every reachable state of the guard and the requests has its type.
THEOREM TypeCorrect == Spec => []TypeOK
BY TypeInit, TypeStep, PTL DEF Spec
----
(***************************************************************************)
(* The bound on counted failures.                                          *)
(***************************************************************************)

LEMMA AwaitingFinite ==
    ASSUME NEW k
    PROVE  /\ IsFiniteSet(Awaiting(k)) /\ Cardinality(Awaiting(k)) \in Nat
           /\ Cardinality(Requests) \in Nat
           /\ Cardinality(Awaiting(k)) <= Cardinality(Requests)
<1>1. Awaiting(k) \subseteq Requests BY DEF Awaiting
<1> QED BY <1>1, RequestsAssumption, FS_Subset, FS_CardinalityType

\* An answer takes the request out of those waiting for its key, and leaves
\* those waiting for other keys alone.
LEMMA AnswerAwaiting ==
    ASSUME TypeOK, NEW r \in Requests, NEW p \in {"failed", "ok"}, Answer(r, p)
    PROVE  /\ Cardinality(Awaiting(KeyOf(r)))' = Cardinality(Awaiting(KeyOf(r))) - 1
           /\ \A k \in Keys : k # KeyOf(r) => Awaiting(k)' = Awaiting(k)
           /\ KeyOf(r)' = KeyOf(r)
<1>1. /\ \A q \in Requests : KeyOf(q)' = KeyOf(q)
      /\ \A q \in Requests : q # r => req'[q] = req[q]
      /\ req'[r].phase = p /\ req[r].phase = "lookup"
  BY DEF Answer, TypeOK, Request, KeyOf, Key
<1>2. \A k \in Keys : k # KeyOf(r) => Awaiting(k)' = Awaiting(k) BY <1>1 DEF Awaiting
<1>3. Awaiting(KeyOf(r))' = Awaiting(KeyOf(r)) \ {r} BY <1>1 DEF Awaiting
<1>4. r \in Awaiting(KeyOf(r)) BY <1>1 DEF Awaiting
<1>5. Cardinality(Awaiting(KeyOf(r)) \ {r}) = Cardinality(Awaiting(KeyOf(r))) - 1
  BY <1>4, AwaitingFinite, FS_RemoveElement
<1> QED BY <1>1, <1>2, <1>3, <1>5

\* A request enters those waiting for a key only when its row is looked up.
LEMMA EnterAwaiting ==
    ASSUME TypeOK, NEW r \in Requests, NEW ip \in Ips, NEW e \in Emails, NEW c \in Codes,
           NEW p \in {"blocked", "lookup"}, Enter(r, p, ip, e, c), NEW k \in Keys,
           p = "blocked" \/ k # Key(ip, e)
    PROVE  Awaiting(k)' = Awaiting(k)
<1>1. /\ req[r].phase # "lookup"
      /\ req'[r] = [phase |-> p, ip |-> ip, email |-> e, code |-> c]
      /\ \A q \in Requests : q # r => req'[q] = req[q]
  BY DEF Enter, TypeOK
<1> QED BY <1>1 DEF Awaiting, KeyOf

LEMMA OvershootInit == Init => OvershootBounded
<1> SUFFICES ASSUME Init, NEW k \in Keys
             PROVE  failures[k].count + Cardinality(Awaiting(k))
                      <= MaxFailures - 1 + Cardinality(Requests)
  BY DEF OvershootBounded
<1>1. failures[k].count = 0 BY DEF Init, NoFailures
<1> QED BY <1>1, AwaitingFinite, LimitsAssumption

LEMMA OvershootStep ==
    ASSUME TypeOK, OvershootBounded, [Next]_vars
    PROVE  OvershootBounded'
<1> SUFFICES ASSUME NEW k \in Keys
             PROVE  failures'[k].count + Cardinality(Awaiting(k)')
                      <= MaxFailures - 1 + Cardinality(Requests)
  BY DEF OvershootBounded
<1>1. /\ failures[k].count \in Nat /\ MaxFailures \in Nat \ {0}
      /\ failures[k].count + Cardinality(Awaiting(k)) <= MaxFailures - 1 + Cardinality(Requests)
      /\ Cardinality(Requests) \in Nat
      /\ Cardinality(Awaiting(k)) \in Nat /\ Cardinality(Awaiting(k)') \in Nat
      /\ Cardinality(Awaiting(k)') <= Cardinality(Requests)
      /\ Cardinality(Awaiting(k)) <= Cardinality(Requests)
  <2>1. Awaiting(k)' \subseteq Requests BY DEF Awaiting
  <2> QED BY <2>1, AwaitingFinite, RequestsAssumption, FS_Subset, FS_CardinalityType,
             LimitsAssumption DEF TypeOK, OvershootBounded
<1>2. ASSUME NEW r \in Requests, NEW ip \in Ips, NEW e \in Emails, NEW c \in Codes,
             Block(r, ip, e, c)
      PROVE  failures'[k].count + Cardinality(Awaiting(k)')
               <= MaxFailures - 1 + Cardinality(Requests)
  BY <1>1, <1>2, EnterAwaiting DEF Block
<1>3. ASSUME NEW r \in Requests, NEW ip \in Ips, NEW e \in Emails, NEW c \in Codes,
             Admit(r, ip, e, c)
      PROVE  failures'[k].count + Cardinality(Awaiting(k)')
               <= MaxFailures - 1 + Cardinality(Requests)
  <2>1. CASE k = Key(ip, e)
    <3>1. failures'[k] = Pruned(k) BY <1>3, <2>1 DEF Admit, TypeOK
    <3>2. Pruned(k).count <= MaxFailures - 1
      BY <1>1, <1>3, <2>1 DEF Admit, IsLocked, Pruned, NoFailures
    <3>3. Pruned(k).count \in Nat BY GuardTypes
    <3> QED BY <1>1, <3>1, <3>2, <3>3
  <2>2. CASE k # Key(ip, e)
    <3>1. failures'[k] = failures[k] BY <1>3, <2>2 DEF Admit, TypeOK
    <3>2. Awaiting(k)' = Awaiting(k) BY <1>3, <2>2, EnterAwaiting DEF Admit
    <3> QED BY <1>1, <3>1, <3>2
  <2> QED BY <2>1, <2>2
<1>4. ASSUME NEW r \in Requests, LookupFails(r)
      PROVE  failures'[k].count + Cardinality(Awaiting(k)')
               <= MaxFailures - 1 + Cardinality(Requests)
  BY <1>1, <1>4, AnswerAwaiting DEF LookupFails
<1>5. ASSUME NEW r \in Requests, Reject(r)
      PROVE  failures'[k].count + Cardinality(Awaiting(k)')
               <= MaxFailures - 1 + Cardinality(Requests)
  <2>1. Answer(r, "failed") BY <1>5 DEF Reject
  <2>2. CASE k = KeyOf(r)
    <3>1. failures'[k] = Recorded(k) BY <1>5, <2>2 DEF Reject, TypeOK
    <3>2. Recorded(k).count = 1 \/ Recorded(k).count = failures[k].count + 1
      BY DEF Recorded, TypeOK
    <3>3. Cardinality(Awaiting(k)') = Cardinality(Awaiting(k)) - 1
      BY <2>1, <2>2, AnswerAwaiting
    <3> QED BY <1>1, <3>1, <3>2, <3>3
  <2>3. CASE k # KeyOf(r)
    <3>1. failures'[k] = failures[k] BY <1>5, <2>3 DEF Reject, TypeOK
    <3>2. Awaiting(k)' = Awaiting(k) BY <2>1, <2>3, AnswerAwaiting
    <3> QED BY <1>1, <3>1, <3>2
  <2> QED BY <2>2, <2>3
<1>6. ASSUME NEW r \in Requests, Accept(r)
      PROVE  failures'[k].count + Cardinality(Awaiting(k)')
               <= MaxFailures - 1 + Cardinality(Requests)
  <2>1. CASE k = KeyOf(r)
    <3>1. failures'[k].count = 0 BY <1>6, <2>1 DEF Accept, TypeOK, NoFailures
    <3> QED BY <1>1, <3>1
  <2>2. CASE k # KeyOf(r)
    <3>1. failures'[k] = failures[k] BY <1>6, <2>2 DEF Accept, TypeOK
    <3>2. Awaiting(k)' = Awaiting(k) BY <1>6, <2>2, AnswerAwaiting DEF Accept
    <3> QED BY <1>1, <3>1, <3>2
  <2> QED BY <2>1, <2>2
<1>7. CASE Restart
  <2>1. failures'[k].count = 0 BY <1>7 DEF Restart, NoFailures
  <2>2. /\ Cardinality(Awaiting(k)') <= Cardinality(Requests)
        /\ MaxFailures \in Nat \ {0} /\ Cardinality(Requests) \in Nat
        /\ Cardinality(Awaiting(k)') \in Nat
    BY <1>1
  <2> QED BY <2>1, <2>2
<1>8. CASE Tick \/ UNCHANGED vars
  <2>1. failures' = failures /\ Awaiting(k)' = Awaiting(k)
    BY <1>8 DEF Tick, vars, Awaiting, KeyOf
  <2> QED BY <1>1, <2>1
<1> QED BY <1>2, <1>3, <1>4, <1>5, <1>6, <1>7, <1>8
        DEF Next, Begin, Finish, RejectCredentials, RejectTotp

\* However the requests interleave with the database, the failures counted for a
\* key exceed MaxFailures - 1 by at most the number of requests in progress.
THEOREM OvershootIsBounded == Spec => []OvershootBounded
<1>1. Init => TypeOK /\ OvershootBounded BY TypeInit, OvershootInit
<1>2. TypeOK /\ OvershootBounded /\ [Next]_vars => TypeOK' /\ OvershootBounded'
  BY TypeStep, OvershootStep
<1> QED BY <1>1, <1>2, PTL DEF Spec
----
(***************************************************************************)
(* The memory of used codes.                                               *)
(***************************************************************************)

\* ReplayInv for one login, in a form the provers read.
LEMMA ReplayInvUse ==
    ASSUME TypeOK, ReplayInv, NEW p \in accepted
    PROVE  /\ p[1] \in Accounts /\ Lower[p[1]] \in Emails /\ p[2] \in Codes /\ p[3] \in Nat
           /\ p[3] <= Step
           /\ p[3] \in StepsOf[p[1]][p[2]]
           /\ p[3] = Step =>
                /\ usedTotp[Lower[p[1]]].at <= now
                /\ usedTotp[Lower[p[1]]].at \div StepSeconds = Step
                /\ <<p[1], usedTotp[Lower[p[1]]].code, Step>> \in accepted
                /\ usedTotp[Lower[p[1]]].code \in Codes
                /\ Remembered(Lower[p[1]]) = usedTotp[Lower[p[1]]]
<1>1. p[1] \in Accounts /\ Lower[p[1]] \in Emails /\ p[2] \in Codes /\ p[3] \in Nat
  BY AddressAssumption DEF TypeOK
<1>2. /\ p[3] <= Step
      /\ p[3] \in StepsOf[p[1]][p[2]]
      /\ p[3] = Step => /\ usedTotp[Lower[p[1]]].at <= now
                        /\ usedTotp[Lower[p[1]]].at \div StepSeconds = Step
                        /\ <<p[1], usedTotp[Lower[p[1]]].code, Step>> \in accepted
  BY DEF ReplayInv
<1>3. p[3] = Step => usedTotp[Lower[p[1]]].code \in Codes BY <1>2 DEF TypeOK
<1>4. p[3] = Step => Remembered(Lower[p[1]]) = usedTotp[Lower[p[1]]]
  BY <1>1, <1>2, <1>3, CodesAssumption, MemoryOutlivesStep
<1> QED BY <1>1, <1>2, <1>3, <1>4

\* The strengthened invariant gives the property.
LEMMA ReplayInvImplies == TypeOK /\ ReplayInv => AcceptedCodeRemembered
BY ReplayInvUse DEF AcceptedCodeRemembered

\* Steps that leave the memory, the history and the clock alone keep the
\* invariant.
LEMMA ReplayInvSame ==
    ASSUME ReplayInv, UNCHANGED <<now, usedTotp, accepted>>
    PROVE  ReplayInv'
BY DEF ReplayInv, Step

LEMMA ReplayInvStep ==
    ASSUME TypeOK, ReplayInv, [Next]_vars
    PROVE  ReplayInv'
<1>1. ASSUME NEW r \in Requests, RejectTotp(r) PROVE ReplayInv'
  <2> DEFINE l == Lower[req[r].email]
  <2>1. usedTotp' = [usedTotp EXCEPT ![l] = Remembered(l)] /\ UNCHANGED <<now, accepted>>
    BY <1>1 DEF RejectTotp, Reject
  <2>2. ASSUME NEW p \in accepted, p[3] = Step
        PROVE  usedTotp'[Lower[p[1]]] = usedTotp[Lower[p[1]]]
    BY <2>1, <2>2, ReplayInvUse DEF TypeOK
  <2>3. Step' = Step BY <2>1 DEF Step
  <2> SUFFICES ASSUME NEW p \in accepted
               PROVE  /\ p[3] <= Step
                      /\ p[3] \in StepsOf[p[1]][p[2]]
                      /\ p[3] = Step =>
                           /\ usedTotp'[Lower[p[1]]].at <= now
                           /\ usedTotp'[Lower[p[1]]].at \div StepSeconds = Step
                           /\ <<p[1], usedTotp'[Lower[p[1]]].code, Step>> \in accepted
    BY <2>1, <2>3 DEF ReplayInv
  <2> QED BY <2>2, ReplayInvUse
<1>2. ASSUME NEW r \in Requests, Accept(r) PROVE ReplayInv'
  <2> DEFINE e == req[r].email
             c == req[r].code
  <2>1. /\ e \in Accounts /\ Lower[e] \in Emails /\ c \in Codes /\ now \in Nat
        /\ Step \in StepsOf[e][c]
        /\ usedTotp' = [usedTotp EXCEPT ![Lower[e]] = [code |-> c, at |-> now]]
        /\ accepted' = accepted \cup {<<e, c, Step>>} /\ now' = now
    BY <1>2, KeysOfRequests DEF Accept, CodeIsCurrent, TypeOK
  <2>2. usedTotp'[Lower[e]] = [code |-> c, at |-> now] BY <2>1 DEF TypeOK
  <2>3. Step' = Step /\ Step \in Nat /\ Step = now \div StepSeconds
    BY <2>1, KeysOfRequests DEF Step
  <2> SUFFICES ASSUME NEW p \in accepted'
               PROVE  /\ p[3] <= Step
                      /\ p[3] \in StepsOf[p[1]][p[2]]
                      /\ p[3] = Step =>
                           /\ usedTotp'[Lower[p[1]]].at <= now
                           /\ usedTotp'[Lower[p[1]]].at \div StepSeconds = Step
                           /\ <<p[1], usedTotp'[Lower[p[1]]].code, Step>> \in accepted'
    BY <2>1, <2>3 DEF ReplayInv
  <2>4. p[1] = e => /\ usedTotp'[Lower[p[1]]].at <= now
                    /\ usedTotp'[Lower[p[1]]].at \div StepSeconds = Step
                    /\ <<p[1], usedTotp'[Lower[p[1]]].code, Step>> \in accepted'
    BY <2>1, <2>2, <2>3
  <2>5. CASE p = <<e, c, Step>> BY <2>1, <2>3, <2>4, <2>5
  <2>6. CASE p \in accepted /\ p[1] = e BY <2>4, <2>6, ReplayInvUse
  <2>7. CASE p \in accepted /\ p[1] # e
    <3>1. Lower[p[1]] # Lower[e] BY <2>1, <2>7, ReplayInvUse, AddressAssumption
    <3>2. usedTotp'[Lower[p[1]]] = usedTotp[Lower[p[1]]]
      BY <2>1, <2>7, <3>1, ReplayInvUse DEF TypeOK
    <3> QED BY <2>1, <2>7, <3>2, ReplayInvUse
  <2> QED BY <2>1, <2>5, <2>6, <2>7
<1>3. CASE Restart BY <1>3 DEF Restart, ReplayInv
<1>4. CASE Tick
  <2>1. /\ now' = now + 1 /\ now \in Nat /\ UNCHANGED <<usedTotp, accepted>>
    BY <1>4 DEF Tick, TypeOK
  <2>2. Step \in Nat /\ Step' \in Nat /\ Step <= Step' BY <2>1, StepsAdvance DEF Step
  <2> SUFFICES ASSUME NEW p \in accepted
               PROVE  /\ p[3] <= Step'
                      /\ p[3] \in StepsOf[p[1]][p[2]]
                      /\ p[3] = Step' =>
                           /\ usedTotp[Lower[p[1]]].at <= now'
                           /\ usedTotp[Lower[p[1]]].at \div StepSeconds = Step'
                           /\ <<p[1], usedTotp[Lower[p[1]]].code, Step'>> \in accepted
    BY <2>1 DEF ReplayInv
  <2>3. p[3] \in Nat /\ p[3] <= Step /\ p[3] \in StepsOf[p[1]][p[2]]
        /\ usedTotp[Lower[p[1]]].at \in Nat
    BY ReplayInvUse DEF TypeOK
  <2>4. CASE p[3] = Step'
    \* The step has not ended.
    <3>1. Step' = Step /\ p[3] = Step BY <2>2, <2>3, <2>4
    <3>2. /\ usedTotp[Lower[p[1]]].at <= now
          /\ usedTotp[Lower[p[1]]].at \div StepSeconds = Step
          /\ <<p[1], usedTotp[Lower[p[1]]].code, Step>> \in accepted
      BY <3>1, ReplayInvUse
    <3>3. usedTotp[Lower[p[1]]].at <= now' BY <2>1, <2>3, <3>2
    <3> QED BY <2>2, <2>3, <3>1, <3>2, <3>3
  <2> QED BY <2>2, <2>3, <2>4
<1>5. CASE UNCHANGED <<now, usedTotp, accepted>> BY <1>5, ReplayInvSame
<1> QED BY <1>1, <1>2, <1>3, <1>4, <1>5
        DEF Next, Begin, Finish, Block, Admit, LookupFails, RejectCredentials, Reject, vars

LEMMA ReplayInvInit == Init => ReplayInv
BY DEF Init, ReplayInv

LEMMA ReplayAlways == Spec => [](TypeOK /\ ReplayInv)
<1>1. Init => TypeOK /\ ReplayInv BY TypeInit, ReplayInvInit
<1>2. TypeOK /\ ReplayInv /\ [Next]_vars => TypeOK' /\ ReplayInv'
  BY TypeStep, ReplayInvStep
<1> QED BY <1>1, <1>2, PTL DEF Spec

\* For the rest of its step the guard remembers a code the account has logged in with.
THEOREM AcceptedCodesAreRemembered == Spec => []AcceptedCodeRemembered
BY ReplayAlways, ReplayInvImplies, PTL

\* A request that logs in has done so by Accept.
LEMMA LoginsAreAccepted ==
    ASSUME TypeOK, [Next]_vars, NEW r \in Requests, req[r].phase = "lookup", req'[r].phase = "ok"
    PROVE  Accept(r)
<1>1. ASSUME NEW q \in Requests, NEW p \in {"blocked", "lookup", "failed"},
             NEW ip, NEW e, NEW c, Enter(q, p, ip, e, c) \/ Answer(q, p)
      PROVE  req'[r].phase # "ok"
  BY <1>1 DEF Enter, Answer, TypeOK, Request
<1>2. ASSUME NEW q \in Requests, Begin(q) PROVE FALSE
  BY <1>1, <1>2 DEF Begin, Block, Admit
<1>3. ASSUME NEW q \in Requests, LookupFails(q) \/ Reject(q) PROVE FALSE
  BY <1>1, <1>3 DEF LookupFails, Reject
<1>4. ASSUME NEW q \in Requests, Accept(q), q # r PROVE FALSE
  BY <1>4 DEF Accept, Answer, TypeOK
<1>5. ~Restart
  <2>1. req[r] \in Request BY DEF TypeOK
  <2>2. [req[r] EXCEPT !.phase = "idle"].phase = "idle" BY <2>1 DEF Request
  <2> QED BY <2>2 DEF Restart
<1>6. ~Tick /\ ~UNCHANGED vars BY DEF Tick, vars
<1> QED BY <1>2, <1>3, <1>4, <1>5, <1>6 DEF Next, Finish, RejectCredentials, RejectTotp

\* No code logs an account in again within its step unless it is spelled in another way
\* than the last time: whatever else is sent, one spelling is good for one login.
THEOREM ReuseIsRespelled == Spec => ReuseNeedsRespelling
<1>1. ASSUME TypeOK, ReplayInv, [Next]_vars, NEW r \in Requests,
             req[r].phase = "lookup", req'[r].phase = "ok",
             <<req[r].email, req[r].code, Step>> \in accepted
      PROVE  \E d \in Codes : /\ d # req[r].code
                               /\ StepsOf[req[r].email][d] = StepsOf[req[r].email][req[r].code]
                               /\ <<req[r].email, d, Step>> \in accepted
  <2> DEFINE a == req[r].email
             c == req[r].code
             d == usedTotp[Lower[a]].code
  <2>1. ~IsReplay(Lower[a], c) /\ Step \in StepsOf[a][c]
    BY <1>1, LoginsAreAccepted DEF Accept, CodeIsCurrent
  <2>2. /\ a \in Accounts /\ c \in Codes
        /\ <<a, d, Step>> \in accepted /\ d \in Codes
        /\ Remembered(Lower[a]) = usedTotp[Lower[a]]
    <3> DEFINE p == <<a, c, Step>>
    <3>1. p \in accepted /\ p[1] = a /\ p[2] = c /\ p[3] = Step BY <1>1
    <3> QED BY <1>1, <3>1, ReplayInvUse
  <2>3. d # c BY <2>1, <2>2 DEF IsReplay
  <2>4. Step \in StepsOf[a][d]
    <3> DEFINE p == <<a, d, Step>>
    <3>1. p \in accepted /\ p[1] = a /\ p[2] = d /\ p[3] = Step BY <2>2
    <3> QED BY <1>1, <3>1, ReplayInvUse
  <2>5. StepsOf[a][d] = StepsOf[a][c] BY <2>1, <2>2, <2>4, CodesAssumption
  <2> QED BY <2>2, <2>3, <2>5
<1>2. TypeOK /\ ReplayInv /\ [Next]_vars
      => [\A r \in Requests :
            LET a == req[r].email  c == req[r].code IN
            req[r].phase = "lookup" /\ req'[r].phase = "ok" /\ <<a, c, Step>> \in accepted
            => \E d \in Codes :
                 d # c /\ StepsOf[a][d] = StepsOf[a][c] /\ <<a, d, Step>> \in accepted]_vars
  BY <1>1
<1> QED BY <1>2, ReplayAlways, PTL DEF Spec, ReuseNeedsRespelling
----
(***************************************************************************)
(* The lockout.                                                            *)
(***************************************************************************)

\* What one step can do to the entry of a locked key: nothing, one failure
\* more in the same window, or dropping it with a login or a restart.
LEMMA LockedKeyStep ==
    ASSUME TypeOK, [Next]_vars, NEW k \in Keys, IsLocked(k)
    PROVE  \/ failures'[k] = failures[k] /\ now' \in {now, now + 1}
           \/ failures'[k] = [failures[k] EXCEPT !.count = @ + 1] /\ now' = now
           \/ Restart /\ failures'[k] = NoFailures
           \/ /\ \E r \in Requests :
                   req[r].phase = "lookup" /\ req'[r].phase = "ok" /\ KeyOf(r) = k
              /\ failures'[k] = NoFailures
<1>1. ASSUME NEW r \in Requests, Begin(r) PROVE failures'[k] = failures[k] /\ now' = now
  BY <1>1 DEF Begin, Block, Admit, TypeOK
<1>2. ASSUME NEW r \in Requests, LookupFails(r) PROVE failures' = failures /\ now' = now
  BY <1>2 DEF LookupFails
<1>3. ASSUME NEW r \in Requests, Reject(r)
      PROVE  \/ failures'[k] = failures[k] /\ now' = now
             \/ failures'[k] = [failures[k] EXCEPT !.count = @ + 1] /\ now' = now
  <2>1. failures'[k] = IF k = KeyOf(r) THEN Recorded(k) ELSE failures[k]
    BY <1>3 DEF Reject, TypeOK
  <2>2. Recorded(k) = [failures[k] EXCEPT !.count = @ + 1]
    BY LimitsAssumption DEF IsLocked, Recorded
  <2> QED BY <1>3, <2>1, <2>2 DEF Reject
<1>4. ASSUME NEW r \in Requests, Accept(r)
      PROVE  \/ failures'[k] = failures[k] /\ now' = now
             \/ /\ req[r].phase = "lookup" /\ req'[r].phase = "ok" /\ KeyOf(r) = k
                /\ failures'[k] = NoFailures
  <2>1. req[r].phase = "lookup" /\ req'[r].phase = "ok"
    BY <1>4 DEF Accept, Answer, TypeOK, Request
  <2>2. failures'[k] = IF k = KeyOf(r) THEN NoFailures ELSE failures[k]
    BY <1>4 DEF Accept, TypeOK
  <2> QED BY <1>4, <2>1, <2>2 DEF Accept
<1>5. Restart => failures'[k] = NoFailures BY DEF Restart
<1>6. Tick => failures'[k] = failures[k] /\ now' = now + 1 BY DEF Tick
<1>7. UNCHANGED vars => failures'[k] = failures[k] /\ now' = now BY DEF vars
<1> QED BY <1>1, <1>2, <1>3, <1>4, <1>5, <1>6, <1>7
        DEF Next, Finish, RejectCredentials, RejectTotp

\* No failure of a request admitted before the lockout moves its end.
THEOREM LockoutWindowIsFixed == Spec => LockoutIsFixedWindow
<1>1. ASSUME TypeOK, [Next]_vars, NEW k \in Keys, IsLocked(k), IsLocked(k)'
      PROVE  failures'[k].start = failures[k].start
  <2>1. failures'[k] # NoFailures
    BY <1>1, LimitsAssumption DEF IsLocked, NoFailures
  <2> QED BY <1>1, <2>1, LockedKeyStep DEF TypeOK
<1>2. TypeOK /\ [Next]_vars
      => [\A k \in Keys :
            IsLocked(k) /\ IsLocked(k)' => failures'[k].start = failures[k].start]_vars
  BY <1>1
<1> QED BY <1>2, TypeCorrect, PTL DEF Spec, LockoutIsFixedWindow

\* A lockout ends with its window, with a restart, or with the login of a
\* request that was already waiting for the database.
THEOREM LockoutIsHeld == Spec => LockoutHolds
<1>1. ASSUME TypeOK, [Next]_vars, NEW k \in Keys, IsLocked(k), ~IsLocked(k)'
      PROVE  \/ now' - failures[k].start > LockoutSeconds
             \/ Restart
             \/ \E r \in Requests :
                  req[r].phase = "lookup" /\ req'[r].phase = "ok" /\ KeyOf(r) = k
  <2>1. /\ failures[k].count \in Nat /\ failures[k].start \in Nat /\ now \in Nat
        /\ MaxFailures \in Nat \ {0} /\ LockoutSeconds \in Nat
    BY LimitsAssumption, <1>1 DEF TypeOK
  <2>2. CASE failures'[k] = failures[k] /\ now' \in {now, now + 1}
    BY <1>1, <2>1, <2>2 DEF IsLocked, WindowOver
  <2>3. CASE failures'[k] = [failures[k] EXCEPT !.count = @ + 1] /\ now' = now
    <3>1. failures'[k].count = failures[k].count + 1 /\ failures'[k].start = failures[k].start
      BY <1>1, <2>3 DEF TypeOK
    <3> QED BY <1>1, <2>1, <2>3, <3>1 DEF IsLocked, WindowOver
  <2> QED BY <1>1, <2>2, <2>3, LockedKeyStep
<1>2. TypeOK /\ [Next]_vars
      => [\A k \in Keys :
            IsLocked(k) /\ ~IsLocked(k)'
            => \/ now' - failures[k].start > LockoutSeconds
               \/ Restart
               \/ \E r \in Requests :
                    req[r].phase = "lookup" /\ req'[r].phase = "ok" /\ KeyOf(r) = k]_vars
  BY <1>1
<1> QED BY <1>2, TypeCorrect, PTL DEF Spec, LockoutHolds
----
(***************************************************************************)
(* Every step of Sessions is a step of Login or none.                      *)
(***************************************************************************)

LEMMA StepsAreLogins ==
    ASSUME [SessionNext]_allVars
    PROVE  [Next]_vars
<1>1. CASE SessionNext
  <2>1. ASSUME NEW r \in Requests, Arrive(r) PROVE Next
    BY <2>1 DEF Arrive, Next
  <2>2. ASSUME NEW r \in Requests, ReadRow(r) PROVE UNCHANGED vars
    BY <2>2 DEF ReadRow
  <2>3. ASSUME NEW r \in Requests, Refuse(r) \/ Grant(r) PROVE Next
    BY <2>3 DEF Refuse, Grant, Next, Finish
  <2>4. CASE ChangeAccount BY <2>4 DEF ChangeAccount
  <2>5. CASE Reconfigure BY <2>5 DEF Reconfigure, Next
  <2>6. CASE SessionTick BY <2>6 DEF SessionTick, Next
  <2> QED BY <1>1, <2>1, <2>2, <2>3, <2>4, <2>5, <2>6 DEF SessionNext
<1>2. CASE UNCHANGED allVars BY <1>2 DEF allVars, vars
<1> QED BY <1>1, <1>2

\* The system with its accounts, tokens and settings implements module Login: the
\* guard is driven by no step Login does not know (routes.py:183-228).
THEOREM LoginIsImplemented == SessionSpec => Spec
<1>1. SessionInit => Init BY DEF SessionInit
<1>2. [SessionNext]_allVars => [Next]_vars BY StepsAreLogins
<1> QED BY <1>1, <1>2, PTL DEF SessionSpec, Spec

\* What module Login promises of the guard it keeps in the whole: a memory of used codes
\* that only another spelling gets past, a bounded overshoot, a lockout of one fixed
\* window that nothing else lifts.
THEOREM GuardHoldsInSessions ==
    SessionSpec => /\ []OvershootBounded /\ []AcceptedCodeRemembered
                   /\ ReuseNeedsRespelling /\ LockoutIsFixedWindow /\ LockoutHolds
BY LoginIsImplemented, OvershootIsBounded, AcceptedCodesAreRemembered, ReuseIsRespelled,
   LockoutWindowIsFixed, LockoutIsHeld, PTL

----
(***************************************************************************)
(* Types.                                                                  *)
(***************************************************************************)

LEMMA SessionTypeInit == SessionInit => SessionTypeOK
BY TypeInit, SMT DEF SessionInit, SessionTypeOK, Status

\* A request that is answered is no longer looked up; the others do as before.
LEMMA Answered ==
    ASSUME TypeOK, NEW r \in Requests,
           Refuse(r) \/ Grant(r)
    PROVE  /\ \A q \in Requests : q # r => req'[q] = req[q]
           /\ req[r].phase = "lookup"
           /\ now' = now
BY DEF Refuse, Grant, LookupFails, RejectCredentials, RejectTotp, Reject, Accept, Answer,
       TypeOK, Request

LEMMA NewTokenType ==
    ASSUME SessionTypeOK, NEW e \in Accounts, NEW role \in Status
    PROVE  NewToken(e, role) \in Token
<1>1. settings.secret \in Secrets /\ settings.bind \in Bindings
  BY DEF SessionTypeOK, Secrets, Bindings
<1>2. now + ExpireSeconds \in Nat BY SessionLimitsAssumption DEF SessionTypeOK, TypeOK
<1> QED BY <1>1, <1>2 DEF NewToken, Token

LEMMA SessionTypeStep ==
    ASSUME SessionTypeOK, [SessionNext]_allVars
    PROVE  SessionTypeOK'
<1>1. TypeOK' BY TypeStep, StepsAreLogins DEF SessionTypeOK
<1>2. CASE SessionNext
  <2>1. ASSUME NEW r \in Requests, Arrive(r) PROVE SessionTypeOK'
    <3>1. \A q \in Requests : q # r => req'[q] = req[q]
      BY <2>1 DEF Arrive, Begin, Block, Admit, Enter, SessionTypeOK, TypeOK
    <3>2. req[r].phase # "lookup" /\ now' = now
      BY <2>1 DEF Arrive, Begin, Block, Admit, Enter
    <3> QED BY <1>1, <2>1, <3>1, <3>2 DEF Arrive, sessionVars, SessionTypeOK
  <2>2. ASSUME NEW r \in Requests, ReadRow(r) PROVE SessionTypeOK'
    <3>1. row'[r] \in Row /\ row'[r].at = now
      BY <2>2 DEF ReadRow, SessionTypeOK, TypeOK, Row
    <3>2. row' \in [Requests -> Row \cup {None}] BY <2>2, <3>1 DEF ReadRow, SessionTypeOK
    <3>3. \A q \in Requests : q # r => row'[q] = row[q] BY <2>2 DEF ReadRow, SessionTypeOK
    <3>4. UNCHANGED <<req, now>> BY <2>2 DEF ReadRow, vars
    <3>5. now \in Nat BY DEF SessionTypeOK, TypeOK
    <3> QED BY <1>1, <2>2, <3>1, <3>2, <3>3, <3>4, <3>5 DEF ReadRow, SessionTypeOK
  <2>3. ASSUME NEW r \in Requests, Refuse(r) \/ Grant(r) PROVE SessionTypeOK'
    <3>1. row' = [row EXCEPT ![r] = None] BY <2>3 DEF Refuse, Grant, Forget
    <3>2. /\ row' \in [Requests -> Row \cup {None}]
          /\ \A q \in Requests : row'[q] # None => req'[q].phase = "lookup" /\ row'[q].at <= now'
      BY <2>3, <3>1, Answered DEF SessionTypeOK
    <3>3. ASSUME Grant(r) PROVE session' \in Token \cup {None}
      <4>1. req[r].email \in Accounts BY <3>3 DEF Grant, Accept
      <4>2. row[r].status \in Status BY <3>3 DEF Grant, Status
      <4> QED BY <3>3, <4>1, <4>2, NewTokenType DEF Grant, SessionTypeOK
    <3>4. ASSUME Grant(r) PROVE minted' \in Configurations BY <3>4 DEF Grant, SessionTypeOK
    <3> QED BY <1>1, <2>3, <3>2, <3>3, <3>4 DEF Refuse, Grant, SessionTypeOK
  <2>4. CASE ChangeAccount
    <3>1. UNCHANGED vars BY <2>4 DEF ChangeAccount
    <3>2. account' \in [Accounts -> Status] /\ lastAdmin' \in [Accounts -> Nat \cup {None}]
      BY <2>4 DEF ChangeAccount, SessionTypeOK, TypeOK
    <3>3. changes' \in Nat BY <2>4 DEF ChangeAccount, SessionTypeOK
    <3> QED BY <1>1, <2>4, <3>1, <3>2, <3>3 DEF ChangeAccount, SessionTypeOK, vars
  <2>5. CASE Reconfigure
    <3>1. row' \in [Requests -> Row \cup {None}] /\ \A r \in Requests : row'[r] = None
      BY <2>5 DEF Reconfigure
    <3> QED BY <1>1, <2>5, <3>1 DEF Reconfigure, SessionTypeOK
  <2>6. CASE SessionTick
    <3>1. now' \in Nat /\ now <= now' /\ now \in Nat
      BY <1>1, <2>6 DEF SessionTick, Tick, SessionTypeOK, TypeOK
    <3>2. lastAdmin' \in [Accounts -> Nat \cup {None}]
      BY <2>6, <3>1 DEF SessionTick, SessionTypeOK
    <3>3. \A r \in Requests : row'[r] # None => req'[r].phase = "lookup" /\ row'[r].at <= now'
      <4> SUFFICES ASSUME NEW r \in Requests, row'[r] # None
                   PROVE  req'[r].phase = "lookup" /\ row'[r].at <= now'
        OBVIOUS
      <4>1. row'[r] = row[r] /\ req'[r] = req[r] BY <2>6 DEF SessionTick, Tick
      <4>2. row[r] \in Row BY <4>1 DEF SessionTypeOK
      <4>3. row[r].at \in Nat /\ row[r].at <= now BY <4>1, <4>2 DEF SessionTypeOK, Row
      <4> QED BY <3>1, <4>1, <4>3 DEF SessionTypeOK
    <3> QED BY <1>1, <2>6, <3>2, <3>3 DEF SessionTick, SessionTypeOK
  <2> QED BY <1>2, <2>1, <2>2, <2>3, <2>4, <2>5, <2>6 DEF SessionNext
<1>3. CASE UNCHANGED allVars BY <1>1, <1>3 DEF allVars, SessionTypeOK
<1> QED BY <1>2, <1>3

\* Every reachable state is well typed; a row that was read belongs to a request that
\* still waits for it.
THEOREM SessionTypeCorrect == SessionSpec => []SessionTypeOK
<1>1. SessionTypeOK /\ [SessionNext]_allVars => SessionTypeOK' BY SessionTypeStep
<1> QED BY <1>1, SessionTypeInit, PTL DEF SessionSpec

----
(***************************************************************************)
(* Access.                                                                 *)
(***************************************************************************)

\* An account that is an active admin was one just now; any other was one no later.
AdminsSeen ==
    \A a \in Accounts :
        /\ account[a] = "admin" => lastAdmin[a] = now
        /\ lastAdmin[a] # None => lastAdmin[a] <= now

\* A row that says admin was read when the account was one, and is answered in time.
RowInv ==
    \A r \in Requests : row[r] # None =>
        /\ now <= row[r].at + AnswerSeconds
        /\ row[r].status = "admin" =>
             /\ req[r].email \in Accounts
             /\ lastAdmin[req[r].email] # None /\ row[r].at <= lastAdmin[req[r].email]

\* The session carries what it was minted under, and expires when a token minted from
\* the last row that could say admin expires.
SessionInv ==
    session # None =>
        /\ session.secret = minted.secret /\ session.bind = minted.bind
        /\ session.role = "admin" =>
             /\ lastAdmin[session.sub] # None
             /\ session.exp <= lastAdmin[session.sub] + AnswerSeconds + ExpireSeconds

\* The inductive invariant.
AccessInv == SessionTypeOK /\ AdminsSeen /\ RowInv /\ SessionInv

LEMMA AccessInit == SessionInit => AccessInv
BY SessionTypeInit, NoneAssumption DEF SessionInit, Init, AccessInv, AdminsSeen, RowInv, SessionInv

\* Nothing but time and a change of the account moves lastAdmin, and it only grows.
LEMMA LastAdminGrows ==
    ASSUME AccessInv, [SessionNext]_allVars
    PROVE  \A a \in Accounts :
             lastAdmin[a] # None => lastAdmin'[a] # None /\ lastAdmin[a] <= lastAdmin'[a]
<1> USE NoneAssumption DEF AccessInv, SessionTypeOK, TypeOK, AdminsSeen
<1> SUFFICES ASSUME NEW a \in Accounts, lastAdmin[a] # None
             PROVE  lastAdmin'[a] # None /\ lastAdmin[a] <= lastAdmin'[a]
  OBVIOUS
<1>1. lastAdmin[a] \in Nat /\ now \in Nat /\ lastAdmin[a] <= now OBVIOUS
<1>2. CASE UNCHANGED lastAdmin BY <1>1, <1>2
<1>3. CASE ChangeAccount BY <1>1, <1>3 DEF ChangeAccount
<1>4. CASE SessionTick BY <1>1, <1>4 DEF SessionTick, Tick
<1>5. UNCHANGED lastAdmin \/ ChangeAccount \/ SessionTick
  BY DEF SessionNext, allVars, sessionVars, Arrive, ReadRow, Refuse, Grant, Reconfigure
<1> QED BY <1>2, <1>3, <1>4, <1>5

\* What is neither touched by the step nor overtaken by the clock stays right.
LEMMA SessionKept ==
    ASSUME AccessInv, [SessionNext]_allVars, UNCHANGED <<session, minted>>
    PROVE  SessionInv'
<1> SUFFICES ASSUME session # None, session.role = "admin"
             PROVE  /\ lastAdmin'[session.sub] # None
                    /\ session.exp <= lastAdmin'[session.sub] + AnswerSeconds + ExpireSeconds
  BY DEF AccessInv, SessionInv
<1>1. session.sub \in Accounts /\ session.exp \in Nat
  BY DEF AccessInv, SessionTypeOK, Token
<1>2. /\ lastAdmin[session.sub] # None
      /\ session.exp <= lastAdmin[session.sub] + AnswerSeconds + ExpireSeconds
  BY DEF AccessInv, SessionInv
<1>3. lastAdmin'[session.sub] # None /\ lastAdmin[session.sub] <= lastAdmin'[session.sub]
  BY <1>1, <1>2, LastAdminGrows
<1>4. lastAdmin[session.sub] \in Nat /\ lastAdmin'[session.sub] \in Nat
  BY <1>1, <1>2, <1>3, SessionTypeStep DEF AccessInv, SessionTypeOK
<1> QED BY <1>1, <1>2, <1>3, <1>4, SessionLimitsAssumption

\* The rows of requests that the step does not touch stay right while the clock stands.
LEMMA RowKept ==
    ASSUME AccessInv, [SessionNext]_allVars, now' = now,
           NEW r \in Requests, row'[r] # None, row'[r] = row[r], req'[r] = req[r]
    PROVE  /\ now' <= row'[r].at + AnswerSeconds
           /\ row'[r].status = "admin" =>
                /\ req'[r].email \in Accounts
                /\ lastAdmin'[req'[r].email] # None
                /\ row'[r].at <= lastAdmin'[req'[r].email]
<1>1. row[r] \in Row BY DEF AccessInv, SessionTypeOK
<1>2. row[r].at \in Nat BY <1>1 DEF Row
<1>3. now <= row[r].at + AnswerSeconds BY DEF AccessInv, RowInv
<1>4. ASSUME row[r].status = "admin"
      PROVE  /\ req[r].email \in Accounts
             /\ lastAdmin'[req[r].email] # None
             /\ row[r].at <= lastAdmin'[req[r].email]
  <2>1. /\ req[r].email \in Accounts
        /\ lastAdmin[req[r].email] # None /\ row[r].at <= lastAdmin[req[r].email]
    BY <1>4 DEF AccessInv, RowInv
  <2>2. /\ lastAdmin'[req[r].email] # None
        /\ lastAdmin[req[r].email] <= lastAdmin'[req[r].email]
    BY <2>1, LastAdminGrows
  <2>3. lastAdmin[req[r].email] \in Nat /\ lastAdmin'[req[r].email] \in Nat
    BY <2>1, <2>2, SessionTypeStep DEF AccessInv, SessionTypeOK
  <2> QED BY <1>2, <2>1, <2>2, <2>3
<1> QED BY <1>3, <1>4

LEMMA AccessStep ==
    ASSUME AccessInv, [SessionNext]_allVars
    PROVE  AccessInv'
<1> USE NoneAssumption, SessionLimitsAssumption
<1>1. SessionTypeOK' BY SessionTypeStep DEF AccessInv
<1>2. now \in Nat /\ now' \in Nat BY <1>1 DEF AccessInv, SessionTypeOK, TypeOK
<1>3. CASE SessionNext
  <2>1. ASSUME NEW r \in Requests, Arrive(r) PROVE AccessInv'
    <3>1. UNCHANGED sessionVars /\ now' = now /\ \A q \in Requests : q # r => req'[q] = req[q]
      BY <2>1 DEF Arrive, Begin, Block, Admit, Enter, AccessInv, SessionTypeOK, TypeOK
    <3>2. row[r] = None
      BY <2>1 DEF Arrive, Begin, Block, Admit, Enter, AccessInv, SessionTypeOK
    <3>3. RowInv' BY <3>1, <3>2, RowKept DEF RowInv, sessionVars
    <3>4. SessionInv' BY <3>1, SessionKept DEF sessionVars
    <3>5. AdminsSeen' BY <3>1 DEF AccessInv, AdminsSeen, sessionVars
    <3> QED BY <1>1, <3>3, <3>4, <3>5 DEF AccessInv
  <2>2. ASSUME NEW r \in Requests, ReadRow(r) PROVE AccessInv'
    <3>1. /\ UNCHANGED <<vars, account, session, settings, changes, minted, lastAdmin>>
          /\ row' = [row EXCEPT ![r] =
                 [status |-> IF req[r].email \in Accounts THEN account[req[r].email] ELSE None,
                  at |-> now]]
      BY <2>2 DEF ReadRow
    <3>2. \A q \in Requests : q # r => row'[q] = row[q]
      BY <3>1 DEF AccessInv, SessionTypeOK
    <3>3. /\ row'[r].at = now
          /\ row'[r].status = IF req[r].email \in Accounts THEN account[req[r].email] ELSE None
      BY <3>1 DEF AccessInv, SessionTypeOK
    <3>4. AdminsSeen' BY <3>1 DEF AccessInv, AdminsSeen, vars
    <3>5. SessionInv' BY <3>1, SessionKept
    <3>6. UNCHANGED <<req, now>> BY <3>1 DEF vars
    <3>7. ASSUME row'[r].status = "admin", row'[r] # None
          PROVE  /\ req[r].email \in Accounts
                 /\ lastAdmin[req[r].email] = now
      <4>1. req[r].email \in Accounts
        <5>1. SUFFICES ASSUME req[r].email \notin Accounts PROVE FALSE OBVIOUS
        <5>2. None = "admin" BY <3>3, <3>7, <5>1
        <5> QED BY <5>2
      <4> QED BY <3>3, <3>7, <4>1 DEF AccessInv, AdminsSeen
    <3>8. RowInv'
      <4> SUFFICES ASSUME NEW q \in Requests, row'[q] # None
                   PROVE  /\ now' <= row'[q].at + AnswerSeconds
                          /\ row'[q].status = "admin" =>
                               /\ req'[q].email \in Accounts
                               /\ lastAdmin'[req'[q].email] # None
                               /\ row'[q].at <= lastAdmin'[req'[q].email]
        BY DEF RowInv
      <4>1. CASE q = r BY <1>2, <3>1, <3>3, <3>6, <3>7, <4>1
      <4>2. CASE q # r BY <3>2, <3>6, <4>2, RowKept
      <4> QED BY <4>1, <4>2
    <3> QED BY <1>1, <3>4, <3>5, <3>8 DEF AccessInv
  <2>3. ASSUME NEW r \in Requests, Refuse(r) \/ Grant(r) PROVE AccessInv'
    <3>1. /\ row' = [row EXCEPT ![r] = None] /\ now' = now
          /\ UNCHANGED <<account, lastAdmin>>
          /\ \A q \in Requests : q # r => req'[q] = req[q]
      BY <2>3, Answered DEF Refuse, Grant, Forget, AccessInv, SessionTypeOK
    <3>2. RowInv'
      <4>1. /\ row'[r] = None
            /\ \A q \in Requests : q # r => row'[q] = row[q]
        BY <3>1 DEF AccessInv, SessionTypeOK
      <4> QED BY <3>1, <4>1, RowKept DEF RowInv
    <3>3. AdminsSeen' BY <3>1 DEF AccessInv, AdminsSeen
    <3>4. SessionInv'
      <4>1. CASE UNCHANGED <<session, minted>> BY <4>1, SessionKept
      <4>2. CASE /\ Grant(r) /\ session' = NewToken(req[r].email, row[r].status)
                 /\ minted' = settings
        <5>1. /\ session'.secret = minted'.secret /\ session'.bind = minted'.bind
              /\ session'.role = row[r].status /\ session'.sub = req[r].email
              /\ session'.exp = now + ExpireSeconds
          BY <4>2 DEF NewToken
        <5>2. ASSUME row[r].status = "admin"
              PROVE  /\ lastAdmin[req[r].email] # None
                     /\ now + ExpireSeconds <= lastAdmin[req[r].email] + AnswerSeconds + ExpireSeconds
          <6>1. row[r] # None BY <4>2 DEF Grant
          <6>2. row[r].at \in Nat BY <6>1 DEF AccessInv, SessionTypeOK, Row
          <6>3. /\ now <= row[r].at + AnswerSeconds /\ req[r].email \in Accounts
                /\ lastAdmin[req[r].email] # None /\ row[r].at <= lastAdmin[req[r].email]
            BY <5>2, <6>1 DEF AccessInv, RowInv
          <6>4. lastAdmin[req[r].email] \in Nat BY <6>3 DEF AccessInv, SessionTypeOK
          <6> QED BY <1>2, <6>2, <6>3, <6>4
        <5> QED BY <3>1, <5>1, <5>2 DEF SessionInv
      <4> QED BY <2>3, <4>1, <4>2 DEF Refuse, Grant
    <3> QED BY <1>1, <3>2, <3>3, <3>4 DEF AccessInv
  <2>4. CASE ChangeAccount
    <3>1. UNCHANGED <<row, session, minted>> /\ UNCHANGED <<req, now>>
      BY <2>4 DEF ChangeAccount, vars
    <3>2. AdminsSeen'
      <4>1. PICK a \in Accounts, s \in Status :
              /\ s # account[a]
              /\ account' = [account EXCEPT ![a] = s]
              /\ lastAdmin' = IF s = "admin" \/ account[a] = "admin"
                              THEN [lastAdmin EXCEPT ![a] = now] ELSE lastAdmin
        BY <2>4 DEF ChangeAccount
      <4> QED BY <1>2, <3>1, <4>1 DEF AccessInv, AdminsSeen, SessionTypeOK
    <3> QED BY <1>1, <3>1, <3>2, RowKept, SessionKept DEF AccessInv, RowInv
  <2>5. CASE Reconfigure
    <3>1. /\ UNCHANGED <<account, session, minted, lastAdmin>> /\ now' = now
          /\ \A r \in Requests : row'[r] = None
      BY <2>5 DEF Reconfigure, Restart
    <3> QED BY <1>1, <3>1, SessionKept DEF AccessInv, RowInv, AdminsSeen
  <2>6. CASE SessionTick
    <3>1. /\ UNCHANGED <<account, row, session, minted, req>> /\ now' = now + 1
          /\ \A r \in Requests : row[r] # None => now < row[r].at + AnswerSeconds
          /\ lastAdmin' = [a \in Accounts |-> IF account[a] = "admin" THEN now' ELSE lastAdmin[a]]
      BY <2>6 DEF SessionTick, Tick
    <3>2. AdminsSeen' BY <1>2, <3>1 DEF AccessInv, AdminsSeen, SessionTypeOK
    <3>3. RowInv'
      <4> SUFFICES ASSUME NEW r \in Requests, row[r] # None
                   PROVE  /\ now' <= row[r].at + AnswerSeconds
                          /\ row[r].status = "admin" =>
                               /\ req[r].email \in Accounts
                               /\ lastAdmin'[req[r].email] # None
                               /\ row[r].at <= lastAdmin'[req[r].email]
        BY <3>1 DEF RowInv
      <4>1. row[r].at \in Nat BY DEF AccessInv, SessionTypeOK, Row
      <4>2. ASSUME row[r].status = "admin"
            PROVE  /\ req[r].email \in Accounts
                   /\ lastAdmin'[req[r].email] # None
                   /\ row[r].at <= lastAdmin'[req[r].email]
        <5>1. /\ req[r].email \in Accounts
              /\ lastAdmin[req[r].email] # None /\ row[r].at <= lastAdmin[req[r].email]
          BY <4>2 DEF AccessInv, RowInv
        <5>2. /\ lastAdmin'[req[r].email] # None
              /\ lastAdmin[req[r].email] <= lastAdmin'[req[r].email]
          BY <5>1, LastAdminGrows
        <5>3. lastAdmin[req[r].email] \in Nat /\ lastAdmin'[req[r].email] \in Nat
          BY <1>1, <5>1, <5>2 DEF AccessInv, SessionTypeOK
        <5> QED BY <4>1, <5>1, <5>2, <5>3
      <4> QED BY <1>2, <3>1, <4>1, <4>2
    <3> QED BY <1>1, <3>1, <3>2, <3>3, SessionKept DEF AccessInv
  <2> QED BY <1>3, <2>1, <2>2, <2>3, <2>4, <2>5, <2>6 DEF SessionNext
<1>4. CASE UNCHANGED allVars
  BY <1>1, <1>4, SessionKept DEF AccessInv, allVars, AdminsSeen, RowInv
<1> QED BY <1>3, <1>4

LEMMA AccessAlways == SessionSpec => []AccessInv
<1>1. AccessInv /\ [SessionNext]_allVars => AccessInv' BY AccessStep
<1> QED BY <1>1, AccessInit, PTL DEF SessionSpec

\* Whoever can use a route of an admin holds a token of an account that was an active
\* admin less than a token's life, and the time a login takes to answer, ago.
THEOREM AccessIsBounded == SessionSpec => []AccessEndsInTime
<1>1. AccessInv => AccessEndsInTime
  <2> SUFFICES ASSUME AccessInv, session # None, Gate("admin", session) = 200
               PROVE  /\ lastAdmin[session.sub] # None
                      /\ now < lastAdmin[session.sub] + AnswerSeconds + ExpireSeconds
    BY DEF AccessEndsInTime
  <2>1. Decodes(session) /\ session.role = "admin" BY DEF Gate
  <2>2. now < session.exp BY <2>1 DEF Decodes
  <2>3. /\ lastAdmin[session.sub] # None
        /\ session.exp <= lastAdmin[session.sub] + AnswerSeconds + ExpireSeconds
    BY <2>1 DEF AccessInv, SessionInv
  <2>4. session.sub \in Accounts /\ session.exp \in Nat BY DEF AccessInv, SessionTypeOK, Token
  <2>5. lastAdmin[session.sub] \in Nat /\ now \in Nat
    BY <2>3, <2>4 DEF AccessInv, SessionTypeOK, TypeOK
  <2> QED BY <2>2, <2>3, <2>4, <2>5, SessionLimitsAssumption
<1> QED BY <1>1, AccessAlways, PTL

\* No restart that keeps the secret, and binds no claim anew, ends a session early.
THEOREM RestartsKeepSessions == SessionSpec => []SessionsSurvive
<1>1. AccessInv => SessionsSurvive
  <2> SUFFICES ASSUME AccessInv, session # None, now < session.exp,
                      settings.secret = minted.secret,
                      \A c \in Claims : settings.bind[c] \in {None, minted.bind[c]}
               PROVE  Gate("logout", session) = 200
    BY DEF SessionsSurvive
  <2>1. session.secret = minted.secret /\ session.bind = minted.bind
    BY DEF AccessInv, SessionInv
  <2>2. Decodes(session) BY <2>1 DEF Decodes
  <2> QED BY <2>2 DEF Gate
<1> QED BY <1>1, AccessAlways, PTL
====
