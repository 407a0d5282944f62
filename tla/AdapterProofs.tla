---------------------------- MODULE AdapterProofs ----------------------------
(***************************************************************************)
(* Proofs about the two modules of the adapters' side.  FrigateEvidence:   *)
(* every answer is earned and nothing is left open, for any number of      *)
(* callers, retries and connections; the invariant speaks of one caller at *)
(* a time, and a step of another one leaves all it mentions as it was.     *)
(* PluginRegistry: stop_all reaches every plugin and a handle held is that *)
(* of a running instance that was never given up, for any number of        *)
(* plugins, whatever they report.                                          *)
(***************************************************************************)
EXTENDS FrigateEvidence, PluginRegistry, FiniteSetTheorems, TLAPS

(* What a caller holds at each point of its request.                       *)
Holds(c) ==
  /\ open[c] \in {0, 1}
  /\ pc[c] \in {"start", "checking", "asking", "done"} => open[c] = 0
  /\ pc[c] = "receiving" => open[c] = 1
  /\ c \in client <=> AtFrigate(c)
  /\ pc[c] \in {"start", "done"} => c \notin connections
  /\ c \in connections => kind[c] # "smoke" /\ (AtFrigate(c) => kind[c] = "evidence")

(* Every attempt but the one going on has failed, and the login comes      *)
(* before the first.                                                       *)
Counts(c) ==
  /\ pc[c] \in {"start", "checking", "asking", "receiving"} =>
       failures[c] = attempt[c] /\ attempt[c] <= MaxRetries
  /\ pc[c] = "waiting" => failures[c] = attempt[c] + 1 /\ failures[c] <= MaxRetries
  /\ NeedsLogin(c) /\ pc[c] # "done" => attempt[c] = 0 /\ pc[c] \notin {"receiving", "waiting"}

(* The part of AnswersAreEarned about one caller.                          *)
Earned(c) ==
  /\ failures[c] <= MaxRetries + 1
  /\ last[c] # "none" =>
       /\ answer[c] \in {"200", "passed"} => last[c] \in {"image", "missing"}
       /\ last[c] = "image" => answer[c] \in {"200", "passed"}
       /\ (answer[c] = "503") = (kind[c] # "smoke" /\ Unavailable(c))
       /\ last[c] \in Transient => failures[c] = MaxRetries + 1
  /\ answer[c] = "500" => last[c] \in {"broken", "unnamed"} \/ starvers[c] # {}
  /\ \A h \in starvers[c] : kind[h] = "evidence"

Answered(c) ==
  IF pc[c] = "done" THEN Earned(c)
  ELSE /\ answer[c] = "none" /\ starvers[c] = {}
       /\ pc[c] \in {"start", "checking"} => last[c] = "none"

IInv == TypeOK /\ \A c \in Caller : Holds(c) /\ Counts(c) /\ Answered(c)

(* Nothing that the invariant says of d is changed.                        *)
SameFor(d) ==
  /\ pc'[d] = pc[d] /\ open'[d] = open[d] /\ attempt'[d] = attempt[d]
  /\ failures'[d] = failures[d] /\ last'[d] = last[d] /\ answer'[d] = answer[d]
  /\ starvers'[d] = starvers[d] /\ logged_in'[d] = logged_in[d]
  /\ d \in client' <=> d \in client
  /\ d \in connections' <=> d \in connections

Others(c) == \A d \in Caller \ {c} : SameFor(d)

-----------------------------------------------------------------------------
(* A caller whose part of the state stays as it is keeps what is known of  *)
(* it.                                                                     *)
LEMMA StaysHeld ==
  ASSUME NEW d \in Caller, SameFor(d), kind' = kind, Holds(d), Counts(d), Answered(d)
  PROVE  Holds(d)' /\ Counts(d)' /\ Answered(d)'
<1>1. Holds(d)'
  BY DEF SameFor, Holds, AtFrigate
<1>2. Counts(d)'
  BY DEF SameFor, Counts, NeedsLogin
<1>3. Answered(d)'
  BY DEF SameFor, Answered, Earned, Unavailable
<1>. QED
  BY <1>1, <1>2, <1>3

(* Nobody has asked yet.                                                   *)
LEMMA InitIInv == Init => IInv
<1> SUFFICES ASSUME Init
             PROVE  IInv
  OBVIOUS
<1>1. TypeOK
  BY DEF Init, TypeOK
<1>2. ASSUME NEW c \in Caller
      PROVE  Holds(c) /\ Counts(c) /\ Answered(c)
  BY <1>2, FrigateAssumption DEF Init, Holds, Counts, Answered, AtFrigate, NeedsLogin
<1>. QED
  BY <1>1, <1>2 DEF IInv

-----------------------------------------------------------------------------
(* The end of a request: what it answers, and that it gives all back.      *)
LEMMA EndKeeps ==
  ASSUME IInv, NEW c \in Caller, NEW reply \in Ending,
         EndRequest(c, reply), UNCHANGED kind
  PROVE  TypeOK' /\ Others(c)
<1>1. CASE MayGoOn(c, reply) /\ AskAgain(c)
  <2>1. TypeOK'
    BY <1>1 DEF IInv, TypeOK, EndRequest, AskAgain, Goto, Closed
  <2>2. Others(c)
    BY <1>1 DEF IInv, TypeOK, EndRequest, AskAgain, Goto, Others, SameFor
  <2>. QED
    BY <2>1, <2>2
<1>2. CASE Leave(c, reply)
  <2>1. Status(c, reply) \in {"200", "404", "500", "502", "503", "passed", "failed"}
    BY DEF Status, ErrorStatus
  <2>2. failures' \in [Caller -> Nat]
    BY <1>2, FrigateAssumption DEF IInv, TypeOK, EndRequest, Leave, AskAgain, FailuresAfter, Failures
  <2>3. TypeOK'
    BY <1>2, <2>1, <2>2 DEF IInv, TypeOK, EndRequest, Leave, AskAgain, Answer, Goto, Closed
  <2>4. Others(c)
    BY <1>2 DEF IInv, TypeOK, EndRequest, Leave, AskAgain, Answer, Goto, Others, SameFor
  <2>. QED
    BY <2>3, <2>4
<1>. QED
  BY <1>1, <1>2 DEF EndRequest

(* A reply that ends a request closes what it had open, and is one of a    *)
(* kind its answer may be.                                                 *)
LEMMA EndIsEarned ==
  ASSUME IInv, NEW c \in Caller, NEW reply \in Ending,
         pc[c] \in {"asking", "receiving"}, EndRequest(c, reply), UNCHANGED kind,
         reply \in Transient => failures[c] = MaxRetries,
         reply = "login_silence" => failures[c] = 0
  PROVE  Holds(c)' /\ Counts(c)' /\ Answered(c)'
<1>0. /\ Holds(c) /\ Counts(c) /\ Answered(c)
      /\ pc \in [Caller -> {"start", "checking", "asking", "receiving", "waiting", "done"}]
      /\ connections \subseteq Caller /\ client \subseteq Caller
      /\ attempt \in [Caller -> Nat] /\ open \in [Caller -> Nat] /\ failures \in [Caller -> Nat]
      /\ DOMAIN last = Caller /\ DOMAIN answer = Caller /\ DOMAIN starvers = Caller
  BY DEF IInv, TypeOK
<1>1. /\ open'[c] = 0 /\ last'[c] = reply /\ starvers'[c] = {} /\ kind'[c] = kind[c]
      /\ failures[c] <= MaxRetries /\ answer[c] = "none"
  BY <1>0 DEF EndRequest, Closed, Holds, Counts, Answered
<1>2. CASE MayGoOn(c, reply) /\ AskAgain(c)
  <2>1. /\ pc'[c] = "asking" /\ attempt'[c] = 0 /\ failures'[c] = 0
        /\ UNCHANGED <<client, connections, answer>>
    BY <1>0, <1>2 DEF AskAgain, Goto
  <2>2. Holds(c)'
    BY <1>0, <1>1, <2>1 DEF Holds, AtFrigate
  <2>3. Counts(c)'
    BY <2>1, FrigateAssumption DEF Counts, NeedsLogin
  <2>4. Answered(c)'
    BY <1>1, <2>1 DEF Answered
  <2>. QED
    BY <2>2, <2>3, <2>4
<1>3. CASE /\ Leave(c, reply)
           /\ failures' = [failures EXCEPT ![c] = FailuresAfter(c, reply)]
  <2>1. /\ pc'[c] = "done" /\ answer'[c] = Status(c, reply)
        /\ c \notin client' /\ c \notin connections'
    BY <1>0, <1>3 DEF Leave, Answer, Goto
  <2>2. Holds(c)'
    BY <1>1, <2>1 DEF Holds, AtFrigate
  <2>3. Counts(c)'
    BY <2>1 DEF Counts
  <2>4. /\ failures'[c] <= MaxRetries + 1
        /\ reply \in Transient => failures'[c] = MaxRetries + 1
        /\ reply = "login_silence" => failures'[c] = 1
    BY <1>0, <1>1, <1>3, FrigateAssumption DEF FailuresAfter, Failures, TransientLogin
  <2>5. /\ Status(c, reply) \in {"200", "passed"} => reply \in {"image", "missing"}
        /\ reply = "image" => Status(c, reply) \in {"200", "passed"}
        /\ Status(c, reply) = "503" =>
             kind[c] # "smoke" /\ reply \in Transient \cup {"login_silence"}
        /\ kind[c] # "smoke" /\ reply \in Transient \cup {"login_silence"} =>
             Status(c, reply) = "503"
        /\ Status(c, reply) = "500" => reply \in {"broken", "unnamed"}
    BY DEF Status, ErrorStatus, Tolerated, Transient
  <2>6. Earned(c)'
    BY <1>1, <2>1, <2>4, <2>5 DEF Earned, Unavailable
  <2>7. Answered(c)'
    BY <2>1, <2>6 DEF Answered
  <2>. QED
    BY <2>2, <2>3, <2>7
<1>. QED
  BY <1>2, <1>3 DEF EndRequest

-----------------------------------------------------------------------------
(* So a request may end in every way, and a transient reply may end it     *)
(* when all the attempts were made.                                        *)
LEMMA EndStep ==
  ASSUME IInv, NEW c \in Caller, NEW reply \in Ending,
         pc[c] \in {"asking", "receiving"}, EndRequest(c, reply), UNCHANGED kind,
         reply \in Transient => failures[c] = MaxRetries,
         reply = "login_silence" => failures[c] = 0
  PROVE  IInv'
<1>1. TypeOK' /\ Others(c)
  BY EndKeeps
<1>2. Holds(c)' /\ Counts(c)' /\ Answered(c)'
  BY EndIsEarned
<1>3. ASSUME NEW d \in Caller \ {c}
      PROVE  Holds(d)' /\ Counts(d)' /\ Answered(d)'
  BY <1>1, <1>3, StaysHeld DEF Others, IInv
<1>. QED
  BY <1>1, <1>2, <1>3 DEF IInv

(* A failed attempt closes its response, and is counted before the next    *)
(* one begins.                                                             *)
LEMMA FailStep ==
  ASSUME IInv, NEW c \in Caller, NEW reply \in {"silence", "busy", "cut"},
         pc[c] = IF reply = "cut" THEN "receiving" ELSE "asking",
         ~ NeedsLogin(c), Fail(c, reply), UNCHANGED kind
  PROVE  IInv'
<1>0. /\ Holds(c) /\ Counts(c) /\ Answered(c)
      /\ attempt[c] \in Nat /\ failures[c] \in Nat /\ open[c] \in Nat
      /\ reply \in Transient /\ reply \in Ending /\ reply # "login_silence"
  BY DEF IInv, TypeOK, Transient, Reply, Ending
<1>1. CASE GivesUp(c)
  <2>1. EndRequest(c, reply) /\ failures[c] = MaxRetries
    BY <1>0, <1>1, FrigateAssumption DEF Fail, GivesUp, Counts
  <2>. QED
    BY <1>0, <2>1, EndStep
<1>2. CASE ~ GivesUp(c)
  <2>1. /\ failures' = [failures EXCEPT ![c] = Failures(c)]
        /\ open' = [open EXCEPT ![c] = OpenAfter(c, reply)]
        /\ last' = [last EXCEPT ![c] = reply] /\ Goto(c, "waiting")
        /\ UNCHANGED <<connections, logged_in, attempt, client, calls, answer, starvers>>
    BY <1>2 DEF Fail
  <2>2. /\ Failures(c) = failures[c] + 1 /\ failures[c] = attempt[c] /\ attempt[c] < MaxRetries
        /\ OpenAfter(c, reply) \in {0, 1}
    BY <1>0, <1>2, FrigateAssumption DEF Failures, Counts, GivesUp, OpenAfter, Holds
  <2>3. TypeOK' /\ Others(c)
    BY <1>0, <2>1, <2>2 DEF IInv, TypeOK, Goto, Others, SameFor
  <2>4. /\ pc'[c] = "waiting" /\ open'[c] \in {0, 1} /\ failures'[c] = failures[c] + 1
        /\ answer'[c] = answer[c]
    BY <2>1, <2>2 DEF IInv, TypeOK, Goto
  <2>5. Holds(c)'
    BY <1>0, <2>1, <2>4 DEF Holds, AtFrigate
  <2>6. Counts(c)'
    BY <1>0, <2>1, <2>2, <2>4, FrigateAssumption DEF Counts, NeedsLogin
  <2>7. Answered(c)'
    BY <1>0, <2>1, <2>4 DEF Answered
  <2>8. ASSUME NEW d \in Caller \ {c}
        PROVE  Holds(d)' /\ Counts(d)' /\ Answered(d)'
    BY <2>3, <2>8, StaysHeld DEF Others, IInv
  <2>. QED
    BY <2>3, <2>5, <2>6, <2>7, <2>8 DEF IInv
<1>. QED
  BY <1>1, <1>2

-----------------------------------------------------------------------------
(* A connection that nobody gets is held by the evidence route.            *)
LEMMA TimeoutStep ==
  ASSUME IInv, NEW c \in Caller, PoolTimeout(c), UNCHANGED kind
  PROVE  IInv'
<1>0. /\ Holds(c) /\ Counts(c) /\ Answered(c)
      /\ pc[c] = "start" /\ pc'[c] = "done" /\ answer'[c] = "500"
      /\ starvers'[c] = connections /\ connections \subseteq Caller
      /\ UNCHANGED <<connections, session>>
  BY DEF IInv, TypeOK, PoolTimeout, Answer, Goto
<1>1. connections # {}
  BY FrigateAssumption, FS_EmptySet DEF PoolTimeout
<1>2. \A h \in connections : kind[h] = "evidence"
  BY <1>0 DEF PoolTimeout, IInv, Holds
<1>3. TypeOK' /\ Others(c)
  BY <1>0 DEF IInv, TypeOK, PoolTimeout, Answer, Goto, session, Others, SameFor
<1>4. Holds(c)' /\ Counts(c)'
  BY <1>0 DEF Holds, Counts, AtFrigate, session
<1>5. Earned(c)'
  <2>1. /\ last'[c] = "none" /\ failures'[c] = failures[c] /\ failures[c] \in Nat
        /\ failures[c] <= MaxRetries /\ kind' = kind
    BY <1>0 DEF Answered, Counts, session, IInv, TypeOK
  <2>2. failures'[c] <= MaxRetries + 1
    BY <2>1, FrigateAssumption
  <2>. QED
    BY <1>0, <1>1, <1>2, <2>1, <2>2 DEF Earned
<1>6. Answered(c)'
  BY <1>0, <1>5 DEF Answered
<1>7. ASSUME NEW d \in Caller \ {c}
      PROVE  Holds(d)' /\ Counts(d)' /\ Answered(d)'
  BY <1>3, <1>7, StaysHeld DEF Others, IInv
<1>. QED
  BY <1>3, <1>4, <1>6, <1>7 DEF IInv

(* The evidence route refuses before it asks, and gives its connection     *)
(* back.                                                                   *)
LEMMA RefuseStep ==
  ASSUME IInv, NEW c \in Caller, Refuse(c), UNCHANGED kind
  PROVE  IInv'
<1>. PICK a \in Refusal(c) : Answer(c, a)
  BY DEF Refuse
<1>0. /\ Holds(c) /\ Counts(c) /\ Answered(c)
      /\ a \in {"403", "404", "409"}
      /\ pc[c] = "checking" /\ pc'[c] = "done" /\ answer'[c] = a
      /\ connections' = connections \ {c} /\ UNCHANGED <<session, starvers>>
  BY DEF IInv, TypeOK, Refuse, Answer, Goto, Refusal
<1>3. TypeOK' /\ Others(c)
  BY <1>0 DEF IInv, TypeOK, Answer, Goto, session, Others, SameFor
<1>4. Holds(c)' /\ Counts(c)'
  BY <1>0 DEF Holds, Counts, AtFrigate, session
<1>5. Answered(c)'
  <2>1. /\ last'[c] = "none" /\ failures'[c] = failures[c] /\ failures[c] \in Nat
        /\ failures[c] <= MaxRetries /\ starvers'[c] = {}
    BY <1>0 DEF Answered, Counts, session, IInv, TypeOK
  <2>2. failures'[c] <= MaxRetries + 1
    BY <2>1, FrigateAssumption
  <2>. QED
    BY <1>0, <2>1, <2>2 DEF Answered, Earned
<1>7. ASSUME NEW d \in Caller \ {c}
      PROVE  Holds(d)' /\ Counts(d)' /\ Answered(d)'
  BY <1>3, <1>7, StaysHeld DEF Others, IInv
<1>. QED
  BY <1>3, <1>4, <1>5, <1>7 DEF IInv

(* The steps that answer nothing.                                          *)
LEMMA OtherStep ==
  ASSUME IInv, NEW c \in Caller, UNCHANGED kind,
         \/ TakeConnection(c) \/ OpenClient(c) \/ Login(c) \/ Accepted(c) \/ WakeUp(c)
  PROVE  IInv'
<1>0. /\ Holds(c) /\ Counts(c) /\ Answered(c)
      /\ pc \in [Caller -> {"start", "checking", "asking", "receiving", "waiting", "done"}]
      /\ connections \subseteq Caller /\ client \subseteq Caller
      /\ attempt \in [Caller -> Nat] /\ open \in [Caller -> Nat] /\ failures \in [Caller -> Nat]
      /\ DOMAIN logged_in = Caller
  BY DEF IInv, TypeOK
<1>1. CASE TakeConnection(c)
  <2>1. TypeOK' /\ Others(c)
    BY <1>1 DEF IInv, TypeOK, TakeConnection, Goto, session, Others, SameFor
  <2>2. Holds(c)' /\ Counts(c)' /\ Answered(c)'
    BY <1>0, <1>1 DEF TakeConnection, Goto, session, Holds, Counts, Answered, AtFrigate, NeedsLogin
  <2>. QED
    BY <2>1, <2>2, StaysHeld DEF Others, IInv
<1>2. CASE OpenClient(c)
  <2>1. TypeOK' /\ Others(c)
    BY <1>2 DEF IInv, TypeOK, OpenClient, Goto, Others, SameFor
  <2>2. Holds(c)' /\ Counts(c)' /\ Answered(c)'
    BY <1>0, <1>2 DEF OpenClient, HoldsConnection, Goto, Holds, Counts, Answered, AtFrigate, NeedsLogin
  <2>. QED
    BY <2>1, <2>2, StaysHeld DEF Others, IInv
<1>3. CASE Login(c)
  <2>1. TypeOK' /\ Others(c)
    BY <1>3 DEF IInv, TypeOK, Login, Others, SameFor
  <2>2. Holds(c)' /\ Counts(c)' /\ Answered(c)'
    BY <1>0, <1>3 DEF Login, Holds, Counts, Answered, AtFrigate, NeedsLogin
  <2>. QED
    BY <2>1, <2>2, StaysHeld DEF Others, IInv
<1>4. CASE Accepted(c)
  <2>1. TypeOK' /\ Others(c)
    BY <1>4 DEF IInv, TypeOK, Accepted, Goto, Others, SameFor
  <2>2. Holds(c)' /\ Counts(c)' /\ Answered(c)'
    BY <1>0, <1>4 DEF Accepted, Asks, Goto, Holds, Counts, Answered, AtFrigate, NeedsLogin
  <2>. QED
    BY <2>1, <2>2, StaysHeld DEF Others, IInv
<1>5. CASE WakeUp(c)
  <2>0. Closed(c) = 0
    BY <1>0 DEF Closed, Holds
  <2>1. /\ pc[c] = "waiting" /\ pc' = [pc EXCEPT ![c] = "asking"]
        /\ open' = [open EXCEPT ![c] = 0] /\ attempt' = [attempt EXCEPT ![c] = attempt[c] + 1]
        /\ UNCHANGED <<connections, logged_in, client, calls, last, failures, answer, starvers>>
    BY <1>5, <2>0 DEF WakeUp, NextAttempt, Goto
  <2>2. TypeOK' /\ Others(c)
    BY <1>0, <2>1 DEF IInv, TypeOK, Others, SameFor
  <2>3. Holds(c)' /\ Counts(c)' /\ Answered(c)'
    BY <1>0, <2>1, FrigateAssumption DEF Holds, Counts, Answered, AtFrigate, NeedsLogin
  <2>. QED
    BY <2>2, <2>3, StaysHeld DEF Others, IInv
<1>. QED
  BY <1>1, <1>2, <1>3, <1>4, <1>5

-----------------------------------------------------------------------------
(* So every step keeps the invariant.                                      *)
LEMMA IInvStep == IInv /\ [Next]_vars => IInv'
<1> SUFFICES ASSUME IInv, [Next]_vars
             PROVE  IInv'
  OBVIOUS
<1>1. CASE UNCHANGED vars
  <2>1. TypeOK' /\ \A d \in Caller : SameFor(d)
    BY <1>1 DEF IInv, TypeOK, vars, session, SameFor
  <2>. QED
    BY <1>1, <2>1, StaysHeld DEF IInv, vars
<1>2. ASSUME NEW c \in Caller, Serve(c)
      PROVE  IInv'
  <2>1. UNCHANGED kind
    BY <1>2 DEF Serve
  <2>2. CASE TakeConnection(c) \/ OpenClient(c) \/ Login(c) \/ Accepted(c) \/ WakeUp(c)
    BY <2>1, <2>2, OtherStep
  <2>3. CASE PoolTimeout(c)
    BY <2>1, <2>3, TimeoutStep
  <2>4. CASE Refuse(c)
    BY <2>1, <2>4, RefuseStep
  <2>5. CASE LoginFails(c)
    <3>. PICK reply \in LoginFailure : EndRequest(c, reply)
      BY <2>5 DEF LoginFails
    <3>1. pc[c] = "asking" /\ failures[c] = 0
      BY <2>5 DEF LoginFails, IInv, Counts
    <3>2. reply \in Ending /\ reply \notin Transient
      BY DEF Ending, LoginFailure, TransientLogin, Transient
    <3>. QED
      BY <2>1, <3>1, <3>2, EndStep
  <2>6. CASE Unanswered(c)
    <3>. PICK reply \in {"silence", "busy"} : Fail(c, reply)
      BY <2>6 DEF Unanswered
    <3>. QED
      BY <2>1, <2>6, FailStep DEF Unanswered, Asks, IInv
  <2>7. CASE CutOff(c)
    BY <2>1, <2>7, FailStep DEF CutOff, IInv, Counts
  <2>8. CASE Refused(c)
    <3>. PICK reply \in {"unauthorized", "missing", "protocol", "broken"} : EndRequest(c, reply)
      BY <2>8 DEF Refused
    <3>. QED
      BY <2>1, <2>8, EndStep DEF Refused, Asks, Ending, Reply, Final, Transient
  <2>9. CASE Received(c)
    <3>. PICK reply \in Content \cup {"too_large", "broken"} : EndRequest(c, reply)
      BY <2>9 DEF Received
    <3>. QED
      BY <2>1, <2>9, EndStep DEF Received, Ending, Reply, Final, Content, Transient
  <2>10. CASE Unnamed(c)
    BY <2>1, <2>10, EndStep DEF Unnamed, Ending, Transient
  <2>. QED
    BY <1>2, <2>2, <2>3, <2>4, <2>5, <2>6, <2>7, <2>8, <2>9, <2>10 DEF Serve
<1>. QED
  BY <1>1, <1>2 DEF Next

(* So the invariant holds, whatever Frigate and the network do.            *)
LEMMA Invariance == Spec => []IInv
<1>. QED
  BY InitIInv, IInvStep, PTL DEF Spec

-----------------------------------------------------------------------------
(* The types of the variables.                                             *)
THEOREM TypeCorrect == Spec => []TypeOK
<1>1. IInv => TypeOK
  BY DEF IInv
<1>. QED
  BY <1>1, Invariance, PTL

(* However requests end, and however many there are, they leave no         *)
(* response, client or connection behind.                                  *)
THEOREM AllClosed == Spec => []NothingLeftOpen
<1>1. IInv => NothingLeftOpen
  BY DEF IInv, TypeOK, NothingLeftOpen, Holds, AtFrigate
<1>. QED
  BY <1>1, Invariance, PTL

(* Whatever Frigate does, for any number of attempts and connections, the  *)
(* answer of a request is what became of it.                               *)
THEOREM HonestAnswers == Spec => []AnswersAreEarned
<1>1. ASSUME IInv, NEW c \in Caller
      PROVE  /\ failures[c] <= MaxRetries + 1
             /\ pc[c] # "done" => answer[c] = "none" /\ starvers[c] = {}
             /\ pc[c] = "done" => Earned(c)
  <2>1. Counts(c) /\ Answered(c) /\ failures[c] \in Nat /\ attempt[c] \in Nat
        /\ pc[c] \in {"start", "checking", "asking", "receiving", "waiting", "done"}
    BY <1>1 DEF IInv, TypeOK
  <2>2. CASE pc[c] = "done"
    BY <2>1, <2>2 DEF Answered, Earned
  <2>3. CASE pc[c] # "done"
    BY <2>1, <2>3, FrigateAssumption DEF Answered, Counts
  <2>. QED
    BY <2>2, <2>3
<1>2. IInv => AnswersAreEarned
  BY <1>1 DEF AnswersAreEarned, Earned
<1>. QED
  BY <1>2, Invariance, PTL

-----------------------------------------------------------------------------
(* The plugin registry.  What a call that has not come to its end has done *)
(* so far: start_all has room for the plugins it has not come to, stop_all *)
(* has marked the ones it has passed, and only a registered plugin has a   *)
(* handle; and nothing was lost that was not started.                      *)
CallSoFar ==
  /\ \A i, j \in DOMAIN plugins : plugins[i] = plugins[j] => i = j
  /\ \A p \in Plugin \ Registered : handle[p] = 0
  /\ call = "start" => at >= 1
  /\ call = "starting" => at \in DOMAIN plugins
  /\ call \in {"start", "starting"} =>
       \A i \in DOMAIN plugins : i >= at => instances[plugins[i]] < MaxInstances
  /\ call = "stop" => \A i \in DOMAIN plugins : i > at => health[plugins[i]] \in {"stopped", "failed"}
  /\ \A p \in Plugin : lost[p] \subseteq 1 .. instances[p]

RegistryInv == RegistryTypeOK /\ CallSoFar /\ HandlesAreLive /\ StopReachesAll

(* A registry begins without plugins.                                      *)
LEMMA RegistryStarts == RegistryInit => RegistryInv
BY PluginAssumption
   DEF RegistryInit, RegistryInv, RegistryTypeOK, PluginState, CallSoFar, HandlesAreLive, StopReachesAll, Registered

(* The plugin a call has come to, and what is the same for all its steps.  *)
LEMMA PluginAt ==
  ASSUME RegistryInv, NEW p \in Plugin, at \in DOMAIN plugins, p = plugins[at]
  PROVE  /\ p \in Registered /\ at \in 1 .. Len(plugins) /\ at \in Nat /\ Len(plugins) \in Nat
         /\ \A i \in DOMAIN plugins : i # at => plugins[i] # p
         /\ \A i \in DOMAIN plugins : plugins[i] \in Plugin /\ i \in 1 .. Len(plugins)
BY DEF RegistryInv, RegistryTypeOK, CallSoFar, Registered

(* register adds a plugin that has no handle yet.                          *)
LEMMA RegisterKeeps ==
  ASSUME RegistryInv, NEW o \in Offer, Register(o)
  PROVE  RegistryInv'
<1>1. /\ o.id \in Plugin /\ o.id \notin Registered /\ call = "none" /\ call' = "none" /\ ended' = "none"
      /\ plugins' = Append(plugins, o.id)
      /\ health' = [health EXCEPT ![o.id] = "registered"]
      /\ UNCHANGED <<handle, at, instances, running, lost>>
  BY PluginAssumption DEF Register, Registrable
<1>2. /\ plugins \in Seq(Plugin) /\ Len(plugins) \in Nat /\ plugins' \in Seq(Plugin)
      /\ Len(plugins') = Len(plugins) + 1
      /\ DOMAIN plugins = 1 .. Len(plugins) /\ DOMAIN plugins' = 1 .. Len(plugins) + 1
      /\ \A i \in DOMAIN plugins : plugins'[i] = plugins[i]
      /\ plugins'[Len(plugins) + 1] = o.id
  BY <1>1 DEF RegistryInv, RegistryTypeOK
<1>3. Registered \subseteq Registered'
  BY <1>2 DEF Registered
<1>4. RegistryTypeOK'
  BY <1>1, <1>2 DEF RegistryInv, RegistryTypeOK, PluginState
<1>5. CallSoFar'
  <2>1. \A i, j \in DOMAIN plugins' : plugins'[i] = plugins'[j] => i = j
    BY <1>1, <1>2 DEF RegistryInv, CallSoFar, Registered
  <2>2. \A p \in Plugin \ Registered' : handle'[p] = 0
    BY <1>1, <1>3 DEF RegistryInv, CallSoFar
  <2>3. \A p \in Plugin : lost'[p] \subseteq 1 .. instances'[p]
    BY <1>1 DEF RegistryInv, CallSoFar
  <2>. QED
    BY <1>1, <2>1, <2>2, <2>3 DEF CallSoFar
<1>6. HandlesAreLive'
  BY <1>1 DEF RegistryInv, RegistryTypeOK, HandlesAreLive
<1>7. StopReachesAll'
  BY <1>1 DEF StopReachesAll
<1>. QED
  BY <1>4, <1>5, <1>6, <1>7 DEF RegistryInv

(* start_all, from one plugin to the next.                                 *)
LEMMA StartKeeps ==
  ASSUME RegistryInv, NEW p \in Plugin,
         BeginStart(p) \/ StartSucceeds(p) \/ StartFails(p) \/ HealthRaises(p)
  PROVE  RegistryInv'
<1> USE DEF RegistryInv, RegistryTypeOK, PluginState
<1>1. /\ call \in {"start", "starting"} /\ at \in DOMAIN plugins /\ p = plugins[at]
      /\ UNCHANGED <<plugins, ended>>
  BY DEF BeginStart, StartSucceeds, StartFails, HealthRaises, Started, CallSoFar
<1>2. /\ at \in 1 .. Len(plugins) /\ at \in Nat /\ Len(plugins) \in Nat /\ p \in Registered
      /\ \A i \in DOMAIN plugins : i # at => plugins[i] # p
      /\ \A i \in DOMAIN plugins : plugins[i] \in Plugin /\ i \in 1 .. Len(plugins)
  BY <1>1, PluginAt
<1>3. instances[p] \in Nat /\ instances[p] + 1 \in 1 .. MaxInstances /\ MaxInstances \in Nat
  <2>1. at >= at /\ MaxInstances \in Nat /\ instances[p] \in 0 .. MaxInstances
    BY <1>2, PluginAssumption
  <2>2. instances[p] < MaxInstances
    BY <1>1, <2>1 DEF CallSoFar
  <2>. QED
    BY <2>1, <2>2
<1>4. CASE BeginStart(p)
  <2>1. RegistryTypeOK'
    BY <1>4 DEF BeginStart
  <2>2. CallSoFar'
    BY <1>1, <1>4 DEF BeginStart, CallSoFar, Registered
  <2>3. HandlesAreLive'
    BY <1>4 DEF BeginStart, HandlesAreLive
  <2>4. StopReachesAll'
    BY <1>4 DEF BeginStart, StopReachesAll
  <2>. QED
    BY <2>1, <2>2, <2>3, <2>4
<1>5. ASSUME call' = "start", at' = at + 1,
             instances' \in [Plugin -> 0 .. MaxInstances], handle' \in [Plugin -> 0 .. MaxInstances],
             health' \in [Plugin -> PluginState],
             running' \in [Plugin -> SUBSET (1 .. MaxInstances)],
             lost' \in [Plugin -> SUBSET (1 .. MaxInstances)],
             \A q \in Plugin \ {p} : /\ instances'[q] = instances[q] /\ handle'[q] = handle[q]
                                     /\ health'[q] = health[q] /\ running'[q] = running[q]
                                     /\ lost'[q] = lost[q],
             handle'[p] # 0 => handle'[p] \in running'[p] /\ handle'[p] = instances'[p],
             running'[p] \ {handle'[p]} \subseteq lost'[p],
             lost'[p] \subseteq 1 .. instances'[p], handle'[p] \notin lost'[p]
      PROVE  RegistryInv'
  <2>1. RegistryTypeOK'
    <3>1. at' \in 0 .. Len(plugins) + 1
      BY <1>2, <1>5
    <3>2. /\ plugins \in Seq(Plugin) /\ ended \in {"none", "start", "stop"}
          /\ plugins' = plugins /\ ended' = ended /\ call' = "start"
      BY <1>1, <1>5
    <3>. QED
      BY ONLY <1>5, <3>1, <3>2 DEF RegistryTypeOK
  <2>2. CallSoFar'
    <3>1. ASSUME NEW i \in DOMAIN plugins, i >= at + 1
          PROVE  instances'[plugins[i]] < MaxInstances
      <4>1. i \in Nat /\ i # at /\ i >= at
        BY <1>2, <3>1
      <4>2. plugins[i] \in Plugin \ {p}
        BY <1>2, <4>1
      <4>3. instances'[plugins[i]] = instances[plugins[i]]
        BY <1>5, <4>2
      <4>. QED
        BY <1>1, <4>1, <4>3 DEF CallSoFar
    <3>2. \A q \in Plugin \ Registered' : handle'[q] = 0
      BY <1>1, <1>2, <1>5 DEF CallSoFar, Registered
    <3>3. \A q \in Plugin : lost'[q] \subseteq 1 .. instances'[q]
      BY <1>5 DEF CallSoFar
    <3>4. at + 1 >= 1 /\ call' = "start"
      BY <1>2, <1>5
    <3>. QED
      BY <1>1, <1>5, <3>1, <3>2, <3>3, <3>4 DEF CallSoFar
  <2>3. HandlesAreLive'
    BY <1>5 DEF HandlesAreLive
  <2>4. StopReachesAll'
    BY <1>5 DEF StopReachesAll
  <2>. QED
    BY <2>1, <2>2, <2>3, <2>4
<1>6. /\ handle[p] # 0 => handle[p] \in running[p] /\ handle[p] = instances[p]
      /\ running[p] \ {handle[p]} \subseteq lost[p]
      /\ lost[p] \subseteq 1 .. instances[p] /\ 0 \notin lost[p]
      /\ handle[p] \in 0 .. MaxInstances
      /\ {handle[p]} \ {0} \subseteq 1 .. instances[p]
  BY <1>3 DEF CallSoFar, HandlesAreLive
<1>7. CASE StartSucceeds(p)
  <2>. PICK reported \in PluginState : health' = [health EXCEPT ![p] = reported]
    BY <1>7 DEF StartSucceeds
  <2>. DEFINE n == instances[p] + 1
  <2>1. /\ instances' = [instances EXCEPT ![p] = n] /\ handle' = [handle EXCEPT ![p] = n]
        /\ running' = [running EXCEPT ![p] = @ \cup {n}]
        /\ lost' = [lost EXCEPT ![p] = @ \cup ({handle[p]} \ {0})]
        /\ call' = "start" /\ at' = at + 1
    BY <1>7 DEF StartSucceeds, Replace, Proceed
  <2>2. /\ n \in 1 .. MaxInstances /\ n # 0 /\ n \notin lost[p] \cup ({handle[p]} \ {0})
        /\ lost[p] \cup ({handle[p]} \ {0}) \subseteq 1 .. n
        /\ lost[p] \cup ({handle[p]} \ {0}) \subseteq 1 .. MaxInstances
    BY <1>3, <1>6
  <2>. HIDE DEF n
  <2>3. health' \in [Plugin -> PluginState]
    OBVIOUS
  <2>4. lost'[p] \subseteq 1 .. instances'[p] /\ handle'[p] \notin lost'[p]
    BY <2>1, <2>2
  <2>5. running'[p] \ {handle'[p]} \subseteq lost'[p] /\ handle'[p] \in running'[p]
    BY <1>6, <2>1
  <2>6. /\ instances' \in [Plugin -> 0 .. MaxInstances] /\ handle' \in [Plugin -> 0 .. MaxInstances]
        /\ running' \in [Plugin -> SUBSET (1 .. MaxInstances)]
        /\ lost' \in [Plugin -> SUBSET (1 .. MaxInstances)]
    BY <1>3, <2>1, <2>2
  <2>7. \A q \in Plugin \ {p} : /\ instances'[q] = instances[q] /\ handle'[q] = handle[q]
                                /\ health'[q] = health[q] /\ running'[q] = running[q]
                                /\ lost'[q] = lost[q]
    BY <2>1
  <2>8. handle'[p] = instances'[p]
    BY <2>1
  <2>. QED
    BY ONLY <1>5, <2>1, <2>3, <2>4, <2>5, <2>6, <2>7, <2>8
<1>8. CASE StartFails(p)
  BY <1>3, <1>5, <1>6, <1>8 DEF StartFails, Replace, MarkFailed, Proceed
<1>9. CASE HealthRaises(p)
  BY <1>3, <1>5, <1>6, <1>9 DEF HealthRaises, MarkFailed, Proceed
<1>. QED
  BY <1>4, <1>7, <1>8, <1>9

(* stop_all, from one plugin to the one registered before it: whatever the *)
(* plugin does, the registry gives the handle up, and what may still run   *)
(* is then lost.                                                           *)
LEMMA StopKeeps ==
  ASSUME RegistryInv, NEW p \in Plugin,
         NothingToStop(p) \/ StopSucceeds(p) \/ StopRaises(p) \/ StopCancelled(p)
  PROVE  RegistryInv'
<1> USE DEF RegistryInv, RegistryTypeOK, PluginState
<1>1. /\ call = "stop" /\ at \in DOMAIN plugins /\ p = plugins[at]
      /\ UNCHANGED <<plugins, instances>>
  BY DEF NothingToStop, StopSucceeds, StopRaises, StopCancelled, Stopping
<1>2. /\ at \in 1 .. Len(plugins) /\ at \in Nat /\ Len(plugins) \in Nat /\ p \in Registered
      /\ \A i \in DOMAIN plugins : i # at => plugins[i] # p
      /\ \A i \in DOMAIN plugins : plugins[i] \in Plugin /\ i \in 1 .. Len(plugins)
  BY <1>1, PluginAt
<1>3. /\ handle' \in [Plugin -> 0 .. MaxInstances] /\ handle'[p] = 0
      /\ health' \in [Plugin -> PluginState]
      /\ running' \in [Plugin -> SUBSET (1 .. MaxInstances)]
      /\ lost' \in [Plugin -> SUBSET (1 .. MaxInstances)]
      /\ \A q \in Plugin \ {p} : /\ handle'[q] = handle[q] /\ health'[q] = health[q]
                                 /\ running'[q] = running[q] /\ lost'[q] = lost[q]
      /\ running'[p] \subseteq lost'[p] /\ lost'[p] \subseteq 1 .. instances[p]
  <2>1. MaxInstances \in Nat /\ 0 \in 0 .. MaxInstances /\ lost[p] \subseteq 1 .. MaxInstances
    BY PluginAssumption
  <2>2. /\ handle[p] # 0 => handle[p] \in running[p] /\ handle[p] \in 1 .. MaxInstances
        /\ handle[p] # 0 => handle[p] \in 1 .. instances[p]
        /\ lost[p] \subseteq 1 .. instances[p]
    BY <2>1 DEF HandlesAreLive, CallSoFar
  <2>3. running[p] \ {handle[p]} \subseteq lost[p] /\ running[p] \subseteq 1 .. MaxInstances
    BY DEF HandlesAreLive
  <2>4. CASE NothingToStop(p)
    BY <2>1, <2>2, <2>3, <2>4 DEF NothingToStop, Stop
  <2>5. CASE StopSucceeds(p)
    BY <2>1, <2>2, <2>3, <2>5 DEF StopSucceeds, Stop, Release, Released
  <2>6. CASE StopRaises(p)
    BY <2>1, <2>2, <2>3, <2>6 DEF StopRaises, Unstopped, Lose, MarkFailed, Release, Released
  <2>7. CASE StopCancelled(p)
    BY <2>1, <2>2, <2>3, <2>7 DEF StopCancelled, Unstopped, Lose, Release, Released
  <2>. QED
    BY <2>4, <2>5, <2>6, <2>7
<1>4. \/ call' = "none" /\ at' = 0 /\ ended' = "none"
      \/ /\ call' = "stop" /\ at' = at - 1 /\ ended' = ended
         /\ health'[p] \in {"stopped", "failed"}
  BY DEF NothingToStop, StopSucceeds, StopRaises, StopCancelled, Stopping, Stop, MarkFailed, AfterFailure
<1>5. ASSUME call' = "stop", NEW i \in DOMAIN plugins, i > at', i # at
      PROVE  /\ i > at
             /\ handle'[plugins[i]] = handle[plugins[i]]
             /\ health'[plugins[i]] = health[plugins[i]]
  <2>1. i \in Nat /\ at' = at - 1
    BY <1>2, <1>4, <1>5
  <2>2. i > at
    BY <1>2, <1>5, <2>1
  <2>3. plugins[i] \in Plugin \ {p}
    BY <1>2, <1>5
  <2>. QED
    BY <1>3, <2>2, <2>3
<1>6. RegistryTypeOK'
  BY <1>1, <1>2, <1>3, <1>4
<1>7. CallSoFar'
  <2>1. \A q \in Plugin \ Registered' : handle'[q] = 0
    BY <1>1, <1>2, <1>3 DEF CallSoFar, Registered
  <2>2. ASSUME call' = "stop", NEW i \in DOMAIN plugins', i > at'
        PROVE  health'[plugins'[i]] \in {"stopped", "failed"}
    <3>1. CASE i = at
      BY <1>1, <1>4, <2>2, <3>1
    <3>2. CASE i # at
      BY <1>1, <1>5, <2>2, <3>2 DEF CallSoFar
    <3>. QED
      BY <3>1, <3>2
  <2>3. \A q \in Plugin : lost'[q] \subseteq 1 .. instances'[q]
    BY <1>1, <1>3 DEF CallSoFar
  <2>. QED
    BY <1>1, <1>4, <2>1, <2>2, <2>3 DEF CallSoFar
<1>8. HandlesAreLive'
  <2>1. ASSUME call' = "stop", NEW i \in DOMAIN plugins', i > at'
        PROVE  handle'[plugins'[i]] = 0
    <3>1. CASE i = at
      BY <1>1, <1>3, <2>1, <3>1
    <3>2. CASE i # at
      BY <1>1, <1>5, <2>1, <3>2 DEF HandlesAreLive
    <3>. QED
      BY <3>1, <3>2
  <2>2. ASSUME NEW q \in Plugin
        PROVE  /\ handle'[q] # 0 => handle'[q] \in running'[q] /\ handle'[q] = instances'[q]
               /\ running'[q] \ {handle'[q]} \subseteq lost'[q]
               /\ handle'[q] \notin lost'[q]
    BY <1>1, <1>3 DEF HandlesAreLive
  <2>. QED
    BY <2>1, <2>2 DEF HandlesAreLive
<1>9. StopReachesAll'
  BY <1>4 DEF StopReachesAll
<1>. QED
  BY <1>6, <1>7, <1>8, <1>9

(* So every step of the registry keeps its invariant.                      *)
LEMMA RegistryStep == RegistryInv /\ [RegistryNext]_registryVars => RegistryInv'
<1> SUFFICES ASSUME RegistryInv, [RegistryNext]_registryVars
             PROVE  RegistryInv'
  OBVIOUS
<1> USE DEF RegistryInv, RegistryTypeOK, PluginState
<1>1. Len(plugins) \in Nat /\ DOMAIN plugins = 1 .. Len(plugins) /\ \A i \in DOMAIN plugins : plugins[i] \in Plugin
  OBVIOUS
<1>2. ASSUME StartAll
      PROVE  RegistryInv'
  <2>1. /\ RegistryTypeOK' /\ HandlesAreLive' /\ StopReachesAll'
    BY <1>1, <1>2 DEF StartAll, HandlesAreLive, StopReachesAll
  <2>2. CallSoFar'
    BY <1>1, <1>2 DEF StartAll, CallSoFar, Registered
  <2>. QED
    BY <2>1, <2>2
<1>3. ASSUME StartAllReturns \/ \E p \in Plugin : StartCancelled(p)
      PROVE  RegistryInv'
  <2>1. /\ call' = "none" /\ at' = 0 /\ ended' \in {"none", "start"}
        /\ UNCHANGED <<plugins, handle, health, instances, running, lost>>
    BY <1>3 DEF StartAllReturns, StartCancelled
  <2>. QED
    BY <1>1, <2>1 DEF CallSoFar, HandlesAreLive, StopReachesAll, Registered
<1>4. ASSUME StopAll
      PROVE  RegistryInv'
  <2>1. RegistryTypeOK' /\ CallSoFar'
    BY <1>1, <1>4 DEF StopAll, CallSoFar, Registered
  <2>2. HandlesAreLive' /\ StopReachesAll'
    BY <1>1, <1>4 DEF StopAll, HandlesAreLive, StopReachesAll
  <2>. QED
    BY <2>1, <2>2
<1>5. ASSUME StopAllReturns
      PROVE  RegistryInv'
  <2>1. /\ call = "stop" /\ at = 0 /\ call' = "none" /\ ended' = "stop"
        /\ UNCHANGED <<plugins, handle, health, at, instances, running, lost>>
    BY <1>5 DEF StopAllReturns
  <2>2. RegistryTypeOK' /\ CallSoFar' /\ HandlesAreLive'
    BY <2>1 DEF CallSoFar, HandlesAreLive, Registered
  <2>3. \A p \in Registered : handle[p] = 0 /\ health[p] \in {"stopped", "failed"}
    BY <1>1, <2>1 DEF Registered, HandlesAreLive, CallSoFar
  <2>4. \A p \in Plugin : handle[p] = 0 /\ running[p] \subseteq lost[p]
    <3>1. \A p \in Plugin : handle[p] = 0
      BY <2>3 DEF CallSoFar
    <3>. QED
      BY <3>1, PluginAssumption DEF HandlesAreLive
  <2>5. StopReachesAll'
    BY <2>1, <2>3, <2>4 DEF StopReachesAll, Registered
  <2>. QED
    BY <2>2, <2>5
<1>6. CASE UNCHANGED registryVars
  BY <1>6 DEF registryVars, CallSoFar, HandlesAreLive, StopReachesAll, Registered
<1>. QED
  BY <1>2, <1>3, <1>4, <1>5, <1>6, RegisterKeeps, StartKeeps, StopKeeps DEF RegistryNext

(* The types of the variables of the registry, for any number of plugins,  *)
(* instances and offers.                                                   *)
THEOREM RegistryTypeCorrect == RegistrySpec => []RegistryTypeOK
BY RegistryStarts, RegistryStep, PTL DEF RegistrySpec, RegistryInv

(* A stop_all that comes to its end has stopped every plugin, or lost      *)
(* track of it for a reason the registry reports (PluginRegistry.stop_all).*)
THEOREM StopReachesEveryPlugin == RegistrySpec => []StopReachesAll
BY RegistryStarts, RegistryStep, PTL DEF RegistrySpec, RegistryInv

(* A handle that is held is that of the newest instance, which runs and    *)
(* was never given up; what else runs is lost (PluginRegistry.start_all    *)
(* and stop_all).                                                          *)
THEOREM HeldHandlesAreLive == RegistrySpec => []HandlesAreLive
BY RegistryStarts, RegistryStep, PTL DEF RegistrySpec, RegistryInv
=============================================================================
