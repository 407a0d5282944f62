--------------------------- MODULE FrigateEvidence ---------------------------
(***************************************************************************)
(* Reading media from Frigate's HTTP API: the retrying client              *)
(* (adapters/frigate/http_client.py) under its three callers, the evidence *)
(* route of the processor API (routes/processor.py, evidence_reader.py),   *)
(* the snapshot route (media_api.py) and the smoke test (http_cli.py).     *)
(* Every caller opens a client of its own; the two routes share a pool of  *)
(* database connections, and the evidence route keeps its connection while *)
(* it waits for Frigate.                                                   *)
(*                                                                         *)
(* Frigate may answer every request with anything, late, or never; timeouts*)
(* of the client make "never" a transient failure.  A query takes less     *)
(* time than a connection may be waited for; what waits for Frigate does   *)
(* not (up to 10 s per attempt and 30 s between two).                      *)
(*                                                                         *)
(* Abstractions: a reply is its class; what the routes check in their      *)
(* tables before they ask Frigate is a choice; Frigate is configured.      *)
(***************************************************************************)
EXTENDS Naturals, FiniteSets

CONSTANTS
  Caller,
  Username,    \* whether a user name is configured, so that a login is needed
  PoolSize,    \* connections of the database engine
  MaxRetries,  \* FrigateHttpConfig.max_retries
  MaxCalls     \* bound: requests that one smoke test makes

ASSUME FrigateAssumption ==
  /\ Username \in BOOLEAN
  /\ PoolSize \in Nat \ {0} /\ MaxRetries \in Nat /\ MaxCalls \in Nat \ {0}

(* Replies by class: RETRYABLE_STATUS, timeouts and network errors are     *)
(* transient; an error of httpx that is neither, as of a server that       *)
(* breaks off its answer, has no handler in the client.                    *)
Transient == {"silence", "busy", "cut"}
Final     == {"unauthorized", "missing", "protocol", "too_large", "broken"}
Content   == {"image", "unfit"}
Reply     == Transient \cup Final \cup Content

\* Logins that fail: no reply, a status of RETRYABLE_STATUS, another one.
TransientLogin == {"login_silence", "login_busy"}
LoginFailure   == TransientLogin \cup {"login_refused"}

\* How a request may end; "unnamed" is one whose id cannot be asked for.
Ending == Reply \cup LoginFailure \cup {"unnamed"}

VARIABLES
  kind,        \* kind[c]: "evidence", "snapshot" or "smoke"; never changes
  pc,          \* pc[c]: where caller c is
  connections, \* callers that hold a database connection
  logged_in,   \* logged_in[c]: FrigateHttpClient._logged_in
  attempt,     \* attempt[c]: the loop variable of _request
  open,        \* open[c]: responses of c that are not closed
  client,      \* callers whose HTTP client is open
  calls,       \* calls[c]: requests that c has completed
  last,        \* last[c]: the latest reply in the current request, or "none"
  failures,    \* history: transient replies in the current request, to its login
               \* too, counted up to one more than can be justified
  answer,      \* answer[c]: the status answered, or the end of the smoke test
  starvers     \* history: who held the connections when c waited in vain

session == <<logged_in, attempt, open, client, calls, last, failures>>
vars    == <<kind, pc, connections, session, answer, starvers>>

Init ==
  /\ kind \in [Caller -> {"evidence", "snapshot", "smoke"}]
  /\ pc = [c \in Caller |-> "start"]
  /\ connections = {} /\ client = {}
  /\ logged_in = [c \in Caller |-> FALSE]
  /\ attempt = [c \in Caller |-> 0]
  /\ open = [c \in Caller |-> 0]
  /\ calls = [c \in Caller |-> 0]
  /\ last = [c \in Caller |-> "none"]
  /\ failures = [c \in Caller |-> 0]
  /\ answer = [c \in Caller |-> "none"]
  /\ starvers = [c \in Caller |-> {}]

-----------------------------------------------------------------------------
(* The database part of the two routes.                                    *)
Goto(c, p) == pc' = [pc EXCEPT ![c] = p]

Answer(c, a) == Goto(c, "done") /\ answer' = [answer EXCEPT ![c] = a]

TakeConnection(c) ==
  /\ pc[c] = "start" /\ kind[c] # "smoke"
  /\ Cardinality(connections) < PoolSize
  /\ connections' = connections \cup {c}
  /\ Goto(c, "checking")
  /\ UNCHANGED <<session, answer, starvers>>

\* Talking to Frigate, or sleeping between two attempts.
AtFrigate(c) == pc[c] \in {"asking", "receiving", "waiting"}

(* QueuePool gives up after its timeout.  Only holders that wait for       *)
(* Frigate take that long.                                                 *)
PoolTimeout(c) ==
  /\ pc[c] = "start" /\ kind[c] # "smoke"
  /\ Cardinality(connections) = PoolSize
  /\ \A h \in connections : AtFrigate(h)
  /\ Answer(c, "500")
  /\ starvers' = [starvers EXCEPT ![c] = connections]
  /\ UNCHANGED <<connections, session>>

(* Job not readable, evidence not granted, observation not found, not a    *)
(* Frigate event, nothing linked.                                          *)
Refusal(c) == IF kind[c] = "evidence" THEN {"403", "404", "409"} ELSE {"404"}

Refuse(c) ==
  /\ pc[c] = "checking"
  /\ connections' = connections \ {c}
  /\ \E a \in Refusal(c) : Answer(c, a)
  /\ UNCHANGED <<session, starvers>>

(* get_session ends with the request; the snapshot route closes its own    *)
(* session before it asks Frigate.                                         *)
HoldsConnection(c) == kind[c] = "evidence"

OpenClient(c) ==
  /\ pc[c] = "checking" \/ (pc[c] = "start" /\ kind[c] = "smoke")
  /\ client' = client \cup {c}
  /\ connections' = IF HoldsConnection(c) THEN connections ELSE connections \ {c}
  /\ Goto(c, "asking")
  /\ UNCHANGED <<logged_in, attempt, open, calls, last, failures, answer, starvers>>

-----------------------------------------------------------------------------
(* What a caller makes of the end of its request.                          *)
ErrorStatus(c, reply) ==
  CASE reply \in Transient \cup {"login_silence"} -> "503"
    [] reply \in {"broken", "unnamed"}              -> "500"
    [] reply = "missing"                            -> "404"
    [] OTHER -> IF kind[c] = "evidence" THEN "404" ELSE "502"

(* The smoke test asks for the version and a list of events, then for what *)
(* belongs to them, which may be missing.                                  *)
Tolerated(c, reply) == reply = "image" \/ (reply = "missing" /\ calls[c] >= 2)

Status(c, reply) ==
  CASE kind[c] = "smoke" -> IF Tolerated(c, reply) THEN "passed" ELSE "failed"
    [] reply = "image"   -> "200"
    [] OTHER             -> ErrorStatus(c, reply)

MayGoOn(c, reply) == kind[c] = "smoke" /\ Tolerated(c, reply) /\ calls[c] + 1 < MaxCalls

MustGoOn(c, reply) == MayGoOn(c, reply) /\ calls[c] = 0

\* Variant: the response is forgotten.
NotClosed(c) == open[c]

\* response.aclose() in the finally of an attempt.
Closed(c) == IF open[c] = 0 THEN 0 ELSE open[c] - 1

Failures(c) == IF failures[c] > MaxRetries + 1 THEN failures[c] ELSE failures[c] + 1

FailuresAfter(c, reply) ==
  IF reply \in Transient \cup TransientLogin THEN Failures(c) ELSE failures[c]

AskAgain(c) ==
  /\ Goto(c, "asking")
  /\ attempt' = [attempt EXCEPT ![c] = 0]
  /\ failures' = [failures EXCEPT ![c] = 0]
  /\ UNCHANGED <<client, connections, answer>>

Leave(c, reply) ==
  /\ Answer(c, Status(c, reply))
  /\ client' = client \ {c}
  /\ connections' = connections \ {c}
  /\ UNCHANGED attempt

(* _request returns or raises: its finally closes the response.  Then the  *)
(* caller asks again, or leaves its client, answers and gives its          *)
(* connection back.                                                        *)
EndRequest(c, reply) ==
  /\ last' = [last EXCEPT ![c] = reply]
  /\ open' = [open EXCEPT ![c] = Closed(c)]
  /\ calls' = [calls EXCEPT ![c] = @ + 1]
  /\ \/ MayGoOn(c, reply) /\ AskAgain(c)
     \/ /\ ~ MustGoOn(c, reply)
        /\ Leave(c, reply)
        /\ failures' = [failures EXCEPT ![c] = FailuresAfter(c, reply)]
  /\ UNCHANGED <<logged_in, starvers>>

(* An id that is empty or too long raises before anything is asked, also   *)
(* the login; the version and the list of the smoke test have none.        *)
Unnamed(c) ==
  /\ pc[c] = "asking" /\ attempt[c] = 0
  /\ IF kind[c] = "smoke" THEN calls[c] >= 2 ELSE ~ logged_in[c]
  /\ EndRequest(c, "unnamed")

NeedsLogin(c) == Username /\ ~ logged_in[c]

(* _ensure_login, once per client and before the attempts.                 *)
Login(c) ==
  /\ pc[c] = "asking" /\ NeedsLogin(c)
  /\ logged_in' = [logged_in EXCEPT ![c] = TRUE]
  /\ UNCHANGED <<pc, connections, attempt, open, client, calls, last, failures, answer,
                 starvers>>

LoginFails(c) ==
  /\ pc[c] = "asking" /\ NeedsLogin(c)
  /\ \E reply \in LoginFailure : EndRequest(c, reply)

-----------------------------------------------------------------------------
(* The loop of _request.                                                   *)
\* Variant: one retry too many.
GivesUpLate(c) == attempt[c] > MaxRetries

GivesUp(c) == attempt[c] >= MaxRetries

\* Responses open while the client sleeps: silence comes without one.
OpenAfter(c, reply) == IF reply = "busy" THEN open[c] + 1 ELSE open[c]

Fail(c, reply) ==
  IF GivesUp(c) THEN EndRequest(c, reply)
  ELSE /\ last' = [last EXCEPT ![c] = reply]
       /\ failures' = [failures EXCEPT ![c] = Failures(c)]
       /\ open' = [open EXCEPT ![c] = OpenAfter(c, reply)]
       /\ Goto(c, "waiting")
       /\ UNCHANGED <<connections, logged_in, attempt, client, calls, answer, starvers>>

Asks(c) == pc[c] = "asking" /\ ~ NeedsLogin(c)

(* No response, or one whose status ends the attempt.                      *)
Unanswered(c) == Asks(c) /\ \E reply \in {"silence", "busy"} : Fail(c, reply)

Refused(c) ==
  /\ Asks(c)
  /\ \E reply \in {"unauthorized", "missing", "protocol", "broken"} : EndRequest(c, reply)

(* A response whose body follows.                                          *)
Accepted(c) ==
  /\ Asks(c)
  /\ open' = [open EXCEPT ![c] = @ + 1]
  /\ Goto(c, "receiving")
  /\ UNCHANGED <<connections, logged_in, attempt, client, calls, last, failures, answer,
                 starvers>>

CutOff(c) == pc[c] = "receiving" /\ Fail(c, "cut")

Received(c) ==
  /\ pc[c] = "receiving"
  /\ \E reply \in Content \cup {"too_large", "broken"} : EndRequest(c, reply)

\* Variant: retries are not counted.
SameAttempt(c) == attempt[c]

NextAttempt(c) == attempt[c] + 1

(* The sleep is over; only now does the finally close the response.        *)
WakeUp(c) ==
  /\ pc[c] = "waiting"
  /\ open' = [open EXCEPT ![c] = Closed(c)]
  /\ attempt' = [attempt EXCEPT ![c] = NextAttempt(c)]
  /\ Goto(c, "asking")
  /\ UNCHANGED <<connections, logged_in, client, calls, last, failures, answer, starvers>>

Serve(c) ==
  /\ \/ TakeConnection(c) \/ PoolTimeout(c) \/ Refuse(c) \/ OpenClient(c)
     \/ Unnamed(c) \/ Login(c) \/ LoginFails(c)
     \/ Unanswered(c) \/ Refused(c) \/ Accepted(c) \/ CutOff(c) \/ Received(c) \/ WakeUp(c)
  /\ UNCHANGED kind

Next == \E c \in Caller : Serve(c)

Spec == Init /\ [][Next]_vars

(* Every wait of a request ends: timeouts bound what Frigate may keep it   *)
(* waiting, sleeps end, and connections are given back.                    *)
FairSpec == Spec /\ \A c \in Caller : WF_vars(Serve(c))

-----------------------------------------------------------------------------
TypeOK ==
  /\ kind \in [Caller -> {"evidence", "snapshot", "smoke"}]
  /\ pc \in [Caller -> {"start", "checking", "asking", "receiving", "waiting", "done"}]
  /\ connections \subseteq Caller /\ client \subseteq Caller
  /\ logged_in \in [Caller -> BOOLEAN]
  /\ attempt \in [Caller -> Nat] /\ open \in [Caller -> Nat]
  /\ calls \in [Caller -> Nat] /\ failures \in [Caller -> Nat]
  /\ last \in [Caller -> Ending \cup {"none"}]
  /\ answer \in [Caller -> {"none", "200", "403", "404", "409", "500", "502", "503",
                             "passed", "failed"}]
  /\ starvers \in [Caller -> SUBSET Caller]

\* What "temporarily unavailable" may stand for.
Unavailable(c) ==
  \/ last[c] = "login_silence" /\ failures[c] = 1
  \/ last[c] \in Transient /\ failures[c] = MaxRetries + 1

(* The answer says what became of the request: media is a complete reply   *)
(* of Frigate within the limits; "unavailable" stands for all the attempts *)
(* that the configuration allows and no more, or for one login that got no *)
(* reply, which is not repeated (a login that is answered 429 or 5xx does  *)
(* not even count as unavailable); and an internal error stands for a      *)
(* broken-off reply, an id that cannot be asked for, or the connections    *)
(* that the route could not get.  What keeps those away is evidence that   *)
(* Frigate delays, never snapshots.                                        *)
AnswersAreEarned ==
  \A c \in Caller :
    /\ failures[c] <= MaxRetries + 1
    /\ pc[c] = "done" /\ last[c] # "none" =>
         /\ answer[c] \in {"200", "passed"} => last[c] \in {"image", "missing"}
         /\ last[c] = "image" => answer[c] \in {"200", "passed"}
         /\ (answer[c] = "503") = (kind[c] # "smoke" /\ Unavailable(c))
         /\ last[c] \in Transient => failures[c] = MaxRetries + 1
    /\ answer[c] = "500" => last[c] \in {"broken", "unnamed"} \/ starvers[c] # {}
    /\ \A h \in starvers[c] : kind[h] = "evidence"

(* Whichever way a request ends, it leaves no response, client or database *)
(* connection behind, and it never has two responses open.                 *)
NothingLeftOpen ==
  \A c \in Caller :
    /\ open[c] <= 1
    /\ ~ AtFrigate(c) => open[c] = 0 /\ c \notin client
    /\ pc[c] \in {"start", "done"} => c \notin connections

(* docs/runbooks/frigate-http-client.md:48: the client retries timeouts,   *)
(* 429 and common 5xx responses; so what ends with one had as many of them *)
(* as the configured retries allow.                                        *)
TransientIsRetried ==
  \A c \in Caller :
    pc[c] = "done" /\ last[c] \in Transient \cup TransientLogin => failures[c] = MaxRetries + 1

(* Every request is answered and every smoke test ends.                    *)
EveryRequestAnswered == \A c \in Caller : <>(pc[c] = "done")
=============================================================================
