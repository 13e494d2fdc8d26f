------------------------------ MODULE AuthFlow ------------------------------
(***************************************************************************)
(* The command auth gmail: a local server waits for the callback of the    *)
(* browser.  One goroutine runs per request, one serves the listener, and  *)
(* the command selects between the channel done, the timer and the         *)
(* context; then it exchanges the code for a token.                        *)
(***************************************************************************)
EXTENDS Naturals, Sequences, FiniteSets

CONSTANTS
    Request,    \* the requests that may reach /callback
    Capacity    \* of the channel done

\* What the query of a request holds: error, a foreign state, no code, a code.
Query == {"denied", "foreign", "empty", "code"}
Server == "server"      \* the goroutine that runs Serve
Nothing == [from |-> "nobody", code |-> FALSE]

ASSUME AuthAssumption == Capacity = 1 /\ Request \cap {Server, Nothing.from} = {}

VARIABLES
    main,       \* the command: "waiting", "exchanging", "printed" or "failed"
    answer,     \* what it received from done, or Nothing
    done,       \* the channel
    at,         \* [Request \cup {Server} -> where its goroutine is]
    query,      \* [Request -> what the request holds, once it came]
    page,       \* [Request -> the page the browser shows]
    first       \* history: the first result put into done, or Nothing

vars == <<main, answer, done, at, query, page, first>>

Init ==
    /\ main = "waiting" /\ answer = Nothing /\ first = Nothing
    /\ done = <<>>
    /\ at = [g \in Request \cup {Server} |-> IF g = Server THEN "serving" ELSE "none"]
    /\ query = [r \in Request |-> "none"]
    /\ page = [r \in Request |-> "none"]
-----------------------------------------------------------------------------
\* A request reaches the handler while the listener is open.
Arrive(r) ==
    /\ main = "waiting" /\ at[Server] = "serving" /\ at[r] = "none"
    /\ at' = [at EXCEPT ![r] = "handling"]
    /\ \E q \in Query : query' = [query EXCEPT ![r] = q]
    /\ UNCHANGED <<main, answer, done, page, first>>

\* Mutation: the state is not compared.
AcceptsAnyState(q) == q \in {"code", "foreign"}

\* The checks of the handler: no error, the state of this run, a code.
Accepts(q) == q = "code"

\* The handler answers the browser first and reports the result afterwards.
Reply(r) ==
    /\ at[r] = "handling"
    /\ at' = [at EXCEPT ![r] = "sending"]
    /\ page' = [page EXCEPT ![r] = IF Accepts(query[r]) THEN "complete" ELSE "refused"]
    /\ UNCHANGED <<main, answer, done, query, first>>

\* The listener breaks: Serve returns an error that goes into done.
ServeFails ==
    /\ main = "waiting" /\ at[Server] = "serving"
    /\ at' = [at EXCEPT ![Server] = "sending"]
    /\ UNCHANGED <<main, answer, done, query, page, first>>

\* Mutation: the channel has no buffer; a sender meets the waiting command.
RoomForReceiver == main = "waiting" /\ done = <<>>

Room == Len(done) < Capacity

\* A goroutine puts its result into done; it blocks while the buffer is full.
Put(g) ==
    /\ at[g] = "sending" /\ Room
    /\ LET result == [from |-> g, code |-> g \in Request /\ Accepts(query[g])]
       IN  /\ done' = Append(done, result)
           /\ first' = IF first = Nothing THEN result ELSE first
    /\ at' = [at EXCEPT ![g] = "ended"]
    /\ UNCHANGED <<main, answer, query, page>>

\* The first result decides, whatever it is.
NextState(a) == IF a.code THEN "exchanging" ELSE "failed"

Receive ==
    /\ main = "waiting" /\ done # <<>>
    /\ answer' = Head(done) /\ done' = Tail(done)
    /\ main' = NextState(Head(done))
    /\ UNCHANGED <<at, query, page, first>>

\* The three minutes are over.
Timeout ==
    /\ main = "waiting" /\ main' = "failed"
    /\ UNCHANGED <<answer, done, at, query, page, first>>

\* A signal cancels the context, which ends the wait and the exchange.
Cancel ==
    /\ main \in {"waiting", "exchanging"}
    /\ main' = "failed"
    /\ UNCHANGED <<answer, done, at, query, page, first>>

\* Google answers with a refresh token, which is printed.
ShowToken ==
    /\ main = "exchanging" /\ main' = "printed"
    /\ UNCHANGED <<answer, done, at, query, page, first>>

\* Google refuses the code, sends no refresh token, or cannot be reached.
ExchangeFails ==
    /\ main = "exchanging" /\ main' = "failed"
    /\ UNCHANGED <<answer, done, at, query, page, first>>

Handler(g) == Put(g) \/ (g \in Request /\ Reply(g))

\* The command has returned; its process ends with the handlers still blocked.
Returned ==
    /\ main \in {"printed", "failed"}
    /\ \A g \in DOMAIN at : at[g] \in {"none", "serving", "ended"} \/ ~ENABLED Handler(g)
    /\ UNCHANGED vars

Next ==
    \/ \E r \in Request : Arrive(r)
    \/ \E g \in Request \cup {Server} : Handler(g)
    \/ ServeFails
    \/ Receive
    \/ Timeout
    \/ Cancel
    \/ ShowToken
    \/ ExchangeFails
    \/ Returned

\* No fairness: the timer ends the wait, but the exchange runs on a client
\* without a timeout, so nothing makes the command return.
Spec == Init /\ [][Next]_vars
-----------------------------------------------------------------------------
Result == [from : Request \cup {Server}, code : BOOLEAN] \cup {Nothing}

\* The channel never holds more than its capacity.
TypeOK ==
    /\ main \in {"waiting", "exchanging", "printed", "failed"}
    /\ {answer, first} \subseteq Result
    /\ done \in Seq(Result) /\ Len(done) <= Capacity
    /\ at \in [Request \cup {Server} -> {"none", "serving", "handling", "sending", "ended"}]
    /\ query \in [Request -> Query \cup {"none"}]
    /\ page \in [Request -> {"none", "complete", "refused"}]

\* A token is printed for the callback of this run's own authorization only,
\* and that callback was the first to report (the comment on the state).
TokenMeansConsent ==
    main \in {"exchanging", "printed"} =>
        /\ answer = first
        /\ answer.from \in Request /\ query[answer.from] = "code"

\* A callback that is alone never waits for the command, not even when the
\* command has given up: the buffer keeps its goroutine from leaking.
LoneCallbackNeverBlocks ==
    \A r \in Request :
        /\ at[r] = "sending"
        /\ \A g \in DOMAIN at \ {r} : at[g] \in {"none", "serving"}
        => Room
=============================================================================
