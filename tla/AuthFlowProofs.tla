--------------------------- MODULE AuthFlowProofs ---------------------------
(***************************************************************************)
(* For every number of requests that reach the callback server, in any     *)
(* interleaving of their goroutines with the timer, the context and the    *)
(* listener: a token is asked for with this run's own code only, and a     *)
(* callback that is alone never waits for the command.                     *)
(***************************************************************************)
EXTENDS AuthFlow, SequenceTheorems, TLAPS

\* A result tells what its goroutine found, and that goroutine is through: what
\* the request holds cannot change any more.
Honest(x) ==
    /\ x.from \in Request \cup {Server}
    /\ at[x.from] = "ended"
    /\ x.code => x.from \in Request /\ query[x.from] = "code"

\* While the command waits, the channel holds the first result and no other.
AuthInv ==
    /\ TypeOK
    /\ \A i \in DOMAIN done : Honest(done[i])
    /\ first # Nothing => Honest(first)
    /\ main = "waiting" => done = (IF first = Nothing THEN <<>> ELSE <<first>>)
    /\ main \in {"exchanging", "printed"} =>
           first # Nothing /\ answer = first /\ answer.code
-----------------------------------------------------------------------------
LEMMA ServerIsNoRequest == Server \notin Request /\ "nobody" \notin Request \cup {Server}
BY AuthAssumption DEF Server, Nothing

\* A step that ends no wait: goroutines move, and nobody that has ended.
LEMMA HonestStays ==
    ASSUME TypeOK, NEW x, Honest(x),
           \A g \in Request \cup {Server} : at[g] = "ended" => at'[g] = "ended",
           \A r \in Request : at[r] = "ended" => query'[r] = query[r]
    PROVE  Honest(x)'
BY DEF Honest

LEMMA ArriveKeeps ==
    ASSUME AuthInv, NEW r \in Request, Arrive(r)
    PROVE  AuthInv'
<1>1. TypeOK'
  BY DEF AuthInv, TypeOK, Arrive, Result
<1>2. \A x : Honest(x) => Honest(x)'
  BY HonestStays DEF AuthInv, TypeOK, Arrive
<1> QED BY <1>1, <1>2 DEF AuthInv, Arrive

LEMMA ReplyKeeps ==
    ASSUME AuthInv, NEW r \in Request, Reply(r)
    PROVE  AuthInv'
<1>1. TypeOK'
  BY DEF AuthInv, TypeOK, Reply, Result
<1>2. \A x : Honest(x) => Honest(x)'
  BY HonestStays DEF AuthInv, TypeOK, Reply
<1> QED BY <1>1, <1>2 DEF AuthInv, Reply

LEMMA ServeFailsKeeps ==
    ASSUME AuthInv, ServeFails
    PROVE  AuthInv'
<1>1. TypeOK'
  BY DEF AuthInv, TypeOK, ServeFails, Result
<1>2. \A x : Honest(x) => Honest(x)'
  BY HonestStays DEF AuthInv, TypeOK, ServeFails
<1> QED BY <1>1, <1>2 DEF AuthInv, ServeFails

LEMMA PutKeeps ==
    ASSUME AuthInv, NEW g \in Request \cup {Server}, Put(g)
    PROVE  AuthInv'
<1> DEFINE x == [from |-> g, code |-> g \in Request /\ Accepts(query[g])]
<1>1. /\ done \in Seq(Result) /\ Len(done) = 0 /\ at[g] = "sending"
      /\ done' = Append(done, x) /\ first' = IF first = Nothing THEN x ELSE first
      /\ at' = [at EXCEPT ![g] = "ended"] /\ UNCHANGED <<main, answer, query, page>>
  BY AuthAssumption DEF AuthInv, TypeOK, Put, Room
<1>2. x \in Result /\ x # Nothing /\ x.from = g /\ (x.code => g \in Request /\ query[g] = "code")
  <2>1. x \in [from : Request \cup {Server}, code : BOOLEAN]
    OBVIOUS
  <2>2. x.from # Nothing.from
    BY ServerIsNoRequest DEF Nothing
  <2> QED BY <2>1, <2>2 DEF Result, Accepts
<1> HIDE DEF x
<1>3. done = <<>>
  BY <1>1, EmptySeq
<1>4. done' = <<x>>
  BY <1>1, <1>3
<1>5. TypeOK'
  <2>1. done' \in Seq(Result) /\ Len(done') = 1
    BY <1>1, <1>2, AppendProperties
  <2>2. {answer', first'} \subseteq Result
    BY <1>1, <1>2 DEF AuthInv, TypeOK
  <2>3. at' \in [Request \cup {Server} -> {"none", "serving", "handling", "sending", "ended"}]
    BY <1>1 DEF AuthInv, TypeOK
  <2> QED BY <1>1, <2>1, <2>2, <2>3, AuthAssumption DEF AuthInv, TypeOK
<1>6. \A y : Honest(y) => Honest(y)'
  <2>1. \A h \in Request \cup {Server} : at[h] = "ended" => at'[h] = "ended"
    BY <1>1 DEF AuthInv, TypeOK
  <2>2. query' = query
    BY <1>1
  <2> QED BY <2>1, <2>2 DEF Honest
<1>7. Honest(x)'
  <2>1. x' = x
    BY <1>1 DEF x
  <2>2. at'[g] = "ended"
    BY <1>1 DEF AuthInv, TypeOK
  <2> QED BY <1>1, <1>2, <2>1, <2>2 DEF Honest
<1>8. main = "waiting" => first = Nothing
  <2>1. <<first>> # <<>>
    OBVIOUS
  <2> QED BY <1>3, <2>1 DEF AuthInv
<1>9. /\ \A i \in DOMAIN done' : Honest(done[i])'
      /\ first' # Nothing /\ Honest(first)'
  <2>1. x' = x
    BY <1>1 DEF x
  <2>2. Honest(x)' /\ DOMAIN done' = {1} /\ done'[1] = x
    BY <1>4, <1>7
  <2>3. \A i \in DOMAIN done' : Honest(done[i])'
    BY <2>1, <2>2 DEF Honest
  <2>4. first' # Nothing /\ Honest(first)'
    <3>1. CASE first = Nothing
      BY <1>1, <1>2, <2>1, <2>2, <3>1 DEF Honest
    <3>2. CASE first # Nothing
      BY <1>1, <1>6, <3>2 DEF AuthInv, Honest
    <3> QED BY <3>1, <3>2
  <2> QED BY <2>3, <2>4
<1> QED BY <1>1, <1>2, <1>4, <1>5, <1>8, <1>9 DEF AuthInv

LEMMA ReceiveKeeps ==
    ASSUME AuthInv, Receive
    PROVE  AuthInv'
<1>1. first # Nothing /\ done = <<first>> /\ Honest(first)
  BY DEF AuthInv, Receive
<1>2. answer' = first /\ done' = <<>> /\ main' = NextState(first)
  BY <1>1 DEF Receive
<1>3. TypeOK'
  BY <1>1, <1>2, AuthAssumption DEF AuthInv, TypeOK, Receive, NextState
<1>4. Honest(first)'
  BY <1>1, HonestStays DEF AuthInv, Receive
<1>5. first' = first
  BY DEF Receive
<1> QED BY <1>1, <1>2, <1>3, <1>4, <1>5 DEF AuthInv, NextState

\* The command moves on by itself, or nothing moves.
LEMMA MainKeeps ==
    ASSUME AuthInv, UNCHANGED <<answer, done, at, query, page, first>>,
           \/ main' = main \/ main' = "failed"
           \/ main = "exchanging" /\ main' = "printed"
    PROVE  AuthInv'
<1>1. TypeOK'
  BY DEF AuthInv, TypeOK
<1>2. \A x : Honest(x) => Honest(x)'
  BY HonestStays DEF AuthInv
<1> QED BY <1>1, <1>2 DEF AuthInv

LEMMA InitAuth == Init => AuthInv
<1> SUFFICES ASSUME Init PROVE AuthInv
  OBVIOUS
<1>1. <<>> \in Seq(Result) /\ Len(<<>>) = 0
  BY EmptySeq
<1>2. TypeOK
  BY <1>1, AuthAssumption DEF Init, TypeOK, Result
<1> QED BY <1>2 DEF Init, AuthInv

LEMMA NextAuth == AuthInv /\ [Next]_vars => AuthInv'
<1> SUFFICES ASSUME AuthInv, [Next]_vars PROVE AuthInv'
  OBVIOUS
<1>1. CASE \E r \in Request : Arrive(r)
  BY <1>1, ArriveKeeps
<1>2. CASE \E g \in Request \cup {Server} : Handler(g)
  BY <1>2, PutKeeps, ReplyKeeps DEF Handler
<1>3. CASE ServeFails
  BY <1>3, ServeFailsKeeps
<1>4. CASE Receive
  BY <1>4, ReceiveKeeps
<1>5. CASE Timeout \/ Cancel \/ ShowToken \/ ExchangeFails
  BY <1>5, MainKeeps DEF Timeout, Cancel, ShowToken, ExchangeFails
<1>6. CASE UNCHANGED vars
  BY <1>6, MainKeeps DEF vars
<1> QED BY <1>1, <1>2, <1>3, <1>4, <1>5, <1>6 DEF Next, Returned

LEMMA AuthAlways == Spec => []AuthInv
BY InitAuth, NextAuth, PTL DEF Spec

\* The channel done never holds more than its buffer, whoever reports.
THEOREM TypeCorrect == Spec => []TypeOK
<1>1. AuthInv => TypeOK
  BY DEF AuthInv
<1> QED BY <1>1, AuthAlways, PTL

\* A token is asked for, and printed, only for the first callback to report,
\* and that one carried the state of this run and a code (waitForCode, auth.go:162).
THEOREM TokensAreConsented == Spec => []TokenMeansConsent
<1>1. AuthInv => TokenMeansConsent
  BY DEF AuthInv, TokenMeansConsent, Honest
<1> QED BY <1>1, AuthAlways, PTL

\* A callback that is alone never waits for the command: the buffer of one is
\* enough for its goroutine to end after a timeout or a signal (auth.go:151).
THEOREM LoneCallbacksPass == Spec => []LoneCallbackNeverBlocks
<1>1. AuthInv => LoneCallbackNeverBlocks
  <2> SUFFICES ASSUME AuthInv, NEW r \in Request, at[r] = "sending",
                      \A g \in DOMAIN at \ {r} : at[g] \in {"none", "serving"}
               PROVE  Room
    BY DEF LoneCallbackNeverBlocks
  <2>1. \A g \in Request \cup {Server} : at[g] # "ended"
    BY DEF AuthInv, TypeOK
  <2>2. \A i \in DOMAIN done : FALSE
    BY <2>1 DEF AuthInv, Honest
  <2>3. Len(done) = 0
    BY <2>2, LenProperties DEF AuthInv, TypeOK
  <2> QED BY <2>3, AuthAssumption DEF Room
<1> QED BY <1>1, AuthAlways, PTL
=============================================================================
