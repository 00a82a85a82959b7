---------------------------- MODULE ServerProofs ----------------------------
(***************************************************************************)
(* The verification server, for any pool and any clients, and the          *)
(* construction of verifiers, for any number of threads.                   *)
(***************************************************************************)
EXTENDS Server, VerifierInit, FiniteSetTheorems, SequenceTheorems, TLAPS

-----------------------------------------------------------------------------
(* Requests.                                                               *)

\* Received and not answered.
Pending == {r \in Request : asked[r] # None /\ answer[r] = None}

ServerType ==
  /\ asked \in [Request -> Asks \cup {None}]
  /\ queue \in Seq(Request)
  /\ body \in [Request -> {"open", "complete", "broken"}]
  /\ serving \in [Worker -> Request \cup {None}]
  /\ answer \in [Request -> Responses \cup {None}]

\* The places a request can be in exclude each other: it is pending while it is
\* in the queue or with a thread, at most once in all, and a pending request is
\* in one of the two.
PlaceInv ==
  /\ \A j, k \in 1 .. Len(queue) : queue[j] = queue[k] => j = k
  /\ \A v, w \in Worker : serving[v] = serving[w] /\ serving[v] # None => v = w
  /\ \A w \in Worker : \A k \in 1 .. Len(queue) : queue[k] # serving[w]
  /\ \A k \in 1 .. Len(queue) : queue[k] \in Pending
  /\ \A w \in Worker : serving[w] # None => serving[w] \in Pending
  /\ \A r \in Pending :
       (\E k \in 1 .. Len(queue) : queue[k] = r) \/ (\E w \in Worker : serving[w] = r)
  /\ \A r \in Request : answer[r] # None => asked[r] # None

\* No thread has ended, whatever verification did.
PoolIntact == alive = Worker

\* An answer is right, and final: the body it is about has ended.
AnswerInv ==
  /\ ValidMeansVerified
  /\ \A r \in Request : answer[r] # None => body[r] # "open"

ServerInv == ServerType /\ PlaceInv /\ PoolIntact /\ AnswerInv

\* The answer of verify_body to a text, unless verification panics.
LEMMA VerifyBodyAnswer ==
  ASSUME NEW text \in Texts
  PROVE  /\ verify_body(text) \in Responses
         /\ verify_body(text).valid = TRUE <=> Verifies(text)
         /\ verify_precomputed_and_extract(text) = "panic" => ~Verifies(text)
<1> DEFINE yes == [status |-> 200, valid |-> TRUE]
           no == [status |-> 200, valid |-> FALSE]
           bad == [status |-> 400, valid |-> FALSE]
           outcome == verify_precomputed_and_extract(text)
<1>1. /\ text.decodes \in BOOLEAN /\ text.hashes \in BOOLEAN
      /\ text.proof \in {"valid", "invalid", "panics"}
  <2>1. CASE text = NotABlock
    <3>1. text.decodes = FALSE /\ text.hashes = FALSE /\ text.proof = "invalid"
      BY <2>1, Zenon DEF NotABlock
    <3> QED
      BY <3>1, Zenon
  <2>2. CASE text # NotABlock
    <3>1. /\ text.decodes \in {TRUE} /\ text.hashes \in {TRUE} \cup {FALSE}
          /\ text.proof \in {"valid", "invalid", "panics"}
      BY <2>2, Zenon DEF Texts
    <3> QED
      BY <3>1, Zenon
  <2> QED
    BY <2>1, <2>2
<1>2. outcome = "Ok" <=> Verifies(text)
  BY <1>1 DEF verify_precomputed_and_extract, Verifies
<1>3. /\ yes \in Responses /\ no \in Responses /\ bad \in Responses
      /\ yes.valid = TRUE /\ no.valid # TRUE /\ bad.valid # TRUE
  BY DEF Responses
<1>4. verify_body(text) = IF outcome = "Ok" THEN yes
                          ELSE IF outcome = "ProofInvalid" THEN no ELSE bad
  BY DEF verify_body
<1> HIDE DEF outcome, yes, no, bad
<1>5. outcome = "panic" => ~Verifies(text)
  BY <1>2
<1> QED
  BY <1>2, <1>3, <1>4, <1>5, Zenon DEF outcome

\* A client's steps.
LEMMA ArriveStep ==
  ASSUME ServerInv, NEW r \in Request, Arrive(r)
  PROVE  ServerInv'
<1>1. /\ ServerType /\ PlaceInv /\ PoolIntact /\ AnswerInv
      /\ queue \in Seq(Request) /\ asked \in [Request -> Asks \cup {None}]
  BY DEF ServerInv, ServerType
<1>2. PICK a \in Asks : asked' = [asked EXCEPT ![r] = a]
  BY Zenon DEF Arrive
<1>3. /\ asked[r] = None /\ a # None
      /\ body' = body /\ serving' = serving /\ alive' = alive /\ answer' = answer
  BY NoneAssumption DEF Arrive
<1>4. /\ asked' \in [Request -> Asks \cup {None}]
      /\ asked'[r] = a
      /\ \A q \in Request \ {r} : asked'[q] = asked[q]
  BY <1>1, <1>2
<1>5. answer[r] = None
  BY <1>1, <1>3 DEF PlaceInv
<1> DEFINE n == Len(queue)
<1>6. /\ n \in Nat
      /\ queue' \in Seq(Request) /\ Len(queue') = n + 1
      /\ \A k \in 1 .. n : queue'[k] = queue[k] /\ queue[k] \in Request
      /\ queue'[n + 1] = r
  BY <1>1 DEF Arrive
<1>7. /\ \A k \in 1 .. n : queue[k] # r
      /\ \A w \in Worker : serving[w] # r
  <2>1. r # None
    BY RequestAssumption
  <2> QED
    BY <2>1, <1>1, <1>3 DEF PlaceInv, Pending
<1>8. Pending' = Pending \cup {r}
  BY <1>3, <1>4, <1>5 DEF Pending
<1>9. ServerType'
  BY <1>1, <1>3, <1>4, <1>6 DEF ServerType
<1> HIDE DEF n
<1>10. PlaceInv'
  <2>1. \A j, k \in 1 .. n + 1 : queue'[j] = queue'[k] => j = k
    <3>1. \A k \in 1 .. n + 1 : k \in 1 .. n \/ k = n + 1
      BY <1>6
    <3>2. \A j, k \in 1 .. n : queue[j] = queue[k] => j = k
      BY <1>1 DEF PlaceInv, n
    <3> QED
      BY <3>1, <3>2, <1>6, <1>7
  <2>2. \A k \in 1 .. n + 1 : \A w \in Worker : queue'[k] # serving[w]
    <3>1. \A k \in 1 .. n + 1 : k \in 1 .. n \/ k = n + 1
      BY <1>6
    <3>2. \A k \in 1 .. n : \A w \in Worker : queue[k] # serving[w]
      BY <1>1 DEF PlaceInv, n
    <3> QED
      BY <3>1, <3>2, <1>6, <1>7
  <2>3. \A k \in 1 .. n + 1 : queue'[k] \in Pending'
    <3>1. \A k \in 1 .. n + 1 : k \in 1 .. n \/ k = n + 1
      BY <1>6
    <3>2. \A k \in 1 .. n : queue[k] \in Pending
      BY <1>1 DEF PlaceInv, n
    <3>3. \A k \in 1 .. n + 1 : queue'[k] \in Request /\ (queue'[k] \in Pending \/ queue'[k] = r)
      BY <3>1, <3>2, <1>6
    <3> QED
      BY <3>3, <1>8
  <2>4. \A w \in Worker : serving[w] # None => serving[w] \in Pending'
    BY <1>1, <1>8 DEF PlaceInv, ServerType
  <2>5. ASSUME NEW q \in Pending'
        PROVE  (\E k \in 1 .. n + 1 : queue'[k] = q) \/ (\E w \in Worker : serving[w] = q)
    <3>1. CASE q = r
      BY <3>1, <1>6
    <3>2. CASE q \in Pending
      <4>1. (\E k \in 1 .. n : queue[k] = q) \/ (\E w \in Worker : serving[w] = q)
        BY <3>2, <1>1 DEF PlaceInv, n
      <4> QED
        BY <4>1, <1>6
    <3> QED
      BY <3>1, <3>2, <2>5, <1>8
  <2>6. \A q \in Request : answer[q] # None => asked'[q] # None
    BY <1>1, <1>3, <1>4 DEF PlaceInv
  <2>7. \A v, w \in Worker : serving[v] = serving[w] /\ serving[v] # None => v = w
    BY <1>1 DEF PlaceInv
  <2> QED
    BY <2>1, <2>2, <2>3, <2>4, <2>5, <2>6, <2>7, <1>3, <1>6 DEF PlaceInv
<1>11. AnswerInv'
  BY <1>1, <1>3, <1>4, <1>5 DEF AnswerInv, ValidMeansVerified
<1> QED
  BY <1>1, <1>3, <1>9, <1>10, <1>11 DEF ServerInv, PoolIntact

\* The body ends: only requests that were open before change.
LEMMA CloseBodyStep ==
  ASSUME ServerInv, NEW r \in Request, CloseBody(r)
  PROVE  ServerInv'
<1>1. /\ body[r] = "open" /\ body' \in [Request -> {"open", "complete", "broken"}]
      /\ \A q \in Request \ {r} : body'[q] = body[q]
      /\ asked' = asked /\ queue' = queue /\ serving' = serving
      /\ alive' = alive /\ answer' = answer
  BY DEF CloseBody, ServerInv, ServerType
<1>2. ServerType'
  BY <1>1 DEF ServerInv, ServerType
<1>3. PlaceInv' /\ PoolIntact'
  BY <1>1 DEF ServerInv, PlaceInv, Pending, PoolIntact
<1>4. AnswerInv'
  BY <1>1 DEF ServerInv, AnswerInv, ValidMeansVerified
<1> QED
  BY <1>2, <1>3, <1>4 DEF ServerInv

\* A thread takes the first request of the queue.
LEMMA TakeRequestStep ==
  ASSUME ServerInv, NEW w \in Worker, TakeRequest(w)
  PROVE  ServerInv'
<1> DEFINE n == Len(queue)
<1>1. /\ ServerType /\ PlaceInv /\ PoolIntact /\ AnswerInv
      /\ queue \in Seq(Request) /\ queue # <<>>
      /\ serving \in [Worker -> Request \cup {None}]
  BY DEF ServerInv, ServerType, TakeRequest
<1>2. /\ asked' = asked /\ body' = body /\ alive' = alive /\ answer' = answer
      /\ serving[w] = None
  BY DEF TakeRequest
<1>3. /\ n \in Nat /\ n >= 1
      /\ Head(queue) = queue[1] /\ queue[1] \in Request
      /\ queue' \in Seq(Request) /\ Len(queue') = n - 1
      /\ \A k \in 1 .. n - 1 : queue'[k] = queue[k + 1]
  <2>1. queue' = Tail(queue)
    BY DEF TakeRequest
  <2> QED
    BY <1>1, <2>1
<1>4. /\ serving' \in [Worker -> Request \cup {None}]
      /\ serving'[w] = queue[1]
      /\ \A v \in Worker \ {w} : serving'[v] = serving[v]
  <2>1. serving' = [serving EXCEPT ![w] = Head(queue)]
    BY DEF TakeRequest
  <2> QED
    BY <1>1, <1>3, <2>1
<1>5. Pending' = Pending
  BY <1>2 DEF Pending
<1>6. queue[1] # None /\ queue[1] \in Pending
  BY <1>1, <1>3, RequestAssumption DEF PlaceInv
<1>7. /\ \A j, k \in 1 .. n : queue[j] = queue[k] => j = k
      /\ \A v \in Worker : \A k \in 1 .. n : queue[k] # serving[v]
      /\ \A k \in 1 .. n : queue[k] \in Pending
  BY <1>1 DEF PlaceInv
<1>8. \A k \in 1 .. n - 1 : k + 1 \in 1 .. n /\ k + 1 # 1
  BY <1>3
<1> HIDE DEF n
<1>9. PlaceInv'
  <2>1. ASSUME NEW j \in 1 .. n - 1, NEW k \in 1 .. n - 1, queue'[j] = queue'[k]
        PROVE  j = k
    <3>1. j + 1 = k + 1
      BY <2>1, <1>3, <1>7, <1>8
    <3> QED
      BY <3>1
  <2>2. \A k \in 1 .. n - 1 : \A v \in Worker : queue'[k] # serving'[v]
    <3> SUFFICES ASSUME NEW k \in 1 .. n - 1, NEW v \in Worker
                 PROVE  queue[k + 1] # serving'[v]
      BY <1>3
    <3>1. CASE v = w
      <4>1. 1 \in 1 .. n
        BY <1>3
      <4> QED
        BY <3>1, <4>1, <1>4, <1>7, <1>8
    <3>2. CASE v # w
      BY <3>2, <1>4, <1>7, <1>8
    <3> QED
      BY <3>1, <3>2
  <2>3. \A k \in 1 .. n - 1 : queue'[k] \in Pending'
    BY <1>3, <1>5, <1>7, <1>8
  <2>4. \A v \in Worker : serving'[v] # None => serving'[v] \in Pending'
    BY <1>1, <1>4, <1>5, <1>6 DEF PlaceInv
  <2>5. \A v, u \in Worker : serving'[v] = serving'[u] /\ serving'[v] # None => v = u
    <3>1. 1 \in 1 .. n
      BY <1>3
    <3>2. \A v \in Worker : serving[v] # queue[1]
      BY <3>1, <1>7
    <3> QED
      BY <3>2, <1>1, <1>4 DEF PlaceInv
  <2>6. ASSUME NEW q \in Pending'
        PROVE  (\E k \in 1 .. n - 1 : queue'[k] = q) \/ (\E v \in Worker : serving'[v] = q)
    <3>1. (\E k \in 1 .. n : queue[k] = q) \/ (\E v \in Worker : serving[v] = q)
      BY <2>6, <1>1, <1>5 DEF PlaceInv, n
    <3>2. ASSUME NEW v \in Worker, serving[v] = q PROVE serving'[v] = q
      <4>1. q \in Request /\ q # None
        BY RequestAssumption DEF Pending
      <4> QED
        BY <4>1, <3>2, <1>2, <1>4
    <3>3. ASSUME NEW k \in 1 .. n, queue[k] = q
          PROVE  (\E m \in 1 .. n - 1 : queue'[m] = q) \/ serving'[w] = q
      <4>1. CASE k = 1
        BY <4>1, <3>3, <1>4
      <4>2. CASE k # 1
        <5>1. k - 1 \in 1 .. n - 1 /\ (k - 1) + 1 = k
          BY <4>2, <1>3
        <5> QED
          BY <5>1, <3>3, <1>3, Zenon
      <4> QED
        BY <4>1, <4>2
    <3> QED
      BY <3>1, <3>2, <3>3
  <2>7. \A q \in Request : answer[q] # None => asked[q] # None
    BY <1>1 DEF PlaceInv
  <2> QED
    BY <2>1, <2>2, <2>3, <2>4, <2>5, <2>6, <2>7, <1>2, <1>3 DEF PlaceInv
<1>10. ServerType'
  BY <1>1, <1>2, <1>3, <1>4 DEF ServerType
<1>11. AnswerInv'
  BY <1>1, <1>2 DEF AnswerInv, ValidMeansVerified
<1> QED
  BY <1>1, <1>2, <1>9, <1>10, <1>11 DEF ServerInv, PoolIntact

\* A thread sends the response to the request it serves, once the body has
\* ended; "valid": true if and only if the request was verified.
LEMMA RespondStep ==
  ASSUME ServerInv, NEW w \in Worker, serving[w] # None,
         NEW response \in Responses, Respond(w, response),
         body[serving[w]] # "open",
         response.valid = TRUE <=>
           /\ asked[serving[w]].route = "verify"
           /\ body[serving[w]] = "complete"
           /\ Verifies(asked[serving[w]].read),
         UNCHANGED <<asked, queue, body, alive>>
  PROVE  ServerInv'
<1> DEFINE r == serving[w]
<1>1. /\ ServerType /\ PlaceInv /\ PoolIntact /\ AnswerInv
      /\ r \in Request /\ r # None /\ response # None
      /\ answer \in [Request -> Responses \cup {None}]
      /\ serving \in [Worker -> Request \cup {None}]
  BY NoneAssumption DEF ServerInv, ServerType
<1>2. /\ asked' = asked /\ queue' = queue /\ body' = body /\ alive' = alive
  OBVIOUS
<1>3. /\ answer' \in [Request -> Responses \cup {None}]
      /\ answer'[r] = response
      /\ \A q \in Request \ {r} : answer'[q] = answer[q]
  BY <1>1 DEF Respond
<1>4. /\ serving' \in [Worker -> Request \cup {None}]
      /\ serving'[w] = None
      /\ \A v \in Worker \ {w} : serving'[v] = serving[v]
  BY <1>1 DEF Respond
<1>5. r \in Pending /\ Pending' = Pending \ {r}
  BY <1>1, <1>2, <1>3 DEF Pending, PlaceInv
<1>6. ServerType'
  BY <1>1, <1>2, <1>3, <1>4 DEF ServerType
<1> HIDE DEF r
<1>7. /\ \A k \in 1 .. Len(queue) : queue[k] # r /\ queue[k] \in Request
      /\ \A v \in Worker \ {w} : serving[v] # r
  BY <1>1 DEF PlaceInv, ServerType, r
<1>8. PlaceInv'
  <2>1. \A v \in Worker : \A k \in 1 .. Len(queue) : queue[k] # serving'[v]
    BY <1>1, <1>4, <1>7, RequestAssumption DEF PlaceInv
  <2>2. \A k \in 1 .. Len(queue) : queue[k] \in Pending'
    BY <1>1, <1>5, <1>7 DEF PlaceInv
  <2>3. \A v \in Worker : serving'[v] # None => serving'[v] \in Pending'
    <3> SUFFICES ASSUME NEW v \in Worker, serving'[v] # None
                 PROVE  serving'[v] \in Pending'
      OBVIOUS
    <3>1. v # w /\ serving'[v] = serving[v] /\ serving[v] # r /\ serving[v] \in Request
      BY <1>1, <1>4, <1>7
    <3>2. serving[v] \in Pending
      BY <1>1, <3>1 DEF PlaceInv
    <3> QED
      BY <3>1, <3>2, <1>5
  <2>4. \A v, u \in Worker : serving'[v] = serving'[u] /\ serving'[v] # None => v = u
    BY <1>1, <1>4 DEF PlaceInv
  <2>5. ASSUME NEW q \in Pending'
        PROVE  (\E k \in 1 .. Len(queue) : queue[k] = q) \/ (\E v \in Worker : serving'[v] = q)
    <3>1. q \in Pending /\ q # r
      BY <2>5, <1>5
    <3>2. (\E k \in 1 .. Len(queue) : queue[k] = q) \/ (\E v \in Worker : serving[v] = q)
      BY <3>1, <1>1 DEF PlaceInv
    <3> QED
      BY <3>1, <3>2, <1>4 DEF r
  <2>6. \A q \in Request : answer'[q] # None => asked[q] # None
    BY <1>1, <1>3, <1>5 DEF PlaceInv, Pending
  <2>7. \A j, k \in 1 .. Len(queue) : queue[j] = queue[k] => j = k
    BY <1>1 DEF PlaceInv
  <2> QED
    BY <2>1, <2>2, <2>3, <2>4, <2>5, <2>6, <2>7, <1>2 DEF PlaceInv
<1>9. AnswerInv'
  <2>1. ASSUME NEW q \in Request, answer'[q] # None
        PROVE  /\ body[q] # "open"
               /\ answer'[q].valid = TRUE <=>
                    /\ asked[q].route = "verify" /\ body[q] = "complete"
                    /\ Verifies(asked[q].read)
    <3>1. CASE q = r
      BY <3>1, <1>3 DEF r
    <3>2. CASE q # r
      <4>1. answer'[q] = answer[q] /\ answer[q] # None
        BY <2>1, <3>2, <1>3
      <4> QED
        BY <4>1, <1>1, Zenon DEF AnswerInv, ValidMeansVerified
    <3> QED
      BY <3>1, <3>2, Zenon
  <2> QED
    BY <2>1, <1>2, Zenon DEF AnswerInv, ValidMeansVerified
<1> QED
  BY <1>1, <1>2, <1>6, <1>8, <1>9 DEF ServerInv, PoolIntact

\* The three ways to answer.
LEMMA AnswerStep ==
  ASSUME ServerInv, NEW w \in Worker, ReadFails(w) \/ Dispatch(w) \/ DispatchCaught(w)
  PROVE  ServerInv'
<1> DEFINE bad(s) == [status |-> s, valid |-> FALSE]
<1>1. bad(400) \in Responses /\ bad(500) \in Responses
      /\ bad(400).valid # TRUE /\ bad(500).valid # TRUE
  BY DEF Responses
<1>5. ASSUME serving[w] # None PROVE asked[serving[w]].read \in Texts
  <2>1. serving[w] \in Request /\ asked[serving[w]] \in Asks \cup {None}
    BY <1>5 DEF ServerInv, ServerType
  <2>2. asked[serving[w]] # None
    BY <1>5 DEF ServerInv, PlaceInv, Pending
  <2>3. \A a \in Asks : a.read \in Texts
    BY Zenon DEF Asks, Texts
  <2> QED
    BY <2>1, <2>2, <2>3
<1>2. CASE ReadFails(w)
  <2>1. body[serving[w]] # "open" /\ body[serving[w]] # "complete"
    BY <1>2 DEF ReadFails
  <2> QED
    BY <1>1, <1>2, <2>1, RespondStep, Zenon DEF ReadFails
<1>3. CASE DispatchCaught(w)
  <2>1. /\ serving[w] # None /\ body[serving[w]] # "open"
        /\ ~Verifies(asked[serving[w]].read)
    BY <1>3, <1>5, VerifyBodyAnswer, Zenon DEF DispatchCaught, BodyRead, Panics
  <2> QED
    BY <1>1, <1>3, <2>1, RespondStep, Zenon DEF DispatchCaught
<1>4. CASE Dispatch(w)
  <2> DEFINE a == asked[serving[w]]
             x == CASE a.route = "health" -> [status |-> 200, valid |-> None]
                    [] a.route = "verify" -> verify_body(a.read)
                    [] OTHER              -> [status |-> 404, valid |-> None]
  <2>1. /\ serving[w] # None
        /\ body[serving[w]] = "complete" /\ body[serving[w]] # "open"
        /\ Respond(w, x)
        /\ UNCHANGED <<asked, queue, body, alive>>
    BY <1>4 DEF Dispatch, BodyRead
  <2>2. a.read \in Texts
    BY <1>5, <2>1
  <2> HIDE DEF a
  <2>3. CASE a.route = "verify"
    <3>1. x = verify_body(a.read)
      BY <2>3
    <3>2. x \in Responses /\ (x.valid = TRUE <=> Verifies(a.read))
      <4> HIDE DEF x
      <4> QED
        BY <3>1, <2>2, VerifyBodyAnswer, Zenon
    <3> HIDE DEF x
    <3> QED
      BY <2>1, <2>3, <3>2, RespondStep, Zenon DEF a
  <2>4. CASE a.route # "verify"
    <3> DEFINE healthy == [status |-> 200, valid |-> None]
               unknown == [status |-> 404, valid |-> None]
    <3>1. x = healthy \/ x = unknown
      BY <2>4
    <3>2. x \in Responses /\ x.valid # TRUE
      <4>1. healthy \in Responses /\ unknown \in Responses
        BY DEF Responses
      <4>2. healthy.valid # TRUE /\ unknown.valid # TRUE
        BY NoneAssumption, Zenon
      <4> HIDE DEF x, healthy, unknown
      <4> QED
        BY <3>1, <4>1, <4>2, Zenon
    <3> HIDE DEF x
    <3> QED
      BY <2>1, <2>4, <3>2, RespondStep, Zenon DEF a
  <2> QED
    BY <2>3, <2>4
<1> QED
  BY <1>2, <1>3, <1>4

\* Every step of a client or of a thread keeps the invariant.
LEMMA ServerInvStep ==
  ASSUME ServerInv, [Next]_vars
  PROVE  ServerInv'
<1>1. CASE UNCHANGED vars
  BY <1>1, SMTT(30)
     DEF vars, ServerInv, ServerType, PlaceInv, Pending, PoolIntact, AnswerInv, ValidMeansVerified
<1> QED
  BY <1>1, ArriveStep, CloseBodyStep, TakeRequestStep, AnswerStep DEF Next, WorkerStep

\* A server just started has no requests.
LEMMA ServerInvInit ==
  ASSUME Init
  PROVE  ServerInv
<1>1. ServerType
  <2>1. queue \in Seq(Request) /\ Len(queue) = 0
    BY DEF Init
  <2> QED
    BY <2>1 DEF Init, ServerType
<1>2. PlaceInv
  BY RequestAssumption DEF Init, PlaceInv, Pending
<1> QED
  BY <1>1, <1>2 DEF Init, ServerInv, PoolIntact, AnswerInv, ValidMeansVerified

\* In every reachable state of a server, with any number of threads and clients,
\* the places of the requests exclude each other and no thread has ended: a panic
\* of the verifier costs neither.
THEOREM ServerInvariant == Spec => []ServerInv
<1>1. Init => ServerInv
  BY ServerInvInit
<1>2. ServerInv /\ [Next]_vars => ServerInv'
  BY ServerInvStep
<1> QED
  BY <1>1, <1>2, PTL DEF Spec

\* From the invariant: a request that arrived is waiting once, or with one thread,
\* or answered.
LEMMA PlacesCounted ==
  ASSUME ServerInv
  PROVE  RequestsAccounted
<1> SUFFICES ASSUME NEW r \in Request
             PROVE  Cardinality({j \in 1 .. Len(queue) : queue[j] = r})
                    + Cardinality({w \in Worker : serving[w] = r})
                    + (IF answer[r] = None THEN 0 ELSE 1)
                    = IF asked[r] = None THEN 0 ELSE 1
  BY Zenon DEF RequestsAccounted
<1> DEFINE Q == {j \in 1 .. Len(queue) : queue[j] = r}
           S == {w \in Worker : serving[w] = r}
<1>1. PlaceInv /\ r # None
  BY RequestAssumption DEF ServerInv
<1>2. Q # {} => r \in Pending /\ S = {} /\ \E j : Q = {j}
  <2> SUFFICES ASSUME NEW k \in 1 .. Len(queue), queue[k] = r
               PROVE  r \in Pending /\ S = {} /\ Q = {k}
    BY Zenon
  <2> QED
    BY <1>1 DEF PlaceInv
<1>3. S # {} => r \in Pending /\ Q = {} /\ \E w : S = {w}
  <2> SUFFICES ASSUME NEW w \in Worker, serving[w] = r
               PROVE  r \in Pending /\ Q = {} /\ S = {w}
    OBVIOUS
  <2> QED
    BY <1>1 DEF PlaceInv
<1>4. r \in Pending => Q # {} \/ S # {}
  BY <1>1 DEF PlaceInv
<1>5. /\ r \in Pending <=> (asked[r] # None /\ answer[r] = None)
      /\ answer[r] # None => asked[r] # None
  BY <1>1 DEF PlaceInv, Pending
<1>6. Cardinality({}) = 0 /\ \A x : Cardinality({x}) = 1
  BY FS_EmptySet, FS_Singleton
<1> HIDE DEF Q, S
<1>7. Cardinality(Q) + Cardinality(S) + (IF answer[r] = None THEN 0 ELSE 1)
      = IF asked[r] = None THEN 0 ELSE 1
  <2>1. CASE Q # {}
    <3>1. Cardinality(Q) = 1 /\ Cardinality(S) = 0 /\ asked[r] # None /\ answer[r] = None
      BY <2>1, <1>2, <1>5, <1>6, Zenon
    <3> QED
      BY <3>1
  <2>2. CASE S # {}
    <3>1. Cardinality(Q) = 0 /\ Cardinality(S) = 1 /\ asked[r] # None /\ answer[r] = None
      BY <2>2, <1>3, <1>5, <1>6
    <3> QED
      BY <3>1
  <2>3. CASE Q = {} /\ S = {}
    <3>1. Cardinality(Q) = 0 /\ Cardinality(S) = 0 /\ r \notin Pending
      BY <2>3, <1>4, <1>6
    <3> QED
      BY <3>1, <1>5
  <2> QED
    BY <2>1, <2>2, <2>3
<1> QED
  BY <1>7 DEF Q, S

\* No request is lost, duplicated or answered twice, whatever the interleaving of
\* the threads of the pool: each one that arrived is in exactly one place.
THEOREM NoRequestLost == Spec => []RequestsAccounted
<1>1. ServerInv => RequestsAccounted
  BY PlacesCounted
<1> QED
  BY <1>1, ServerInvariant, PTL

\* The server answers "valid": true to exactly the requests to /verify whose body,
\* as far as it was read, is a block whose proof was checked and accepted.
THEOREM ValidIsVerified == Spec => []ValidMeansVerified
<1>1. ServerInv => ValidMeansVerified
  BY DEF ServerInv, AnswerInv
<1> QED
  BY <1>1, ServerInvariant, PTL

-----------------------------------------------------------------------------
(* The verifiers of a process (VerifierInit).                              *)

\* Past the check of the network's name, and past NetworkConfig::init.
Accepted(t) == pc[t] \in {"init", "compare", "build", "silence", "make", "restore"}
Configured(t) == pc[t] \in {"build", "silence", "make", "restore"}

\* What a thread may have been returned: a verifier for the network it asked for,
\* the active one unless it was made offline; or a conflict with the active one.
SoundResult(t) ==
  result[t] # Unset =>
    /\ result[t].is = "Ok" =>
         /\ result[t].network = call[t].network
         /\ Online(t) => config # Unset /\ result[t].network = config
    /\ result[t].is # "Ok" /\ result[t].error = "NetworkAlreadyInitialized" =>
         /\ config # Unset /\ result[t].active = config
         /\ result[t].active # call[t].network

\* The active network was asked for by a thread, never changes, and is the one of
\* every thread that goes on to build its verifier.
NetworkInv ==
  /\ call \in [Thread -> Calls]
  /\ DOMAIN pc = Thread
  /\ DOMAIN result = Thread
  /\ config # Unset => \E u \in Thread : Online(u) /\ call[u].network = config
  /\ \A t \in Thread :
       /\ pc[t] # "done" => result[t] = Unset
       /\ Accepted(t) => Online(t) /\ call[t].network \in SUPPORTED_NETWORKS
       /\ pc[t] = "compare" => config # Unset
       /\ Configured(t) => config = call[t].network
       /\ SoundResult(t)

\* A step of one thread that sets the network at most once keeps the invariant
\* if it does so for that thread.
LEMMA NetworkFrame ==
  ASSUME NetworkInv, NEW t \in Thread,
         call' = call, DOMAIN pc' = Thread, DOMAIN result' = Thread,
         \A u \in Thread \ {t} : pc'[u] = pc[u] /\ result'[u] = result[u],
         \/ config' = config
         \/ config = Unset /\ config' = call[t].network /\ Online(t),
         pc'[t] # "done" => result'[t] = Unset,
         Accepted(t)' => Online(t) /\ call[t].network \in SUPPORTED_NETWORKS,
         pc'[t] = "compare" => config' # Unset,
         Configured(t)' => config' = call[t].network,
         SoundResult(t)'
  PROVE  NetworkInv'
<1>1. \A u \in Thread : Online(u)' <=> Online(u)
  BY DEF Online
<1>2. config # Unset => config' = config
  OBVIOUS
<1>3. config' # Unset => \E u \in Thread : Online(u) /\ call[u].network = config'
  BY DEF NetworkInv
<1>4. ASSUME NEW u \in Thread, u # t
      PROVE  /\ pc'[u] # "done" => result'[u] = Unset
             /\ Accepted(u)' => Online(u) /\ call[u].network \in SUPPORTED_NETWORKS
             /\ pc'[u] = "compare" => config' # Unset
             /\ Configured(u)' => config' = call[u].network
             /\ SoundResult(u)'
  <2>1. /\ pc[u] # "done" => result[u] = Unset
        /\ Accepted(u) => Online(u) /\ call[u].network \in SUPPORTED_NETWORKS
        /\ pc[u] = "compare" => config # Unset
        /\ Configured(u) => config = call[u].network
        /\ SoundResult(u)
        /\ pc'[u] = pc[u] /\ result'[u] = result[u]
    BY <1>4 DEF NetworkInv
  <2>2. (Accepted(u)' <=> Accepted(u)) /\ (Configured(u)' <=> Configured(u))
    BY <2>1 DEF Accepted, Configured
  <2>3. Configured(u) => Accepted(u)
    BY DEF Accepted, Configured
  <2>4. Configured(u) => config # Unset
    BY <2>1, <2>3, UnsetAssumption
  <2>5. SoundResult(u)'
    <3> USE <1>1, <1>2, <2>1
    <3> QED
      BY DEF SoundResult
  <2> QED
    BY <1>2, <2>1, <2>2, <2>4, <2>5
<1>5. \A u \in Thread :
        /\ pc'[u] # "done" => result'[u] = Unset
        /\ Accepted(u)' => Online(u) /\ call[u].network \in SUPPORTED_NETWORKS
        /\ pc'[u] = "compare" => config' # Unset
        /\ Configured(u)' => config' = call[u].network
        /\ SoundResult(u)'
  BY <1>4
<1> QED
  BY <1>1, <1>3, <1>5 DEF NetworkInv

\* Goto moves one thread.
LEMMA GotoMoves ==
  ASSUME DOMAIN pc = Thread, NEW t \in Thread, NEW next,
         Goto(t, next)
  PROVE  /\ DOMAIN pc' = Thread /\ pc'[t] = next
         /\ \A u \in Thread \ {t} : pc'[u] = pc[u]
BY DEF Goto

\* A call returns Ok as it is and an error as it is or as a panic.
LEMMA ReturnMoves ==
  ASSUME DOMAIN pc = Thread, DOMAIN result = Thread, NEW t \in Thread, NEW r,
         Return(t, r)
  PROVE  /\ DOMAIN pc' = Thread /\ pc'[t] = "done"
         /\ \A u \in Thread \ {t} : pc'[u] = pc[u] /\ result'[u] = result[u]
         /\ DOMAIN result' = Thread
         /\ result'[t] = r \/ (r.is = "Err" /\ result'[t] = [r EXCEPT !.is = "panic"])
<1> DEFINE v == IF call[t].fn \in {"devnet", "mainnet"} /\ r.is = "Err"
                  THEN [r EXCEPT !.is = "panic"] ELSE r
<1>1. result' = [result EXCEPT ![t] = v] /\ Goto(t, "done")
  BY DEF Return
<1>2. v = r \/ (r.is = "Err" /\ v = [r EXCEPT !.is = "panic"])
  OBVIOUS
<1> HIDE DEF v
<1>3. DOMAIN pc' = Thread /\ pc'[t] = "done" /\ \A u \in Thread \ {t} : pc'[u] = pc[u]
  BY <1>1, GotoMoves
<1>4. DOMAIN result' = Thread /\ result'[t] = v /\ \A u \in Thread \ {t} : result'[u] = result[u]
  BY <1>1
<1> QED
  BY <1>2, <1>3, <1>4

\* The three results, as they may reach the caller.
LEMMA Outcomes ==
  ASSUME NEW x
  PROVE  /\ \A n : Ok(n).is = "Ok" /\ Ok(n).network = n
         /\ \A e : x \in {Err(e), [Err(e) EXCEPT !.is = "panic"]} =>
              x.is # "Ok" /\ x.error = e
         /\ \A a, q : x \in {AlreadyInitialized(a, q),
                             [AlreadyInitialized(a, q) EXCEPT !.is = "panic"]} =>
              x.is # "Ok" /\ x.active = a
BY DEF Ok, Err, AlreadyInitialized

\* A call that returns, with a result SoundResult allows.
LEMMA NetworkReturn ==
  ASSUME NetworkInv, NEW t \in Thread, NEW r,
         Return(t, r), UNCHANGED <<config, call>>,
         \/ \E n : /\ r = Ok(n) /\ n = call[t].network
                   /\ Online(t) => config # Unset /\ n = config
         \/ \E e : r = Err(e) /\ e # "NetworkAlreadyInitialized"
         \/ /\ r = AlreadyInitialized(config, call[t].network)
            /\ config # Unset /\ config # call[t].network
  PROVE  NetworkInv'
<1>1. DOMAIN pc = Thread /\ DOMAIN result = Thread
  BY DEF NetworkInv
<1>2. /\ DOMAIN pc' = Thread /\ pc'[t] = "done"
      /\ \A u \in Thread \ {t} : pc'[u] = pc[u] /\ result'[u] = result[u]
      /\ DOMAIN result' = Thread
      /\ result'[t] = r \/ (r.is = "Err" /\ result'[t] = [r EXCEPT !.is = "panic"])
  BY <1>1, ReturnMoves
<1>3. config' = config /\ call' = call /\ (Online(t)' <=> Online(t))
  BY DEF Online
<1>4. ~Accepted(t)' /\ ~Configured(t)' /\ pc'[t] # "compare"
  BY <1>2 DEF Accepted, Configured
<1>5. SoundResult(t)'
  <2>1. ASSUME NEW n, r = Ok(n), n = call[t].network,
               Online(t) => config # Unset /\ n = config
        PROVE  SoundResult(t)'
    <3>1. r.is = "Ok" /\ r.network = n
      BY <2>1, Outcomes
    <3>2. result'[t] = r
      BY <1>2, <3>1
    <3> QED
      BY <2>1, <3>1, <3>2, <1>3 DEF SoundResult
  <2>2. ASSUME NEW e, r = Err(e), e # "NetworkAlreadyInitialized"
        PROVE  SoundResult(t)'
    <3>1. result'[t].is # "Ok" /\ result'[t].error = e
      BY <1>2, <2>2, Outcomes
    <3> QED
      BY <2>2, <3>1 DEF SoundResult
  <2>3. CASE /\ r = AlreadyInitialized(config, call[t].network)
             /\ config # Unset /\ config # call[t].network
    <3>1. result'[t].is # "Ok" /\ result'[t].active = config
      BY <1>2, <2>3, Outcomes
    <3> QED
      BY <2>3, <3>1, <1>3 DEF SoundResult
  <2> QED
    BY <2>1, <2>2, <2>3
<1> QED
  BY <1>2, <1>3, <1>4, <1>5, NetworkFrame

\* A thread that goes on without a result.
LEMMA NetworkMove ==
  ASSUME NetworkInv, NEW t \in Thread,
         pc[t] # "done", NEW next \in {"init", "compare", "build", "silence", "make", "restore"},
         Goto(t, next), UNCHANGED <<call, result>>,
         Online(t), call[t].network \in SUPPORTED_NETWORKS,
         config' = config \/ (config = Unset /\ config' = call[t].network),
         next = "compare" => config' # Unset,
         next \notin {"init", "compare"} => config' = call[t].network
  PROVE  NetworkInv'
<1>1. DOMAIN pc = Thread /\ DOMAIN result = Thread /\ result[t] = Unset
  BY DEF NetworkInv
<1>2. /\ DOMAIN pc' = Thread /\ pc'[t] = next
      /\ \A u \in Thread \ {t} : pc'[u] = pc[u]
  BY <1>1, GotoMoves
<1>3. result' = result /\ call' = call
  OBVIOUS
<1>4. SoundResult(t)'
  BY <1>1, <1>3 DEF SoundResult
<1>5. Configured(t)' => config' = call[t].network
  BY <1>2 DEF Configured
<1> QED
  BY <1>1, <1>2, <1>3, <1>4, <1>5, NetworkFrame, SMTT(30)

\* Every step of every thread keeps the network's invariant.
LEMMA NetworkStep ==
  ASSUME NetworkInv, NEW t \in Thread,
         Step(t)
  PROVE  NetworkInv'
<1>0. /\ Accepted(t) => Online(t) /\ call[t].network \in SUPPORTED_NETWORKS
      /\ pc[t] = "compare" => config # Unset
      /\ Configured(t) => config = call[t].network
  BY DEF NetworkInv
<1>1. ASSUME NEW key, NEW n
      PROVE  \/ with_index_json(key, n) = Ok(n)
             \/ with_index_json(key, n) = Err("InvalidIndexJson")
  BY DEF with_index_json
<1>2. CASE for_network_offline(t)
  <2>1. ~Online(t)
    BY <1>2 DEF for_network_offline, Online
  <2> DEFINE j == embedded_index_json(call[t].network)
             r == IF j = Unset THEN Err("UnknownNetwork")
                  ELSE with_index_json(j, call[t].network)
  <2>2. Return(t, r) /\ UNCHANGED <<config, call>>
    BY <1>2 DEF for_network_offline
  <2>3. \/ r = Ok(call[t].network)
        \/ \E e : r = Err(e) /\ e # "NetworkAlreadyInitialized"
    <3>1. r = Err("UnknownNetwork") \/ r = with_index_json(j, call[t].network)
      OBVIOUS
    <3> HIDE DEF r, j
    <3> QED
      BY <1>1, <3>1
  <2> HIDE DEF r
  <2> QED
    BY <2>1, <2>2, <2>3, NetworkReturn
<1>3. CASE with_caller_json(t)
  <2>1. ~Online(t)
    BY <1>3 DEF with_caller_json, Online
  <2>2. call[t].network = "custom"
    BY <1>3 DEF NetworkInv, with_caller_json, Calls
  <2> QED
    BY <1>1, <1>3, <2>1, <2>2, NetworkReturn DEF with_caller_json
<1>4. CASE CheckSupported(t)
  <2>1. CASE call[t].network \in SUPPORTED_NETWORKS
    BY <1>4, <2>1, NetworkMove DEF CheckSupported
  <2>2. CASE call[t].network \notin SUPPORTED_NETWORKS
    BY <1>4, <2>2, NetworkReturn DEF CheckSupported
  <2> QED
    BY <2>1, <2>2
<1>5. CASE InitConfig(t)
  <2>1. Online(t) /\ call[t].network \in SUPPORTED_NETWORKS
    BY <1>0, <1>5 DEF InitConfig, Accepted
  <2>2. CASE config = Unset
    BY <1>5, <2>1, <2>2, NetworkMove DEF InitConfig
  <2>3. CASE config # Unset
    BY <1>5, <2>1, <2>3, NetworkMove DEF InitConfig
  <2> QED
    BY <2>2, <2>3
<1>6. CASE CompareActive(t)
  <2>1. /\ Online(t) /\ call[t].network \in SUPPORTED_NETWORKS
        /\ config # Unset
    BY <1>0, <1>6 DEF CompareActive, Accepted
  <2>2. CASE config = call[t].network
    BY <1>6, <2>1, <2>2, NetworkMove, SMTT(30) DEF CompareActive
  <2>3. CASE config # call[t].network
    BY <1>6, <2>1, <2>3, NetworkReturn DEF CompareActive
  <2> QED
    BY <2>2, <2>3
<1>7. CASE Configured(t)
  <2>1. /\ Online(t) /\ call[t].network \in SUPPORTED_NETWORKS
        /\ config = call[t].network /\ config # Unset
    BY <1>0, <1>7, UnsetAssumption DEF Accepted, Configured
  <2>2. CASE BuildMainnet(t)
    <3>1. Return(t, with_index_json("mainnet_json", config))
          /\ UNCHANGED <<config, call>>
      BY <2>2 DEF BuildMainnet
    <3> QED
      BY <1>1, <2>1, <3>1, NetworkReturn
  <2>3. CASE TakeHook(t)
    BY <2>1, <2>3, NetworkMove DEF TakeHook
  <2>4. CASE SilenceHook(t)
    BY <2>1, <2>4, NetworkMove DEF SilenceHook
  <2>5. CASE Make(t)
    BY <2>1, <2>5, NetworkMove DEF Make
  <2>6. CASE RestoreHook(t)
    <3> DEFINE r == IF "make" \in parses THEN Ok(config)
                    ELSE Err("VerificationKeyUnavailable")
    <3>1. Return(t, r) /\ UNCHANGED <<config, call>>
      BY <2>6 DEF RestoreHook
    <3>2. r = Ok(config) \/ r = Err("VerificationKeyUnavailable")
      OBVIOUS
    <3> HIDE DEF r
    <3> QED
      BY <2>1, <3>1, <3>2, NetworkReturn
  <2> QED
    BY <1>7, <2>2, <2>3, <2>4, <2>5, <2>6, <1>2, <1>3, <1>4, <1>5, <1>6, SMTT(30) DEF Step
<1> QED
  BY <1>2, <1>3, <1>4, <1>5, <1>6, <1>7
     DEF Step, Configured, BuildMainnet, TakeHook,
         SilenceHook, Make, RestoreHook

\* Whatever the threads ask for and however they interleave, the process has one
\* network, that of every thread that builds a verifier.
THEOREM OneNetwork == ConstructSpec => []NetworkInv
<1>1. ConstructInit => NetworkInv
  <2> SUFFICES ASSUME ConstructInit
               PROVE  NetworkInv
    OBVIOUS
  <2>1. /\ config = Unset /\ call \in [Thread -> Calls]
        /\ DOMAIN pc = Thread /\ DOMAIN result = Thread
        /\ \A t \in Thread : pc[t] = "start" /\ result[t] = Unset
    BY DEF ConstructInit
  <2> QED
    BY <2>1 DEF NetworkInv, Accepted, Configured, SoundResult
<1>2. NetworkInv /\ [ConstructNext]_construct_vars => NetworkInv'
  <2> SUFFICES ASSUME NetworkInv, [ConstructNext]_construct_vars
               PROVE  NetworkInv'
    OBVIOUS
  <2>1. CASE UNCHANGED construct_vars
    BY <2>1, SMTT(30) DEF construct_vars, NetworkInv, Accepted, Configured, SoundResult, Online
  <2> QED
    BY <2>1, NetworkStep DEF ConstructNext
<1> QED
  BY <1>1, <1>2, PTL DEF ConstructSpec

\* A verifier is for the network its caller asked for, although for_network reads
\* the name from the process global, which another thread may have set.
THEOREM VerifierIsAsAsked == ConstructSpec => []NetworkAsRequested
<1>1. NetworkInv => NetworkAsRequested
  BY DEF NetworkInv, SoundResult, NetworkAsRequested
<1> QED
  BY <1>1, OneNetwork, PTL

\* NetworkAlreadyInitialized names a network that another thread asked for and
\* that differs from the caller's.
THEOREM ConflictsAreReal == ConstructSpec => []ConflictIsReal
<1>1. NetworkInv => ConflictIsReal
  BY DEF NetworkInv, SoundResult, ConflictIsReal
<1> QED
  BY <1>1, OneNetwork, PTL
=============================================================================
