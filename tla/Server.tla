------------------------------- MODULE Server -------------------------------
(***************************************************************************)
(* The verification server: crates/mina-verify-server/src/lib.rs, with     *)
(* the extraction it calls (crates/mina-verify/src/ingest.rs and           *)
(* precomputed.rs).                                                        *)
(*                                                                         *)
(* A pool of threads drains one listener.  A thread takes a request, reads *)
(* its body to the end or to the cap, which lasts as long as the client    *)
(* takes, and then dispatches and responds.  A panic inside verification   *)
(* is caught.  The listener and its queue belong to tiny_http.             *)
(*                                                                         *)
(* A request comes with the text the server gets to see of its body: all   *)
(* of it, or its first MAX_BODY_BYTES bytes.  A document cut by the cap    *)
(* does not decode; one that is padded with blanks up to the cap does,     *)
(* whatever follows.                                                       *)
(***************************************************************************)
EXTENDS Naturals, Sequences, FiniteSets

CONSTANTS
  None,       \* Rust's Option::None
  Worker,     \* the threads of the pool (worker_threads() of them)
  Request,    \* requests, one per client
  stalled     \* requests whose client may keep the body open for ever

ASSUME RequestAssumption ==
  /\ IsFiniteSet(Request) /\ IsFiniteSet(Worker) /\ None \notin Request
  /\ stalled \subseteq Request

\* A text: whether it decodes to a header, what its proof comes to and whether
\* the header's state can be hashed.
NotABlock == [decodes |-> FALSE, proof |-> "invalid", hashes |-> FALSE]
Texts == [decodes : {TRUE}, proof : {"valid", "invalid", "panics"}, hashes : {TRUE}]
         \cup [decodes : {TRUE}, proof : {"valid"}, hashes : {FALSE}]
         \cup {NotABlock}

\* What is asked: the method and path, and the text that take(MAX_BODY_BYTES)
\* leaves of the body.
Asks == [route : {"health", "other"}, read : {NotABlock}]
        \cup [route : {"verify"}, read : Texts]

Responses == [status : {200, 400, 404, 500}, valid : BOOLEAN \cup {None}]

ASSUME NoneAssumption == None \notin Asks \cup Responses \cup BOOLEAN

VARIABLES
  asked,      \* [Request -> Asks \cup {None}]: the requests received so far
  queue,      \* requests accepted by the listener, not taken by a thread
  body,       \* [Request -> {"open", "complete", "broken"}]
  serving,    \* [Worker -> Request \cup {None}]
  alive,      \* threads that have not ended
  answer      \* [Request -> Responses \cup {None}]: the response sent

vars == <<asked, queue, body, serving, alive, answer>>

Init ==
  /\ asked = [r \in Request |-> None]
  /\ queue = <<>>
  /\ body = [r \in Request |-> "open"]
  /\ serving = [w \in Worker |-> None]
  /\ alive = Worker
  /\ answer = [r \in Request |-> None]

-----------------------------------------------------------------------------
(* Clients and the listener.                                               *)

Arrive(r) ==
  /\ asked[r] = None
  /\ \E a \in Asks : asked' = [asked EXCEPT ![r] = a]
  /\ queue' = Append(queue, r)
  /\ UNCHANGED <<body, serving, alive, answer>>

\* The client sends the last byte the server will read, that of the body or of
\* the cap, or goes away before.
CloseBody(r) ==
  /\ asked[r] # None
  /\ body[r] = "open"
  /\ body' \in {[body EXCEPT ![r] = "complete"], [body EXCEPT ![r] = "broken"]}
  /\ UNCHANGED <<asked, queue, serving, alive, answer>>

-----------------------------------------------------------------------------
(* The pool.                                                               *)

\* for req in server.incoming_requests()
TakeRequest(w) ==
  /\ w \in alive
  /\ serving[w] = None
  /\ queue # <<>>
  /\ serving' = [serving EXCEPT ![w] = Head(queue)]
  /\ queue' = Tail(queue)
  /\ UNCHANGED <<asked, body, alive, answer>>

\* header_from_precomputed, verify_header and from_header in turn.
verify_precomputed_and_extract(text) ==
  CASE ~text.decodes           -> "InvalidIndexJson"
    [] text.proof = "panics"   -> "panic"
    [] text.proof = "invalid"  -> "ProofInvalid"
    [] ~text.hashes            -> "BlockDecode"
    [] OTHER                   -> "Ok"

\* Flawed variant: the extracted facts are returned before the proof is checked.
verify_body_unverified(text) ==
  IF text.decodes THEN [status |-> 200, valid |-> TRUE]
  ELSE [status |-> 400, valid |-> FALSE]

verify_body(text) ==
  CASE verify_precomputed_and_extract(text) = "Ok" ->
         [status |-> 200, valid |-> TRUE]
    [] verify_precomputed_and_extract(text) = "ProofInvalid" ->
         [status |-> 200, valid |-> FALSE]
    [] OTHER ->
         [status |-> 400, valid |-> FALSE]

Respond(w, response) ==
  /\ answer' = [answer EXCEPT ![serving[w]] = response]
  /\ serving' = [serving EXCEPT ![w] = None]

\* The client broke off: 400 without a look at the path.
ReadFails(w) ==
  /\ w \in alive
  /\ serving[w] # None
  /\ body[serving[w]] = "broken"
  /\ Respond(w, [status |-> 400, valid |-> FALSE])
  /\ UNCHANGED <<asked, queue, body, alive>>

\* read_to_end is over when the client is done or the cap is reached.
BodyRead(w) ==
  /\ w \in alive
  /\ serving[w] # None
  /\ body[serving[w]] = "complete"

Panics(a) ==
  a.route = "verify" /\ verify_precomputed_and_extract(a.read) = "panic"

\* dispatch and respond.
Dispatch(w) ==
  /\ BodyRead(w)
  /\ ~Panics(asked[serving[w]])
  /\ LET a == asked[serving[w]] IN
     Respond(w, CASE a.route = "health" -> [status |-> 200, valid |-> None]
                  [] a.route = "verify" -> verify_body(a.read)
                  [] OTHER              -> [status |-> 404, valid |-> None])
  /\ UNCHANGED <<asked, queue, body, alive>>

\* Flawed variant: no catch_unwind, the thread ends with its request.
DispatchCaught_uncaught(w) ==
  /\ BodyRead(w)
  /\ Panics(asked[serving[w]])
  /\ alive' = alive \ {w}
  /\ Respond(w, [status |-> 500, valid |-> FALSE])
  /\ UNCHANGED <<asked, queue, body>>

\* Flawed variant: the panic is caught around handle, outside the response.
DispatchCaught_unanswered(w) ==
  /\ BodyRead(w)
  /\ Panics(asked[serving[w]])
  /\ serving' = [serving EXCEPT ![w] = None]
  /\ UNCHANGED <<asked, queue, body, alive, answer>>

\* catch_unwind turns the panic into a 500.
DispatchCaught(w) ==
  /\ BodyRead(w)
  /\ Panics(asked[serving[w]])
  /\ Respond(w, [status |-> 500, valid |-> FALSE])
  /\ UNCHANGED <<asked, queue, body, alive>>

WorkerStep(w) == TakeRequest(w) \/ ReadFails(w) \/ Dispatch(w) \/ DispatchCaught(w)

Next ==
  \/ \E r \in Request : Arrive(r) \/ CloseBody(r)
  \/ \E w \in Worker : WorkerStep(w)

\* Threads are scheduled, and a client that is not stalled ends its body.
Fairness ==
  /\ \A w \in Worker : WF_vars(WorkerStep(w))
  /\ \A r \in Request \ stalled : WF_vars(CloseBody(r))

Spec == Init /\ [][Next]_vars /\ Fairness

-----------------------------------------------------------------------------
(* Properties.                                                             *)

\* A request is in one place only: waiting once in the queue, or with one
\* thread, or answered; and a request that arrived is in one of them.
RequestsAccounted ==
  \A r \in Request :
    Cardinality({i \in 1 .. Len(queue) : queue[i] = r})
    + Cardinality({w \in Worker : serving[w] = r})
    + (IF answer[r] = None THEN 0 ELSE 1)
    = IF asked[r] = None THEN 0 ELSE 1

\* The text is a block that decodes, that the proof system accepts and whose
\* state hash can be computed.
Verifies(text) == text.decodes /\ text.proof = "valid" /\ text.hashes

\* "valid": true is the answer to a request if, and only if, it was to /verify,
\* its client saw the body through, and what was read of it, up to the cap,
\* verifies.
ValidMeansVerified ==
  \A r \in Request : answer[r] # None =>
    (answer[r].valid = TRUE <=>
       asked[r].route = "verify" /\ body[r] = "complete" /\ Verifies(asked[r].read))

\* "that must fail one request, not kill a worker": with at least one thread
\* more than there are stalled clients, every client that completes its body is
\* answered, however many bodies make the verifier panic.
EveryRequestAnswered ==
  \A r \in Request : body[r] = "complete" ~> answer[r] # None
=============================================================================
