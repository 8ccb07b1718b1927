-------------------------------- MODULE Http --------------------------------
(* A batch on the HTTP executor: executeBatch of http_executor.go, with the    *)
(* redirect policy of http_redirect.go and the options of http_options.go.     *)
(*                                                                             *)
(* The batch is one POST.  Go's HTTP client follows redirects and asks         *)
(* preserveHTTPRedirectHeaders before each hop; the answer is read, decoded    *)
(* and checked against the deadline at last.                                   *)
(*                                                                             *)
(* No name of this module is one of the modules it is checked or proved about  *)
(* with.                                                                       *)
EXTENDS Naturals, Sequences, FiniteSets

CONSTANTS
    Posted,             \* the commands a batch may hold
    Home, Elsewhere,    \* origins: scheme, host and port
    MaxHops,            \* ten in the code
    MaxBatchCommands

Origins == {Home, Elsewhere}

VARIABLES
    batched,    \* the commands of this call
    custom,     \* WithHTTPClient: the redirects are the caller's affair
    closed, overdue,
    stage,      \* "start", "sent", "read", "decode", "check", "done"
    chain,      \* the origins of the requests so far
    method, headers,
    answer,     \* what came back: of each command "ok" or "error"
    performed, results

httpVars == <<batched, custom, closed, overdue, stage, chain, method, headers, answer, performed,
              results>>

\* The headers of the first request: credentials and the caller's own; those
\* that describe the body.
AllHeaders == {"credentials", "body"}

HttpInit ==
    /\ batched \in SUBSET Posted
    /\ custom \in BOOLEAN
    /\ closed = FALSE
    /\ overdue = FALSE
    /\ stage = "start"
    /\ chain = <<>>
    /\ method = "POST"
    /\ headers = {}
    /\ answer = [c \in Posted |-> "none"]
    /\ performed = [c \in Posted |-> 0]
    /\ results = [c \in Posted |-> "none"]

-----------------------------------------------------------------------------

\* Every command of the batch has the same outcome, and the call returns.
Returns(what) ==
    /\ results' = [c \in Posted |-> IF c \in batched THEN what ELSE results[c]]
    /\ stage' = "done"

\* Refused before a byte is written, with markCommandNotSent: the context has
\* ended, the executor is closed, the batch is too long, a command cannot be
\* encoded, or the body is too large.
NotSent ==
    /\ stage = "start"
    /\ Returns("not")
    /\ UNCHANGED <<batched, custom, closed, overdue, chain, method, headers, answer, performed>>

Submit ==
    /\ stage = "start" /\ ~ overdue /\ ~ closed
    /\ Cardinality(batched) \in 1..MaxBatchCommands
    /\ stage' = "sent"
    /\ chain' = <<Home>>
    /\ headers' = AllHeaders
    /\ UNCHANGED <<batched, custom, closed, overdue, method, answer, performed, results>>

-----------------------------------------------------------------------------
(* The server, and the redirects.                                             *)

\* A server that gets the body executes the batch, or some of it.
Performs(done) ==
    performed' = [c \in Posted |-> IF c \in done THEN performed[c] + 1 ELSE performed[c]]

Serve ==
    /\ stage = "sent" /\ method = "POST"
    /\ \E done \in SUBSET batched, ok \in SUBSET batched :
         /\ ok \subseteq done
         /\ Performs(done)
         /\ answer' = [c \in Posted |-> IF c \in ok THEN "ok" ELSE "error"]
    /\ stage' = "read"
    /\ UNCHANGED <<batched, custom, closed, overdue, chain, method, headers, results>>

\* A redirect has turned the batch into a GET: this server gets no body and
\* executes nothing, but its answer may hold results for every command, and the
\* code does not ask which request they came back on.
ServeGet ==
    /\ stage = "sent" /\ method = "GET"
    /\ \E ok \in SUBSET batched :
         answer' = [c \in Posted |-> IF c \in ok THEN "ok" ELSE "error"]
    /\ stage' = "read"
    /\ UNCHANGED <<batched, custom, closed, overdue, chain, method, headers, performed, results>>

\* The connection fails; the server may have executed the batch.
TransportFails ==
    /\ stage \in {"sent", "read"}
    /\ IF stage = "sent" /\ method = "POST" THEN \E done \in SUBSET batched : Performs(done)
       ELSE UNCHANGED performed
    /\ Returns("unknown")
    /\ UNCHANGED <<batched, custom, closed, overdue, chain, method, headers, answer>>

Unsafe(hops) == \E n \in 1..(Len(hops) - 1) : hops[n] # hops[n + 1]

\* Mutant: only the last hop of the chain is compared.
CrossOriginLast(hops) == Len(hops) > 1 /\ hops[Len(hops) - 1] # hops[Len(hops)]

\* hasUnsafeHTTPRedirectHop looks at the whole chain: once a hop has left the
\* origin, coming back does not bring the headers back.
CrossOrigin(hops) == Unsafe(hops)

\* What preserveHTTPRedirectHeaders leaves on a request that may be made.
HeadersAfter(hops, m) ==
    IF CrossOrigin(hops) THEN {} ELSE IF m = "GET" THEN AllHeaders \ {"body"} ELSE AllHeaders

\* A redirect: 307 and 308 keep method and body, the others turn into a GET.  Who
\* answers 307 or 308 has executed nothing; who answers with another code may have
\* executed the batch (303: its results are elsewhere) or not (302 in front of the
\* endpoint).
\* Refused: too many, a target with credentials in its URL, and a body that
\* would be sent to another origin.  A client of the caller's has a policy of its
\* own, and only the number of hops is bounded, unless it does that too.
Redirect ==
    /\ stage = "sent"
    /\ \E to \in Origins, m \in {"GET", method} :
         LET hops == Append(chain, to)
             refused == Len(chain) >= MaxHops \/ (~ custom /\ CrossOrigin(hops) /\ m = "POST")
         IN /\ IF refused
               THEN Returns("unknown") /\ UNCHANGED <<chain, method, headers>>
               ELSE /\ chain' = hops
                    /\ method' = m
                    /\ headers' \in IF custom THEN SUBSET AllHeaders ELSE {HeadersAfter(hops, m)}
                    /\ UNCHANGED <<stage, results>>
            /\ IF m # method THEN \E done \in SUBSET batched : Performs(done)
               ELSE UNCHANGED performed
    /\ UNCHANGED <<batched, custom, closed, overdue, answer>>

-----------------------------------------------------------------------------
(* The answer.                                                                *)

\* Too large, not JSON, not 200, not as many results as commands, a result of an
\* unknown shape: one error for the batch.
ReadFails ==
    /\ stage = "read"
    /\ Returns("unknown")
    /\ UNCHANGED <<batched, custom, closed, overdue, chain, method, headers, answer, performed>>

Decode ==
    /\ stage = "read"
    /\ IF overdue THEN Returns("unknown") ELSE stage' = "check" /\ UNCHANGED results
    /\ UNCHANGED <<batched, custom, closed, overdue, chain, method, headers, answer, performed>>

\* The deadline once more, after the decoding: a result becomes an error that
\* does not say whether the command was executed; errors stay.
Deliver ==
    /\ stage = "check"
    /\ results' = [c \in Posted |->
                     IF c \notin batched THEN results[c]
                     ELSE IF answer[c] = "ok" /\ ~ overdue THEN "ok" ELSE "unknown"]
    /\ stage' = "done"
    /\ UNCHANGED <<batched, custom, closed, overdue, chain, method, headers, answer, performed>>

\* The deadline passes or the caller cancels; Close closes idle connections and
\* refuses new batches.
PostExpires ==
    /\ ~ overdue /\ stage # "done"
    /\ overdue' = TRUE
    /\ UNCHANGED <<batched, custom, closed, stage, chain, method, headers, answer, performed,
                   results>>

CloseHttp ==
    /\ ~ closed /\ stage # "done"
    /\ closed' = TRUE
    /\ UNCHANGED <<batched, custom, overdue, stage, chain, method, headers, answer, performed,
                   results>>

HttpNext ==
    \/ NotSent \/ Submit
    \/ Serve \/ ServeGet \/ TransportFails \/ Redirect
    \/ ReadFails \/ Decode \/ Deliver
    \/ PostExpires \/ CloseHttp

HttpSpec == HttpInit /\ [][HttpNext]_httpVars

HttpTypeOK ==
    /\ stage \in {"start", "sent", "read", "check", "done"}
    /\ chain \in Seq(Origins) /\ headers \subseteq AllHeaders

-----------------------------------------------------------------------------
(* Properties.                                                                *)

\* What the results say of the execution.  A result that came back on a GET is
\* the word of a server that never got the batch: the code reports it as success,
\* and nothing follows from it.
Vouched ==
    [c \in Posted |-> IF method = "GET" /\ results[c] = "ok" THEN "unknown" ELSE results[c]]

\* A command of a batch is executed at most once, and its result is true, also
\* when the deadline passes while the answer is decoded, or a redirect is
\* refused half way.  A success that followed a redirect from POST to GET is not
\* covered: it may be of a command that no server has executed.
HttpDelivery == INSTANCE Delivery WITH Units <- Posted, executed <- performed, outcome <- Vouched
HttpImplements == HttpDelivery!Spec

\* Credentials go to the executor's own origin only, and to no request after the
\* chain has once left it; a body goes nowhere else either.  (With the SDK's own
\* HTTP client; one supplied by the caller follows redirects as it likes.)
CredentialsStayHome ==
    stage = "sent" /\ ~ custom /\ Unsafe(chain) => "credentials" \notin headers /\ method = "GET"
=============================================================================
