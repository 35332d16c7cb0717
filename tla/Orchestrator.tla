----------------------------- MODULE Orchestrator -----------------------------
(* domain/orchestrator.py: the pipeline of one attempt at a request (fetch,    *)
(* format and validation gates, render every format, store every artifact),    *)
(* run again on every redelivery, possibly while an earlier attempt still runs *)
(* or after one was cut off half-way.  The attempts share the output bucket.   *)
EXTENDS Naturals, Sequences

CONSTANTS
    Requests,      \* requests in the queue
    RequestKinds,  \* what a request and its (immutable) template may be
    MaxAttempts    \* deliveries of each request

(* A request with what its template makes of it: "outputs" as the caller lists *)
(* them, the key_prefix "place", the template's engine ("none": there never is *)
(* a template) and supported_formats, whether the data passes its JSON Schema, *)
(* and the permanent error its renderer raises for it ("none": no error).      *)
ASSUME AttemptAssumption == MaxAttempts \in Nat

VARIABLES
    req,       \* the kind of each request
    pc,        \* pc[r][n]: where the n-th attempt at r is; at the end, its result
    rendered,  \* rendered[r][n]: the outputs rendered so far, by position
    stored,    \* stored[r][n]: the outputs whose put has returned
    bucket     \* output bucket: content stored under each key, <<>> if none

vars == <<req, pc, rendered, stored, bucket>>

-------------------------------------------------------------------------------
Attempts == 1..MaxAttempts
Formats == {"pdf", "html", "xlsx", "docx"}

(* adapters/renderers/registry.py.                                             *)
Registry == {<<"jinja-html", "pdf">>, <<"jinja-html", "html">>, <<"xlsx", "xlsx">>,
             <<"docx", "docx">>, <<"pdf-form", "pdf">>}

(* The error codes, by what the dispatcher does with them; an exception that   *)
(* is no DocGenError becomes a transient RENDER_ERROR there.                   *)
Permanent == {"VALIDATION_ERROR", "TEMPLATE_NOT_FOUND", "UNSUPPORTED_FORMAT"}
Transient == {"RENDER_ERROR", "STORAGE_ERROR"}
Results == {"SUCCESS"} \cup Permanent \cup Transient

(* The permanent ones that are about what a template holds, and not about      *)
(* whether the attempt found it whole.                                         *)
Verdicts == Permanent \ {"TEMPLATE_NOT_FOUND"}

(* GenerationRequest.outputs and TemplateManifest as models.py validates them, *)
(* and what a renderer may refuse for good.                                    *)
ASSUME KindAssumption ==
    \A k \in RequestKinds :
        /\ k.outputs \in Seq(Formats) \ {<<>>} /\ k.valid \in BOOLEAN
        /\ k.refusal \in {"none"} \cup Permanent

Places == {k.place : k \in RequestKinds}
Key(r, i) == <<req[r].place, req[r].outputs[i]>>

(* Artifact bytes are a function of the request and the format alone, which    *)
(* the rendering libraries are configured and tested for (external).           *)
ImpureContent(r, n) == <<r, n>>
Content(r, n) == <<r, 0>>

(* requested_formats: the first mention of each format, in order.              *)
RequestedFormats(r) ==
    {i \in DOMAIN req[r].outputs :
        \A j \in 1..(i - 1) : req[r].outputs[j] # req[r].outputs[i]}

(* The position a loop over requested_formats is at, given those it has done.  *)
NextInLastMention(r, done) == CHOOSE i \in DOMAIN req[r].outputs \ done :
                                 \A j \in DOMAIN req[r].outputs \ done : j <= i
NextIn(r, done) == CHOOSE i \in RequestedFormats(r) \ done :
                      \A j \in RequestedFormats(r) \ done : i <= j

TypeOK ==
    /\ req \in [Requests -> RequestKinds]
    /\ pc \in [Requests -> [Attempts -> {"idle", "fetch", "render", "store", "cut"}
                                        \cup Results]]
    /\ {rendered, stored} \subseteq [Requests -> [Attempts -> SUBSET Nat]]
    /\ \A r \in Requests, n \in Attempts :
         /\ stored[r][n] \subseteq rendered[r][n]
         /\ rendered[r][n] \subseteq RequestedFormats(r)
    /\ bucket \in [Places \X Formats -> {<<>>} \cup (Requests \X Nat)]

Init ==
    /\ req \in [Requests -> RequestKinds]
    /\ pc = [r \in Requests |-> [n \in Attempts |-> "idle"]]
    /\ rendered = [r \in Requests |-> [n \in Attempts |-> {}]]
    /\ stored = [r \in Requests |-> [n \in Attempts |-> {}]]
    /\ bucket = [k \in Places \X Formats |-> <<>>]

-------------------------------------------------------------------------------
Goto(r, n, p) == pc' = [pc EXCEPT ![r][n] = p]

(* A delivery; the one before has started, and need not have ended.            *)
Begin(r, n) ==
    /\ pc[r][n] = "idle"
    /\ n > 1 => pc[r][n - 1] # "idle"
    /\ Goto(r, n, "fetch")
    /\ UNCHANGED <<req, rendered, stored, bucket>>

(* The format loop and the validation gate, up front and without an await.     *)
SupportsAll(r) ==
    \A i \in RequestedFormats(r) :
        /\ req[r].outputs[i] \in req[r].supported
        /\ <<req[r].engine, req[r].outputs[i]>> \in Registry
Gate(r) ==
    IF ~SupportsAll(r) THEN "UNSUPPORTED_FORMAT"
    ELSE IF ~req[r].valid THEN "VALIDATION_ERROR" ELSE "render"

(* template_store.fetch, made anew by every attempt, on the cache and from the *)
(* bucket as they are then, and the gates.  A template has one manifest for    *)
(* good; but one attempt may come before it is uploaded, after it is deleted   *)
(* or on a replica whose cache hides it, and the other not (TemplateStore).    *)
Fetch(r, n) ==
    /\ pc[r][n] = "fetch"
    /\ \/ req[r].engine # "none" /\ Goto(r, n, Gate(r))
       \/ \E code \in {"TEMPLATE_NOT_FOUND"} \cup Transient : Goto(r, n, code)
    /\ UNCHANGED <<req, rendered, stored, bucket>>

(* What the executor makes of a failure that is no classified error: a pool    *)
(* that broke under this render or a neighbour's, or any bug in a renderer.    *)
UnclassifiedAsPermanent(r) == "VALIDATION_ERROR"
Unclassified(r) == "RENDER_ERROR"

(* One turn of the render loop.  A bundle fetched while its objects were being *)
(* deleted may lack the entry template, whatever the other attempts have.      *)
Render(r, n) ==
    /\ pc[r][n] = "render"
    /\ \/ /\ req[r].refusal = "none"
          /\ LET done == rendered[r][n] \cup {NextIn(r, rendered[r][n])} IN
             /\ rendered' = [rendered EXCEPT ![r][n] = done]
             /\ Goto(r, n, IF done = RequestedFormats(r) THEN "store" ELSE "render")
       \/ /\ req[r].refusal # "none"
          /\ rendered' = rendered /\ Goto(r, n, req[r].refusal)
       \/ /\ rendered' = rendered
          /\ Goto(r, n, Unclassified(r)) \/ Goto(r, n, "TEMPLATE_NOT_FOUND")
    /\ UNCHANGED <<req, stored, bucket>>

PutArtifact(r, n, i) == bucket' = [bucket EXCEPT ![Key(r, i)] = Content(r, n)]

(* The store loop ends after its last artifact.                                *)
AllStoredButOne(r, done) == \E i \in RequestedFormats(r) :
                               RequestedFormats(r) \ done \subseteq {i}
AllStored(r, done) == done = RequestedFormats(r)

(* put_bytes fails, having stored the artifact or not: as StorageError if the  *)
(* client classified the error, as an unexpected one otherwise.                *)
PutFails(r, n, i) ==
    /\ PutArtifact(r, n, i) \/ bucket' = bucket
    /\ \E code \in Transient : Goto(r, n, code)

(* One turn of the store loop.  A failed presign fails nothing.                *)
Store(r, n) ==
    LET i == NextIn(r, stored[r][n])
        done == stored[r][n] \cup {i} IN
    /\ pc[r][n] = "store"
    /\ \/ /\ PutArtifact(r, n, i)
          /\ stored' = [stored EXCEPT ![r][n] = done]
          /\ Goto(r, n, IF AllStored(r, done) THEN "SUCCESS" ELSE "store")
       \/ PutFails(r, n, i) /\ stored' = stored
    /\ UNCHANGED <<req, rendered>>

(* The process dies, or a shutdown cancels the task.                           *)
Cut(r, n) ==
    /\ pc[r][n] \in {"fetch", "render", "store"}
    /\ Goto(r, n, "cut")
    /\ UNCHANGED <<req, rendered, stored, bucket>>

Attempt(r, n) ==
    Begin(r, n) \/ Fetch(r, n) \/ Render(r, n) \/ Store(r, n) \/ Cut(r, n)

Next == \E r \in Requests, n \in Attempts : Attempt(r, n)
Spec == Init /\ [][Next]_vars

-------------------------------------------------------------------------------
Succeeded(r) == \E n \in Attempts : pc[r][n] = "SUCCESS"
SharesPlace(r) == \E q \in Requests \ {r} : req[q].place = req[r].place

(* A success result is true when published and stays true: every output the    *)
(* caller asked for is in the bucket with this request's content, whatever cut *)
(* or failed attempts came before or come after.                               *)
SuccessMeansStored ==
    \A r \in Requests : Succeeded(r) /\ ~SharesPlace(r) =>
        \A i \in DOMAIN req[r].outputs : bucket[Key(r, i)] = Content(r, 1)

(* worker/dispatcher.py acks a permanent failure because "no retry could       *)
(* change the outcome".  It is so of a request its template refuses: of the    *)
(* other attempts, those that overlap this one or died half-way included, none *)
(* succeeds and none leaves an object behind.  It is not so of                 *)
(* TEMPLATE_NOT_FOUND, of which domain/errors.py says the same ("no retry      *)
(* could ever succeed"): the attempt after may find the template and succeed.  *)
VerdictIsFinal ==
    \A r \in Requests : (\E n \in Attempts : pc[r][n] \in Verdicts) =>
        /\ ~Succeeded(r)
        /\ \A n \in Attempts : stored[r][n] = {}

(* README.md: pure renders make "at-least-once delivery idempotent" and        *)
(* "deterministic output keys make redelivery safe": once a request has        *)
(* succeeded, its further deliveries change nothing in the bucket.  It takes a *)
(* key_prefix of its own: between requests that share one, a late redelivery   *)
(* of the older puts its artifacts back over those of the newer.               *)
RedeliveryIsIdempotent ==
    [][\A r \in Requests, n \in Attempts :
          Succeeded(r) /\ ~SharesPlace(r) /\ Attempt(r, n) => bucket' = bucket]_vars
===============================================================================
