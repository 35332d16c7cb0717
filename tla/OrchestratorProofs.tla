-------------------------- MODULE OrchestratorProofs --------------------------
(* The promises of Orchestrator for any requests, any lists of outputs and any *)
(* number of overlapping, failing and cut attempts.                            *)
EXTENDS Orchestrator, WellFoundedInduction, TLAPS

(* The gates that stand before the first render, and the one in it.            *)
PassesGates(r) == req[r].engine # "none" /\ SupportsAll(r) /\ req[r].valid
Renderable(r) == PassesGates(r) /\ req[r].refusal = "none"

(* What an attempt knows of its request at each step: a verdict comes only for *)
(* one that can never be rendered, and nothing is rendered of it.              *)
GatesKept ==
    \A r \in Requests, n \in Attempts :
        /\ pc[r][n] = "render" => PassesGates(r)
        /\ pc[r][n] \in {"store", "SUCCESS"} \/ rendered[r][n] # {} => Renderable(r)
        /\ pc[r][n] \in Verdicts => ~Renderable(r)

(* How far the two loops are.                                                  *)
LoopsInOrder ==
    \A r \in Requests, n \in Attempts :
        /\ pc[r][n] \in {"idle", "fetch"} => rendered[r][n] = {}
        /\ pc[r][n] = "render" => rendered[r][n] # RequestedFormats(r)
        /\ pc[r][n] \in {"store", "SUCCESS"} => rendered[r][n] = RequestedFormats(r)
        /\ pc[r][n] = "store" => stored[r][n] # RequestedFormats(r)
        /\ pc[r][n] = "SUCCESS" => stored[r][n] = RequestedFormats(r)

(* Whatever an attempt has stored is there, with the content that any other    *)
(* attempt would give it.                                                      *)
StoredIsThere ==
    \A r \in Requests, n \in Attempts : ~SharesPlace(r) =>
        \A i \in stored[r][n] : bucket[Key(r, i)] = Content(r, 1)

IndInv == TypeOK /\ GatesKept /\ LoopsInOrder /\ StoredIsThere

-------------------------------------------------------------------------------
(* A set of naturals has a least element.                                      *)
LEMMA Minimum ==
    ASSUME NEW T, T \subseteq Nat, T # {}
    PROVE  \E x \in T : \A y \in T : x <= y
<1>1. PICK x \in T : \A y \in T : ~(<<y, x>> \in OpToRel(<, Nat))
  BY NatLessThanWellFounded, WFMin
<1>2. \A y \in T : ~(y < x)
  BY <1>1 DEF OpToRel
<1> QED  BY <1>2

(* requested_formats has every format the caller lists, and at least one.      *)
LEMMA FormatsRequested ==
    ASSUME TypeOK, NEW r \in Requests
    PROVE  /\ DOMAIN req[r].outputs \subseteq Nat
           /\ RequestedFormats(r) \subseteq DOMAIN req[r].outputs
           /\ \A i \in DOMAIN req[r].outputs :
                 \E j \in RequestedFormats(r) : req[r].outputs[j] = req[r].outputs[i]
           /\ RequestedFormats(r) # {}
           /\ \A i \in DOMAIN req[r].outputs : Key(r, i) \in Places \X Formats
<1> DEFINE out == req[r].outputs
<1>1. req[r] \in RequestKinds /\ out \in Seq(Formats) /\ out # <<>>
  BY KindAssumption DEF TypeOK
<1>2. DOMAIN out = 1..Len(out) /\ Len(out) \in Nat /\ Len(out) # 0
  BY <1>1
<1>3. \A i \in DOMAIN out : out[i] \in Formats
  BY <1>1
<1>4. ASSUME NEW i \in DOMAIN out
      PROVE  \E j \in RequestedFormats(r) : out[j] = out[i]
  <2> DEFINE T == {j \in DOMAIN out : out[j] = out[i]}
  <2>1. PICK j \in T : \A k \in T : j <= k
    <3>1. T \subseteq Nat /\ i \in T
      BY <1>2
    <3> HIDE DEF T
    <3> QED  BY <3>1, Minimum
  <2>2. \A k \in 1..(j - 1) : out[k] # out[j]
    BY <1>2, <2>1
  <2> QED  BY <2>1, <2>2 DEF RequestedFormats
<1>5. RequestedFormats(r) # {}
  <2>1. 1 \in DOMAIN out
    BY <1>2
  <2> QED  BY <1>4, <2>1
<1>6. \A i \in DOMAIN out : Key(r, i) \in Places \X Formats
  BY <1>1, <1>3 DEF Key, Places
<1> QED  BY <1>2, <1>4, <1>5, <1>6 DEF RequestedFormats

(* A loop over it that is not done has a next position.                        *)
LEMMA NextPosition ==
    ASSUME TypeOK, NEW r \in Requests, NEW done,
           done \subseteq RequestedFormats(r), done # RequestedFormats(r)
    PROVE  NextIn(r, done) \in RequestedFormats(r) \ done
<1> DEFINE T == RequestedFormats(r) \ done
<1>1. T \subseteq Nat /\ T # {}
  BY FormatsRequested
<1>2. \E i \in T : \A j \in T : i <= j
  <2> HIDE DEF T
  <2> QED  BY <1>1, Minimum
<1> QED  BY <1>2 DEF NextIn

(* What a put leaves in the bucket: the key's own content, and of the others   *)
(* what was there; a request with a key_prefix of its own has its keys alone.  *)
LEMMA PutFacts ==
    ASSUME TypeOK, NEW r \in Requests, NEW n \in Attempts,
           NEW i \in DOMAIN req[r].outputs, PutArtifact(r, n, i)
    PROVE  /\ bucket' \in [Places \X Formats -> {<<>>} \cup (Requests \X Nat)]
           /\ bucket'[Key(r, i)] = Content(r, 1)
           /\ \A j \in DOMAIN req[r].outputs :
                 bucket[Key(r, j)] = Content(r, 1) => bucket'[Key(r, j)] = Content(r, 1)
           /\ \A q \in Requests : q # r /\ ~SharesPlace(q) =>
                 \A j \in DOMAIN req[q].outputs :
                    bucket'[Key(q, j)] = bucket[Key(q, j)]
<1>1. Key(r, i) \in Places \X Formats
  BY FormatsRequested
<1>2. Content(r, n) = Content(r, 1) /\ Content(r, n) \in Requests \X Nat
  BY DEF Content
<1>3. bucket' = [bucket EXCEPT ![Key(r, i)] = Content(r, n)]
  BY DEF PutArtifact
<1>4. bucket \in [Places \X Formats -> {<<>>} \cup (Requests \X Nat)]
  BY DEF TypeOK
<1>5. /\ bucket' \in [Places \X Formats -> {<<>>} \cup (Requests \X Nat)]
      /\ bucket'[Key(r, i)] = Content(r, 1)
  BY <1>1, <1>2, <1>3, <1>4
<1>6. ASSUME NEW j \in DOMAIN req[r].outputs, bucket[Key(r, j)] = Content(r, 1)
      PROVE  bucket'[Key(r, j)] = Content(r, 1)
  <2>1. Key(r, j) \in Places \X Formats
    BY FormatsRequested
  <2> QED  BY <1>1, <1>2, <1>3, <1>4, <1>6, <2>1
<1>7. ASSUME NEW q \in Requests, q # r, ~SharesPlace(q),
             NEW j \in DOMAIN req[q].outputs
      PROVE  bucket'[Key(q, j)] = bucket[Key(q, j)]
  <2>1. Key(q, j) # Key(r, i)
    BY <1>7 DEF SharesPlace, Key
  <2>2. Key(q, j) \in Places \X Formats
    BY FormatsRequested
  <2> QED  BY <1>3, <1>4, <2>1, <2>2
<1> QED  BY <1>5, <1>6, <1>7
-------------------------------------------------------------------------------
(* Nothing has been delivered yet.                                             *)
LEMMA InitInv == Init => IndInv
<1> SUFFICES ASSUME Init PROVE IndInv
  OBVIOUS
<1>1. TypeOK
  BY DEF Init, TypeOK
<1>2. GatesKept
  BY DEF Init, GatesKept, Verdicts, Permanent
<1>3. LoopsInOrder /\ StoredIsThere
  BY DEF Init, LoopsInOrder, StoredIsThere
<1> QED  BY <1>1, <1>2, <1>3 DEF IndInv

(* One attempt moves; the others, and what they know, stay as they are.        *)
LEMMA AttemptStep ==
    ASSUME TypeOK, NEW r \in Requests, NEW n \in Attempts,
           NEW p \in {"fetch", "render", "store", "cut"} \cup Results,
           Goto(r, n, p), UNCHANGED req
    PROVE  /\ req' \in [Requests -> RequestKinds]
           /\ pc' \in [Requests -> [Attempts -> {"idle", "fetch", "render", "store", "cut"}
                                                \cup Results]]
           /\ pc'[r][n] = p
           /\ \A q \in Requests, k \in Attempts :
                 q # r \/ k # n => pc'[q][k] = pc[q][k]
           /\ \A q \in Requests :
                 /\ RequestedFormats(q)' = RequestedFormats(q)
                 /\ PassesGates(q)' = PassesGates(q)
                 /\ Renderable(q)' = Renderable(q)
                 /\ SharesPlace(q)' = SharesPlace(q)
                 /\ \A i : Key(q, i)' = Key(q, i)
<1>1. pc' = [pc EXCEPT ![r][n] = p]
  BY DEF Goto
<1>2. /\ pc' \in [Requests -> [Attempts -> {"idle", "fetch", "render", "store", "cut"}
                                           \cup Results]]
      /\ pc'[r][n] = p
      /\ \A q \in Requests, k \in Attempts :
            q # r \/ k # n => pc'[q][k] = pc[q][k]
  BY <1>1 DEF TypeOK
<1>3. \A q \in Requests :
         /\ RequestedFormats(q)' = RequestedFormats(q)
         /\ PassesGates(q)' = PassesGates(q)
         /\ Renderable(q)' = Renderable(q)
         /\ SharesPlace(q)' = SharesPlace(q)
         /\ \A i : Key(q, i)' = Key(q, i)
  BY DEF RequestedFormats, PassesGates, Renderable, SupportsAll, SharesPlace,
         Key
<1> QED  BY <1>2, <1>3 DEF TypeOK

(* So a step keeps the invariant if the attempt it is made by has, after it,   *)
(* the knowledge and the artifacts that go with where it is.                   *)
KnownBy(r, n) ==
    /\ pc[r][n] = "render" => PassesGates(r)
    /\ pc[r][n] \in {"store", "SUCCESS"} \/ rendered[r][n] # {} => Renderable(r)
    /\ pc[r][n] \in Verdicts => ~Renderable(r)
    /\ pc[r][n] \in {"idle", "fetch"} => rendered[r][n] = {}
    /\ pc[r][n] = "render" => rendered[r][n] # RequestedFormats(r)
    /\ pc[r][n] \in {"store", "SUCCESS"} => rendered[r][n] = RequestedFormats(r)
    /\ pc[r][n] = "store" => stored[r][n] # RequestedFormats(r)
    /\ pc[r][n] = "SUCCESS" => stored[r][n] = RequestedFormats(r)
    /\ stored[r][n] \subseteq rendered[r][n]
    /\ rendered[r][n] \subseteq RequestedFormats(r)

(* A step of one attempt disturbs nothing of the others, so that it keeps the  *)
(* invariant if what it comes to know is true.                                 *)
LEMMA OneAttempt ==
    ASSUME TypeOK, GatesKept, LoopsInOrder,
           NEW r \in Requests, NEW n \in Attempts,
           NEW p \in {"fetch", "render", "store", "cut"} \cup Results,
           Goto(r, n, p), UNCHANGED req, KnownBy(r, n)',
           {rendered', stored'} \subseteq [Requests -> [Attempts -> SUBSET Nat]],
           \A q \in Requests, k \in Attempts : q # r \/ k # n =>
              rendered'[q][k] = rendered[q][k] /\ stored'[q][k] = stored[q][k],
           bucket' \in [Places \X Formats -> {<<>>} \cup (Requests \X Nat)]
    PROVE  TypeOK' /\ GatesKept' /\ LoopsInOrder'
<1>1. \A q \in Requests, k \in Attempts : KnownBy(q, k)'
  <2> SUFFICES ASSUME NEW q \in Requests, NEW k \in Attempts, q # r \/ k # n
               PROVE  KnownBy(q, k)'
    OBVIOUS
  <2>1. KnownBy(q, k)
    BY DEF KnownBy, TypeOK, GatesKept, LoopsInOrder
  <2>2. /\ pc'[q][k] = pc[q][k] /\ rendered'[q][k] = rendered[q][k]
        /\ stored'[q][k] = stored[q][k]
        /\ RequestedFormats(q)' = RequestedFormats(q)
        /\ PassesGates(q)' = PassesGates(q) /\ Renderable(q)' = Renderable(q)
    BY AttemptStep
  <2> QED  BY <2>1, <2>2 DEF KnownBy
<1>2. TypeOK'
  BY <1>1, AttemptStep DEF TypeOK, KnownBy, Places
<1>3. GatesKept' /\ LoopsInOrder'
  BY <1>1 DEF GatesKept, LoopsInOrder, KnownBy
<1> QED  BY <1>2, <1>3
(* A step that stores nothing leaves what is stored.                           *)
LEMMA NothingStored ==
    ASSUME StoredIsThere, UNCHANGED <<req, stored, bucket>>
    PROVE  StoredIsThere'
BY DEF StoredIsThere, SharesPlace, Key, Content

(* Every step of every attempt keeps the invariant.                            *)
LEMMA NextInv == IndInv /\ [Next]_vars => IndInv'
<1> SUFFICES ASSUME TypeOK, GatesKept, LoopsInOrder, StoredIsThere, [Next]_vars
             PROVE  TypeOK' /\ GatesKept' /\ LoopsInOrder' /\ StoredIsThere'
  BY DEF IndInv
<1>0. \A r \in Requests, n \in Attempts : KnownBy(r, n)
  BY DEF KnownBy, TypeOK, GatesKept, LoopsInOrder
<1>1. ASSUME NEW r \in Requests, NEW n \in Attempts,
             Begin(r, n) \/ Cut(r, n)
      PROVE  TypeOK' /\ GatesKept' /\ LoopsInOrder' /\ StoredIsThere'
  <2>1. PICK p \in {"fetch", "cut"} :
           Goto(r, n, p) /\ (p = "fetch" => pc[r][n] = "idle")
    BY <1>1 DEF Begin, Cut
  <2>2. UNCHANGED <<req, rendered, stored, bucket>>
    BY <1>1 DEF Begin, Cut
  <2>3. pc'[r][n] = p
    BY <2>1, <2>2, AttemptStep
  <2>4. KnownBy(r, n)'
    BY <1>0, <2>1, <2>2, <2>3, AttemptStep DEF KnownBy, Verdicts, Permanent
  <2>5. TypeOK' /\ GatesKept' /\ LoopsInOrder'
    BY <2>1, <2>2, <2>4, OneAttempt DEF TypeOK
  <2> QED  BY <2>2, <2>5, NothingStored
<1>2. ASSUME NEW r \in Requests, NEW n \in Attempts, Fetch(r, n)
      PROVE  TypeOK' /\ GatesKept' /\ LoopsInOrder' /\ StoredIsThere'
  <2>1. UNCHANGED <<req, rendered, stored, bucket>>
    BY <1>2 DEF Fetch
  <2>2. PICK p \in {"render"} \cup Permanent \cup Transient :
          /\ Goto(r, n, p)
          /\ p = "render" => PassesGates(r)
          /\ p \in Verdicts => ~PassesGates(r)
    BY <1>2 DEF Fetch, Gate, PassesGates, Verdicts, Permanent, Transient
  <2>3. pc'[r][n] = p /\ RequestedFormats(r)' = RequestedFormats(r)
        /\ PassesGates(r)' = PassesGates(r) /\ Renderable(r)' = Renderable(r)
    BY <2>1, <2>2, AttemptStep DEF Results
  <2>4. rendered[r][n] = {} /\ stored[r][n] = {}
    BY <1>0, <1>2 DEF KnownBy, Fetch
  <2>5. KnownBy(r, n)'
    BY <1>0, <2>1, <2>2, <2>3, <2>4, FormatsRequested
       DEF KnownBy, Verdicts, Permanent, Transient, Renderable
  <2>6. TypeOK' /\ GatesKept' /\ LoopsInOrder'
    BY <2>1, <2>2, <2>5, OneAttempt DEF TypeOK, Results
  <2> QED  BY <2>1, <2>6, NothingStored
<1>3. ASSUME NEW r \in Requests, NEW n \in Attempts, Render(r, n)
      PROVE  TypeOK' /\ GatesKept' /\ LoopsInOrder' /\ StoredIsThere'
  <2>1. UNCHANGED <<req, stored, bucket>> /\ pc[r][n] = "render"
    BY <1>3 DEF Render
  <2>2. /\ PassesGates(r) /\ rendered[r][n] # RequestedFormats(r)
        /\ rendered[r][n] \subseteq RequestedFormats(r)
        /\ stored[r][n] \subseteq rendered[r][n]
    BY <1>0, <2>1 DEF KnownBy
  <2>3. rendered \in [Requests -> [Attempts -> SUBSET Nat]]
    BY DEF TypeOK
  <2> DEFINE done == rendered[r][n] \cup {NextIn(r, rendered[r][n])}
  <2>4. CASE /\ req[r].refusal = "none"
             /\ rendered' = [rendered EXCEPT ![r][n] = done]
             /\ Goto(r, n, IF done = RequestedFormats(r) THEN "store" ELSE "render")
    <3>1. NextIn(r, rendered[r][n]) \in RequestedFormats(r) \ rendered[r][n]
      BY <2>2, NextPosition
    <3>2. done \subseteq RequestedFormats(r) /\ done # {} /\ done \in SUBSET Nat
      BY <2>2, <3>1, FormatsRequested
    <3> DEFINE p == IF done = RequestedFormats(r) THEN "store" ELSE "render"
    <3>3. p \in {"render", "store"} /\ Goto(r, n, p)
      BY <2>4
    <3>4. /\ rendered' \in [Requests -> [Attempts -> SUBSET Nat]]
          /\ rendered'[r][n] = done
          /\ \A q \in Requests, k \in Attempts :
                q # r \/ k # n => rendered'[q][k] = rendered[q][k]
      <4> HIDE DEF done
      <4> QED  BY <2>3, <2>4, <3>2
    <3>5. /\ pc'[r][n] = p /\ RequestedFormats(r)' = RequestedFormats(r)
          /\ PassesGates(r)' /\ Renderable(r)'
      <4> HIDE DEF p
      <4> QED  BY <2>1, <2>2, <2>4, <3>3, AttemptStep DEF Renderable
    <3>6. stored[r][n] # RequestedFormats(r) /\ stored[r][n] \subseteq done
      BY <2>2
    <3>7. KnownBy(r, n)'
      BY <2>1, <3>2, <3>4, <3>5, <3>6 DEF KnownBy, Verdicts, Permanent
    <3>8. /\ {rendered', stored'} \subseteq [Requests -> [Attempts -> SUBSET Nat]]
          /\ bucket' \in [Places \X Formats -> {<<>>} \cup (Requests \X Nat)]
          /\ \A q \in Requests, k \in Attempts : q # r \/ k # n =>
                rendered'[q][k] = rendered[q][k] /\ stored'[q][k] = stored[q][k]
      BY <2>1, <3>4 DEF TypeOK
    <3>9. p \in {"fetch", "render", "store", "cut"} \cup Results /\ UNCHANGED req
      BY <2>1, <3>3
    <3> HIDE DEF p, done
    <3> QED  BY <2>1, <3>3, <3>7, <3>8, <3>9, OneAttempt, NothingStored
  <2>5. CASE /\ rendered' = rendered
             /\ \/ req[r].refusal # "none" /\ Goto(r, n, req[r].refusal)
                \/ Goto(r, n, Unclassified(r)) \/ Goto(r, n, "TEMPLATE_NOT_FOUND")
    <3>1. PICK p \in Permanent \cup {"RENDER_ERROR"} :
             Goto(r, n, p) /\ (p \in Verdicts => ~Renderable(r))
      <4>1. req[r].refusal \in {"none"} \cup Permanent
        BY KindAssumption DEF TypeOK
      <4> QED
        BY <2>5, <4>1 DEF Renderable, Unclassified, Verdicts, Permanent
    <3>2. /\ pc'[r][n] = p /\ RequestedFormats(r)' = RequestedFormats(r)
          /\ Renderable(r)' = Renderable(r)
      BY <2>1, <3>1, AttemptStep DEF Results, Transient
    <3>3. KnownBy(r, n)'
      BY <1>0, <2>1, <2>5, <3>1, <3>2 DEF KnownBy, Verdicts, Permanent
    <3>4. p \in {"fetch", "render", "store", "cut"} \cup Results
      BY <3>1 DEF Results, Transient
    <3>5. /\ UNCHANGED req
          /\ {rendered', stored'} \subseteq [Requests -> [Attempts -> SUBSET Nat]]
          /\ bucket' \in [Places \X Formats -> {<<>>} \cup (Requests \X Nat)]
          /\ \A q \in Requests, k \in Attempts : q # r \/ k # n =>
                rendered'[q][k] = rendered[q][k] /\ stored'[q][k] = stored[q][k]
      BY <2>1, <2>5 DEF TypeOK
    <3> QED  BY <2>1, <3>1, <3>3, <3>4, <3>5, OneAttempt, NothingStored
  <2> QED  BY <1>3, <2>4, <2>5 DEF Render
<1>4. ASSUME NEW r \in Requests, NEW n \in Attempts, Store(r, n)
      PROVE  TypeOK' /\ GatesKept' /\ LoopsInOrder' /\ StoredIsThere'
  <2> DEFINE i == NextIn(r, stored[r][n])
             done == stored[r][n] \cup {i}
  <2>1. UNCHANGED <<req, rendered>> /\ pc[r][n] = "store"
    BY <1>4 DEF Store
  <2>2. /\ Renderable(r) /\ rendered[r][n] = RequestedFormats(r)
        /\ stored[r][n] \subseteq RequestedFormats(r)
        /\ stored[r][n] # RequestedFormats(r)
    BY <1>0, <2>1 DEF KnownBy
  <2>3. i \in RequestedFormats(r) /\ i \in DOMAIN req[r].outputs /\ i \in Nat
    BY <2>2, NextPosition, FormatsRequested
  <2>4. stored \in [Requests -> [Attempts -> SUBSET Nat]]
    BY DEF TypeOK
  <2> HIDE DEF i
  <2>5. CASE /\ PutArtifact(r, n, i)
             /\ stored' = [stored EXCEPT ![r][n] = done]
             /\ Goto(r, n, IF AllStored(r, done) THEN "SUCCESS" ELSE "store")
    <3> DEFINE p == IF AllStored(r, done) THEN "SUCCESS" ELSE "store"
    <3>1. p \in {"SUCCESS", "store"} /\ Goto(r, n, p)
      BY <2>5
    <3>2. done \subseteq RequestedFormats(r) /\ done \in SUBSET Nat
      BY <2>2, <2>3, <2>4, FormatsRequested
    <3>3. /\ stored' \in [Requests -> [Attempts -> SUBSET Nat]]
          /\ stored'[r][n] = done
          /\ \A q \in Requests, k \in Attempts :
                q # r \/ k # n => stored'[q][k] = stored[q][k]
      <4> HIDE DEF done
      <4> QED  BY <2>4, <2>5, <3>2
    <3>4. p = "SUCCESS" <=> done = RequestedFormats(r)
      BY DEF AllStored
    <3> HIDE DEF p, done
    <3>5. /\ pc'[r][n] = p /\ \A q \in Requests :
                /\ RequestedFormats(q)' = RequestedFormats(q)
                /\ Renderable(q)' = Renderable(q)
                /\ SharesPlace(q)' = SharesPlace(q)
                /\ \A j : Key(q, j)' = Key(q, j)
      BY <2>1, <3>1, AttemptStep DEF Results
    <3>6. KnownBy(r, n)'
      BY <2>1, <2>2, <3>1, <3>2, <3>3, <3>4, <3>5 DEF KnownBy, Verdicts, Permanent
    <3>7. TypeOK' /\ GatesKept' /\ LoopsInOrder'
      <4>1. p \in {"fetch", "render", "store", "cut"} \cup Results
        BY <3>1 DEF Results
      <4>2. /\ {rendered', stored'} \subseteq [Requests -> [Attempts -> SUBSET Nat]]
            /\ \A q \in Requests, k \in Attempts : rendered'[q][k] = rendered[q][k]
        BY <2>1, <3>3 DEF TypeOK
      <4>3. bucket' \in [Places \X Formats -> {<<>>} \cup (Requests \X Nat)]
        BY <2>3, <2>5, PutFacts
      <4> QED  BY <2>1, <3>1, <3>3, <3>6, <4>1, <4>2, <4>3, OneAttempt
    <3>8. StoredIsThere'
      <4> SUFFICES ASSUME NEW q \in Requests, NEW k \in Attempts, ~SharesPlace(q),
                          NEW j \in stored'[q][k]
                   PROVE  bucket'[Key(q, j)] = Content(q, 1)
        BY <3>5 DEF StoredIsThere, Content
      <4>1. CASE q # r
        <5>1. j \in stored[q][k] /\ j \in DOMAIN req[q].outputs
          BY <3>3, <4>1, FormatsRequested DEF TypeOK
        <5>2. bucket[Key(q, j)] = Content(q, 1)
          BY <5>1 DEF StoredIsThere
        <5> QED  BY <2>3, <2>5, <4>1, <5>1, <5>2, PutFacts
      <4>2. CASE q = r /\ j \in stored[q][k]
        <5>1. j \in DOMAIN req[q].outputs
          BY <4>2, FormatsRequested DEF TypeOK
        <5>2. bucket[Key(q, j)] = Content(q, 1)
          BY <4>2 DEF StoredIsThere
        <5> QED  BY <2>3, <2>5, <4>2, <5>1, <5>2, PutFacts
      <4>3. CASE q = r /\ j = i
        BY <2>3, <2>5, <4>3, PutFacts
      <4>4. q = r => j \in stored[q][k] \/ j = i
        BY <3>3 DEF done
      <4> QED  BY <4>1, <4>2, <4>3, <4>4
    <3> QED  BY <3>7, <3>8
  <2>6. CASE PutFails(r, n, i) /\ stored' = stored
    <3>1. PICK p \in Transient : Goto(r, n, p)
      BY <2>6 DEF PutFails
    <3>2. /\ pc'[r][n] = p /\ \A q \in Requests :
                /\ RequestedFormats(q)' = RequestedFormats(q)
                /\ Renderable(q)' = Renderable(q)
                /\ SharesPlace(q)' = SharesPlace(q)
                /\ \A j : Key(q, j)' = Key(q, j)
      BY <2>1, <3>1, AttemptStep DEF Results
    <3>3. KnownBy(r, n)'
      BY <1>0, <2>1, <2>2, <2>6, <3>1, <3>2 DEF KnownBy, Verdicts, Permanent, Transient
    <3>4. bucket' \in [Places \X Formats -> {<<>>} \cup (Requests \X Nat)]
      BY <2>3, <2>6, PutFacts DEF PutFails, TypeOK
    <3>5. TypeOK' /\ GatesKept' /\ LoopsInOrder'
      BY <2>1, <2>6, <3>1, <3>3, <3>4, OneAttempt DEF TypeOK, Results
    <3>6. StoredIsThere'
      <4> SUFFICES ASSUME NEW q \in Requests, NEW k \in Attempts, ~SharesPlace(q),
                          NEW j \in stored[q][k]
                   PROVE  bucket'[Key(q, j)] = Content(q, 1)
        BY <2>6, <3>2 DEF StoredIsThere, Content
      <4>1. j \in DOMAIN req[q].outputs /\ bucket[Key(q, j)] = Content(q, 1)
        BY FormatsRequested DEF StoredIsThere, TypeOK
      <4> QED  BY <2>3, <2>6, <4>1, PutFacts DEF PutFails
    <3> QED  BY <3>5, <3>6
  <2> QED  BY <1>4, <2>5, <2>6 DEF Store, i
<1>5. CASE UNCHANGED vars
  <2>1. UNCHANGED <<req, pc, rendered, stored, bucket>>
    BY <1>5 DEF vars
  <2>2. TypeOK'
    BY <2>1 DEF TypeOK, RequestedFormats
  <2>3. GatesKept'
    BY <2>1
       DEF GatesKept, PassesGates, Renderable, SupportsAll, RequestedFormats
  <2>4. LoopsInOrder'
    BY <2>1 DEF LoopsInOrder, RequestedFormats
  <2> QED  BY <2>1, <2>2, <2>3, <2>4, NothingStored
<1> QED  BY <1>1, <1>2, <1>3, <1>4, <1>5 DEF Next, Attempt

-------------------------------------------------------------------------------
(* The invariant of every behaviour.                                           *)
LEMMA Invariance == Spec => []IndInv
<1>1. Init => IndInv
  BY InitInv
<1>2. IndInv /\ [Next]_vars => IndInv'
  BY NextInv
<1> QED  BY <1>1, <1>2, PTL DEF Spec

(* The state of every attempt at every request stays in its types, and no      *)
(* artifact is stored that was not rendered, or rendered that was not asked    *)
(* for.                                                                        *)
THEOREM TypeCorrect == Spec => []TypeOK
<1>1. IndInv => TypeOK
  BY DEF IndInv
<1> QED  BY <1>1, Invariance, PTL

(* A success is true and stays true: every output that the caller lists, the   *)
(* repeated ones included, is in the bucket with the request's content, before *)
(* and after any number of other attempts at it.                               *)
THEOREM SuccessIsTrue == Spec => []SuccessMeansStored
<1>1. IndInv => SuccessMeansStored
  <2> SUFFICES ASSUME IndInv, NEW r \in Requests, NEW n \in Attempts,
                      pc[r][n] = "SUCCESS", ~SharesPlace(r),
                      NEW i \in DOMAIN req[r].outputs
               PROVE  bucket[Key(r, i)] = Content(r, 1)
    BY DEF SuccessMeansStored, Succeeded
  <2>1. PICK j \in RequestedFormats(r) : req[r].outputs[j] = req[r].outputs[i]
    BY FormatsRequested DEF IndInv
  <2>2. bucket[Key(r, j)] = Content(r, 1)
    BY DEF IndInv, LoopsInOrder, StoredIsThere
  <2> QED  BY <2>1, <2>2 DEF Key
<1> QED  BY <1>1, Invariance, PTL

(* A verdict is final, whatever the cache and the bucket of templates answer   *)
(* to the other attempts at the request: none succeeds, before or after, and   *)
(* none has stored anything.                                                   *)
THEOREM RefusalIsFinal == Spec => []VerdictIsFinal
<1>1. IndInv => VerdictIsFinal
  <2> SUFFICES ASSUME IndInv, NEW r \in Requests, NEW n \in Attempts,
                      pc[r][n] \in Verdicts, NEW k \in Attempts
               PROVE  pc[r][k] # "SUCCESS" /\ stored[r][k] = {}
    BY DEF VerdictIsFinal, Succeeded
  <2>1. ~Renderable(r)
    BY DEF IndInv, GatesKept
  <2>2. pc[r][k] # "SUCCESS" /\ rendered[r][k] = {}
    BY <2>1 DEF IndInv, GatesKept
  <2>3. stored[r][k] \subseteq rendered[r][k]
    BY DEF IndInv, TypeOK
  <2> QED  BY <2>2, <2>3
<1> QED  BY <1>1, Invariance, PTL

(* Once a request has succeeded, every further delivery of it, those that were *)
(* under way and those cut or failing half-way included, leaves the bucket as  *)
(* it is.                                                                      *)
THEOREM RedeliveryChangesNothing == Spec => RedeliveryIsIdempotent
<1>1. IndInv /\ [Next]_vars =>
        [\A r \in Requests, n \in Attempts :
            Succeeded(r) /\ ~SharesPlace(r) /\ Attempt(r, n) => bucket' = bucket]_vars
  <2> SUFFICES ASSUME IndInv, NEW r \in Requests, NEW n \in Attempts,
                      Succeeded(r), ~SharesPlace(r), Attempt(r, n)
               PROVE  bucket' = bucket
    OBVIOUS
  <2>1. CASE Begin(r, n) \/ Fetch(r, n) \/ Render(r, n) \/ Cut(r, n)
    BY <2>1 DEF Begin, Fetch, Render, Cut
  <2>2. CASE Store(r, n)
    <3> DEFINE i == NextIn(r, stored[r][n])
    <3>1. i \in RequestedFormats(r)
      BY <2>2, NextPosition DEF Store, IndInv, LoopsInOrder, TypeOK
    <3> HIDE DEF i
    <3>2. PICK k \in Attempts : stored[r][k] = RequestedFormats(r)
      BY DEF IndInv, Succeeded, LoopsInOrder
    <3>3. bucket[Key(r, i)] = Content(r, 1)
      BY <3>1, <3>2 DEF IndInv, StoredIsThere
    <3>4. bucket \in [Places \X Formats -> {<<>>} \cup (Requests \X Nat)]
      BY DEF IndInv, TypeOK
    <3>5. CASE PutArtifact(r, n, i)
      BY <3>3, <3>4, <3>5 DEF PutArtifact, Content
    <3> QED  BY <2>2, <3>5 DEF Store, PutFails, i
  <2> QED  BY <2>1, <2>2 DEF Attempt
<1> QED  BY <1>1, Invariance, PTL DEF Spec, RedeliveryIsIdempotent
===============================================================================
