-------------------------------- MODULE Blobs --------------------------------
(***************************************************************************)
(* Content-addressed objects of one tenant: blob.put, write and seal of    *)
(* the runtime prelude and the baked modules blob_compose, blob_onresult,  *)
(* blob_compose_onresult and segments_onsealed.  The hash of an object is  *)
(* its content.  Stores and composes are fetches that fail, repeat their   *)
(* answer or are lost with the leader; the engine's materializer sweeps    *)
(* the recipes that are sealed.                                            *)
(***************************************************************************)
EXTENDS Integers, Sequences, FiniteSets, SequencesExt, FiniteSetsExt

CONSTANTS
    Chains,             \* correlation ids: one open recipe each
    Bytes,
    MaxRows,            \* RECIPE_MAX_ROWS
    MaxRecords,         \* bound: records appended to the log
    MaxSealing,         \* bound: segments whose store is under way
    MaxTroubles         \* bound: failed stores, repeated answers, crashes

ASSUME BytesAssumption == "not sealed" \notin Bytes
ASSUME RecordsAssumption == MaxRecords \in Nat

VARIABLES
    recipe,     \* _blob/recipe/{sid}: meta and rows
    pending,    \* _blob/pending/{hash}: hashes
    blobOwed,   \* _blob/owed/{hash}: hashes
    stored,     \* the object store
    composing,  \* fetches of the compose door: chains
    storing,    \* fetches of the blob door: [object, on, ctx]
    settled,    \* their answers, not yet delivered: [put, ok]
    handoffs,   \* continuations into a baked module: [put, ok]
    hot,        \* _seg/{log}/h/{seq}
    index,      \* _seg/{log}/s/{first}: the last of each segment, 0 for none
    appended,   \* history: records appended
    sealedAs,   \* history: what a chain sealed
    onCalls,    \* history: how often its `on` was activated
    troubles

blobVars == <<recipe, pending, blobOwed, stored, composing, storing, settled,
              handoffs, hot, index, appended, sealedAs, onCalls, troubles>>

NoRecipe == [state |-> "none", rows |-> <<>>]
NotSealed == <<"not sealed">>

-----------------------------------------------------------------------------
(* blob.put: the marker commits with the activation, the store follows.    *)
Put(object, on, ctx) ==
    /\ blobOwed' = blobOwed \cup {object}
    /\ storing' = storing \cup {[object |-> object, on |-> on, ctx |-> ctx]}

(* A customer's put of bytes that a chain may seal too.                    *)
CustomerPut(object) ==
    /\ object \notin stored /\ Put(object, "customer", 0)
    /\ UNCHANGED <<recipe, pending, stored, composing, settled, handoffs, hot, index,
                   appended, sealedAs, onCalls, troubles>>

(* blob.write: a row, and the midstate of the hash, here of the same rows. *)
(* A chain seals once ("one seal per chain"): what it would write after    *)
(* its recipe was swept is left out.                                       *)
WriteBlob(c, b) ==
    /\ sealedAs[c] = NotSealed
    /\ recipe[c].state # "sealed" /\ Len(recipe[c].rows) < MaxRows
    /\ recipe' = [recipe EXCEPT ![c] = [state |-> "open", rows |-> Append(@.rows, b)]]
    /\ UNCHANGED <<pending, blobOwed, stored, composing, storing, settled, handoffs,
                   hot, index, appended, sealedAs, onCalls, troubles>>

(* blob.seal: once per chain; nothing written is an empty object.          *)
SealBlob(c) ==
    /\ sealedAs[c] = NotSealed /\ recipe[c].state # "sealed"
    /\ recipe' = [recipe EXCEPT ![c].state = "sealed"]
    /\ pending' = pending \cup {recipe[c].rows}
    /\ sealedAs' = [sealedAs EXCEPT ![c] = recipe[c].rows]
    /\ composing' = composing \cup {c}
    /\ UNCHANGED <<blobOwed, stored, storing, settled, handoffs, hot, index, appended,
                   onCalls, troubles>>

(* The materializer of the engine: a sealed recipe is composed again.      *)
Materialize(c) ==
    /\ recipe[c].state = "sealed" /\ composing = {} /\ storing = {}
    /\ settled = {} /\ handoffs = {}
    /\ composing' = {c}
    /\ UNCHANGED <<recipe, pending, blobOwed, stored, storing, settled, handoffs, hot,
                   index, appended, sealedAs, onCalls, troubles>>

(* blob_compose: what is not sealed is not ours, or has been composed.     *)
BlobCompose(c) ==
    /\ c \in composing
    /\ composing' = composing \ {c}
    /\ IF recipe[c].state = "sealed"
       THEN Put(recipe[c].rows, "blob_compose_onresult", c)
       ELSE UNCHANGED <<blobOwed, storing>>
    /\ UNCHANGED <<recipe, pending, stored, settled, handoffs, hot, index, appended,
                   sealedAs, onCalls, troubles>>

-----------------------------------------------------------------------------
(* The store.                                                              *)
Stores(put) ==
    /\ put \in storing
    /\ storing' = storing \ {put}
    /\ \/ /\ stored' = stored \cup {put.object}
          /\ settled' = settled \cup {[put |-> put, ok |-> TRUE]}
          /\ UNCHANGED troubles
       \/ /\ troubles < MaxTroubles /\ troubles' = troubles + 1
          /\ settled' = settled \cup {[put |-> put, ok |-> FALSE]}
          /\ UNCHANGED stored
    /\ UNCHANGED <<recipe, pending, blobOwed, composing, handoffs, hot, index, appended,
                   sealedAs, onCalls>>

(* blob_onresult: an answer whose marker is gone has been settled.  An     *)
(* answer may be delivered once more.                                      *)
BlobOnResult(a) ==
    /\ a \in settled
    /\ \/ settled' = settled \ {a} /\ UNCHANGED troubles
       \/ /\ troubles < MaxTroubles /\ troubles' = troubles + 1
          /\ UNCHANGED settled
    /\ IF a.put.object \in blobOwed
       THEN /\ blobOwed' = IF a.ok THEN blobOwed \ {a.put.object} ELSE blobOwed
            /\ handoffs' = IF a.put.on = "customer" THEN handoffs ELSE handoffs \cup {a}
       ELSE UNCHANGED <<blobOwed, handoffs>>
    /\ UNCHANGED <<recipe, pending, stored, composing, storing, hot, index, appended,
                   sealedAs, onCalls>>

(* blob_compose_onresult: a failed store leaves the recipe; otherwise the  *)
(* object owns its bytes, and the customer's `on` is activated.            *)
AnyStatus(a) == TRUE        \* mutant: the status is not looked at
Is2xx(a) == a.ok

ComposeOnResult(a) ==
    /\ a \in handoffs /\ a.put.on = "blob_compose_onresult"
    /\ handoffs' = handoffs \ {a}
    /\ LET c == a.put.ctx IN
       IF Is2xx(a) /\ recipe[c] # NoRecipe
       THEN /\ recipe' = [recipe EXCEPT ![c] = NoRecipe]
            /\ pending' = pending \ {a.put.object}
            /\ onCalls' = [onCalls EXCEPT ![c] = @ + 1]
       ELSE UNCHANGED <<recipe, pending, onCalls>>
    /\ UNCHANGED <<blobOwed, stored, composing, storing, settled, hot, index, appended,
                   sealedAs, troubles>>

-----------------------------------------------------------------------------
(* The log of @rewind/segments: records are appended; a seal puts the      *)
(* oldest hot ones, however many, and nothing waits for an earlier seal;   *)
(* segments_onsealed writes its index row and removes what it holds.       *)
AppendRecord ==
    /\ appended < MaxRecords
    /\ appended' = appended + 1
    /\ hot' = hot \cup {appended + 1}
    /\ UNCHANGED <<recipe, pending, blobOwed, stored, composing, storing, settled,
                   handoffs, index, sealedAs, onCalls, troubles>>

Segments(puts) == {p \in puts : p.on = "segments_onsealed"}
Sealing == Segments(storing) \cup Segments({a.put : a \in settled \cup handoffs})

SealSegment(last) ==
    /\ last \in hot /\ Cardinality(Sealing) < MaxSealing
    /\ Put(<<Min(hot), last>>, "segments_onsealed", 0)
    /\ UNCHANGED <<recipe, pending, stored, composing, settled, handoffs, hot, index,
                   appended, sealedAs, onCalls, troubles>>

SegmentsOnSealed(a) ==
    /\ a \in handoffs /\ a.put.on = "segments_onsealed"
    /\ handoffs' = handoffs \ {a}
    /\ IF Is2xx(a)
       THEN LET first == a.put.object[1]
                last == a.put.object[2]
            IN /\ index' = [index EXCEPT ![first] = last]
               /\ hot' = hot \ (first .. last)
       ELSE UNCHANGED <<index, hot>>
    /\ UNCHANGED <<recipe, pending, blobOwed, stored, composing, storing, settled,
                   appended, sealedAs, onCalls, troubles>>

(* What is in the memory of a leader is gone with it.                      *)
LoseCalls ==
    /\ troubles < MaxTroubles /\ troubles' = troubles + 1
    /\ composing' = {} /\ storing' = {} /\ settled' = {} /\ handoffs' = {}
    /\ UNCHANGED <<recipe, pending, blobOwed, stored, hot, index, appended, sealedAs, onCalls>>

BlobsInit ==
    /\ recipe = [c \in Chains |-> NoRecipe]
    /\ pending = {} /\ blobOwed = {} /\ stored = {}
    /\ composing = {} /\ storing = {} /\ settled = {} /\ handoffs = {}
    /\ hot = {} /\ index = [n \in 1 .. MaxRecords |-> 0] /\ appended = 0
    /\ sealedAs = [c \in Chains |-> NotSealed] /\ onCalls = [c \in Chains |-> 0]
    /\ troubles = 0

BlobsNext ==
    \/ \E object \in BoundedSeq(Bytes, 1) : CustomerPut(object)
    \/ \E c \in Chains : \/ \E b \in Bytes : WriteBlob(c, b)
                         \/ SealBlob(c) \/ Materialize(c) \/ BlobCompose(c)
    \/ \E put \in storing : Stores(put)
    \/ \E a \in settled : BlobOnResult(a)
    \/ \E a \in handoffs : ComposeOnResult(a) \/ SegmentsOnSealed(a)
    \/ AppendRecord \/ (\E last \in hot : SealSegment(last))
    \/ LoseCalls

BlobsSpec == BlobsInit /\ [][BlobsNext]_blobVars

-----------------------------------------------------------------------------
(* A chain's `on` is activated once, when its object can be served; until  *)
(* then the recipe is whole, so that it can be composed again after any    *)
(* failure; and a hash that is not pending can be served.                  *)
SealIsKept ==
    \A c \in Chains : sealedAs[c] # NotSealed =>
        /\ IF onCalls[c] = 0 THEN recipe[c] = [state |-> "sealed", rows |-> sealedAs[c]]
           ELSE onCalls[c] = 1 /\ recipe[c] = NoRecipe
        /\ sealedAs[c] \in pending \cup stored
        /\ onCalls[c] = 1 => sealedAs[c] \in stored

(* No record of the log is lost: it is hot until an object that holds it   *)
(* is stored, and what a row of the index stands for is stored and hot no  *)
(* more, whatever failed, was repeated, was lost or overlapped on the way. *)
RecordsSurvive ==
    /\ \A n \in 1 .. appended :
          n \in hot \/ \E first \in 1 .. n, last \in n .. MaxRecords : <<first, last>> \in stored
    /\ \A first \in DOMAIN index : index[first] # 0 =>
          <<first, index[first]>> \in stored /\ hot \cap (first .. index[first]) = {}

(* "Overlapping seals converge: same first_seq => the later index write    *)
(* wins and its blob contains a superset of the earlier one's rows"        *)
(* (segments_onsealed): a record that is not hot is found by the index.    *)
RecordsReadable ==
    \A n \in 1 .. appended :
        n \in hot \/ \E first \in 1 .. n : index[first] >= n /\ <<first, index[first]>> \in stored
=============================================================================
