--------------------------- MODULE EmbeddingStore ---------------------------
(***************************************************************************)
(* geo-embedding-search: embeddings stored in memory, in LanceDB or in     *)
(* OpenSearch, and searched.  A call does not wait in between, so calls    *)
(* follow one another; a history of them is a sequence.                    *)
(***************************************************************************)
EXTENDS ToolCall, Integers, SequencesExt

\* LanceDB keeps the numbers of a vector as float32, here as multiples of Grain; the
\* engine of OpenSearch shows CandidateMultiplier * k records, 4 * k in the code.
CONSTANTS Grain, CandidateMultiplier
ASSUME StoreAssumption == {Grain, CandidateMultiplier} \subseteq Nat \ {0}

StoreKinds == {"memory", "lancedb", "opensearch"}

\* What may go wrong in one call: the store raises before or after it wrote, loses
\* the record, or the process ends in the middle and is started again.
Faults == {"none", "before", "after", "dropped", "crash"}

\* The records in the order they came, the dimension that the server believes in
\* (0 for none yet), that of the table or index, the records that were confirmed last
\* under each id, the ids under which something went wrong since, and those of which
\* an older record was taken for the one that was confirmed.
EmptyStore == [records |-> <<>>, dimension |-> 0, table |-> 0, confirmed |-> {},
               disturbed |-> {}, mistaken |-> {}, reply |-> "result"]
Ids(st) == {r.id : r \in ToSet(st.records)}

AsFloat32(kind, vector) ==
    IF kind = "lancedb" THEN [i \in DOMAIN vector |-> vector[i] - (vector[i] % Grain)] ELSE vector
Record(kind, op) == [id |-> op.id, vector |-> AsFloat32(kind, op.vector)]
Without(records, id) == ElementsAt(records, {i \in DOMAIN records : records[i].id # id})
\* A dictionary keeps the place of a key; LanceDB deletes and adds.
Put(kind, records, r) ==
    LET at == FirstPos(records, LAMBDA s : s.id = r.id)
    IN  IF kind = "memory" /\ at # 0 THEN [records EXCEPT ![at] = r]
        ELSE Append(Without(records, r.id), r)

\* A mistake: nothing is taken back.
NoRollback(kind, st, op) == [st EXCEPT !.reply = "upstream", !.disturbed = st.disturbed \cup {op.id}]
\* _rollback hides its own failure.
Rollback(kind, st, op) ==
    [st EXCEPT !.records = IF op.undone THEN Without(st.records, op.id) ELSE st.records,
               !.reply = "upstream", !.disturbed = st.disturbed \cup {op.id}]

\* A new process learns the dimension from LanceDB's table, not from the index.
Restarted(kind, st) ==
    [st EXCEPT !.dimension = IF kind = "lancedb" THEN st.table ELSE 0, !.reply = "none"]

\* add of a backend, as far as the fault lets it.
AddRecord(kind, st, op) ==
    LET ready == [st EXCEPT !.table = IF st.table = 0 THEN Len(op.vector) ELSE st.table,
                            !.dimension = IF kind # "memory" /\ st.dimension = 0
                                          THEN Len(op.vector) ELSE st.dimension]
        halfway == [ready EXCEPT !.records = IF kind = "lancedb" THEN Without(st.records, op.id)
                                             ELSE st.records]
    IN  IF op.fault \in {"before", "dropped", "crash"} THEN halfway
        ELSE [ready EXCEPT !.records = Put(kind, st.records, Record(kind, op))]

\* What was confirmed, for the record that was sent or for an older one of its id.
Confirmed(kind, st, op) ==
    [st EXCEPT !.confirmed = {r \in st.confirmed : r.id # op.id} \cup {Record(kind, op)},
               !.reply = "result", !.disturbed = st.disturbed \ {op.id},
               !.mistaken = IF op.fault = "dropped" THEN st.mistaken \cup {op.id}
                            ELSE st.mistaken \ {op.id}]

\* store_embedding; a write that was lost shows only where no record has its id.
StoreEmbedding(kind, st, op) ==
    LET added == AddRecord(kind, st, op)
        unfit == kind # "memory" /\ st.table # 0 /\ Len(op.vector) # st.table
    IN  IF op.vector = <<>> \/ (kind # "memory" /\ st.dimension \notin {0, Len(op.vector)})
        THEN [st EXCEPT !.reply = "validation"]
        ELSE IF unfit
        THEN Rollback(kind, [st EXCEPT !.dimension = Len(op.vector)], op)
        ELSE IF op.fault = "crash"
        THEN Restarted(kind, [added EXCEPT !.disturbed = st.disturbed \cup {op.id}])
        ELSE IF op.fault \in {"before", "after"} \/ op.id \notin Ids(added)
        THEN Rollback(kind, added, op)
        ELSE Confirmed(kind, added, op)
StoreAll(kind, ops) ==
    LET so[n \in 0..Len(ops)] ==
          IF n = 0 THEN EmptyStore ELSE StoreEmbedding(kind, so[n - 1], ops[n])
    IN  so[Len(ops)]

-----------------------------------------------------------------------------
(* Nearness: the cosine is compared by its square, with its sign.          *)

Dot(a, b) ==
    LET n == Lesser(Len(a), Len(b))
        dot[i \in 0..n] == IF i = 0 THEN 0 ELSE dot[i - 1] + a[i] * b[i]
    IN  dot[n]
Signed(q, v) == IF Dot(q, v) < 0 THEN 0 - Dot(q, v) * Dot(q, v) ELSE Dot(q, v) * Dot(q, v)
Nearer(q, v, w) ==
    LET nv == Greater(1, Dot(v, v))
        nw == Greater(1, Dot(w, w))
    IN  Signed(q, v) * nw > Signed(q, w) * nv
\* Of records as near as each other the first stays before the second.
SearchOrder(records, q) ==
    {p \in (DOMAIN records) \X (DOMAIN records) :
        \/ Nearer(q, records[p[1]].vector, records[p[2]].vector)
        \/ p[1] < p[2] /\ ~Nearer(q, records[p[2]].vector, records[p[1]].vector)}
Nearest(records, q, k) ==
    LET order == InOrder(DOMAIN records, SearchOrder(records, q))
    IN  Take([i \in DOMAIN order |-> records[order[i]]], k)

-----------------------------------------------------------------------------
(* search_embeddings: memory ranks all it holds, LanceDB its whole table,  *)
(* and the server those records which OpenSearch shows it.  in.shown are   *)
(* the places of them that its engine picks, in.answers says whether it    *)
(* answers at all.                                                         *)

MinK == 1
MaxK == 1000

Shown(records, places) == ElementsAt(records, {i \in DOMAIN records : i \in places})
Ranked(in, st) == IF in.kind = "opensearch" THEN Shown(st.records, in.shown) ELSE st.records

SearchStore(in, st) ==
    LET Fails(error) == [reply |-> error, hits |-> <<>>]
    IN  IF in.k \notin MinK..MaxK \/ in.q = <<>> THEN Fails("validation")
        ELSE IF in.kind = "lancedb" /\ st.table = 0 THEN [reply |-> "result", hits |-> <<>>]
        ELSE IF in.kind # "memory" /\ st.dimension \notin {0, Len(in.q)} THEN Fails("validation")
        ELSE IF in.kind = "opensearch" /\ (~in.answers \/ st.table # Len(in.q)) THEN Fails("upstream")
        ELSE [reply |-> "result", hits |-> Nearest(Ranked(in, st), in.q, in.k)]
SearchEmbeddings(in) == SearchStore(in, StoreAll(in.kind, in.ops))

-----------------------------------------------------------------------------

StoreOps == [id : 1..2, vector : {<<3>>, <<4, 3>>, <<0 - 3, 3>>}, fault : Faults, undone : BOOLEAN]
\* Memory holds nothing across a restart and does not fail; undone says something
\* only of a fault that is rolled back.
StoreHistories(kind, n) ==
    {ops \in UNION {[1..m -> StoreOps] : m \in 1..n} :
        \A i \in DOMAIN ops : /\ kind = "memory" => ops[i].fault = "none"
                              /\ ops[i].fault \in {"none", "crash", "dropped"} => ops[i].undone
                              /\ i = Len(ops) \/ ops[i].fault \in {"none", "crash"}}

\* A confirmed record is there, or OpenSearch holds an older one that was mistaken for
\* it, unless a later call under its own id failed; a call that failed leaves nothing
\* unless taking it back failed too; no id is there twice; all records have the
\* table's dimension, which the server of a LanceDB knows.
StoreIsSound(kind, ops) ==
    LET st == StoreAll(kind, ops)
        last == ops[Len(ops)]
    IN  /\ \A r \in st.confirmed :
              \/ r \in ToSet(st.records) \/ r.id \in st.disturbed
              \/ kind = "opensearch" /\ r.id \in st.mistaken /\ r.id \in Ids(st)
        /\ st.reply = "upstream" /\ last.undone => last.id \notin Ids(st)
        /\ \A i, j \in DOMAIN st.records : st.records[i].id = st.records[j].id => i = j
        /\ kind # "memory" => \A r \in ToSet(st.records) : Len(r.vector) = st.table
        /\ kind = "lancedb" => st.dimension = st.table

\* The result is ordered, no record that is left out is nearer than one in it, it
\* is short only where there are no more records, and the length of a vector does
\* not count.
BestOfAll(records, q, k, hits) ==
    LET Lengthened(r) == [r EXCEPT !.vector = IF r.id = 1 THEN [i \in DOMAIN @ |-> 3 * @[i]] ELSE @]
        Found(some) == [i \in 1..Lesser(k, Len(some)) |-> Nearest(some, q, k)[i].id]
    IN  /\ Len(hits) = Lesser(k, Len(records))
        /\ \A i, j \in DOMAIN hits : i < j => ~Nearer(q, hits[j].vector, hits[i].vector)
        /\ \A r \in ToSet(records) \ ToSet(hits), h \in ToSet(hits) : ~Nearer(q, r.vector, h.vector)
        /\ Found([i \in DOMAIN records |-> Lengthened(records[i])]) = Found(records)

\* A search is answered with the best of all the records there are, in OpenSearch of
\* those its engine shows; memory answers every question, and LanceDB every one that
\* is as long as its vectors.
SearchIsRight(in, out) ==
    LET st == StoreAll(in.kind, in.ops)
    IN  /\ out.reply = "result" => BestOfAll(Ranked(in, st), in.q, in.k, out.hits)
        /\ in.k \in MinK..MaxK /\ in.q # <<>> =>
              /\ in.kind = "memory" => out.reply = "result"
              /\ in.kind = "lancedb" /\ Len(in.q) = st.table => out.reply = "result"

=============================================================================
