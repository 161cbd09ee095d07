------------------------- MODULE MetadataGeneration -------------------------
(***************************************************************************)
(* generate --llm: inspect every table with the model service, feed the    *)
(* metrics found upstream to the tables downstream, journal each result,   *)
(* and publish catalog and models when the whole candidate is valid        *)
(* (assessment/llm/model_metadata_checkpoint.py, table_inspector.py,       *)
(* metadata_flow.py, model_metadata_generation.py, _writer.py).            *)
(*                                                                         *)
(* On disk: the manifest, the sidecars, inspect.json, catalog and models.  *)
(* In memory: everything else; a kill drops it and releases the flock, so  *)
(* "a generation is active" and "the lock is held" are one thing, and the  *)
(* generation that finds it held ends without having touched anything.     *)
(***************************************************************************)
EXTENDS Naturals, Sequences, FiniteSets, SequencesExt

CONSTANTS
    Table,          \* tables to inspect
    Upstream,       \* Upstream[t]: tables whose metrics the prompt of t names
    Enriched,       \* tables whose results those of others, or the catalog, may alter
    Version,        \* Version[t]: contents of its DDL and SQL, in the order they come
    Reply,          \* Reply[t]: what one call of the model service may bring
    Attempts,       \* max_retries + 1
    NTarget, NObsolete, \* files a candidate has, files it replaces by nothing
    MaxVariants,    \* MAX_CHECKPOINT_VARIANTS_PER_TABLE, MAX_CACHE_VARIANTS_PER_TABLE
    MaxInvalid,     \* MAX_CHECKPOINT_INVALIDATIONS_PER_TABLE
    MaxRuns,        \* bound: generations that are started
    None,
    Careful         \* no --no-cache generation ends before it has dropped the cache

\* In the order of publication: what is written by path, then what is deleted.
File == 1..(NTarget + NObsolete)
Target == 1..NTarget
Ctx == [ver : UNION {Version[t] : t \in Table}, seen : SUBSET Table]
\* passed; "late": passed by the inspector, blocked when the layer is resolved;
\* "blocked": answered but invalid; "failed": no usable answer; "transient": usable
\* in this generation only, resume_eligible is off.  It is the answer of an earlier
\* attempt, kept because the last one failed, or it was altered after it was given.
Kinds == {"passed", "late", "blocked", "failed", "transient"}
\* ctx is what the model was asked, metric whether it found metrics that belong in
\* the prompt of a table downstream, final that propagation and enrichment are over.
Result == [ctx : Ctx, kind : Kinds, metric : BOOLEAN, final : BOOLEAN]

\* A table's entry in the manifest, and a result on its way to it.
Variant == [ctx : Ctx, result : Result, eligible : BOOLEAN]
EntryRecord == [variants : Seq(Variant), invalid : Seq(Ctx), active : Ctx \cup {None}]
WriteRecord == [table : Table, ctx : Ctx, result : Result, entry : EntryRecord]

ASSUME ConstantsAssumption ==
    /\ Upstream \in [Table -> SUBSET Table] /\ Enriched \subseteq Table
    /\ Version \in [Table -> (SUBSET Nat) \ {{}}]
    /\ Reply \in [Table -> SUBSET {"error", "useless", "invalid", "warning", "passed", "late"}]
    /\ Attempts \in Nat \ {0}
    /\ NTarget \in Nat \ {0} /\ NObsolete \in Nat
    /\ MaxVariants \in Nat \ {0} /\ MaxInvalid \in Nat \ {0} /\ MaxRuns \in Nat
    /\ None \notin Nat \cup Result /\ None \notin WriteRecord
    /\ Careful \in BOOLEAN

VARIABLES
    manifest,   \* on disk: tables, pending write, who published
    sidecars,   \* on disk: sidecars[t] = {[ctx, result]}
    cacheFile,  \* on disk: inspect.json, per table a sequence of [ctx, result]
    files,      \* on disk: catalog and models, as the generation that wrote each
    version,    \* version[t]: content of the task and DDL now
    runs,       \* generations started so far
    phase,      \* "off" when no generation is active, else where it is
    fresh,      \* --no-cache
    mem,        \* the manifest in memory
    resume,     \* what was loaded from the checkpoint, a snapshot
    cache,      \* what was loaded from inspect.json and added since
    ctx,        \* ctx[t]: the context the pipeline has for t
    pair,       \* pair[t]: the result it has for t
    at,         \* where t is in the batch
    answer,     \* answer[t]: the batch's result for t
    source,     \* source[t]: where the answer came from, reuse_source
    broken,     \* batch_failed: a callback raised or the run was interrupted
    passes,     \* propagation passes made
    bad,        \* tables the publication contract rejects
    moved,      \* publishing: files already moved to a backup
    backup,     \* publishing: what was moved, per file
    paid,       \* history: <<t, ctx>> durably recorded and good
    rejected,   \* history: <<t, ctx>> durably recorded as not to be used again
    torn        \* history: the last publication was killed in the middle

disk == <<manifest, sidecars, cacheFile, files>>
world == <<version, runs>>
pipeline == <<ctx, pair, at, answer, source, broken, passes>>
loaded == <<fresh, mem, resume, cache>>
publishing == <<bad, moved, backup>>
history == <<paid, rejected, torn>>
vars == <<disk, world, phase, pipeline, loaded, publishing, history>>

-----------------------------------------------------------------------------
(* Results *)

\* The attempts of TableInspector.inspect: a call fails or is not JSON ("error"),
\* has no confidence ("useless"), is blocked by validation ("invalid"), or
\* is passed with or without warning.  Only a pass ends the attempts early.
Done == {"passed", "late"}
Conversations(t) == {c \in UNION {[1..n -> Reply[t]] : n \in 1..Attempts} :
    /\ \A i \in 1..(Len(c) - 1) : c[i] \notin Done
    /\ Len(c) = Attempts \/ c[Len(c)] \in Done}
Confident(c) == {i \in DOMAIN c : c[i] \notin {"error", "useless"}}
Outcome(c) ==
    IF Confident(c) = {} THEN "failed"
    ELSE LET i == Max(Confident(c)) IN
         CASE c[i] \in Done -> c[i]
           [] c[i] = "invalid" -> "blocked"
           [] c[i] = "warning" -> IF i = Len(c) THEN "passed" ELSE "transient"

Usable(r) == r.kind \in {"passed", "late", "transient"}
\* _store_cached_result's callers: not blocked, confident, resume_eligible
Cacheable(r) == r.kind \in {"passed", "late"}
\* _processed_inspection_result: the layer is resolved before journaling.
Processed(r) == IF r.kind = "late" THEN [r EXCEPT !.kind = "blocked"] ELSE r
Resumable(r) == r.kind = "passed"
Blocked(r) == Processed(r).kind \in {"blocked", "failed"}

\* The elements of s that are in S, in their order.
Only(s, S) ==
    LET upto[n \in Nat] == IF n = 0 THEN <<>>
                           ELSE IF s[n] \in S THEN Append(upto[n - 1], s[n]) ELSE upto[n - 1]
    IN  upto[Len(s)]

\* Sequences of variants, keyed by context: dicts in insertion order.
Has(variants, c) == \E i \in DOMAIN variants : variants[i].ctx = c
At(variants, c) == variants[CHOOSE i \in DOMAIN variants : variants[i].ctx = c]
Without(variants, c) == Only(variants, {v \in ToSet(variants) : v.ctx # c})
Newest(s, n) == IF Len(s) > n THEN SubSeq(s, Len(s) - n + 1, Len(s)) ELSE s

NoEntry == [variants |-> <<>>, invalid |-> <<>>, active |-> None]
NoManifest == [tables |-> [t \in Table |-> NoEntry], pending |-> None, published |-> None]

\* The entry a result makes of the previous one: in place if the context is known.
Recorded(entry, c, r) ==
    LET item == [ctx |-> c, result |-> r, eligible |-> r.kind # "transient"]
        placed == IF Has(entry.variants, c)
                  THEN [i \in DOMAIN entry.variants |->
                          IF entry.variants[i].ctx = c THEN item ELSE entry.variants[i]]
                  ELSE Append(entry.variants, item)
        others == Only(entry.invalid, Ctx \ {c})
    IN  [variants |-> Newest(placed, MaxVariants),
         invalid |-> IF Resumable(r) THEN others
                     ELSE IF Contains(entry.invalid, c) THEN entry.invalid
                     ELSE Newest(Append(entry.invalid, c), MaxInvalid),
         active |-> c]

\* A variant is believed only if its sidecar is the file the entry describes.
Valid(t, v) ==
    /\ [ctx |-> v.ctx, result |-> v.result] \in sidecars[t]
    /\ v.result.kind \notin {"blocked", "failed"}
    /\ v.eligible

\* Fault: the marks of refused contexts are not carried over.
PreparedUnmarked(t, entry) ==
    LET good == Only(entry.variants, {v \in ToSet(entry.variants) : Valid(t, v)})
    IN  [variants |-> good, invalid |-> <<>>,
         active |-> IF good = <<>> THEN None ELSE good[Len(good)].ctx]

\* The entry of t in a manifest that is resumed.
Prepared(t, entry) ==
    LET good == Only(entry.variants, {v \in ToSet(entry.variants) : Valid(t, v)})
        refused == Only(entry.variants, {v \in ToSet(entry.variants) : ~ Valid(t, v)})
        names == [i \in DOMAIN refused |-> refused[i].ctx]
        added == Only(names, Ctx \ ToSet(entry.invalid))
    IN  [variants |-> Newest(good, MaxVariants),
         invalid |-> Newest(Only(entry.invalid \o added, {c \in Ctx : ~ Has(good, c)}), MaxInvalid),
         active |-> IF Has(good, entry.active) THEN entry.active
                    ELSE IF good = <<>> THEN None ELSE good[Len(good)].ctx]

\* _store_cached_result: newest last.
Cached(variants, c, r) ==
    Newest(Append(Without(variants, c), [ctx |-> c, result |-> r]), MaxVariants)

EmptyCache == [t \in Table |-> <<>>]
Put(t, c, r) == (sidecars[t] \ {s \in sidecars[t] : s.ctx = c}) \cup {[ctx |-> c, result |-> r]}

\* What a resumed start would find, the pending write of an interrupted run included.
Effective(t) ==
    IF /\ manifest.pending # None
       /\ manifest.pending.table = t
       /\ [ctx |-> manifest.pending.ctx, result |-> manifest.pending.result] \in sidecars[t]
    THEN manifest.pending.entry ELSE manifest.tables[t]
Resumes(t) == {[ctx |-> v.ctx, result |-> v.result] :
                 v \in {w \in ToSet(Effective(t).variants) : Valid(t, w)}}

\* The history of a context, once what became of it is on disk.
Settled(t, c, r) ==
    /\ paid' = IF Resumable(r) THEN paid \cup {<<t, c>>} ELSE paid \ {<<t, c>>}
    /\ rejected' = IF Resumable(r) THEN rejected \ {<<t, c>>} ELSE rejected \cup {<<t, c>>}

-----------------------------------------------------------------------------
Init ==
    /\ manifest = NoManifest /\ sidecars = [t \in Table |-> {}] /\ cacheFile = EmptyCache
    /\ files = [f \in File |-> 0]
    /\ version = [t \in Table |-> Min(Version[t])] /\ runs = 0
    /\ phase = "off" /\ fresh = FALSE /\ mem = NoManifest
    /\ resume = [t \in Table |-> NoEntry] /\ cache = EmptyCache
    /\ ctx = [t \in Table |-> None] /\ pair = [t \in Table |-> None]
    /\ at = [t \in Table |-> "idle"] /\ answer = [t \in Table |-> None]
    /\ source = [t \in Table |-> None] /\ broken = FALSE /\ passes = 0
    /\ bad = {} /\ moved = {} /\ backup = [f \in File |-> None]
    /\ paid = {} /\ rejected = {} /\ torn = FALSE

\* What the end of the process leaves of its memory: nothing.
Gone ==
    /\ phase' = "off" /\ fresh' = FALSE /\ mem' = NoManifest
    /\ resume' = [t \in Table |-> NoEntry] /\ cache' = EmptyCache
    /\ ctx' = [t \in Table |-> None] /\ pair' = [t \in Table |-> None]
    /\ at' = [t \in Table |-> "idle"] /\ answer' = [t \in Table |-> None]
    /\ source' = [t \in Table |-> None] /\ broken' = FALSE /\ passes' = 0
    /\ bad' = {} /\ moved' = {} /\ backup' = [f \in File |-> None]

-----------------------------------------------------------------------------
(* Opening the checkpoint: GenerateModelCheckpoint.__init__ under its flock *)

Start(noCache) ==
    /\ phase = "off" /\ runs < MaxRuns
    /\ runs' = runs + 1 /\ fresh' = noCache /\ phase' = "recover"
    /\ UNCHANGED <<disk, version, mem, resume, cache, pipeline, publishing, history>>

\* Fault: the pending write is dropped instead of finished.
RecoverNothing ==
    /\ phase = "recover" /\ phase' = "prune"
    /\ manifest' = [manifest EXCEPT !.pending = None]
    /\ UNCHANGED <<sidecars, cacheFile, files, world, pipeline, loaded, publishing, history>>

\* _recover_pending_write: the target or the staged file has the expected
\* digest, so the entry is taken over; the staged file is there until it is moved.
Recover ==
    /\ phase = "recover" /\ phase' = "prune"
    /\ IF manifest.pending = None
       THEN UNCHANGED <<manifest, sidecars, paid, rejected>>
       ELSE LET w == manifest.pending IN
            /\ sidecars' = [sidecars EXCEPT ![w.table] = Put(w.table, w.ctx, w.result)]
            /\ manifest' = [manifest EXCEPT !.tables[w.table] = w.entry, !.pending = None]
            /\ Settled(w.table, w.ctx, w.result)
    /\ UNCHANGED <<cacheFile, files, world, pipeline, loaded, publishing, torn>>

\* _prepare_resume_state, _prune_previous_files
Prune ==
    /\ phase = "prune" /\ phase' = "announce"
    /\ LET tables == IF fresh THEN NoManifest.tables
                     ELSE [t \in Table |-> Prepared(t, manifest.tables[t])]
       IN  /\ mem' = [tables |-> tables, pending |-> None, published |-> None]
           /\ resume' = tables
           /\ sidecars' = [t \in Table |->
                 {s \in sidecars[t] : Has(tables[t].variants, s.ctx)}]
    /\ paid' = IF fresh THEN {} ELSE paid
    /\ UNCHANGED <<manifest, cacheFile, files, world, fresh, cache, pipeline, publishing,
                   rejected, torn>>

\* The manifest of the new run, "running".
Announce ==
    /\ phase = "announce" /\ phase' = "open"
    /\ manifest' = mem
    /\ UNCHANGED <<sidecars, cacheFile, files, world, loaded, pipeline, publishing, history>>

\* run_metadata_write: drop or load inspect.json, purge what was rejected,
\* build the contexts, begin the first batch.
Purged(t, variants) ==
    Only(variants, {v \in ToSet(variants) : ~ Contains(resume[t].invalid, v.ctx)})
OpenInspector ==
    /\ phase = "open" /\ phase' = "batch"
    /\ cache' = IF fresh THEN EmptyCache ELSE [t \in Table |-> Purged(t, cacheFile[t])]
    /\ cacheFile' = cache'
    /\ ctx' = [t \in Table |-> [ver |-> version[t], seen |-> {}]]
    /\ at' = [t \in Table |-> "due"]
    /\ UNCHANGED <<manifest, sidecars, files, world, fresh, mem, resume, pair, answer, source,
                   broken, passes, publishing, history>>

-----------------------------------------------------------------------------
(* A batch: TableInspector.inspect_batch, one thread per table *)

Answered(t, r, from) ==
    /\ answer' = [answer EXCEPT ![t] = r]
    /\ source' = [source EXCEPT ![t] = from]
    /\ at' = [at EXCEPT ![t] = IF broken THEN "done" ELSE "told"]

FromCheckpoint(t) == Has(resume[t].variants, ctx[t])
FromCache(t) == /\ ~ FromCheckpoint(t)
                /\ ~ Contains(resume[t].invalid, ctx[t])
                /\ Has(cache[t], ctx[t])
                /\ Usable(At(cache[t], ctx[t]).result)

Restore(t) ==
    /\ phase = "batch" /\ at[t] = "due"
    /\ \/ /\ FromCheckpoint(t)
          /\ Answered(t, At(resume[t].variants, ctx[t]).result, "checkpoint")
       \/ /\ FromCache(t)
          /\ Answered(t, At(cache[t], ctx[t]).result, "cache")
    /\ UNCHANGED <<disk, world, phase, ctx, pair, broken, passes, loaded, publishing, history>>

\* All attempts and, if the result may be cached, _store_cached_result and _save_cache.
Ask(t) ==
    /\ phase = "batch" /\ at[t] = "due" /\ ~ FromCheckpoint(t) /\ ~ FromCache(t)
    /\ \E replies \in Conversations(t), metric \in BOOLEAN :
         LET r == [ctx |-> ctx[t], kind |-> Outcome(replies), metric |-> metric, final |-> FALSE] IN
         /\ metric => r.kind # "failed" /\ \E x \in Table : t \in Upstream[x]
         /\ Answered(t, r, "model")
         /\ cache' = IF Cacheable(r) THEN [cache EXCEPT ![t] = Cached(@, ctx[t], r)] ELSE cache
         /\ cacheFile' = IF Cacheable(r) THEN cache' ELSE cacheFile
    /\ rejected' = rejected \ {<<t, ctx[t]>>}
    /\ UNCHANGED <<manifest, sidecars, files, world, phase, ctx, pair, broken, passes,
                   fresh, mem, resume, publishing, paid, torn>>

-----------------------------------------------------------------------------
(* The journal: GenerateModelCheckpoint.write_inspection_result, under _lock *)

Writing == {t \in Table : at[t] \in {"journaled", "placed"}}

\* batch_failed is looked at once, before the lock is waited for: a thread that
\* was told before the batch broke either looks in time or is waiting already.
Skip(t) ==
    /\ at[t] = "told" /\ broken
    /\ at' = [at EXCEPT ![t] = "done"]
    /\ UNCHANGED <<disk, world, phase, ctx, pair, answer, source, broken, passes, loaded,
                   publishing, history>>

Pending(t) ==
    LET r == Processed(answer[t]) IN
    [table |-> t, ctx |-> ctx[t], result |-> r, entry |-> Recorded(mem.tables[t], ctx[t], r)]

\* Fault: the sidecar is replaced without a journal.
JournalInMemory(t) ==
    /\ at[t] = "told" /\ Writing = {}
    /\ mem' = [mem EXCEPT !.pending = Pending(t)]
    /\ at' = [at EXCEPT ![t] = "journaled"]
    /\ UNCHANGED <<disk, world, phase, ctx, pair, answer, source, broken,
                   passes, fresh, resume, cache, publishing, history>>

\* The sidecar is staged, then the manifest names it.
Journal(t) ==
    /\ at[t] = "told" /\ Writing = {}
    /\ mem' = [mem EXCEPT !.pending = Pending(t)]
    /\ manifest' = mem'
    /\ at' = [at EXCEPT ![t] = "journaled"]
    /\ UNCHANGED <<sidecars, cacheFile, files, world, phase, ctx, pair, answer, source, broken,
                   passes, fresh, resume, cache, publishing, history>>

Place(t) ==
    /\ at[t] = "journaled"
    /\ LET w == mem.pending IN
       /\ sidecars' = [sidecars EXCEPT ![t] = Put(t, w.ctx, w.result)]
       /\ Settled(t, w.ctx, w.result)
    /\ at' = [at EXCEPT ![t] = "placed"]
    /\ UNCHANGED <<manifest, cacheFile, files, world, phase, ctx, pair, answer, source, broken,
                   passes, loaded, publishing, torn>>

Commit(t) ==
    /\ at[t] = "placed"
    /\ mem' = [mem EXCEPT !.tables[t] = mem.pending.entry, !.pending = None]
    /\ manifest' = mem'
    /\ at' = [at EXCEPT ![t] = "done"]
    /\ UNCHANGED <<sidecars, cacheFile, files, world, phase, ctx, pair, answer, source, broken,
                   passes, fresh, resume, cache, publishing, history>>

\* An I/O error in any of the three: the callback raises.  A failed manifest
\* write leaves the old file; what the failed step had in memory stays there.
WriteFails(t) ==
    /\ \/ at[t] = "told" /\ Writing = {} /\ mem' = [mem EXCEPT !.pending = None]
       \/ at[t] = "journaled" /\ mem' = mem
       \/ at[t] = "placed"
          /\ mem' = [mem EXCEPT !.tables[t] = mem.pending.entry, !.pending = None]
    /\ broken' = TRUE
    /\ at' = [at EXCEPT ![t] = "done"]
    /\ UNCHANGED <<disk, world, phase, ctx, pair, answer, source, passes, fresh, resume, cache,
                   publishing, history>>

-----------------------------------------------------------------------------
(* Propagation: run_inspection_pipeline after a batch *)

InBatch == {t \in Table : at[t] # "idle"}
BatchOver == phase = "batch" /\ \A t \in InBatch : at[t] = "done"

\* Fault: a failed reinspection leaves the earlier result as it was.
MergedSilently(old, new) == IF old # None /\ new.kind = "failed" THEN old ELSE new

\* An error of the orchestration is noted in the result; validation keeps it.
Marked(r) == [r EXCEPT !.kind = IF @ = "failed" THEN @ ELSE "blocked"]
\* _merge_metric_reinspection: a failed reinspection keeps the earlier result,
\* which from here on is blocked.
Merged(old, new) ==
    IF old = None THEN new
    ELSE IF new.kind = "failed" THEN Marked(old)
    ELSE new
Pairs == [t \in Table |-> IF t \in InBatch THEN Merged(pair[t], answer[t]) ELSE pair[t]]

\* The selections of one of S[t] for every t.
Selections(S) == {f \in [Table -> UNION {S[t] : t \in Table}] : \A t \in Table : f[t] \in S[t]}

\* A result that is altered is not to be resumed, and validation judges it again:
\* what it says is left open, but a result that carries a mark, made for another
\* prompt than c, stays blocked.
Altered(r, c) == {[r EXCEPT !.kind = k] : k \in {x \in {"transient", "blocked"} :
                      r.kind # "failed" /\ (x = "transient" => r.ctx = c)}}

\* _promote_upstream_metrics_from_consumer_evidence: what a consumer's SQL
\* aggregates is a metric of its source, whatever the source's inspection said.
\* Which evidence there is, is left open.
Evidenced(pairs) == {t \in Table : /\ pairs[t].kind # "failed"
                                  /\ \E x \in Table : t \in Upstream[x] /\ pairs[x].kind # "failed"}
Promoted(r, c) == {[a EXCEPT !.metric = TRUE] : a \in Altered(r, c)}
\* A reinspection that answers takes over the structure found before, and
\* validation judges the two together.
Rejudged(t) ==
    {[Pairs[t] EXCEPT !.kind = k] : k \in {x \in {"passed", "blocked"} :
        /\ t \in InBatch /\ pair[t] # None /\ answer[t].kind # "failed"
        /\ x = "passed" => answer[t].kind # "transient"}}
Promotions == Selections([t \in Table |->
    {Pairs[t]} \cup Rejudged(t) \cup
    (IF t \in Evidenced(Pairs) THEN Promoted(Pairs[t], ctx[t]) ELSE {})])

\* _detected_metric_groups, _inject_upstream_metric_groups: groups are added to
\* a context and never taken out of it.
Detected(pairs) == {t \in Table : pairs[t].metric /\ ~ Blocked(pairs[t])}
Injected(pairs) == [t \in Table |->
    [ctx[t] EXCEPT !.seen = @ \cup (Upstream[t] \cap Detected(pairs))]]
Changed(pairs) == {t \in Table : Injected(pairs)[t] # ctx[t]}
MaxPasses == IF Cardinality(Table) + 1 > 2 THEN Cardinality(Table) + 1 ELSE 2

Propagate(pairs) ==
    /\ Changed(pairs) # {} /\ passes < MaxPasses
    /\ pair' = pairs
    /\ ctx' = Injected(pairs)
    /\ at' = [t \in Table |-> IF t \in Changed(pairs) THEN "due" ELSE "idle"]
    /\ passes' = passes + 1
    /\ UNCHANGED phase

\* Converged, or marked as not converged; then results are enriched, which alters
\* them, and go to persist_finalized_results under the context they ended up with.
Ended(pairs) == [t \in Table |->
    [IF t \in Changed(pairs) THEN Marked(pairs[t]) ELSE pairs[t] EXCEPT !.final = TRUE]]
Settle(pairs) ==
    /\ Changed(pairs) # {} => passes = MaxPasses
    /\ ctx' = Injected(pairs)
    /\ pair' \in Selections([t \in Table |->
           {Ended(pairs)[t]} \cup
           (IF t \in Enriched THEN Altered(Ended(pairs)[t], Injected(pairs)[t]) ELSE {})])
    /\ at' = [t \in Table |-> "idle"]
    /\ phase' = "finalize"
    /\ UNCHANGED passes

EndBatch ==
    /\ BatchOver /\ ~ broken
    /\ \E pairs \in Promotions : Propagate(pairs) \/ Settle(pairs)
    /\ UNCHANGED <<disk, world, answer, source, broken, loaded, publishing, history>>

\* One result after the other: into the cache in memory, then to the journal.
Finalize(t) ==
    /\ phase = "finalize" /\ ~ broken /\ at[t] = "idle"
    /\ \A u \in Table : at[u] \in {"idle", "done"}
    /\ answer' = [answer EXCEPT ![t] = pair[t]]
    /\ at' = [at EXCEPT ![t] = "told"]
    /\ cache' = IF Cacheable(pair[t])
                THEN [cache EXCEPT ![t] = Cached(@, ctx[t], pair[t])] ELSE cache
    /\ UNCHANGED <<disk, world, phase, ctx, pair, source, broken, passes, fresh, mem, resume,
                   publishing, history>>

\* _save_cache, then write_layer_classification_report, which writes the manifest.
Report ==
    /\ phase = "finalize" /\ ~ broken /\ \A t \in Table : at[t] = "done"
    /\ cacheFile' = cache /\ manifest' = mem /\ phase' = "validate"
    /\ UNCHANGED <<sidecars, files, world, pipeline, loaded, publishing, history>>

-----------------------------------------------------------------------------
(* Publication: validate_generate_candidate, _transactional_publish_files, finish *)

\* Blocked inspections, or what the contract finds in the rest.
Validate ==
    /\ phase = "validate"
    /\ \E found \in SUBSET {t \in Table : ~ Blocked(pair[t])} :
         /\ bad' = found
         /\ phase' = IF found # {} \/ \E t \in Table : Blocked(pair[t]) THEN "blocked" ELSE "backup"
    /\ UNCHANGED <<disk, world, pipeline, loaded, moved, backup, history>>

\* Everything is staged by now; targets are moved away one by one ...
MoveAway(f) ==
    /\ phase = "backup" /\ files[f] # None /\ \A g \in 1..(f - 1) : files[g] = None
    /\ backup' = [backup EXCEPT ![f] = files[f]]
    /\ files' = [files EXCEPT ![f] = None]
    /\ moved' = moved \cup {f}
    /\ UNCHANGED <<manifest, sidecars, cacheFile, world, phase, pipeline, loaded, bad, history>>

\* ... then the candidate is moved in.
MoveIn(f) ==
    /\ \/ phase = "backup" /\ \A g \in File : files[g] = None
       \/ phase = "install"
    /\ f \in Target /\ files[f] = None /\ \A g \in 1..(f - 1) : files[g] # None
    /\ files' = [files EXCEPT ![f] = runs]
    /\ phase' = IF f = NTarget THEN "finish" ELSE "install"
    /\ torn' = IF phase' = "finish" THEN FALSE ELSE torn
    /\ UNCHANGED <<manifest, sidecars, cacheFile, world, pipeline, loaded, publishing, paid, rejected>>

\* An ordinary exception: unlink what was installed, put the backups back.
PublishFails ==
    /\ phase \in {"backup", "install"} /\ phase' = "rollback"
    /\ UNCHANGED <<disk, world, pipeline, loaded, publishing, history>>
\* Fault: what was installed is unlinked, the backups stay where they are.
TouchedInstalled == {f \in Target : files[f] = runs}
Touched == moved \cup {f \in Target : files[f] = runs}
PutBack(f) ==
    /\ phase = "rollback" /\ f \in Touched /\ \A g \in Touched : g <= f
    /\ files' = [files EXCEPT ![f] = backup[f]]
    /\ moved' = moved \ {f}
    /\ UNCHANGED <<manifest, sidecars, cacheFile, world, phase, pipeline, loaded, bad, backup, history>>

\* finish: the status, and the contexts the contract rejected.
RejectedEntry(entry) ==
    LET c == IF Has(entry.variants, entry.active) THEN entry.active
             ELSE entry.variants[Len(entry.variants)].ctx
    IN  IF entry.variants = <<>> THEN entry
        ELSE [entry EXCEPT
               !.variants = [i \in DOMAIN @ |-> IF @[i].ctx = c THEN [@[i] EXCEPT !.eligible = FALSE] ELSE @[i]],
               !.invalid = IF Contains(@, c) THEN @ ELSE Newest(Append(@, c), MaxInvalid)]
Finish ==
    /\ phase \in {"finish", "blocked"}
    /\ manifest' = [tables |-> [t \in Table |-> IF t \in bad THEN RejectedEntry(mem.tables[t])
                                                ELSE mem.tables[t]],
                    pending |-> mem.pending,
                    published |-> IF phase = "finish" THEN runs ELSE None]
    /\ paid' = paid \ {<<t, ctx[t]>> : t \in bad}
    /\ rejected' = rejected \cup {<<t, ctx[t]>> : t \in bad}
    /\ Gone
    /\ UNCHANGED <<sidecars, cacheFile, files, world, torn>>

-----------------------------------------------------------------------------
(* Other ends *)

\* An exception leaves: a callback failed, the run was interrupted while
\* inspecting, publication was rolled back, or the last manifest write failed.
Leave ==
    /\ \/ phase \in {"batch", "finalize"} /\ broken /\ at \in [Table -> {"idle", "due", "done"}]
       \/ phase = "rollback" /\ Touched = {}
       \/ phase \in {"finish", "blocked", "validate"}
       \/ phase \in {"prune", "announce"}
       \/ phase = "open" /\ (fresh => ~ Careful)
    /\ Gone
    /\ UNCHANGED <<disk, world, history>>

Interrupt ==
    /\ phase = "batch" /\ ~ broken /\ broken' = TRUE
    /\ UNCHANGED <<disk, world, phase, ctx, pair, at, answer, source, passes, loaded, publishing,
                   history>>

\* Killed anywhere.  inspect.json is written in place and may be left torn,
\* which reads as empty.
Die ==
    /\ phase # "off"
    /\ phase = "open" /\ fresh => ~ Careful
    /\ \/ UNCHANGED cacheFile
       \/ phase \in {"batch", "finalize"} /\ cacheFile' = EmptyCache
    /\ torn' = (torn \/ phase \in {"backup", "install", "rollback"})
    /\ Gone
    /\ UNCHANGED <<manifest, sidecars, files, world, paid, rejected>>

\* Somebody changes a task between generations.
Edit(t) ==
    /\ phase = "off"
    /\ \E v \in Version[t] : v > version[t] /\ version' = [version EXCEPT ![t] = v]
    /\ UNCHANGED <<disk, runs, phase, pipeline, loaded, publishing, history>>

Opening == Recover \/ Prune \/ Announce \/ OpenInspector
Inspecting(t) == Restore(t) \/ Ask(t) \/ Skip(t)
Journaling(t) == Journal(t) \/ Place(t) \/ Commit(t) \/ WriteFails(t)
Working ==
    \/ Opening
    \/ \E t \in Table : Inspecting(t) \/ Journaling(t) \/ Finalize(t)
    \/ EndBatch \/ Report \/ Validate
    \/ \E f \in File : MoveAway(f) \/ MoveIn(f) \/ PutBack(f)
    \/ Finish \/ Leave

Next ==
    \/ \E noCache \in BOOLEAN : Start(noCache)
    \/ Working
    \/ PublishFails \/ Interrupt \/ Die
    \/ \E t \in Table : Edit(t)

Spec == Init /\ [][Next]_vars /\ WF_vars(Working)

-----------------------------------------------------------------------------
(* Properties *)

Answers(t) == at[t] = "due" /\ at'[t] = "told"

\* What is reused was made for the very prompt it is used for, also when
\* propagation changed that prompt after the result was made.
AnswersForContext == \A t \in Table :
    phase = "batch" /\ at[t] = "told" => answer[t].ctx = ctx[t]

\* No answer is paid for twice: while the inputs stay the same, a result that
\* was last recorded as good and to be resumed is never asked for again, whatever
\* was killed since.  A result that propagation or enrichment has altered is not
\* one of them: its last record says that it is not to be resumed, so the next
\* generation asks, and pays, again.
NothingPaidTwice ==
    [][\A t \in Table : Answers(t) /\ source'[t] = "model" => <<t, ctx[t]>> \notin paid]_vars

\* A context that publication or the layer resolution refused, or whose result
\* was altered, is asked again before its old result is used, be it in the
\* checkpoint or in inspect.json.
RejectedNotReused ==
    [][\A t \in Table : Answers(t) /\ source'[t] # "model" => <<t, ctx[t]>> \notin rejected]_vars

\* Catalog and models are those of one candidate, and of the one the manifest
\* calls published, unless a publication was killed and none has followed it.
Candidate(r) == [f \in File |-> IF r = 0 \/ f \in Target THEN r ELSE None]
PublishedIsWhole == phase \notin {"backup", "install", "rollback"} /\ ~ torn =>
    /\ \E r \in 0..runs : files = Candidate(r)
    /\ manifest.published # None => files = Candidate(manifest.published)

Store == INSTANCE InspectionStore WITH kept <- [t \in Table |-> Resumes(t)]
\* The journal keeps results like a store that knows no crashes.
ImplementsStore == Store!Spec
=============================================================================
