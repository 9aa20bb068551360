--------------------------- MODULE ResponseCache ---------------------------
(***************************************************************************)
(* The response cache (services/cache.ts): answers in memory, least        *)
(* recently used first, and the table response_cache behind them, written  *)
(* by a queue that is drained after the request.  Hits are counted in      *)
(* memory and written in batches.  Streams share the room in memory and    *)
(* have no rows.  The operator switches the cache off and on and flushes   *)
(* it; the process dies between any two writes and loads the table when it *)
(* starts again.  A switch that is off does not stop requests that ask for *)
(* the cache themselves: it stops the writing.                             *)
(***************************************************************************)
EXTENDS Integers, Sequences, FiniteSets

CONSTANTS
  Prompts,     \* cache keys, digests of requests
  Streams,     \* those of requests that stream
  Answers,
  MaxEntries,  \* RESPONSE_CACHE_MAX_ENTRIES
  Lifetime,    \* RESPONSE_CACHE_TTL_SECONDS
  MaxHits,     \* bound on the hits of an entry
  MaxPending   \* bound on the writes that wait

ASSUME CacheAssumption ==
  /\ Streams \subseteq Prompts /\ IsFiniteSet(Prompts)
  /\ "none" \notin Answers
  /\ {MaxEntries, Lifetime, MaxHits, MaxPending} \subseteq Nat

VARIABLES
  recent,         \* store and streamStore, least recently used first
  dirty,          \* dirtyHitCounts, 0 for none
  pendingWrites,
  disk,           \* response_cache
  persisting,     \* cachePersistenceEnabled()
  up,             \* the process runs
  flushed,        \* history: the answers that were there at some flush
  skipped         \* history: a write was left out, or a row not loaded

cache == <<recent, dirty, pendingWrites, disk, persisting, up, flushed, skipped>>

NoAnswer == [answer |-> "none", age |-> 0, hits |-> 0]
Ages == 0 .. Lifetime + 1
Stored == Prompts \ Streams
NoHits == [p \in Stored |-> 0]

CacheInit ==
  /\ recent = << >>
  /\ dirty = NoHits
  /\ pendingWrites = << >>
  /\ disk = [p \in Stored |-> NoAnswer]
  /\ persisting \in BOOLEAN
  /\ up = TRUE
  /\ flushed = {}
  /\ skipped = FALSE

-----------------------------------------------------------------------------
Entries == {recent[i] : i \in 1 .. Len(recent)}
EntryOf(p) == {e \in Entries : e.prompt = p}

(* Map.delete(): its one entry leaves, the others keep their order.        *)
At(p) == CHOOSE i \in DOMAIN recent : recent[i].prompt = p
Without(p) ==
  IF EntryOf(p) = {} THEN recent
  ELSE [i \in 1 .. Len(recent) - 1 |-> IF i < At(p) THEN recent[i] ELSE recent[i + 1]]

(* What a queued write does to the table. *)
Written(rows, write) ==
  CASE write.do = "delete" -> [rows EXCEPT ![write.prompt] = NoAnswer]
    [] write.do = "insert" ->
         [rows EXCEPT ![write.prompt] =
           [answer |-> write.answer, age |-> 0, hits |-> write.hits]]
    [] write.do = "count" ->
         [p \in Stored |->
           IF write.hits[p] = 0 \/ rows[p] = NoAnswer THEN rows[p]
           ELSE [rows[p] EXCEPT !.hits = write.hits[p]]]

(* The table when the first n writes have run. *)
RowsAfter(rows, writes) ==
  LET after[n \in 0 .. Len(writes)] ==
        IF n = 0 THEN rows ELSE Written(after[n - 1], writes[n])
  IN after
After(n) == RowsAfter(disk, pendingWrites)[n]

(* schedulePersist() *)
Schedule(queue, writes) ==
  /\ Len(queue) + Len(writes) <= MaxPending
  /\ pendingWrites' = IF persisting THEN queue \o writes ELSE queue
  /\ skipped' = (skipped \/ (~persisting /\ writes # << >>))

(* Mutant: what is evicted leaves its row behind. *)
BugRowDeletes(e) == << >>

(* scheduleRowDelete(), when e leaves memory. *)
RowDeletes(e) ==
  IF e.prompt \in Stored THEN <<[do |-> "delete", prompt |-> e.prompt]>> ELSE << >>

(* getCachedResponse() finds an entry past its time. *)
LookupExpired(p) ==
  /\ up
  /\ \E e \in EntryOf(p) :
       /\ e.age > Lifetime
       /\ Schedule(pendingWrites, RowDeletes(e))
  /\ recent' = Without(p)
  /\ UNCHANGED <<dirty, disk, persisting, up, flushed>>

(* A write that waits counts the hits of its entry when it is run. *)
Recounted(e) ==
  [i \in DOMAIN pendingWrites |->
    IF /\ pendingWrites[i].do = "insert"
       /\ pendingWrites[i].prompt = e.prompt
       /\ pendingWrites[i].answer = e.answer
    THEN [pendingWrites[i] EXCEPT !.hits = e.hits] ELSE pendingWrites[i]]

(* ... or one it can answer with. *)
LookupHits(p) ==
  /\ up
  /\ \E e \in EntryOf(p) :
       LET hit == [e EXCEPT !.hits = e.hits + 1] IN
       /\ e.age <= Lifetime
       /\ e.hits < MaxHits
       /\ recent' = Append(Without(p), hit)
       /\ dirty' = IF p \in Stored THEN [dirty EXCEPT ![p] = hit.hits] ELSE dirty
       /\ pendingWrites' = Recounted(hit)
  /\ UNCHANGED <<disk, persisting, up, flushed, skipped>>

(* storeCachedResponse() and storeCachedStreamResponse(): the entry is the *)
(* newest, then the least recently used makes room, which may be itself,   *)
(* and the writes are queued in this order.  Hits of the answer it         *)
(* replaces are not counted any more.                                      *)
Stores(p, a) == Append(Without(p), [prompt |-> p, answer |-> a, age |-> 0, hits |-> 0])
Evicts(entries) == Len(entries) > MaxEntries

StoreAnswer(p, a) ==
  LET entries == Stores(p, a)
      deletes == IF Evicts(entries) THEN RowDeletes(Head(entries)) ELSE << >>
      insert == IF p \in Stored /\ MaxEntries > 0
                THEN <<[do |-> "insert", prompt |-> p, answer |-> a, hits |-> 0]>>
                ELSE << >>
  IN /\ up
     /\ a \notin flushed
     /\ recent' = IF Evicts(entries) THEN Tail(entries) ELSE entries
     /\ dirty' = IF p \in Stored THEN [dirty EXCEPT ![p] = 0] ELSE dirty
     /\ Schedule(pendingWrites, deletes \o insert)
     /\ UNCHANGED <<disk, persisting, up, flushed>>

(* The timer of scheduleHitCountFlush(). *)
FlushHitCounts ==
  /\ up
  /\ dirty # NoHits
  /\ dirty' = NoHits
  /\ Schedule(pendingWrites, <<[do |-> "count", hits |-> dirty]>>)
  /\ UNCHANGED <<recent, disk, persisting, up, flushed>>

(* drainPendingWrites() *)
DrainPendingWrites ==
  /\ pendingWrites # << >>
  /\ disk' = After(Len(pendingWrites))
  /\ pendingWrites' = << >>
  /\ UNCHANGED <<recent, dirty, persisting, up, flushed, skipped>>

Waiting == {a \in Answers : \E i \in DOMAIN pendingWrites :
  pendingWrites[i].do = "insert" /\ pendingWrites[i].answer = a}
Kept == {a \in Answers : \E e \in Entries : e.answer = a}
OnDisk == {a \in Answers : \E p \in Stored : disk[p].answer = a}

(* Mutant: the writes that wait are not discarded. *)
BugClearCache ==
  /\ up
  /\ recent' = << >>
  /\ dirty' = NoHits
  /\ disk' = [p \in Stored |-> NoAnswer]
  /\ flushed' = flushed \cup Waiting \cup Kept \cup OnDisk
  /\ skipped' = FALSE
  /\ UNCHANGED <<pendingWrites, persisting, up>>

(* DELETE /api/cache: clearCache(). *)
ClearCache ==
  /\ up
  /\ recent' = << >>
  /\ dirty' = NoHits
  /\ pendingWrites' = << >>
  /\ disk' = [p \in Stored |-> NoAnswer]
  /\ flushed' = flushed \cup Waiting \cup Kept \cup OnDisk
  /\ skipped' = FALSE
  /\ UNCHANGED <<persisting, up>>

(* PUT /api/cache/config. *)
SwitchCache ==
  /\ up
  /\ persisting' = ~persisting
  /\ UNCHANGED <<recent, dirty, pendingWrites, disk, up, flushed, skipped>>

(* The process dies, perhaps within a drain. *)
CacheDies(n) ==
  /\ up
  /\ up' = FALSE
  /\ disk' = After(n)
  /\ recent' = << >>
  /\ dirty' = NoHits
  /\ pendingWrites' = << >>
  /\ UNCHANGED <<persisting, flushed, skipped>>

(* The rows that are left, oldest first; rows of one age in any order. *)
Sorted(rows) ==
  {s \in [1 .. Cardinality(rows) -> rows] :
     \A i, j \in 1 .. Cardinality(rows) :
       i < j => s[i] # s[j] /\ disk[s[i]].age >= disk[s[j]].age}

(* loadCacheFromDb() *)
LoadCache ==
  /\ ~up
  /\ up' = TRUE
  /\ LET live == {p \in Stored : disk[p] # NoAnswer /\ disk[p].age < Lifetime}
         excess == IF Cardinality(live) > MaxEntries
                   THEN Cardinality(live) - MaxEntries ELSE 0
     IN /\ disk' = [p \in Stored |-> IF p \in live THEN disk[p] ELSE NoAnswer]
        /\ \E s \in Sorted(live) :
             recent' = IF persisting
                       THEN [i \in 1 .. Len(s) - excess |->
                              [prompt |-> s[i + excess], answer |-> disk[s[i + excess]].answer,
                               age |-> disk[s[i + excess]].age,
                               hits |-> disk[s[i + excess]].hits]]
                       ELSE << >>
        /\ skipped' = (live # {} /\ (~persisting \/ excess > 0))
  /\ UNCHANGED <<dirty, pendingWrites, persisting, flushed>>

(* The clock moves on when the queue is drained. *)
CacheAges ==
  LET older(age) == IF age > Lifetime THEN age ELSE age + 1 IN
  /\ pendingWrites = << >>
  /\ recent' = [i \in DOMAIN recent |-> [recent[i] EXCEPT !.age = older(@)]]
  /\ disk' = [p \in Stored |->
               IF disk[p] = NoAnswer THEN NoAnswer ELSE [disk[p] EXCEPT !.age = older(@)]]
  /\ UNCHANGED <<dirty, pendingWrites, persisting, up, flushed, skipped>>

CacheNext ==
  \/ \E p \in Prompts :
       \/ LookupExpired(p)
       \/ LookupHits(p)
       \/ \E a \in Answers : StoreAnswer(p, a)
  \/ FlushHitCounts
  \/ DrainPendingWrites
  \/ ClearCache
  \/ SwitchCache
  \/ \E n \in 0 .. Len(pendingWrites) : CacheDies(n)
  \/ LoadCache
  \/ CacheAges

CacheSpec == CacheInit /\ [][CacheNext]_cache

-----------------------------------------------------------------------------
CacheTypeOK ==
  /\ \A e \in Entries :
       /\ e.prompt \in Prompts /\ e.answer \in Answers
       /\ e.age \in Ages /\ e.hits \in 0 .. MaxHits
       /\ EntryOf(e.prompt) = {e}
  /\ Len(recent) <= MaxEntries
  /\ dirty \in [Stored -> 0 .. MaxHits]
  /\ Len(pendingWrites) <= MaxPending
  /\ disk \in [Stored -> [answer : Answers \cup {"none"}, age : Ages, hits : 0 .. MaxHits]]
  /\ persisting \in BOOLEAN
  /\ up \in BOOLEAN
  /\ flushed \subseteq Answers
  /\ skipped \in BOOLEAN

(* "DELETE /api/cache is how an operator forces fresh answers": no answer  *)
(* that was there at a flush is found in memory, waits to be written or    *)
(* comes back from the table, after any number of restarts.                *)
FlushIsFinal == flushed \cap (Kept \cup Waiting \cup OnDisk) = {}

(* Unless the switch made it leave a write out, the table is what memory   *)
(* is once the queue is drained, no row counts hits another answer earned, *)
(* and between any two writes, where a crash would leave it, it is no      *)
(* larger than memory may be.                                              *)
RowIs(row, entries) ==
  IF entries = {} THEN row = NoAnswer
  ELSE \E e \in entries :
         row.answer = e.answer /\ row.age = e.age /\ row.hits <= e.hits
TableFollowsMemory ==
  ~skipped =>
    /\ up => \A p \in Stored : RowIs(After(Len(pendingWrites))[p], EntryOf(p))
    /\ \A n \in 0 .. Len(pendingWrites) :
         Cardinality({p \in Stored : After(n)[p] # NoAnswer}) <= MaxEntries
=============================================================================
