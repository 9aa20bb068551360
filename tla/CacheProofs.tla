---------------------------- MODULE CacheProofs ----------------------------
(***************************************************************************)
(* Theorems about the response cache (ResponseCache), for every set of     *)
(* requests and answers and every limit.  The table after n waiting writes *)
(* is defined by recursion, so facts about it are proved by induction over *)
(* n, in the form the provers can use: of a set of numbers.                *)
(***************************************************************************)
EXTENDS ResponseCache, FiniteSetTheorems, WellFoundedInduction, TLAPS

(* A set of numbers that has 0 and with every number the next has them all. *)
LEMMA SetInduction ==
  ASSUME NEW S \in SUBSET Nat, 0 \in S, \A n \in S : n + 1 \in S
  PROVE  S = Nat
<1> DEFINE Rest == Nat \ S
<1> DEFINE Below == {pair \in Nat \X Nat : pair[1] < pair[2]}
<1>1. SUFFICES ASSUME Rest # {} PROVE FALSE
  OBVIOUS
<1>2. IsWellFoundedOn(Below, Nat)
  BY NatLessThanWellFounded DEF OpToRel
<1>3. PICK least \in Rest : \A n \in Rest : <<n, least>> \notin Below
  <2>1. Rest \subseteq Nat
    OBVIOUS
  <2> HIDE DEF Rest, Below
  <2> QED BY <1>1, <1>2, <2>1, WFMin
<1>4. \A n \in Rest : ~(n < least)
  BY <1>3
<1>5. least - 1 \in Nat /\ least - 1 < least
  OBVIOUS
<1>6. least - 1 \in S
  BY <1>4, <1>5
<1>7. (least - 1) + 1 \in S
  BY <1>6
<1> QED BY <1>5, <1>7

(* ... and up to a bound. *)
LEMMA BoundedInduction ==
  ASSUME NEW limit \in Nat, NEW S, 0 \in S,
         \A n \in 0 .. limit - 1 : n \in S => n + 1 \in S
  PROVE  0 .. limit \subseteq S
<1> DEFINE All == {n \in Nat : n \in S \/ n > limit}
<1>1. All \in SUBSET Nat /\ 0 \in All /\ \A n \in All : n + 1 \in All
  OBVIOUS
<1>2. All = Nat
  <2> HIDE DEF All
  <2> QED BY <1>1, SetInduction
<1> QED BY <1>2

-----------------------------------------------------------------------------
(* The table, write by write.                                              *)
AnswerRows == [answer : Answers, age : Ages, hits : 0 .. MaxHits]
Tabled == [Stored -> AnswerRows \cup {NoAnswer}]
Deletes == [do : {"delete"}, prompt : Stored]
Inserts == [do : {"insert"}, prompt : Stored, answer : Answers, hits : 0 .. MaxHits]
HitCounts == [do : {"count"}, hits : [Stored -> 0 .. MaxHits]]
Writes == Deletes \cup Inserts \cup HitCounts

IsRowsAfter(after, rows, writes, limit) ==
  after = [n \in 0 .. limit |-> IF n = 0 THEN rows ELSE Written(after[n - 1], writes[n])]

(* RowsAfter() satisfies its equation. *)
LEMMA RowsAfterExist ==
  ASSUME NEW rows, NEW writes
  PROVE  \A limit \in Nat : \E after : IsRowsAfter(after, rows, writes, limit)
<1> DEFINE Fine == {limit \in Nat : \E after : IsRowsAfter(after, rows, writes, limit)}
<1>1. 0 \in Fine
  <2>1. IsRowsAfter([n \in 0 .. 0 |-> rows], rows, writes, 0)
    BY DEF IsRowsAfter
  <2> QED BY <2>1
<1>2. ASSUME NEW limit \in Fine PROVE limit + 1 \in Fine
  <2>1. PICK after : IsRowsAfter(after, rows, writes, limit)
    OBVIOUS
  <2> DEFINE longer == [n \in 0 .. limit + 1 |->
                 IF n <= limit THEN after[n] ELSE Written(after[limit], writes[limit + 1])]
  <2>2. \A n \in 0 .. limit + 1 :
          longer[n] = IF n = 0 THEN rows ELSE Written(longer[n - 1], writes[n])
    BY <2>1 DEF IsRowsAfter
  <2>3. IsRowsAfter(longer, rows, writes, limit + 1)
    BY <2>2 DEF IsRowsAfter
  <2> QED BY <2>3
<1>3. Fine = Nat
  <2>1. Fine \in SUBSET Nat
    OBVIOUS
  <2> HIDE DEF Fine
  <2> QED BY <1>1, <1>2, <2>1, SetInduction
<1> QED BY <1>3

LEMMA RowsAfterDef ==
  ASSUME NEW rows, NEW writes, Len(writes) \in Nat
  PROVE  /\ RowsAfter(rows, writes)[0] = rows
         /\ \A n \in 0 .. Len(writes) - 1 :
              RowsAfter(rows, writes)[n + 1] = Written(RowsAfter(rows, writes)[n], writes[n + 1])
<1> DEFINE Is(after) == IsRowsAfter(after, rows, writes, Len(writes))
<1>1. RowsAfter(rows, writes) = CHOOSE after : Is(after)
  BY DEF RowsAfter, IsRowsAfter
<1>2. \E after : Is(after)
  BY RowsAfterExist
<1>3. Is(RowsAfter(rows, writes))
  <2> HIDE DEF Is
  <2> QED BY <1>1, <1>2
<1> DEFINE after == RowsAfter(rows, writes)
<1>4. after = [n \in 0 .. Len(writes) |->
                IF n = 0 THEN rows ELSE Written(after[n - 1], writes[n])]
  BY <1>3 DEF IsRowsAfter
<1> HIDE DEF after
<1>5. /\ after[0] = rows
      /\ \A n \in 0 .. Len(writes) - 1 : after[n + 1] = Written(after[n], writes[n + 1])
  BY <1>4
<1> QED BY <1>5 DEF after

LEMMA WrittenType ==
  ASSUME NEW rows \in Tabled, NEW w \in Writes
  PROVE  Written(rows, w) \in Tabled
<1>1. CASE w \in Deletes
  BY <1>1 DEF Deletes, Written, Tabled
<1>2. CASE w \in Inserts
  <2>1. [answer |-> w.answer, age |-> 0, hits |-> w.hits] \in AnswerRows
    BY <1>2, CacheAssumption DEF Inserts, AnswerRows, Ages, CacheAssumption
  <2>2. w.do = "insert" /\ w.prompt \in Stored
    BY <1>2 DEF Inserts
  <2> QED BY <2>1, <2>2 DEF Written, Tabled
<1>3. CASE w \in HitCounts
  <2>1. w.do = "count" /\ w.hits \in [Stored -> 0 .. MaxHits]
    BY <1>3 DEF HitCounts
  <2>2. Written(rows, w) = [p \in Stored |->
           IF w.hits[p] = 0 \/ rows[p] = NoAnswer THEN rows[p]
           ELSE [rows[p] EXCEPT !.hits = w.hits[p]]]
    BY <2>1 DEF Written
  <2>3. ASSUME NEW p \in Stored, rows[p] # NoAnswer
        PROVE  [rows[p] EXCEPT !.hits = w.hits[p]] \in AnswerRows
    <3>1. rows[p] \in AnswerRows
      BY <2>3 DEF Tabled
    <3> QED BY <2>1, <3>1 DEF AnswerRows
  <2> QED BY <2>2, <2>3 DEF Tabled
<1> QED BY <1>1, <1>2, <1>3 DEF Writes

LEMMA RowsAfterType ==
  ASSUME NEW rows \in Tabled, NEW writes \in Seq(Writes)
  PROVE  \A n \in 0 .. Len(writes) : RowsAfter(rows, writes)[n] \in Tabled
<1> DEFINE Fine == {n \in 0 .. Len(writes) : RowsAfter(rows, writes)[n] \in Tabled}
<1> Len(writes) \in Nat
  OBVIOUS
<1>1. 0 \in Fine
  BY RowsAfterDef
<1>2. \A n \in 0 .. Len(writes) - 1 : n \in Fine => n + 1 \in Fine
  BY RowsAfterDef, WrittenType
<1> HIDE DEF Fine
<1>3. 0 .. Len(writes) \subseteq Fine
  BY <1>1, <1>2, BoundedInduction
<1> QED BY <1>3 DEF Fine

(* Writes that come later change nothing before. *)
LEMMA RowsAfterPrefix ==
  ASSUME NEW rows, NEW writes \in Seq(Writes), NEW more \in Seq(Writes)
  PROVE  \A n \in 0 .. Len(writes) :
           RowsAfter(rows, writes \o more)[n] = RowsAfter(rows, writes)[n]
<1> DEFINE Fine == {n \in 0 .. Len(writes) :
                      RowsAfter(rows, writes \o more)[n] = RowsAfter(rows, writes)[n]}
<1> Len(writes) \in Nat /\ Len(more) \in Nat /\ Len(writes \o more) = Len(writes) + Len(more)
  OBVIOUS
<1> \A n \in 1 .. Len(writes) : (writes \o more)[n] = writes[n]
  OBVIOUS
<1>1. 0 \in Fine
  BY RowsAfterDef
<1>2. ASSUME NEW n \in 0 .. Len(writes) - 1, n \in Fine PROVE n + 1 \in Fine
  <2>1. /\ RowsAfter(rows, writes \o more)[n + 1]
             = Written(RowsAfter(rows, writes \o more)[n], (writes \o more)[n + 1])
        /\ RowsAfter(rows, writes)[n + 1] = Written(RowsAfter(rows, writes)[n], writes[n + 1])
    <3> DEFINE both == writes \o more
    <3>1. Len(both) \in Nat /\ n \in 0 .. Len(both) - 1
      OBVIOUS
    <3> HIDE DEF both
    <3>2. RowsAfter(rows, both)[n + 1] = Written(RowsAfter(rows, both)[n], both[n + 1])
      BY <3>1, RowsAfterDef
    <3>3. RowsAfter(rows, writes)[n + 1] = Written(RowsAfter(rows, writes)[n], writes[n + 1])
      BY RowsAfterDef
    <3> QED BY <3>2, <3>3 DEF both
  <2>2. (writes \o more)[n + 1] = writes[n + 1]
    OBVIOUS
  <2> QED BY <1>2, <2>1, <2>2
<1> HIDE DEF Fine
<1>3. 0 .. Len(writes) \subseteq Fine
  BY <1>1, <1>2, BoundedInduction
<1> QED BY <1>3 DEF Fine

(* ... and one more is written over what the others have left. *)
LEMMA RowsAfterAppended ==
  ASSUME NEW rows, NEW writes \in Seq(Writes), NEW w \in Writes
  PROVE  /\ writes \o <<w>> \in Seq(Writes)
         /\ Len(writes \o <<w>>) = Len(writes) + 1
         /\ \A n \in 0 .. Len(writes) :
              RowsAfter(rows, writes \o <<w>>)[n] = RowsAfter(rows, writes)[n]
         /\ RowsAfter(rows, writes \o <<w>>)[Len(writes) + 1]
              = Written(RowsAfter(rows, writes)[Len(writes)], w)
<1>1. /\ <<w>> \in Seq(Writes) /\ Len(<<w>>) = 1
      /\ writes \o <<w>> \in Seq(Writes)
      /\ Len(writes \o <<w>>) = Len(writes) + 1
      /\ (writes \o <<w>>)[Len(writes) + 1] = w
      /\ Len(writes) \in Nat
  OBVIOUS
<1>2. \A n \in 0 .. Len(writes) :
        RowsAfter(rows, writes \o <<w>>)[n] = RowsAfter(rows, writes)[n]
  BY <1>1, RowsAfterPrefix
<1>3. RowsAfter(rows, writes \o <<w>>)[Len(writes) + 1]
        = Written(RowsAfter(rows, writes \o <<w>>)[Len(writes)], w)
  <2> DEFINE both == writes \o <<w>>
  <2>1. Len(both) \in Nat /\ Len(writes) \in 0 .. Len(both) - 1
    BY <1>1
  <2>2. both[Len(writes) + 1] = w
    BY <1>1
  <2> HIDE DEF both
  <2>3. RowsAfter(rows, both)[Len(writes) + 1]
          = Written(RowsAfter(rows, both)[Len(writes)], both[Len(writes) + 1])
    BY <2>1, RowsAfterDef
  <2> QED BY <2>2, <2>3 DEF both
<1> QED BY <1>1, <1>2, <1>3

-----------------------------------------------------------------------------
(* Answers in the table come from the table or from a write that waits. *)
LEMMA RowsAfterAnswers ==
  ASSUME NEW rows \in Tabled, NEW writes \in Seq(Writes), NEW n \in 0 .. Len(writes),
         NEW p \in Stored
  PROVE  LET row == RowsAfter(rows, writes)[n][p] IN
         \/ row = NoAnswer
         \/ row.answer = rows[p].answer
         \/ \E i \in 1 .. Len(writes) :
              writes[i].do = "insert" /\ writes[i].answer = row.answer
<1> DEFINE Known(row) ==
             \/ row = NoAnswer
             \/ row.answer = rows[p].answer
             \/ \E i \in 1 .. Len(writes) :
                  writes[i].do = "insert" /\ writes[i].answer = row.answer
<1> DEFINE Fine == {m \in 0 .. Len(writes) : Known(RowsAfter(rows, writes)[m][p])}
<1> Len(writes) \in Nat
  OBVIOUS
<1>1. 0 \in Fine
  BY RowsAfterDef
<1>2. ASSUME NEW m \in 0 .. Len(writes) - 1, m \in Fine PROVE m + 1 \in Fine
  <2> DEFINE old == RowsAfter(rows, writes)[m]
  <2> DEFINE w == writes[m + 1]
  <2>1. w \in Writes /\ old \in Tabled /\ Known(old[p])
    BY <1>2, RowsAfterType
  <2>2. RowsAfter(rows, writes)[m + 1] = Written(old, w)
    BY RowsAfterDef
  <2>3. CASE w \in Deletes
    <3>1. w.do = "delete"
      BY <2>3 DEF Deletes
    <3>2. Written(old, w)[p] \in {NoAnswer, old[p]}
      BY <2>1, <3>1 DEF Written, Tabled
    <3> QED BY <2>1, <2>2, <3>2
  <2>4. CASE w \in Inserts
    <3>1. w.do = "insert"
      BY <2>4 DEF Inserts
    <3>2. Written(old, w)[p] = old[p] \/ Written(old, w)[p].answer = w.answer
      BY <2>1, <3>1 DEF Written, Tabled
    <3> HIDE DEF old
    <3>3. Known(Written(old, w)[p])
      BY <2>1, <3>1, <3>2
    <3> QED BY <2>2, <3>3
  <2>5. CASE w \in HitCounts
    <3>1. w.do = "count"
      BY <2>5 DEF HitCounts
    <3>2. Written(old, w)[p] = old[p]
            \/ (old[p] # NoAnswer /\ Written(old, w)[p] = [old[p] EXCEPT !.hits = w.hits[p]])
      BY <3>1 DEF Written
    <3>3. old[p] # NoAnswer => old[p] \in AnswerRows
      BY <2>1 DEF Tabled
    <3>4. Written(old, w)[p] = old[p] \/ Written(old, w)[p].answer = old[p].answer
      BY <3>2, <3>3 DEF AnswerRows
    <3> HIDE DEF old
    <3>5. Known(Written(old, w)[p])
      BY <2>1, <3>2, <3>4
    <3> QED BY <2>2, <3>5
  <2> QED BY <2>1, <2>3, <2>4, <2>5 DEF Writes
<1> HIDE DEF Fine
<1>3. 0 .. Len(writes) \subseteq Fine
  BY <1>1, <1>2, BoundedInduction
<1> QED BY <1>3 DEF Fine

-----------------------------------------------------------------------------
(* Memory, a sequence of entries with one for each prompt.                 *)
EntryRecords == [prompt : Prompts, answer : Answers, age : Ages, hits : 0 .. MaxHits]
In(s) == {s[i] : i \in 1 .. Len(s)}
Distinct(s) == \A i, j \in 1 .. Len(s) : s[i].prompt = s[j].prompt => i = j

LEMMA SameEntry ==
  ASSUME NEW s, Distinct(s), NEW e \in In(s), NEW f \in In(s), e.prompt = f.prompt
  PROVE  e = f
BY DEF In, Distinct

(* Map.delete() *)
LEMMA WithoutIs ==
  ASSUME recent \in Seq(EntryRecords), Distinct(recent), NEW p
  PROVE  /\ Without(p) \in Seq(EntryRecords)
         /\ Distinct(Without(p))
         /\ In(Without(p)) = {e \in Entries : e.prompt # p}
         /\ Len(Without(p)) = IF EntryOf(p) = {} THEN Len(recent) ELSE Len(recent) - 1
<1> Len(recent) \in Nat /\ DOMAIN recent = 1 .. Len(recent)
  OBVIOUS
<1>1. CASE EntryOf(p) = {}
  BY <1>1 DEF Without, EntryOf, Entries, In
<1>2. CASE EntryOf(p) # {}
  <2> DEFINE k == At(p)
  <2> DEFINE s == [i \in 1 .. Len(recent) - 1 |-> IF i < k THEN recent[i] ELSE recent[i + 1]]
  <2>1. k \in 1 .. Len(recent) /\ recent[k].prompt = p
    <3>1. \E i \in DOMAIN recent : recent[i].prompt = p
      BY <1>2 DEF EntryOf, Entries
    <3> QED BY <3>1 DEF At
  <2>2. Without(p) = s
    BY <1>2 DEF Without
  <2> HIDE DEF k
  <2>3. s \in Seq(EntryRecords) /\ Len(s) = Len(recent) - 1
    BY <2>1
  <2>4. \A i \in 1 .. Len(s) : s[i] = IF i < k THEN recent[i] ELSE recent[i + 1]
    BY <2>3
  <2>5. Distinct(s)
    BY <2>1, <2>3, <2>4 DEF Distinct
  <2>6. ASSUME NEW e \in In(s) PROVE e \in Entries /\ e.prompt # p
    <3>1. PICK i \in 1 .. Len(s) : e = s[i]
      BY DEF In
    <3>2. PICK j \in 1 .. Len(recent) : j # k /\ e = recent[j]
      BY <2>1, <2>3, <2>4, <3>1
    <3> QED BY <2>1, <3>2 DEF Distinct, Entries
  <2>7. ASSUME NEW e \in Entries, e.prompt # p PROVE e \in In(s)
    <3>1. PICK j \in 1 .. Len(recent) : e = recent[j]
      BY DEF Entries
    <3>2. j # k
      BY <2>1, <2>7, <3>1
    <3>3. CASE j < k
      <4>1. j \in 1 .. Len(s) /\ s[j] = e
        BY <2>1, <2>3, <2>4, <3>1, <3>3
      <4> QED BY <4>1 DEF In
    <3>4. CASE j > k
      <4>1. j - 1 \in 1 .. Len(s) /\ s[j - 1] = e
        BY <2>1, <2>3, <2>4, <3>1, <3>4
      <4> QED BY <4>1 DEF In
    <3> QED BY <2>1, <3>2, <3>3, <3>4
  <2> HIDE DEF s
  <2> QED BY <1>2, <2>2, <2>3, <2>5, <2>6, <2>7
<1> QED BY <1>1, <1>2

(* Map.set() of a key that is not there *)
LEMMA AppendIs ==
  ASSUME NEW s \in Seq(EntryRecords), Distinct(s), NEW e \in EntryRecords,
         \A f \in In(s) : f.prompt # e.prompt
  PROVE  /\ Append(s, e) \in Seq(EntryRecords)
         /\ Distinct(Append(s, e))
         /\ In(Append(s, e)) = In(s) \cup {e}
         /\ Len(Append(s, e)) = Len(s) + 1
<1> DEFINE t == Append(s, e)
<1>1. /\ t \in Seq(EntryRecords) /\ Len(t) = Len(s) + 1 /\ Len(s) \in Nat
      /\ \A i \in 1 .. Len(s) : t[i] = s[i]
      /\ t[Len(s) + 1] = e
  OBVIOUS
<1> HIDE DEF t
<1>2. \A i \in 1 .. Len(s) : s[i] \in In(s) /\ s[i].prompt # e.prompt
  BY DEF In
<1>3. Distinct(t)
  BY <1>1, <1>2 DEF Distinct
<1>4. In(t) = In(s) \cup {e}
  <2>1. 1 .. Len(t) = (1 .. Len(s)) \cup {Len(s) + 1}
    BY <1>1
  <2> QED BY <1>1, <2>1 DEF In
<1> QED BY <1>1, <1>3, <1>4 DEF t

(* The eviction of the least recently used entry *)
LEMMA TailIs ==
  ASSUME NEW s \in Seq(EntryRecords), Distinct(s), Len(s) > 0
  PROVE  /\ Tail(s) \in Seq(EntryRecords)
         /\ Distinct(Tail(s))
         /\ Head(s) \in In(s)
         /\ In(Tail(s)) = In(s) \ {Head(s)}
         /\ Len(Tail(s)) = Len(s) - 1
<1> DEFINE t == Tail(s)
<1>1. /\ t \in Seq(EntryRecords) /\ Len(t) = Len(s) - 1 /\ Len(s) \in Nat
      /\ \A i \in 1 .. Len(t) : t[i] = s[i + 1]
      /\ Head(s) = s[1]
  OBVIOUS
<1> HIDE DEF t
<1>2. Distinct(t)
  BY <1>1 DEF Distinct
<1>3. Head(s) \in In(s)
  BY <1>1 DEF In
<1>4. ASSUME NEW e \in In(t) PROVE e \in In(s) /\ e # Head(s)
  <2>1. PICK i \in 1 .. Len(t) : e = t[i]
    BY DEF In
  <2>2. i + 1 \in 1 .. Len(s) /\ e = s[i + 1]
    BY <1>1, <2>1
  <2>3. s[i + 1].prompt # s[1].prompt
    BY <1>1, <2>2 DEF Distinct
  <2> QED BY <1>1, <2>2, <2>3 DEF In
<1>5. ASSUME NEW e \in In(s), e # Head(s) PROVE e \in In(t)
  <2>1. PICK i \in 1 .. Len(s) : e = s[i]
    BY DEF In
  <2>2. i - 1 \in 1 .. Len(t) /\ e = t[i - 1]
    BY <1>1, <1>5, <2>1
  <2> QED BY <2>2 DEF In
<1> QED BY <1>1, <1>2, <1>3, <1>4, <1>5 DEF t

-----------------------------------------------------------------------------
(* The inductive invariant: the shape of the three stores and of the queue *)
(* between them, what a process that is down has lost, and that nothing    *)
(* anywhere carries a flushed answer.                                      *)
Memory == recent \in Seq(EntryRecords) /\ Distinct(recent) /\ Len(recent) <= MaxEntries
HitsFit ==
  /\ dirty \in [Stored -> 0 .. MaxHits]
  /\ \A e \in Entries : e.prompt \in Stored => dirty[e.prompt] <= e.hits
Queue == pendingWrites \in Seq(Writes) /\ Len(pendingWrites) <= MaxPending
Table == disk \in Tabled
Flags ==
  /\ persisting \in BOOLEAN /\ up \in BOOLEAN /\ skipped \in BOOLEAN
  /\ flushed \subseteq Answers
  /\ ~up => recent = << >> /\ pendingWrites = << >> /\ dirty = NoHits
FreshWrites(writes) ==
  \A i \in 1 .. Len(writes) : writes[i].do = "insert" => writes[i].answer \notin flushed
Fresh ==
  /\ \A e \in Entries : e.answer \notin flushed
  /\ FreshWrites(pendingWrites)
  /\ \A p \in Stored : disk[p].answer \notin flushed

CacheInv == Memory /\ HitsFit /\ Queue /\ Table /\ Flags /\ Fresh

LEMMA CacheInvImplies ==
  ASSUME CacheInv
  PROVE  CacheTypeOK /\ FlushIsFinal
<1>1. Entries \subseteq EntryRecords /\ \A e \in Entries : EntryOf(e.prompt) = {e}
  <2>1. Entries = In(recent)
    BY DEF Entries, In
  <2>2. In(recent) \subseteq EntryRecords
    BY DEF CacheInv, Memory, In
  <2>3. \A e, f \in In(recent) : e.prompt = f.prompt => e = f
    BY SameEntry DEF CacheInv, Memory
  <2> QED BY <2>1, <2>2, <2>3 DEF EntryOf
<1>2. disk \in [Stored -> [answer : Answers \cup {"none"}, age : Ages, hits : 0 .. MaxHits]]
  <2>1. NoAnswer \in [answer : Answers \cup {"none"}, age : Ages, hits : 0 .. MaxHits]
    BY CacheAssumption DEF NoAnswer, Ages, CacheAssumption
  <2>2. AnswerRows \subseteq [answer : Answers \cup {"none"}, age : Ages, hits : 0 .. MaxHits]
    BY DEF AnswerRows
  <2> QED BY <2>1, <2>2 DEF CacheInv, Table, Tabled
<1>3. CacheTypeOK
  BY <1>1, <1>2 DEF CacheTypeOK, CacheInv, Memory, HitsFit, Queue, Flags, EntryRecords
<1>4. FlushIsFinal
  <2>1. DOMAIN pendingWrites = 1 .. Len(pendingWrites)
    BY DEF CacheInv, Queue
  <2> QED BY <2>1 DEF FlushIsFinal, Kept, Waiting, OnDisk, CacheInv, Fresh, FreshWrites
<1> QED BY <1>3, <1>4

LEMMA CacheInvInit == CacheInit => CacheInv
<1> SUFFICES ASSUME CacheInit PROVE CacheInv
  OBVIOUS
<1> Entries = {} /\ 0 \in 0 .. MaxHits
  BY CacheAssumption DEF CacheInit, Entries, CacheAssumption
<1>1. Memory /\ HitsFit /\ Queue /\ Table
  BY CacheAssumption DEF CacheInit, CacheAssumption, Memory, HitsFit, Queue, Table, Distinct,
     NoHits, Tabled
<1>2. Flags /\ Fresh
  BY DEF CacheInit, Flags, Fresh, FreshWrites
<1> QED BY <1>1, <1>2 DEF CacheInv

(* schedulePersist() *)
LEMMA ScheduleIs ==
  ASSUME CacheInv, NEW queue \in Seq(Writes), NEW writes \in Seq(Writes),
         FreshWrites(queue), FreshWrites(writes), Schedule(queue, writes)
  PROVE  /\ Queue' /\ skipped' \in BOOLEAN
         /\ \A i \in 1 .. Len(pendingWrites') :
              pendingWrites'[i].do = "insert" => pendingWrites'[i].answer \notin flushed
         /\ ~skipped' => ~skipped /\ pendingWrites' = queue \o writes
<1> DEFINE both == queue \o writes
<1>1. /\ both \in Seq(Writes) /\ Len(both) = Len(queue) + Len(writes)
      /\ Len(queue) \in Nat /\ Len(writes) \in Nat
      /\ \A i \in 1 .. Len(both) :
           \/ i \in 1 .. Len(queue) /\ both[i] = queue[i]
           \/ i - Len(queue) \in 1 .. Len(writes) /\ both[i] = writes[i - Len(queue)]
  OBVIOUS
<1>2. writes = << >> => both = queue
  OBVIOUS
<1> HIDE DEF both
<1>3. FreshWrites(both)
  BY <1>1 DEF FreshWrites
<1>4. /\ pendingWrites' = IF persisting THEN both ELSE queue
      /\ skipped' = (skipped \/ (~persisting /\ writes # << >>))
      /\ Len(queue) + Len(writes) <= MaxPending
  BY DEF Schedule, both
<1>5. Queue'
  BY <1>1, <1>4, CacheAssumption DEF Queue, CacheAssumption
<1> QED BY <1>2, <1>3, <1>4, <1>5 DEF CacheInv, Flags, FreshWrites, both

LEMMA RowDeletesIs ==
  ASSUME NEW e \in EntryRecords
  PROVE  /\ RowDeletes(e) \in Seq(Writes) /\ FreshWrites(RowDeletes(e))
         /\ RowDeletes(e) = << >> \/ RowDeletes(e) = <<[do |-> "delete", prompt |-> e.prompt]>>
<1> DEFINE w == [do |-> "delete", prompt |-> e.prompt]
<1>1. CASE e.prompt \in Stored
  <2>1. w \in Writes
    BY <1>1 DEF Writes, Deletes
  <2>2. RowDeletes(e) = <<w>>
    BY <1>1 DEF RowDeletes
  <2> QED BY <2>1, <2>2 DEF FreshWrites
<1>2. CASE e.prompt \notin Stored
  BY <1>2 DEF RowDeletes, FreshWrites
<1> QED BY <1>1, <1>2

LEMMA EntriesIn ==
  ASSUME CacheInv
  PROVE  Entries = In(recent) /\ Entries \subseteq EntryRecords /\ (Entries)' = In(recent')
BY DEF CacheInv, Memory, Entries, In

-----------------------------------------------------------------------------
LEMMA LookupExpiredKeeps ==
  ASSUME CacheInv, NEW p \in Prompts, LookupExpired(p)
  PROVE  CacheInv'
<1>1. PICK e \in EntryOf(p) : Schedule(pendingWrites, RowDeletes(e))
  BY DEF LookupExpired
<1>2. e \in EntryRecords
  BY <1>1, EntriesIn DEF EntryOf
<1>3. /\ recent' = Without(p) /\ up /\ up' = up /\ disk' = disk /\ dirty' = dirty
      /\ persisting' = persisting /\ flushed' = flushed
  BY DEF LookupExpired
<1>4. /\ Queue' /\ skipped' \in BOOLEAN
      /\ \A i \in 1 .. Len(pendingWrites') :
           pendingWrites'[i].do = "insert" => pendingWrites'[i].answer \notin flushed
  BY <1>1, <1>2, RowDeletesIs, ScheduleIs DEF CacheInv, Queue, Fresh
<1>5. /\ Without(p) \in Seq(EntryRecords) /\ Distinct(Without(p))
      /\ In(Without(p)) \subseteq Entries /\ Len(Without(p)) <= Len(recent)
  BY WithoutIs DEF CacheInv, Memory
<1>6. (Entries)' \subseteq Entries
  BY <1>3, <1>5, EntriesIn
<1>7. Memory'
  <2>1. Len(recent) \in Nat /\ Len(Without(p)) \in Nat
    BY <1>5 DEF CacheInv, Memory
  <2> QED BY <1>3, <1>5, <2>1, CacheAssumption DEF CacheInv, Memory, CacheAssumption
<1> QED BY <1>3, <1>4, <1>6, <1>7 DEF CacheInv, HitsFit, Table, Flags, Fresh, FreshWrites

LEMMA RecountedIs ==
  ASSUME CacheInv, NEW e \in EntryRecords
  PROVE  /\ Recounted(e) \in Seq(Writes) /\ Len(Recounted(e)) = Len(pendingWrites)
         /\ \A i \in 1 .. Len(pendingWrites) :
              \/ Recounted(e)[i] = pendingWrites[i]
              \/ /\ pendingWrites[i] \in Inserts
                 /\ pendingWrites[i].prompt = e.prompt /\ pendingWrites[i].answer = e.answer
                 /\ Recounted(e)[i] = [pendingWrites[i] EXCEPT !.hits = e.hits]
<1>1. DOMAIN pendingWrites = 1 .. Len(pendingWrites) /\ Len(pendingWrites) \in Nat
  BY DEF CacheInv, Queue
<1>2. ASSUME NEW i \in 1 .. Len(pendingWrites)
      PROVE  /\ Recounted(e)[i] \in Writes
             /\ \/ Recounted(e)[i] = pendingWrites[i]
                \/ /\ pendingWrites[i] \in Inserts
                   /\ pendingWrites[i].prompt = e.prompt /\ pendingWrites[i].answer = e.answer
                   /\ Recounted(e)[i] = [pendingWrites[i] EXCEPT !.hits = e.hits]
  <2>1. pendingWrites[i] \in Writes
    BY DEF CacheInv, Queue
  <2>2. Recounted(e)[i] = IF /\ pendingWrites[i].do = "insert"
                             /\ pendingWrites[i].prompt = e.prompt
                             /\ pendingWrites[i].answer = e.answer
                          THEN [pendingWrites[i] EXCEPT !.hits = e.hits] ELSE pendingWrites[i]
    BY <1>1 DEF Recounted
  <2>3. pendingWrites[i].do = "insert" => pendingWrites[i] \in Inserts
    BY <2>1 DEF Writes, Deletes, HitCounts
  <2>4. pendingWrites[i] \in Inserts => [pendingWrites[i] EXCEPT !.hits = e.hits] \in Inserts
    BY DEF Inserts, EntryRecords
  <2> QED BY <2>1, <2>2, <2>3, <2>4 DEF Writes
<1>3. Recounted(e) = [i \in 1 .. Len(pendingWrites) |-> Recounted(e)[i]]
  BY <1>1 DEF Recounted
<1> QED BY <1>1, <1>2, <1>3

LEMMA LookupHitsKeeps ==
  ASSUME CacheInv, NEW p \in Prompts, LookupHits(p)
  PROVE  CacheInv'
<1>1. PICK e \in EntryOf(p) :
        LET hit == [e EXCEPT !.hits = e.hits + 1] IN
        /\ e.hits < MaxHits
        /\ recent' = Append(Without(p), hit)
        /\ dirty' = IF p \in Stored THEN [dirty EXCEPT ![p] = hit.hits] ELSE dirty
        /\ pendingWrites' = Recounted(hit)
  BY DEF LookupHits
<1> DEFINE hit == [e EXCEPT !.hits = e.hits + 1]
<1>2. e \in Entries /\ e \in EntryRecords /\ e.prompt = p
  BY <1>1, EntriesIn DEF EntryOf
<1>3. /\ hit \in EntryRecords /\ hit.prompt = p /\ hit.answer = e.answer
      /\ hit.hits \in 0 .. MaxHits
  BY <1>1, <1>2, CacheAssumption DEF EntryRecords, CacheAssumption
<1>4. /\ up /\ up' = up /\ disk' = disk /\ persisting' = persisting
      /\ flushed' = flushed /\ skipped' = skipped
  BY DEF LookupHits
<1> HIDE DEF hit
<1>5. /\ recent' \in Seq(EntryRecords) /\ Distinct(recent')
      /\ In(recent') = {f \in Entries : f.prompt # p} \cup {hit}
      /\ Len(recent') = Len(recent)
  <2>1. /\ Without(p) \in Seq(EntryRecords) /\ Distinct(Without(p))
        /\ In(Without(p)) = {f \in Entries : f.prompt # p}
        /\ Len(Without(p)) = Len(recent) - 1
    BY <1>1, WithoutIs DEF CacheInv, Memory
  <2>2. recent' = Append(Without(p), hit)
    BY <1>1 DEF hit
  <2>3. Len(recent) \in Nat
    BY DEF CacheInv, Memory
  <2> QED BY <1>3, <2>1, <2>2, <2>3, AppendIs
<1>6. (Entries)' = {f \in Entries : f.prompt # p} \cup {hit}
  BY <1>5, EntriesIn
<1>7. Memory'
  BY <1>5 DEF CacheInv, Memory
<1>8. HitsFit'
  <2>1. dirty' = IF p \in Stored THEN [dirty EXCEPT ![p] = hit.hits] ELSE dirty
    BY <1>1 DEF hit
  <2> QED BY <1>3, <1>6, <2>1 DEF CacheInv, HitsFit
<1>9. pendingWrites' = Recounted(hit)
  BY <1>1 DEF hit
<1>10. Queue' /\ FreshWrites(pendingWrites)'
  <2>1. /\ Recounted(hit) \in Seq(Writes) /\ Len(Recounted(hit)) = Len(pendingWrites)
        /\ \A i \in 1 .. Len(pendingWrites) :
             \/ Recounted(hit)[i] = pendingWrites[i]
             \/ /\ pendingWrites[i] \in Inserts
                /\ Recounted(hit)[i] = [pendingWrites[i] EXCEPT !.hits = hit.hits]
    BY <1>3, RecountedIs
  <2>2. \A i \in 1 .. Len(pendingWrites) :
             /\ Recounted(hit)[i].do = "insert" => pendingWrites[i].do = "insert"
             /\ Recounted(hit)[i].do = "insert"
                  => Recounted(hit)[i].answer = pendingWrites[i].answer
    BY <2>1 DEF Inserts
  <2> QED BY <1>4, <1>9, <2>1, <2>2 DEF CacheInv, Queue, Fresh, FreshWrites
<1>11. Fresh'
  BY <1>2, <1>3, <1>4, <1>6, <1>10 DEF CacheInv, Fresh
<1> QED BY <1>4, <1>7, <1>8, <1>10, <1>11 DEF CacheInv, Table, Flags

(* Memory after a store: what was there, without the old answer, with the  *)
(* new one, and without the least recently used when there was no room.    *)
LEMMA StoresIs ==
  ASSUME CacheInv, NEW p \in Prompts, NEW a \in Answers
  PROVE  LET entries == Stores(p, a)
             new == [prompt |-> p, answer |-> a, age |-> 0, hits |-> 0]
         IN /\ entries \in Seq(EntryRecords) /\ Distinct(entries)
            /\ new \in EntryRecords
            /\ In(entries) = {e \in Entries : e.prompt # p} \cup {new}
            /\ Len(entries) \in 1 .. MaxEntries + 1
            /\ Evicts(entries) => EntryOf(p) = {} /\ Len(entries) = MaxEntries + 1
<1> DEFINE new == [prompt |-> p, answer |-> a, age |-> 0, hits |-> 0]
<1>1. /\ Without(p) \in Seq(EntryRecords) /\ Distinct(Without(p))
      /\ In(Without(p)) = {e \in Entries : e.prompt # p}
      /\ Len(Without(p)) = IF EntryOf(p) = {} THEN Len(recent) ELSE Len(recent) - 1
  BY WithoutIs DEF CacheInv, Memory
<1>2. new \in EntryRecords /\ new.prompt = p
  BY CacheAssumption DEF EntryRecords, Ages, CacheAssumption
<1>3. Stores(p, a) = Append(Without(p), new)
  BY DEF Stores
<1>4. Len(recent) \in 0 .. MaxEntries /\ Len(Without(p)) \in Nat /\ MaxEntries \in Nat
  BY <1>1, CacheAssumption DEF CacheInv, Memory, CacheAssumption
<1> HIDE DEF new
<1>5. /\ Append(Without(p), new) \in Seq(EntryRecords)
      /\ Distinct(Append(Without(p), new))
      /\ In(Append(Without(p), new)) = In(Without(p)) \cup {new}
      /\ Len(Append(Without(p), new)) = Len(Without(p)) + 1
  BY <1>1, <1>2, AppendIs
<1>6. /\ Len(Stores(p, a)) \in 1 .. MaxEntries + 1
      /\ Evicts(Stores(p, a)) => EntryOf(p) = {} /\ Len(Stores(p, a)) = MaxEntries + 1
  BY <1>1, <1>3, <1>4, <1>5 DEF Evicts
<1> QED BY <1>1, <1>2, <1>3, <1>5, <1>6 DEF new

LEMMA StoredWrites ==
  ASSUME CacheInv, NEW p \in Prompts, NEW a \in Answers, a \notin flushed
  PROVE  LET entries == Stores(p, a)
             deletes == IF Evicts(entries) THEN RowDeletes(Head(entries)) ELSE << >>
             insert == IF p \in Stored /\ MaxEntries > 0
                       THEN <<[do |-> "insert", prompt |-> p, answer |-> a, hits |-> 0]>>
                       ELSE << >>
         IN /\ deletes \in Seq(Writes) /\ insert \in Seq(Writes)
            /\ deletes \o insert \in Seq(Writes)
            /\ FreshWrites(deletes \o insert)
<1> DEFINE entries == Stores(p, a)
           deletes == IF Evicts(entries) THEN RowDeletes(Head(entries)) ELSE << >>
           w == [do |-> "insert", prompt |-> p, answer |-> a, hits |-> 0]
           insert == IF p \in Stored /\ MaxEntries > 0 THEN <<w>> ELSE << >>
           all == deletes \o insert
<1>1. deletes \in Seq(Writes) /\ FreshWrites(deletes)
  <2>1. Len(entries) \in 1 .. MaxEntries + 1 /\ entries \in Seq(EntryRecords)
    BY StoresIs
  <2>2. Head(entries) \in EntryRecords
    <3> HIDE DEF entries
    <3> QED BY <2>1, CacheAssumption DEF CacheAssumption
  <2>3. FreshWrites(<< >>)
    BY DEF FreshWrites
  <2> QED BY <2>2, <2>3, RowDeletesIs
<1>2. insert \in Seq(Writes) /\ FreshWrites(insert)
  <2>1. p \in Stored => w \in Writes
    BY CacheAssumption DEF Writes, Inserts, CacheAssumption
  <2> QED BY <2>1 DEF FreshWrites
<1> HIDE DEF deletes, insert
<1>3. /\ all \in Seq(Writes)
      /\ \A i \in 1 .. Len(all) :
           \/ i \in 1 .. Len(deletes) /\ all[i] = deletes[i]
           \/ i - Len(deletes) \in 1 .. Len(insert) /\ all[i] = insert[i - Len(deletes)]
  BY <1>1, <1>2
<1>4. FreshWrites(all)
  BY <1>1, <1>2, <1>3 DEF FreshWrites
<1> QED BY <1>1, <1>2, <1>3, <1>4 DEF deletes, insert

LEMMA StoreAnswerKeeps ==
  ASSUME CacheInv, NEW p \in Prompts, NEW a \in Answers, StoreAnswer(p, a)
  PROVE  CacheInv'
<1> DEFINE entries == Stores(p, a)
           new == [prompt |-> p, answer |-> a, age |-> 0, hits |-> 0]
           deletes == IF Evicts(entries) THEN RowDeletes(Head(entries)) ELSE << >>
           insert == IF p \in Stored /\ MaxEntries > 0
                     THEN <<[do |-> "insert", prompt |-> p, answer |-> a, hits |-> 0]>>
                     ELSE << >>
<1>1. /\ up /\ up' = up /\ disk' = disk /\ persisting' = persisting /\ flushed' = flushed
      /\ a \notin flushed
      /\ recent' = IF Evicts(entries) THEN Tail(entries) ELSE entries
      /\ dirty' = IF p \in Stored THEN [dirty EXCEPT ![p] = 0] ELSE dirty
      /\ Schedule(pendingWrites, deletes \o insert)
  BY DEF StoreAnswer
<1>2. /\ entries \in Seq(EntryRecords) /\ Distinct(entries)
      /\ In(entries) = {e \in Entries : e.prompt # p} \cup {new}
      /\ Len(entries) \in 1 .. MaxEntries + 1
  BY StoresIs
<1>3. /\ Queue' /\ skipped' \in BOOLEAN
      /\ \A i \in 1 .. Len(pendingWrites') :
           pendingWrites'[i].do = "insert" => pendingWrites'[i].answer \notin flushed
  <2> DEFINE all == deletes \o insert
  <2>1. all \in Seq(Writes) /\ FreshWrites(all)
    BY <1>1, StoredWrites
  <2>2. Schedule(pendingWrites, all)
    BY <1>1
  <2> HIDE DEF all
  <2> QED BY <2>1, <2>2, ScheduleIs DEF CacheInv, Queue, Fresh
<1> HIDE DEF entries, deletes, insert
<1>4. Memory' /\ In(recent') \subseteq In(entries)
  <2>0. MaxEntries \in Nat
    BY CacheAssumption DEF CacheAssumption
  <2>1. CASE Evicts(entries)
    <3>1. /\ Tail(entries) \in Seq(EntryRecords) /\ Distinct(Tail(entries))
          /\ In(Tail(entries)) \subseteq In(entries)
          /\ Len(Tail(entries)) = Len(entries) - 1
      BY <1>2, TailIs
    <3> QED BY <1>1, <1>2, <2>0, <2>1, <3>1 DEF Memory
  <2>2. CASE ~Evicts(entries)
    <3>1. Len(entries) <= MaxEntries
      BY <1>2, <2>0, <2>2 DEF Evicts
    <3> QED BY <1>1, <1>2, <2>2, <3>1 DEF Memory
  <2> QED BY <2>1, <2>2
<1>5. (Entries)' \subseteq {e \in Entries : e.prompt # p} \cup {new}
  BY <1>2, <1>4, EntriesIn
<1>6. HitsFit'
  <2>1. dirty' \in [Stored -> 0 .. MaxHits]
    BY <1>1, CacheAssumption DEF CacheInv, HitsFit, CacheAssumption
  <2>2. ASSUME NEW e \in (Entries)', e.prompt \in Stored PROVE dirty'[e.prompt] <= e.hits
    <3>1. CASE e.prompt = p
      <4>1. e = new
        BY <1>5, <2>2, <3>1
      <4>2. dirty'[p] = 0
        BY <1>1, <2>2, <3>1 DEF CacheInv, HitsFit
      <4> QED BY <3>1, <4>1, <4>2
    <3>2. CASE e.prompt # p
      <4>1. e \in Entries
        BY <1>5, <2>2, <3>2
      <4>2. dirty'[e.prompt] = dirty[e.prompt]
        BY <1>1, <2>2, <3>2 DEF CacheInv, HitsFit
      <4> QED BY <2>2, <4>1, <4>2 DEF CacheInv, HitsFit
    <3> QED BY <3>1, <3>2
  <2> QED BY <2>1, <2>2 DEF HitsFit
<1>7. Fresh'
  <2>1. \A e \in (Entries)' : e.answer \notin flushed
    BY <1>1, <1>5 DEF CacheInv, Fresh
  <2> QED BY <1>1, <1>3, <2>1 DEF CacheInv, Fresh, FreshWrites
<1> QED BY <1>1, <1>3, <1>4, <1>6, <1>7 DEF CacheInv, Table, Flags

LEMMA FlushHitCountsKeeps ==
  ASSUME CacheInv, FlushHitCounts
  PROVE  CacheInv'
<1> DEFINE w == [do |-> "count", hits |-> dirty]
<1>1. /\ up /\ up' = up /\ disk' = disk /\ persisting' = persisting /\ flushed' = flushed
      /\ recent' = recent /\ dirty' = NoHits
      /\ Schedule(pendingWrites, <<w>>)
  BY DEF FlushHitCounts
<1>2. w \in Writes /\ w.do = "count"
  BY DEF Writes, HitCounts, CacheInv, HitsFit
<1> HIDE DEF w
<1>3. <<w>> \in Seq(Writes) /\ FreshWrites(<<w>>)
  BY <1>2 DEF FreshWrites
<1>4. /\ Queue' /\ skipped' \in BOOLEAN
      /\ \A i \in 1 .. Len(pendingWrites') :
           pendingWrites'[i].do = "insert" => pendingWrites'[i].answer \notin flushed
  BY <1>1, <1>3, ScheduleIs DEF CacheInv, Queue, Fresh
<1>5. (Entries)' = Entries
  BY <1>1 DEF Entries
<1>6. HitsFit'
  <2>1. \A e \in Entries : e.hits \in 0 .. MaxHits
    BY EntriesIn DEF EntryRecords
  <2> QED BY <1>1, <1>5, <2>1, CacheAssumption DEF HitsFit, NoHits, CacheAssumption
<1> QED BY <1>1, <1>4, <1>5, <1>6 DEF CacheInv, Memory, Table, Flags, Fresh, FreshWrites

(* The table at any point of a drain, where a crash may leave it, is a     *)
(* table without flushed answers.                                          *)
LEMMA AfterIs ==
  ASSUME CacheInv, NEW n \in 0 .. Len(pendingWrites)
  PROVE  After(n) \in Tabled /\ \A p \in Stored : After(n)[p].answer \notin flushed
<1>1. disk \in Tabled /\ pendingWrites \in Seq(Writes)
  BY DEF CacheInv, Queue, Table
<1>2. After(n) \in Tabled
  BY <1>1, RowsAfterType DEF After
<1>3. ASSUME NEW p \in Stored PROVE After(n)[p].answer \notin flushed
  <2> DEFINE row == RowsAfter(disk, pendingWrites)[n][p]
  <2>1. \/ row = NoAnswer
        \/ row.answer = disk[p].answer
        \/ \E i \in 1 .. Len(pendingWrites) :
             pendingWrites[i].do = "insert" /\ pendingWrites[i].answer = row.answer
    BY <1>1, RowsAfterAnswers
  <2>2. NoAnswer.answer \notin flushed
    BY CacheAssumption DEF CacheAssumption, NoAnswer, CacheInv, Flags
  <2> HIDE DEF row
  <2>3. row.answer \notin flushed
    BY <2>1, <2>2 DEF CacheInv, Fresh, FreshWrites
  <2> QED BY <2>3 DEF row, After
<1> QED BY <1>2, <1>3

LEMMA DrainPendingWritesKeeps ==
  ASSUME CacheInv, DrainPendingWrites
  PROVE  CacheInv'
<1>1. Len(pendingWrites) \in 0 .. Len(pendingWrites)
  BY DEF CacheInv, Queue
<1>2. After(Len(pendingWrites)) \in Tabled
      /\ \A p \in Stored : After(Len(pendingWrites))[p].answer \notin flushed
  BY <1>1, AfterIs
<1>3. /\ disk' = After(Len(pendingWrites)) /\ pendingWrites' = << >>
      /\ up' = up /\ persisting' = persisting /\ flushed' = flushed /\ skipped' = skipped
      /\ recent' = recent /\ dirty' = dirty
  BY DEF DrainPendingWrites
<1>4. Memory' /\ HitsFit' /\ (Entries)' = Entries
  BY <1>3 DEF CacheInv, Memory, HitsFit, Entries
<1>5. Queue' /\ Table' /\ Flags'
  BY <1>2, <1>3, CacheAssumption DEF CacheInv, Queue, Table, Flags, CacheAssumption
<1>6. Fresh'
  BY <1>2, <1>3, <1>4 DEF CacheInv, Fresh, FreshWrites
<1> QED BY <1>4, <1>5, <1>6 DEF CacheInv

(* Nothing is anywhere after a flush, or only a table is, after a crash. *)
LEMMA EmptyMemoryKeeps ==
  ASSUME CacheInv, recent' = << >>, dirty' = NoHits, pendingWrites' = << >>,
         disk' \in Tabled, persisting' = persisting, up' \in BOOLEAN,
         skipped' \in BOOLEAN, flushed' \subseteq Answers,
         \A p \in Stored : disk'[p].answer \notin flushed'
  PROVE  CacheInv'
<1>1. (Entries)' = {} /\ 0 \in 0 .. MaxHits
  BY CacheAssumption DEF Entries, CacheAssumption
<1>2. Memory' /\ HitsFit' /\ Queue' /\ Table'
  BY <1>1, CacheAssumption DEF Memory, HitsFit, Queue, Table, Distinct, NoHits, CacheAssumption
<1>3. Flags' /\ Fresh'
  BY <1>1 DEF CacheInv, Flags, Fresh, FreshWrites
<1> QED BY <1>2, <1>3 DEF CacheInv

LEMMA ClearCacheKeeps ==
  ASSUME CacheInv, ClearCache
  PROVE  CacheInv'
<1>1. /\ recent' = << >> /\ dirty' = NoHits /\ pendingWrites' = << >>
      /\ disk' = [p \in Stored |-> NoAnswer] /\ skipped' = FALSE
      /\ persisting' = persisting /\ up' \in BOOLEAN
      /\ flushed' = flushed \cup Waiting \cup Kept \cup OnDisk
  BY DEF ClearCache, CacheInv, Flags
<1>2. flushed' \subseteq Answers /\ disk' \in Tabled
  BY <1>1 DEF Waiting, Kept, OnDisk, Tabled, CacheInv, Flags
<1>3. \A p \in Stored : disk'[p].answer \notin flushed'
  BY <1>1, <1>2, CacheAssumption DEF CacheAssumption, NoAnswer
<1> QED BY <1>1, <1>2, <1>3, EmptyMemoryKeeps

LEMMA CacheDiesKeeps ==
  ASSUME CacheInv, NEW n \in 0 .. Len(pendingWrites), CacheDies(n)
  PROVE  CacheInv'
<1>1. /\ recent' = << >> /\ dirty' = NoHits /\ pendingWrites' = << >>
      /\ disk' = After(n) /\ skipped' = skipped /\ flushed' = flushed
      /\ persisting' = persisting /\ up' \in BOOLEAN
  BY DEF CacheDies
<1>2. disk' \in Tabled /\ \A p \in Stored : disk'[p].answer \notin flushed'
  BY <1>1, AfterIs
<1>3. skipped' \in BOOLEAN /\ flushed' \subseteq Answers
  BY <1>1 DEF CacheInv, Flags
<1> QED BY <1>1, <1>2, <1>3, EmptyMemoryKeeps

LEMMA SwitchCacheKeeps ==
  ASSUME CacheInv, SwitchCache
  PROVE  CacheInv'
BY DEF SwitchCache, CacheInv, Memory, HitsFit, Queue, Table, Flags, Fresh, FreshWrites, Entries

(* The rows that a start finds alive, in an order it may take them.        *)
Alive == {p \in Stored : disk[p] # NoAnswer /\ disk[p].age < Lifetime}
EntryFrom(p) == [prompt |-> p, answer |-> disk[p].answer, age |-> disk[p].age,
                 hits |-> disk[p].hits]

LEMMA SortedIs ==
  ASSUME CacheInv, NEW s \in Sorted(Alive)
  PROVE  /\ Cardinality(Alive) \in Nat
         /\ s \in Seq(Alive) /\ Len(s) = Cardinality(Alive)
         /\ \A i, j \in 1 .. Len(s) : s[i] = s[j] => i = j
         /\ \A p \in Alive : \E i \in 1 .. Len(s) : s[i] = p
<1> DEFINE size == Cardinality(Alive)
<1>1. IsFiniteSet(Alive)
  <2>1. IsFiniteSet(Prompts) /\ Alive \subseteq Prompts
    BY CacheAssumption DEF CacheAssumption, Alive, Stored
  <2> QED BY <2>1, FS_Subset
<1>2. size \in Nat
  BY <1>1, FS_CardinalityType
<1>3. s \in [1 .. size -> Alive] /\ \A i, j \in 1 .. size : i < j => s[i] # s[j]
  BY DEF Sorted
<1> HIDE DEF size
<1>4. \A i, j \in 1 .. size : s[i] = s[j] => i = j
  BY <1>2, <1>3
<1>5. s \in Injection(1 .. size, Alive)
  BY <1>3, <1>4 DEF Injection, IsInjective
<1>6. Cardinality(1 .. size) = size
  BY <1>2, FS_Interval
<1>7. s \in Surjection(1 .. size, Alive)
  BY <1>1, <1>5, <1>6, FS_Injection DEF size
<1>8. \A p \in Alive : \E i \in 1 .. size : s[i] = p
  BY <1>7 DEF Surjection
<1>9. s \in Seq(Alive) /\ Len(s) = size
  BY <1>2, <1>3
<1> QED BY <1>2, <1>4, <1>8, <1>9 DEF size

LEMMA EntryFromIs ==
  ASSUME CacheInv, NEW p \in Alive
  PROVE  /\ EntryFrom(p) \in EntryRecords /\ EntryFrom(p).prompt = p
         /\ disk[p] \in AnswerRows /\ EntryFrom(p).answer \notin flushed
<1>1. disk[p] \in AnswerRows /\ p \in Prompts /\ p \in Stored
  BY DEF Alive, Stored, CacheInv, Table, Tabled
<1> QED BY <1>1 DEF EntryFrom, EntryRecords, AnswerRows, CacheInv, Fresh

(* loadCacheFromDb() *)
LEMMA LoadCacheIs ==
  ASSUME CacheInv, LoadCache
  PROVE  /\ ~up /\ up' = TRUE /\ dirty' = NoHits /\ pendingWrites' = << >>
         /\ persisting' = persisting /\ flushed' = flushed /\ skipped' \in BOOLEAN
         /\ disk' = [p \in Stored |-> IF p \in Alive THEN disk[p] ELSE NoAnswer]
         /\ recent' \in Seq(EntryRecords) /\ Distinct(recent') /\ Len(recent') <= MaxEntries
         /\ In(recent') \subseteq {EntryFrom(p) : p \in Alive}
         /\ ~skipped' => In(recent') = {EntryFrom(p) : p \in Alive}
<1> DEFINE size == Cardinality(Alive)
           excess == IF size > MaxEntries THEN size - MaxEntries ELSE 0
<1>1. PICK s \in Sorted(Alive) :
        recent' = IF persisting
                  THEN [i \in 1 .. Len(s) - excess |-> EntryFrom(s[i + excess])] ELSE << >>
  BY DEF LoadCache, Alive, EntryFrom
<1>2. skipped' = (Alive # {} /\ (~persisting \/ excess > 0))
  BY DEF LoadCache, Alive
<1>3. /\ size \in Nat /\ MaxEntries \in Nat
      /\ s \in Seq(Alive) /\ Len(s) = size
      /\ \A i, j \in 1 .. Len(s) : s[i] = s[j] => i = j
      /\ \A p \in Alive : \E i \in 1 .. Len(s) : s[i] = p
  BY SortedIs, CacheAssumption DEF CacheAssumption
<1> DEFINE kept == Len(s) - excess
<1>4. kept \in Nat /\ kept <= MaxEntries /\ excess \in Nat /\ kept + excess = Len(s)
  <2>1. size \in Nat /\ MaxEntries \in Nat /\ Len(s) = size
    BY <1>3
  <2> HIDE DEF size
  <2> QED BY <2>1
<1> HIDE DEF size, kept, excess
<1>5. ASSUME persisting
      PROVE  /\ recent' \in Seq(EntryRecords) /\ Len(recent') = kept
             /\ \A i \in 1 .. kept : /\ i + excess \in 1 .. Len(s)
                                     /\ s[i + excess] \in Alive
                                     /\ recent'[i] = EntryFrom(s[i + excess])
  <2>1. recent' = [i \in 1 .. kept |-> EntryFrom(s[i + excess])]
    BY <1>1, <1>5 DEF kept
  <2>2. \A i \in 1 .. kept : i + excess \in 1 .. Len(s)
    BY <1>3, <1>4
  <2>3. \A i \in 1 .. kept : s[i + excess] \in Alive
    BY <1>3, <2>2
  <2>4. \A i \in 1 .. kept : EntryFrom(s[i + excess]) \in EntryRecords
    BY <2>3, EntryFromIs
  <2> QED BY <1>4, <2>1, <2>2, <2>3, <2>4
<1>6. recent' \in Seq(EntryRecords) /\ Distinct(recent') /\ Len(recent') <= MaxEntries
  <2>1. CASE persisting
    <3>1. ASSUME NEW i \in 1 .. kept, NEW j \in 1 .. kept,
                 recent'[i].prompt = recent'[j].prompt
          PROVE  i = j
      <4>1. recent'[i].prompt = s[i + excess] /\ recent'[j].prompt = s[j + excess]
        BY <1>5, <2>1, EntryFromIs
      <4>2. i + excess \in 1 .. Len(s) /\ j + excess \in 1 .. Len(s)
        BY <1>5, <2>1
      <4>3. i + excess = j + excess
        BY <1>3, <3>1, <4>1, <4>2
      <4> QED BY <1>4, <4>3
    <3> QED BY <1>4, <1>5, <2>1, <3>1 DEF Distinct
  <2>2. CASE ~persisting
    BY <1>1, <1>3, <2>2 DEF Distinct
  <2> QED BY <2>1, <2>2
<1>7. In(recent') \subseteq {EntryFrom(p) : p \in Alive}
  <2>1. CASE persisting
    BY <1>5, <2>1 DEF In
  <2>2. CASE ~persisting
    BY <1>1, <2>2 DEF In
  <2> QED BY <2>1, <2>2
<1>8. ASSUME ~skipped', NEW p \in Alive PROVE EntryFrom(p) \in In(recent')
  <2>0. ~(Alive # {} /\ (~persisting \/ excess > 0))
    BY <1>2, <1>8
  <2>1. persisting /\ excess = 0
    <3>1. Alive # {}
      OBVIOUS
    <3>2. persisting /\ ~(excess > 0)
      BY <2>0, <3>1
    <3> QED BY <1>4, <3>2
  <2>2. kept = Len(s)
    BY <1>4, <2>1
  <2>3. PICK i \in 1 .. Len(s) : s[i] = p
    BY <1>3
  <2>4. i + excess = i
    BY <2>1
  <2>5. recent'[i] = EntryFrom(p) /\ i \in 1 .. Len(recent')
    BY <1>5, <2>1, <2>2, <2>3, <2>4
  <2> QED BY <2>5 DEF In
<1>9. ~up /\ dirty = NoHits /\ pendingWrites = << >>
  BY DEF LoadCache, CacheInv, Flags
<1> QED BY <1>2, <1>6, <1>7, <1>8, <1>9 DEF LoadCache, Alive

LEMMA LoadCacheKeeps ==
  ASSUME CacheInv, LoadCache
  PROVE  CacheInv'
<1>1. /\ up' = TRUE /\ dirty' = NoHits /\ pendingWrites' = << >>
      /\ persisting' = persisting /\ flushed' = flushed /\ skipped' \in BOOLEAN
      /\ disk' = [p \in Stored |-> IF p \in Alive THEN disk[p] ELSE NoAnswer]
      /\ recent' \in Seq(EntryRecords) /\ Distinct(recent') /\ Len(recent') <= MaxEntries
      /\ In(recent') \subseteq {EntryFrom(p) : p \in Alive}
  BY LoadCacheIs
<1>2. (Entries)' \subseteq EntryRecords
      /\ \A e \in (Entries)' : e.answer \notin flushed
  <2>1. (Entries)' = In(recent')
    BY EntriesIn
  <2> QED BY <1>1, <2>1, EntryFromIs
<1>3. Memory' /\ Queue' /\ Table' /\ Flags'
  BY <1>1, CacheAssumption
  DEF Memory, Queue, Table, Tabled, Flags, CacheInv, CacheAssumption
<1>4. HitsFit'
  <2>1. \A e \in (Entries)' : e.hits \in 0 .. MaxHits
    BY <1>2 DEF EntryRecords
  <2> QED BY <1>1, <2>1, CacheAssumption DEF HitsFit, NoHits, CacheAssumption
<1>5. Fresh'
  <2>1. NoAnswer.answer \notin flushed
    BY CacheAssumption DEF CacheAssumption, NoAnswer, CacheInv, Flags
  <2> QED BY <1>1, <1>2, <2>1 DEF CacheInv, Fresh, FreshWrites
<1> QED BY <1>3, <1>4, <1>5 DEF CacheInv

-----------------------------------------------------------------------------
(* The clock *)
Elder(age) == IF age > Lifetime THEN age ELSE age + 1

LEMMA CacheAgesIs ==
  ASSUME CacheInv, CacheAges
  PROVE  /\ pendingWrites = << >> /\ pendingWrites' = << >> /\ dirty' = dirty
         /\ persisting' = persisting /\ up' = up /\ flushed' = flushed /\ skipped' = skipped
         /\ recent' \in Seq(EntryRecords) /\ Len(recent') = Len(recent)
         /\ \A i \in 1 .. Len(recent) :
              recent'[i] = [recent[i] EXCEPT !.age = Elder(recent[i].age)]
         /\ \A p \in Stored : disk'[p] = IF disk[p] = NoAnswer THEN NoAnswer
                                         ELSE [disk[p] EXCEPT !.age = Elder(disk[p].age)]
         /\ disk' \in Tabled
<1>1. \A age \in Ages : Elder(age) \in Ages
  BY CacheAssumption DEF Elder, Ages, CacheAssumption
<1>2. /\ recent' = [i \in DOMAIN recent |-> [recent[i] EXCEPT !.age = Elder(recent[i].age)]]
      /\ disk' = [p \in Stored |-> IF disk[p] = NoAnswer THEN NoAnswer
                                   ELSE [disk[p] EXCEPT !.age = Elder(disk[p].age)]]
  BY DEF CacheAges, Elder
<1>3. /\ DOMAIN recent = 1 .. Len(recent) /\ Len(recent) \in Nat
      /\ \A i \in 1 .. Len(recent) : recent[i] \in EntryRecords
  BY DEF CacheInv, Memory
<1>4. \A i \in 1 .. Len(recent) :
        [recent[i] EXCEPT !.age = Elder(recent[i].age)] \in EntryRecords
  BY <1>1, <1>3 DEF EntryRecords
<1>5. recent' \in Seq(EntryRecords) /\ Len(recent') = Len(recent)
  BY <1>2, <1>3, <1>4
<1>6. ASSUME NEW p \in Stored, disk[p] # NoAnswer
      PROVE  [disk[p] EXCEPT !.age = Elder(disk[p].age)] \in AnswerRows
  <2>1. disk[p] \in AnswerRows
    BY <1>6 DEF CacheInv, Table, Tabled
  <2> QED BY <1>1, <2>1 DEF AnswerRows
<1>7. disk' \in Tabled
  BY <1>2, <1>6 DEF Tabled
<1> QED BY <1>2, <1>3, <1>5, <1>7 DEF CacheAges

LEMMA CacheAgesKeeps ==
  ASSUME CacheInv, CacheAges
  PROVE  CacheInv'
<1>1. /\ pendingWrites = << >> /\ pendingWrites' = << >> /\ dirty' = dirty
      /\ persisting' = persisting /\ up' = up /\ flushed' = flushed /\ skipped' = skipped
      /\ recent' \in Seq(EntryRecords) /\ Len(recent') = Len(recent)
      /\ \A i \in 1 .. Len(recent) :
           recent'[i] = [recent[i] EXCEPT !.age = Elder(recent[i].age)]
      /\ \A p \in Stored : disk'[p] = IF disk[p] = NoAnswer THEN NoAnswer
                                      ELSE [disk[p] EXCEPT !.age = Elder(disk[p].age)]
      /\ disk' \in Tabled
  BY CacheAgesIs
<1>2. \A i \in 1 .. Len(recent) :
        /\ recent[i] \in Entries
        /\ recent'[i].prompt = recent[i].prompt /\ recent'[i].answer = recent[i].answer
        /\ recent'[i].hits = recent[i].hits
  <2>1. \A i \in 1 .. Len(recent) : recent[i] \in EntryRecords
    BY DEF CacheInv, Memory
  <2> QED BY <1>1, <2>1 DEF EntryRecords, Entries
<1>3. Memory'
  BY <1>1, <1>2 DEF CacheInv, Memory, Distinct
<1>4. \A e \in (Entries)' : \E f \in Entries :
        e.prompt = f.prompt /\ e.answer = f.answer /\ e.hits = f.hits
  <2>1. \A e \in (Entries)' : \E i \in 1 .. Len(recent) : e = recent'[i]
    BY <1>1 DEF Entries
  <2> QED BY <1>2, <2>1
<1>5. HitsFit'
  BY <1>1, <1>4 DEF CacheInv, HitsFit
<1>6. \A p \in Stored : disk'[p].answer = disk[p].answer
  <2>1. \A p \in Stored : disk[p] # NoAnswer => disk[p] \in AnswerRows
    BY DEF CacheInv, Table, Tabled
  <2> QED BY <1>1, <2>1 DEF AnswerRows
<1>7. Fresh'
  BY <1>1, <1>4, <1>6 DEF CacheInv, Fresh, FreshWrites
<1>8. Queue' /\ Table' /\ Flags'
  <2>1. recent = << >> => recent' = << >>
    BY <1>1 DEF CacheInv, Memory
  <2> QED BY <1>1, <2>1 DEF CacheInv, Queue, Table, Flags
<1> QED BY <1>3, <1>5, <1>7, <1>8 DEF CacheInv

LEMMA CacheInvStep == CacheInv /\ [CacheNext]_cache => CacheInv'
<1> SUFFICES ASSUME CacheInv, [CacheNext]_cache PROVE CacheInv'
  OBVIOUS
<1>1. CASE \E p \in Prompts : LookupExpired(p)
  BY <1>1, LookupExpiredKeeps
<1>2. CASE \E p \in Prompts : LookupHits(p)
  BY <1>2, LookupHitsKeeps
<1>3. CASE \E p \in Prompts : \E a \in Answers : StoreAnswer(p, a)
  BY <1>3, StoreAnswerKeeps
<1>4. CASE FlushHitCounts
  BY <1>4, FlushHitCountsKeeps
<1>5. CASE DrainPendingWrites
  BY <1>5, DrainPendingWritesKeeps
<1>6. CASE ClearCache
  BY <1>6, ClearCacheKeeps
<1>7. CASE SwitchCache
  BY <1>7, SwitchCacheKeeps
<1>8. CASE \E n \in 0 .. Len(pendingWrites) : CacheDies(n)
  BY <1>8, CacheDiesKeeps
<1>9. CASE LoadCache
  BY <1>9, LoadCacheKeeps
<1>10. CASE CacheAges
  BY <1>10, CacheAgesKeeps
<1>11. CASE UNCHANGED cache
  BY <1>11 DEF cache, CacheInv, Memory, HitsFit, Queue, Table, Flags, Fresh, FreshWrites, Entries
<1> QED
  BY <1>1, <1>2, <1>3, <1>4, <1>5, <1>6, <1>7, <1>8, <1>9, <1>10, <1>11 DEF CacheNext

LEMMA CacheInvHolds == CacheSpec => []CacheInv
BY CacheInvInit, CacheInvStep, PTL DEF CacheSpec

(* Memory has one entry for a prompt and never more than the limit, and    *)
(* every queued write, row and count is one the code can make.             *)
THEOREM CacheTyped == CacheSpec => []CacheTypeOK
BY CacheInvHolds, CacheInvImplies, PTL

(* After any number of crashes, within a drain or not, and of restarts, an *)
(* answer that was there when the operator flushed the cache is not in     *)
(* memory, does not wait to be written and is in no row.                   *)
THEOREM FlushedForGood == CacheSpec => []FlushIsFinal
BY CacheInvHolds, CacheInvImplies, PTL

-----------------------------------------------------------------------------
(* What the table has to do with memory.  Follows is what a drained table  *)
(* is; Mirrors adds that no table on the way is larger than memory may be. *)
About(entries, p) == {e \in entries : e.prompt = p}
Follows(rows, entries) == \A p \in Stored : RowIs(rows[p], About(entries, p))
Full(rows) == {p \in Stored : rows[p] # NoAnswer}
Bounded(rows) == Cardinality(Full(rows)) <= MaxEntries
Mirrors(rows, writes, entries) ==
  /\ Follows(RowsAfter(rows, writes)[Len(writes)], entries)
  /\ \A n \in 0 .. Len(writes) : Bounded(RowsAfter(rows, writes)[n])

LEMMA TableFollowsMemoryIs ==
  TableFollowsMemory <=>
    (~skipped => /\ up => Follows(After(Len(pendingWrites)), Entries)
                 /\ \A n \in 0 .. Len(pendingWrites) : Bounded(After(n)))
BY DEF TableFollowsMemory, Follows, About, EntryOf, Bounded, Full

LEMMA FinitePrompts ==
  ASSUME NEW S \in SUBSET Prompts
  PROVE  IsFiniteSet(S) /\ Cardinality(S) \in Nat
BY CacheAssumption, FS_Subset, FS_CardinalityType DEF CacheAssumption

(* Only a prompt with an entry in memory has a row in a table that follows *)
(* memory.                                                                 *)
LEMMA FollowsBounded ==
  ASSUME NEW rows, NEW s \in Seq(EntryRecords), Len(s) <= MaxEntries, Follows(rows, In(s))
  PROVE  Bounded(rows)
<1> DEFINE size == Len(s)
           known == {s[i].prompt : i \in 1 .. size}
           names == [i \in 1 .. size |-> s[i].prompt]
<1>1. size \in Nat /\ known \subseteq Prompts
  <2>1. \A i \in 1 .. size : s[i] \in EntryRecords
    OBVIOUS
  <2>2. \A i \in 1 .. size : s[i].prompt \in Prompts
    BY <2>1 DEF EntryRecords
  <2> QED BY <2>2
<1>2. names \in Surjection(1 .. size, known)
  BY DEF Surjection
<1>3. ExistsSurjection(1 .. size, known)
  BY <1>2 DEF ExistsSurjection
<1>4. Full(rows) \subseteq known
  <2>1. ASSUME NEW p \in Full(rows) PROVE p \in known
    <3>1. About(In(s), p) # {}
      BY DEF Full, Follows, RowIs
    <3> QED BY <3>1 DEF About, In
  <2> QED BY <2>1
<1> HIDE DEF known, names
<1>5. Cardinality(known) <= size
  <2> HIDE DEF size
  <2> QED BY <1>1, <1>3, FS_SurjCardinalityBound
<1>6. IsFiniteSet(known) /\ Cardinality(known) \in Nat
  BY <1>1, FinitePrompts
<1>7. Cardinality(Full(rows)) <= Cardinality(known) /\ Cardinality(Full(rows)) \in Nat
  BY <1>1, <1>4, <1>6, FS_Subset, FinitePrompts
<1> QED BY <1>1, <1>5, <1>6, <1>7, CacheAssumption DEF Bounded, CacheAssumption

LEMMA FullShrinks ==
  ASSUME NEW old, NEW new, Full(new) \subseteq Full(old), Bounded(old)
  PROVE  Bounded(new)
<1>1. Full(old) \subseteq Prompts /\ Full(new) \subseteq Prompts
  BY DEF Full, Stored
<1>2. /\ IsFiniteSet(Full(old)) /\ Cardinality(Full(old)) \in Nat
      /\ Cardinality(Full(new)) \in Nat
  BY <1>1, FinitePrompts
<1>3. Cardinality(Full(new)) <= Cardinality(Full(old))
  BY <1>2, FS_Subset
<1> QED BY <1>2, <1>3, CacheAssumption DEF Bounded, CacheAssumption

(* Streams have no rows. *)
LEMMA FollowsStored ==
  ASSUME NEW rows, NEW entries, NEW others, Follows(rows, entries),
         \A p \in Stored : About(others, p) = About(entries, p)
  PROVE  Follows(rows, others)
BY DEF Follows

LEMMA DeleteFollows ==
  ASSUME NEW rows \in Tabled, NEW entries, NEW p \in Stored
  PROVE  LET new == Written(rows, [do |-> "delete", prompt |-> p]) IN
         /\ Follows(rows, entries) => Follows(new, {e \in entries : e.prompt # p})
         /\ Full(new) \subseteq Full(rows)
<1> DEFINE new == Written(rows, [do |-> "delete", prompt |-> p])
           left == {e \in entries : e.prompt # p}
<1>1. new = [rows EXCEPT ![p] = NoAnswer]
  BY DEF Written
<1>2. \A q \in Stored : new[q] = IF q = p THEN NoAnswer ELSE rows[q]
  BY <1>1 DEF Tabled
<1>3. \A q \in Stored : About(left, q) = IF q = p THEN {} ELSE About(entries, q)
  BY DEF About
<1> HIDE DEF new, left
<1>4. Follows(rows, entries) => Follows(new, left)
  BY <1>2, <1>3 DEF Follows, RowIs
<1>5. Full(new) \subseteq Full(rows)
  BY <1>2 DEF Full
<1> QED BY <1>4, <1>5 DEF new, left

LEMMA InsertFollows ==
  ASSUME NEW rows \in Tabled, NEW entries, NEW p \in Stored, NEW a, Follows(rows, entries)
  PROVE  Follows(Written(rows, [do |-> "insert", prompt |-> p, answer |-> a, hits |-> 0]),
                 {e \in entries : e.prompt # p}
                   \cup {[prompt |-> p, answer |-> a, age |-> 0, hits |-> 0]})
<1> DEFINE new == Written(rows, [do |-> "insert", prompt |-> p, answer |-> a, hits |-> 0])
           entry == [prompt |-> p, answer |-> a, age |-> 0, hits |-> 0]
           left == {e \in entries : e.prompt # p} \cup {entry}
<1>1. new = [rows EXCEPT ![p] = [answer |-> a, age |-> 0, hits |-> 0]]
  BY DEF Written
<1>2. \A q \in Stored : new[q] = IF q = p THEN [answer |-> a, age |-> 0, hits |-> 0] ELSE rows[q]
  BY <1>1 DEF Tabled
<1>3. \A q \in Stored : About(left, q) = IF q = p THEN {entry} ELSE About(entries, q)
  BY DEF About
<1>4. RowIs(new[p], {entry})
  <2>1. new[p].answer = entry.answer /\ new[p].age = entry.age /\ new[p].hits = 0
    BY <1>2
  <2>2. entry.hits = 0 /\ 0 <= 0
    OBVIOUS
  <2> HIDE DEF new, entry
  <2> QED BY <2>1, <2>2 DEF RowIs
<1> HIDE DEF new, left
<1>5. Follows(new, left)
  BY <1>2, <1>3, <1>4 DEF Follows
<1> QED BY <1>5 DEF new, left

LEMMA CountFollows ==
  ASSUME NEW rows \in Tabled, NEW entries, NEW hits \in [Stored -> 0 .. MaxHits],
         \A e \in entries : e.prompt \in Stored => hits[e.prompt] <= e.hits
  PROVE  LET new == Written(rows, [do |-> "count", hits |-> hits]) IN
         /\ Follows(rows, entries) => Follows(new, entries)
         /\ Full(new) = Full(rows)
<1> DEFINE new == Written(rows, [do |-> "count", hits |-> hits])
<1>1. \A p \in Stored : new[p] = IF hits[p] = 0 \/ rows[p] = NoAnswer THEN rows[p]
                                 ELSE [rows[p] EXCEPT !.hits = hits[p]]
  BY DEF Written
<1>2. \A p \in Stored : rows[p] # NoAnswer => rows[p] \in AnswerRows
  BY DEF Tabled
<1> HIDE DEF new
<1>3. ASSUME NEW p \in Stored, RowIs(rows[p], About(entries, p))
      PROVE  RowIs(new[p], About(entries, p))
  <2>1. CASE hits[p] = 0 \/ rows[p] = NoAnswer
    BY <1>1, <1>3, <2>1
  <2>2. CASE ~(hits[p] = 0 \/ rows[p] = NoAnswer)
    <3>1. rows[p] \in AnswerRows /\ new[p] = [rows[p] EXCEPT !.hits = hits[p]]
      BY <1>1, <1>2, <2>2
    <3>2. new[p].answer = rows[p].answer /\ new[p].age = rows[p].age /\ new[p].hits = hits[p]
      BY <3>1 DEF AnswerRows
    <3>3. \A e \in About(entries, p) : hits[p] <= e.hits
      BY DEF About
    <3> QED BY <1>3, <2>2, <3>2, <3>3 DEF RowIs
  <2> QED BY <2>1, <2>2
<1>4. ASSUME NEW p \in Stored PROVE new[p] # NoAnswer <=> rows[p] # NoAnswer
  <2>1. ASSUME ~(hits[p] = 0 \/ rows[p] = NoAnswer) PROVE new[p] # NoAnswer
    <3>1. rows[p] \in AnswerRows /\ new[p] = [rows[p] EXCEPT !.hits = hits[p]]
      BY <1>1, <1>2, <2>1
    <3>2. new[p].answer \in Answers
      BY <3>1 DEF AnswerRows
    <3> QED BY <3>2, CacheAssumption DEF CacheAssumption, NoAnswer
  <2> QED BY <1>1, <2>1
<1>5. Full(new) = Full(rows)
  BY <1>4 DEF Full
<1>6. Follows(rows, entries) => Follows(new, entries)
  BY <1>3 DEF Follows
<1> QED BY <1>5, <1>6 DEF new

-----------------------------------------------------------------------------
(* The same of a queue that gets one more write.                           *)
LEMMA LastTabled ==
  ASSUME NEW rows \in Tabled, NEW writes \in Seq(Writes)
  PROVE  Len(writes) \in Nat /\ RowsAfter(rows, writes)[Len(writes)] \in Tabled
<1>1. Len(writes) \in Nat /\ Len(writes) \in 0 .. Len(writes)
  OBVIOUS
<1> QED BY <1>1, RowsAfterType

LEMMA AppendedMirrors ==
  ASSUME NEW rows \in Tabled, NEW writes \in Seq(Writes), NEW w \in Writes,
         NEW entries, NEW others, Mirrors(rows, writes, entries),
         Follows(Written(RowsAfter(rows, writes)[Len(writes)], w), others),
         Bounded(Written(RowsAfter(rows, writes)[Len(writes)], w))
  PROVE  Mirrors(rows, writes \o <<w>>, others)
<1> DEFINE both == writes \o <<w>>
<1>1. /\ Len(both) = Len(writes) + 1 /\ Len(writes) \in Nat
      /\ \A n \in 0 .. Len(writes) : RowsAfter(rows, both)[n] = RowsAfter(rows, writes)[n]
      /\ RowsAfter(rows, both)[Len(writes) + 1]
           = Written(RowsAfter(rows, writes)[Len(writes)], w)
  BY RowsAfterAppended, LastTabled
<1> HIDE DEF both
<1>2. \A n \in 0 .. Len(both) : n \in 0 .. Len(writes) \/ n = Len(writes) + 1
  BY <1>1
<1>3. \A n \in 0 .. Len(both) : Bounded(RowsAfter(rows, both)[n])
  BY <1>1, <1>2 DEF Mirrors
<1> QED BY <1>1, <1>3 DEF Mirrors, both

LEMMA LastBounded ==
  ASSUME NEW rows \in Tabled, NEW writes \in Seq(Writes), NEW entries,
         Mirrors(rows, writes, entries)
  PROVE  /\ Follows(RowsAfter(rows, writes)[Len(writes)], entries)
         /\ Bounded(RowsAfter(rows, writes)[Len(writes)])
<1>1. Len(writes) \in 0 .. Len(writes)
  BY LastTabled
<1> QED BY <1>1 DEF Mirrors

LEMMA DeleteMirrors ==
  ASSUME NEW rows \in Tabled, NEW writes \in Seq(Writes), NEW entries, NEW p \in Stored,
         Mirrors(rows, writes, entries)
  PROVE  Mirrors(rows, writes \o <<[do |-> "delete", prompt |-> p]>>,
                 {e \in entries : e.prompt # p})
<1> DEFINE w == [do |-> "delete", prompt |-> p]
           last == RowsAfter(rows, writes)[Len(writes)]
           left == {e \in entries : e.prompt # p}
<1>1. last \in Tabled /\ Follows(last, entries) /\ Bounded(last)
  BY LastTabled, LastBounded
<1>2. w \in Writes
  BY DEF Writes, Deletes
<1> HIDE DEF last
<1>3. Follows(Written(last, w), left) /\ Full(Written(last, w)) \subseteq Full(last)
  BY <1>1, DeleteFollows
<1>4. Bounded(Written(last, w))
  BY <1>1, <1>3, FullShrinks
<1> HIDE DEF w, left
<1>5. Mirrors(rows, writes \o <<w>>, left)
  BY <1>2, <1>3, <1>4, AppendedMirrors DEF last
<1> QED BY <1>5 DEF w, left

LEMMA CountMirrors ==
  ASSUME NEW rows \in Tabled, NEW writes \in Seq(Writes), NEW entries,
         NEW hits \in [Stored -> 0 .. MaxHits],
         \A e \in entries : e.prompt \in Stored => hits[e.prompt] <= e.hits,
         Mirrors(rows, writes, entries)
  PROVE  Mirrors(rows, writes \o <<[do |-> "count", hits |-> hits]>>, entries)
<1> DEFINE w == [do |-> "count", hits |-> hits]
           last == RowsAfter(rows, writes)[Len(writes)]
<1>1. last \in Tabled /\ Follows(last, entries) /\ Bounded(last)
  BY LastTabled, LastBounded
<1>2. w \in Writes
  BY DEF Writes, HitCounts
<1> HIDE DEF last
<1>3. Follows(Written(last, w), entries) /\ Full(Written(last, w)) = Full(last)
  BY <1>1, CountFollows
<1>4. Bounded(Written(last, w))
  BY <1>1, <1>3 DEF Bounded
<1> HIDE DEF w
<1>5. Mirrors(rows, writes \o <<w>>, entries)
  BY <1>2, <1>3, <1>4, AppendedMirrors DEF last
<1> QED BY <1>5 DEF w

LEMMA InsertMirrors ==
  ASSUME NEW rows \in Tabled, NEW writes \in Seq(Writes), NEW entries, NEW p \in Stored,
         NEW a \in Answers, Mirrors(rows, writes, entries),
         NEW s \in Seq(EntryRecords), Len(s) <= MaxEntries,
         In(s) = {e \in entries : e.prompt # p}
                   \cup {[prompt |-> p, answer |-> a, age |-> 0, hits |-> 0]}
  PROVE  Mirrors(rows, writes \o <<[do |-> "insert", prompt |-> p, answer |-> a, hits |-> 0]>>,
                 In(s))
<1> DEFINE w == [do |-> "insert", prompt |-> p, answer |-> a, hits |-> 0]
           last == RowsAfter(rows, writes)[Len(writes)]
<1>1. last \in Tabled /\ Follows(last, entries)
  BY LastTabled, LastBounded
<1>2. w \in Writes
  BY CacheAssumption DEF Writes, Inserts, CacheAssumption
<1> HIDE DEF last
<1>3. Follows(Written(last, w), In(s))
  BY <1>1, InsertFollows
<1> HIDE DEF w
<1>4. Bounded(Written(last, w))
  BY <1>3, FollowsBounded
<1>5. Mirrors(rows, writes \o <<w>>, In(s))
  BY <1>2, <1>3, <1>4, AppendedMirrors DEF last
<1> QED BY <1>5 DEF w

(* The table after writes that were counted again: a row is what it was,   *)
(* or it carries the hits of the entry that was hit, and then its answer.  *)
SameButHits(old, new, p, h) ==
  /\ \A q \in Stored \ {p} : new[q] = old[q]
  /\ p \in Stored => \/ new[p] = old[p]
                     \/ old[p] \in AnswerRows /\ new[p] = [old[p] EXCEPT !.hits = h]

LEMMA WrittenSameButHits ==
  ASSUME NEW old \in Tabled, NEW new \in Tabled, NEW p, NEW h \in 0 .. MaxHits,
         SameButHits(old, new, p, h), NEW w \in Writes, NEW v \in Writes,
         \/ v = w
         \/ w \in Inserts /\ w.prompt = p /\ v = [w EXCEPT !.hits = h]
  PROVE  SameButHits(Written(old, w), Written(new, v), p, h)
<1>1. CASE w \in Deletes
  <2>1. v = w /\ w.do = "delete"
    BY <1>1 DEF Deletes, Inserts
  <2> QED BY <2>1 DEF SameButHits, Written, Tabled
<1>2. CASE w \in Inserts
  <2>1. w.do = "insert" /\ v.do = "insert" /\ v.prompt = w.prompt /\ v.answer = w.answer
    BY <1>2 DEF Inserts
  <2>2. v.hits = w.hits \/ (w.prompt = p /\ v.hits = h)
    BY <1>2 DEF Inserts
  <2> DEFINE was == [answer |-> w.answer, age |-> 0, hits |-> w.hits]
             is == [answer |-> w.answer, age |-> 0, hits |-> v.hits]
  <2>3. /\ Written(old, w) = [old EXCEPT ![w.prompt] = was]
        /\ Written(new, v) = [new EXCEPT ![w.prompt] = is]
    BY <2>1 DEF Written
  <2>4. was \in AnswerRows /\ is = [was EXCEPT !.hits = v.hits] /\ w.prompt \in Stored
    BY <1>2, CacheAssumption DEF Inserts, AnswerRows, Ages, CacheAssumption
  <2>5. v.hits = w.hits => is = was
    OBVIOUS
  <2> HIDE DEF was, is
  <2>6. \A q \in Stored : /\ Written(old, w)[q] = IF q = w.prompt THEN was ELSE old[q]
                          /\ Written(new, v)[q] = IF q = w.prompt THEN is ELSE new[q]
    BY <2>3 DEF Tabled
  <2> QED BY <2>2, <2>4, <2>5, <2>6 DEF SameButHits
<1>3. CASE w \in HitCounts
  <2>1. v = w /\ w.do = "count"
    BY <1>3 DEF HitCounts, Inserts
  <2>2. \A q \in Stored :
          /\ Written(old, w)[q] = IF w.hits[q] = 0 \/ old[q] = NoAnswer THEN old[q]
                                  ELSE [old[q] EXCEPT !.hits = w.hits[q]]
          /\ Written(new, v)[q] = IF w.hits[q] = 0 \/ new[q] = NoAnswer THEN new[q]
                                  ELSE [new[q] EXCEPT !.hits = w.hits[q]]
    BY <2>1 DEF Written
  <2>3. ASSUME p \in Stored, old[p] \in AnswerRows, new[p] = [old[p] EXCEPT !.hits = h]
        PROVE  \/ Written(new, v)[p] = Written(old, w)[p]
               \/ Written(new, v)[p] = [Written(old, w)[p] EXCEPT !.hits = h]
                  /\ Written(old, w)[p] \in AnswerRows
    <3>1. old[p] # NoAnswer /\ new[p] # NoAnswer
      <4>1. old[p].answer \in Answers /\ new[p].answer = old[p].answer
        BY <2>3 DEF AnswerRows
      <4> QED BY <4>1, CacheAssumption DEF CacheAssumption, NoAnswer
    <3>2. CASE w.hits[p] = 0
      BY <2>2, <2>3, <3>2
    <3>3. CASE w.hits[p] # 0
      <4>1. /\ Written(old, w)[p] = [old[p] EXCEPT !.hits = w.hits[p]]
            /\ Written(new, v)[p] = [new[p] EXCEPT !.hits = w.hits[p]]
        BY <2>2, <2>3, <3>1, <3>3
      <4>2. [new[p] EXCEPT !.hits = w.hits[p]] = [old[p] EXCEPT !.hits = w.hits[p]]
        BY <2>3 DEF AnswerRows
      <4> QED BY <4>1, <4>2
    <3> QED BY <3>2, <3>3
  <2>4. \A q \in Stored : new[q] = old[q] => Written(new, v)[q] = Written(old, w)[q]
    BY <2>2
  <2> QED BY <2>3, <2>4 DEF SameButHits
<1> QED BY <1>1, <1>2, <1>3 DEF Writes

-----------------------------------------------------------------------------
(* Step by step: the queue mirrors memory, unless a write was left out.    *)
LEMMA MirrorsNow ==
  ASSUME TableFollowsMemory, up, ~skipped
  PROVE  Mirrors(disk, pendingWrites, Entries)
BY TableFollowsMemoryIs DEF Mirrors, After

LEMMA MirrorsNext ==
  ASSUME ~skipped' => Mirrors(disk', pendingWrites', (Entries)')
  PROVE  TableFollowsMemory'
<1>1. TableFollowsMemory' <=>
        (~skipped' => /\ up' => Follows(RowsAfter(disk', pendingWrites')[Len(pendingWrites')],
                                        (Entries)')
                      /\ \A n \in 0 .. Len(pendingWrites') :
                           Bounded(RowsAfter(disk', pendingWrites')[n]))
  BY DEF TableFollowsMemory, Follows, About, EntryOf, Bounded, Full, After
<1> QED BY <1>1 DEF Mirrors

LEMMA QueueTyped ==
  ASSUME CacheInv
  PROVE  pendingWrites \in Seq(Writes) /\ Len(pendingWrites) \in Nat /\ disk \in Tabled
BY DEF CacheInv, Queue, Table

(* An entry leaves memory and its row leaves the table. *)
LEMMA RowDeletesMirrors ==
  ASSUME NEW rows \in Tabled, NEW writes \in Seq(Writes), NEW entries, NEW e \in EntryRecords,
         Mirrors(rows, writes, entries)
  PROVE  Mirrors(rows, writes \o RowDeletes(e), {f \in entries : f.prompt # e.prompt})
<1> DEFINE left == {f \in entries : f.prompt # e.prompt}
<1>1. CASE e.prompt \in Stored
  BY <1>1, DeleteMirrors DEF RowDeletes
<1>2. CASE e.prompt \notin Stored
  <2>1. writes \o RowDeletes(e) = writes
    BY <1>2 DEF RowDeletes
  <2>2. \A p \in Stored : About(left, p) = About(entries, p)
    BY <1>2 DEF About
  <2> HIDE DEF left
  <2>3. Mirrors(rows, writes, left)
    BY <2>2, FollowsStored DEF Mirrors
  <2> QED BY <2>1, <2>3 DEF left
<1> QED BY <1>1, <1>2

LEMMA LookupExpiredMirrors ==
  ASSUME CacheInv, TableFollowsMemory, NEW p \in Prompts, LookupExpired(p)
  PROVE  TableFollowsMemory'
<1>1. PICK e \in EntryOf(p) : Schedule(pendingWrites, RowDeletes(e))
  BY DEF LookupExpired
<1>2. e \in EntryRecords /\ e.prompt = p
  BY <1>1, EntriesIn DEF EntryOf
<1>3. recent' = Without(p) /\ up /\ up' = up /\ disk' = disk
  BY DEF LookupExpired
<1>4. (Entries)' = {f \in Entries : f.prompt # e.prompt}
  <2>1. In(Without(p)) = {f \in Entries : f.prompt # p}
    BY WithoutIs DEF CacheInv, Memory
  <2> QED BY <1>2, <1>3, <2>1, EntriesIn
<1>5. ASSUME ~skipped' PROVE Mirrors(disk', pendingWrites', (Entries)')
  <2>1. ~skipped /\ pendingWrites' = pendingWrites \o RowDeletes(e)
    BY <1>1, <1>2, <1>5, RowDeletesIs, ScheduleIs, QueueTyped DEF CacheInv, Fresh
  <2>2. Mirrors(disk, pendingWrites, Entries)
    BY <1>3, <2>1, MirrorsNow
  <2> QED BY <1>2, <1>3, <1>4, <2>1, <2>2, QueueTyped, RowDeletesMirrors
<1> QED BY <1>5, MirrorsNext

LEMMA FlushHitCountsMirrors ==
  ASSUME CacheInv, TableFollowsMemory, FlushHitCounts
  PROVE  TableFollowsMemory'
<1> DEFINE w == [do |-> "count", hits |-> dirty]
<1>1. up /\ disk' = disk /\ recent' = recent /\ Schedule(pendingWrites, <<w>>)
  BY DEF FlushHitCounts
<1>2. <<w>> \in Seq(Writes) /\ FreshWrites(<<w>>)
  <2>1. w \in Writes
    BY DEF Writes, HitCounts, CacheInv, HitsFit
  <2> QED BY <2>1 DEF FreshWrites
<1>3. ASSUME ~skipped' PROVE Mirrors(disk', pendingWrites', (Entries)')
  <2>1. ~skipped /\ pendingWrites' = pendingWrites \o <<w>>
    <3> HIDE DEF w
    <3> QED BY <1>1, <1>2, <1>3, ScheduleIs, QueueTyped DEF CacheInv, Fresh
  <2>2. Mirrors(disk, pendingWrites, Entries)
    BY <1>1, <2>1, MirrorsNow
  <2>3. Mirrors(disk, pendingWrites \o <<w>>, Entries)
    BY <2>2, QueueTyped, CountMirrors DEF CacheInv, HitsFit
  <2>4. (Entries)' = Entries
    BY <1>1 DEF Entries
  <2> QED BY <1>1, <2>1, <2>3, <2>4
<1> QED BY <1>3, MirrorsNext

LEMMA StoreAnswerMirrors ==
  ASSUME CacheInv, TableFollowsMemory, NEW p \in Prompts, NEW a \in Answers, StoreAnswer(p, a)
  PROVE  TableFollowsMemory'
<1> DEFINE entries == Stores(p, a)
           new == [prompt |-> p, answer |-> a, age |-> 0, hits |-> 0]
           w == [do |-> "insert", prompt |-> p, answer |-> a, hits |-> 0]
           coldest == Head(entries)
           deletes == IF Evicts(entries) THEN RowDeletes(coldest) ELSE << >>
           insert == IF p \in Stored /\ MaxEntries > 0 THEN <<w>> ELSE << >>
           middle == IF Evicts(entries) THEN {e \in Entries : e.prompt # coldest.prompt}
                     ELSE Entries
<1>1. /\ up /\ disk' = disk /\ a \notin flushed
      /\ recent' = IF Evicts(entries) THEN Tail(entries) ELSE entries
      /\ Schedule(pendingWrites, deletes \o insert)
  BY DEF StoreAnswer
<1>2. /\ entries \in Seq(EntryRecords) /\ Distinct(entries) /\ new \in EntryRecords
      /\ In(entries) = {e \in Entries : e.prompt # p} \cup {new}
      /\ Len(entries) \in 1 .. MaxEntries + 1 /\ Len(entries) > 0 /\ MaxEntries \in Nat
      /\ Evicts(entries) => EntryOf(p) = {} /\ Len(entries) = MaxEntries + 1
  <2>1. /\ entries \in Seq(EntryRecords) /\ Distinct(entries) /\ new \in EntryRecords
        /\ In(entries) = {e \in Entries : e.prompt # p} \cup {new}
        /\ Len(entries) \in 1 .. MaxEntries + 1
        /\ Evicts(entries) => EntryOf(p) = {} /\ Len(entries) = MaxEntries + 1
    BY StoresIs
  <2>2. MaxEntries \in Nat
    BY CacheAssumption DEF CacheAssumption
  <2> HIDE DEF entries
  <2> QED BY <2>1, <2>2
<1>3. deletes \in Seq(Writes) /\ insert \in Seq(Writes) /\ deletes \o insert \in Seq(Writes)
      /\ FreshWrites(deletes \o insert)
  BY <1>1, StoredWrites
<1>4. new.prompt = p
  OBVIOUS
<1> HIDE DEF entries, new, coldest
<1>5. Evicts(entries) =>
        /\ coldest \in EntryRecords /\ coldest \in In(entries)
        /\ In(Tail(entries)) = In(entries) \ {coldest}
        /\ \A e \in In(entries) : e.prompt = coldest.prompt => e = coldest
  <2>1. coldest \in In(entries) /\ In(Tail(entries)) = In(entries) \ {coldest}
    BY <1>2, TailIs DEF coldest
  <2>2. coldest \in EntryRecords
    BY <1>2 DEF coldest
  <2>3. \A e \in In(entries) : e.prompt = coldest.prompt => e = coldest
    BY <1>2, <2>1, SameEntry
  <2> QED BY <2>1, <2>2, <2>3
<1>6. Memory' /\ (Entries)' = In(recent')
  BY StoreAnswerKeeps, EntriesIn DEF CacheInv
<1>7. (Entries)' = IF Evicts(entries) THEN In(entries) \ {coldest} ELSE In(entries)
  BY <1>1, <1>5, <1>6
<1>8. MaxEntries > 0 => (Entries)' = {e \in middle : e.prompt # p} \cup {new}
  <2> SUFFICES ASSUME MaxEntries > 0, Evicts(entries)
               PROVE  (Entries)' = {e \in middle : e.prompt # p} \cup {new}
    BY <1>2, <1>7
  <2>1. new # coldest
    <3>1. Len(entries) \in Nat /\ 1 \in 1 .. Len(entries) /\ Len(entries) \in 1 .. Len(entries)
          /\ Len(entries) # 1
      BY <1>2
    <3>2. Stores(p, a) = Append(Without(p), new)
      BY DEF Stores, new
    <3>3. Without(p) \in Seq(EntryRecords)
      BY WithoutIs DEF CacheInv, Memory
    <3>4. entries[Len(entries)] = new
      BY <3>2, <3>3 DEF entries
    <3>5. coldest = entries[1]
      BY <1>2 DEF coldest
    <3>6. entries[1].prompt # entries[Len(entries)].prompt
      BY <1>2, <3>1 DEF Distinct
    <3> QED BY <3>4, <3>5, <3>6
  <2>2. new.prompt # coldest.prompt
    BY <1>2, <1>5, <2>1
  <2>3. (Entries)' = ({e \in Entries : e.prompt # p} \ {coldest}) \cup {new}
    BY <1>2, <1>7, <2>1
  <2>4. \A e \in {f \in Entries : f.prompt # p} : e # coldest <=> e.prompt # coldest.prompt
    BY <1>2, <1>5
  <2> QED BY <2>3, <2>4
<1>9. MaxEntries = 0 => (Entries)' = {} /\ Entries = {}
  BY <1>6 DEF CacheInv, Memory, Entries
<1>10. ASSUME ~skipped' PROVE Mirrors(disk', pendingWrites', (Entries)')
  <2>1. ~skipped /\ pendingWrites' = pendingWrites \o (deletes \o insert)
    <3> DEFINE all == deletes \o insert
    <3>1. all \in Seq(Writes) /\ FreshWrites(all) /\ Schedule(pendingWrites, all)
      BY <1>1, <1>3
    <3> HIDE DEF all
    <3>2. ~skipped /\ pendingWrites' = pendingWrites \o all
      BY <1>10, <3>1, ScheduleIs, QueueTyped DEF CacheInv, Fresh
    <3> QED BY <3>2 DEF all
  <2> DEFINE evicted == pendingWrites \o deletes
  <2>2. evicted \in Seq(Writes) /\ Mirrors(disk, evicted, middle)
    <3>1. Mirrors(disk, pendingWrites, Entries)
      BY <1>1, <2>1, MirrorsNow
    <3>2. CASE Evicts(entries)
      BY <1>3, <1>5, <3>1, <3>2, QueueTyped, RowDeletesMirrors
    <3>3. CASE ~Evicts(entries)
      <4>1. evicted = pendingWrites
        BY <3>3, QueueTyped
      <4> QED BY <3>1, <3>3, <4>1, QueueTyped
    <3> QED BY <3>2, <3>3
  <2>3. pendingWrites' = evicted \o insert
    <3> HIDE DEF deletes, insert
    <3> QED BY <1>3, <2>1, QueueTyped
  <2> HIDE DEF evicted, deletes, middle
  <2>4. CASE p \in Stored /\ MaxEntries > 0
    <3>1. recent' \in Seq(EntryRecords) /\ Len(recent') <= MaxEntries
          /\ In(recent') = {e \in middle : e.prompt # p}
                             \cup {[prompt |-> p, answer |-> a, age |-> 0, hits |-> 0]}
      BY <1>6, <1>8, <2>4 DEF Memory, new
    <3>2. Mirrors(disk, evicted \o <<w>>, In(recent'))
      BY <2>2, <2>4, <3>1, QueueTyped, InsertMirrors
    <3> QED BY <1>1, <1>6, <2>3, <2>4, <3>2
  <2>5. CASE ~(p \in Stored /\ MaxEntries > 0)
    <3>1. pendingWrites' = evicted
      <4>1. insert = << >>
        BY <2>5
      <4> HIDE DEF insert
      <4> QED BY <2>2, <2>3, <4>1
    <3>2. \A q \in Stored : About((Entries)', q) = About(middle, q)
      <4>1. CASE MaxEntries = 0
        BY <1>9, <4>1 DEF middle, About
      <4>2. CASE MaxEntries > 0
        BY <1>4, <1>8, <2>5, <4>2 DEF About
      <4> QED BY <1>2, <4>1, <4>2
    <3>3. Mirrors(disk, evicted, (Entries)')
      BY <2>2, <3>2, FollowsStored DEF Mirrors
    <3> QED BY <1>1, <3>1, <3>3
  <2> QED BY <2>4, <2>5
<1> QED BY <1>10, MirrorsNext

LEMMA LookupHitsMirrors ==
  ASSUME CacheInv, TableFollowsMemory, NEW p \in Prompts, LookupHits(p)
  PROVE  TableFollowsMemory'
<1>1. PICK e \in EntryOf(p) :
        LET hit == [e EXCEPT !.hits = e.hits + 1] IN
        /\ e.hits < MaxHits
        /\ recent' = Append(Without(p), hit)
        /\ pendingWrites' = Recounted(hit)
  BY DEF LookupHits
<1> DEFINE hit == [e EXCEPT !.hits = e.hits + 1]
<1>2. e \in Entries /\ e \in EntryRecords /\ e.prompt = p
  BY <1>1, EntriesIn DEF EntryOf
<1>3. /\ hit \in EntryRecords /\ hit.prompt = p /\ hit.answer = e.answer /\ hit.age = e.age
      /\ hit.hits \in 0 .. MaxHits /\ e.hits \in 0 .. MaxHits /\ hit.hits > e.hits
  BY <1>1, <1>2, CacheAssumption DEF EntryRecords, CacheAssumption
<1>4. up /\ disk' = disk /\ skipped' = skipped
  BY DEF LookupHits
<1>5. /\ recent' = Append(Without(p), hit) /\ pendingWrites' = Recounted(hit)
  BY <1>1
<1> HIDE DEF hit
<1>6. (Entries)' = {f \in Entries : f.prompt # p} \cup {hit}
  <2>1. /\ Without(p) \in Seq(EntryRecords) /\ Distinct(Without(p))
        /\ In(Without(p)) = {f \in Entries : f.prompt # p}
    BY WithoutIs DEF CacheInv, Memory
  <2>2. In(recent') = In(Without(p)) \cup {hit}
    BY <1>3, <1>5, <2>1, AppendIs
  <2> QED BY <2>1, <2>2, EntriesIn
<1>7. \A f \in Entries : f.prompt = p => f = e
  BY <1>2, EntriesIn, SameEntry DEF CacheInv, Memory
<1> DEFINE old(n) == RowsAfter(disk, pendingWrites)[n]
           now(n) == RowsAfter(disk, Recounted(hit))[n]
<1>8. /\ Recounted(hit) \in Seq(Writes) /\ Len(Recounted(hit)) = Len(pendingWrites)
      /\ pendingWrites \in Seq(Writes) /\ Len(pendingWrites) \in Nat /\ disk \in Tabled
  BY <1>3, RecountedIs, QueueTyped
<1>9. \A n \in 0 .. Len(pendingWrites) : old(n) \in Tabled /\ now(n) \in Tabled
  BY <1>8, RowsAfterType
<1>10. \A n \in 0 .. Len(pendingWrites) : SameButHits(old(n), now(n), p, hit.hits)
  <2> DEFINE Fine == {n \in 0 .. Len(pendingWrites) : SameButHits(old(n), now(n), p, hit.hits)}
  <2>1. 0 \in Fine
    <3>1. old(0) = disk /\ now(0) = disk
      BY <1>8, RowsAfterDef
    <3> HIDE DEF old, now
    <3> QED BY <1>8, <3>1 DEF SameButHits
  <2>2. ASSUME NEW n \in 0 .. Len(pendingWrites) - 1, n \in Fine PROVE n + 1 \in Fine
    <3>1. old(n + 1) = Written(old(n), pendingWrites[n + 1])
      BY <1>8, RowsAfterDef
    <3>2. now(n + 1) = Written(now(n), Recounted(hit)[n + 1])
      <4> DEFINE again == Recounted(hit)
      <4>1. Len(again) \in Nat /\ n \in 0 .. Len(again) - 1
        BY <1>8
      <4> HIDE DEF again
      <4>2. RowsAfter(disk, again)[n + 1] = Written(RowsAfter(disk, again)[n], again[n + 1])
        BY <4>1, RowsAfterDef
      <4> QED BY <4>2 DEF again
    <3>3. n + 1 \in 1 .. Len(pendingWrites) /\ n \in 0 .. Len(pendingWrites)
          /\ n + 1 \in 0 .. Len(pendingWrites)
      BY <1>8
    <3>4. pendingWrites[n + 1] \in Writes /\ Recounted(hit)[n + 1] \in Writes
      BY <1>8, <3>3
    <3>5. \/ Recounted(hit)[n + 1] = pendingWrites[n + 1]
          \/ /\ pendingWrites[n + 1] \in Inserts
             /\ pendingWrites[n + 1].prompt = p
             /\ Recounted(hit)[n + 1] = [pendingWrites[n + 1] EXCEPT !.hits = hit.hits]
      BY <1>3, <3>3, RecountedIs
    <3>6. old(n) \in Tabled /\ now(n) \in Tabled /\ SameButHits(old(n), now(n), p, hit.hits)
      BY <1>9, <2>2, <3>3
    <3> HIDE DEF old, now
    <3>7. SameButHits(Written(old(n), pendingWrites[n + 1]),
                      Written(now(n), Recounted(hit)[n + 1]), p, hit.hits)
      BY <1>3, <3>4, <3>5, <3>6, WrittenSameButHits
    <3> QED BY <3>1, <3>2, <3>3, <3>7
  <2> HIDE DEF Fine
  <2>3. 0 .. Len(pendingWrites) \subseteq Fine
    BY <1>8, <2>1, <2>2, BoundedInduction
  <2> QED BY <2>3 DEF Fine
<1> HIDE DEF old, now
<1>11. \A n \in 0 .. Len(pendingWrites) : Full(now(n)) \subseteq Full(old(n))
  <2> SUFFICES ASSUME NEW n \in 0 .. Len(pendingWrites), NEW q \in Full(now(n))
               PROVE  old(n)[q] # NoAnswer
    BY DEF Full
  <2>1. NoAnswer \notin AnswerRows
    BY CacheAssumption DEF CacheAssumption, AnswerRows, NoAnswer
  <2> QED BY <1>10, <2>1 DEF SameButHits, Full
<1>12. ASSUME ~skipped' PROVE Mirrors(disk', pendingWrites', (Entries)')
  <2>1. Mirrors(disk, pendingWrites, Entries)
    BY <1>4, <1>12, MirrorsNow
  <2>2. \A n \in 0 .. Len(pendingWrites) : Bounded(now(n))
    BY <1>11, <2>1, FullShrinks DEF Mirrors, old
  <2> DEFINE last == Len(pendingWrites)
  <2>3. last \in 0 .. Len(pendingWrites)
    BY <1>8
  <2>4. Follows(old(last), Entries)
    BY <2>1 DEF Mirrors, old
  <2>5. Follows(now(last), (Entries)')
    <3> SUFFICES ASSUME NEW q \in Stored PROVE RowIs(now(last)[q], About((Entries)', q))
      BY DEF Follows
    <3>1. RowIs(old(last)[q], About(Entries, q))
      BY <2>4 DEF Follows
    <3>2. CASE q # p
      <4>1. About((Entries)', q) = About(Entries, q)
        BY <1>3, <1>6, <3>2 DEF About
      <4>2. now(last)[q] = old(last)[q]
        BY <1>10, <2>3, <3>2 DEF SameButHits
      <4> QED BY <3>1, <4>1, <4>2
    <3>3. CASE q = p
      <4>1. About(Entries, q) = {e} /\ About((Entries)', q) = {hit}
        BY <1>2, <1>3, <1>6, <1>7, <3>3 DEF About
      <4>2. /\ old(last)[p].answer = e.answer /\ old(last)[p].age = e.age
            /\ old(last)[p].hits <= e.hits
        BY <3>1, <3>3, <4>1 DEF RowIs
      <4>3. /\ now(last)[p].answer = old(last)[p].answer
            /\ now(last)[p].age = old(last)[p].age
            /\ now(last)[p].hits = old(last)[p].hits \/ now(last)[p].hits = hit.hits
        BY <1>10, <2>3, <3>3 DEF SameButHits, AnswerRows
      <4>4. old(last)[p] \in AnswerRows \cup {NoAnswer}
        BY <1>9, <2>3, <3>3 DEF Tabled
      <4>5. old(last)[p].hits \in Int /\ hit.hits <= hit.hits
        BY <1>3, <4>4, CacheAssumption DEF AnswerRows, NoAnswer, CacheAssumption
      <4>6. now(last)[p].hits <= hit.hits
        BY <1>3, <4>2, <4>3, <4>5
      <4> QED BY <1>3, <3>3, <4>1, <4>2, <4>3, <4>6 DEF RowIs
    <3> QED BY <3>2, <3>3
  <2> QED BY <1>4, <1>5, <1>8, <2>2, <2>5 DEF Mirrors, now
<1> QED BY <1>12, MirrorsNext

(* Steps that leave no write waiting are about the table alone. *)
LEMMA EmptyQueue ==
  ASSUME NEW rows
  PROVE  \A n \in 0 .. Len(<< >>) : RowsAfter(rows, << >>)[n] = rows
<1> DEFINE none == << >>
<1>1. Len(none) = 0
  OBVIOUS
<1> HIDE DEF none
<1>2. RowsAfter(rows, none)[0] = rows
  BY <1>1, RowsAfterDef
<1>3. \A n \in 0 .. Len(none) : RowsAfter(rows, none)[n] = rows
  BY <1>1, <1>2
<1> QED BY <1>3 DEF none

LEMMA EmptyQueueNow ==
  ASSUME TableFollowsMemory, pendingWrites = << >>, ~skipped
  PROVE  (up => Follows(disk, Entries)) /\ Bounded(disk)
<1>1. \A n \in 0 .. Len(pendingWrites) : After(n) = disk
  BY EmptyQueue DEF After
<1>2. Len(pendingWrites) \in 0 .. Len(pendingWrites)
  OBVIOUS
<1> QED BY <1>1, <1>2, TableFollowsMemoryIs

LEMMA EmptyQueueNext ==
  ASSUME pendingWrites' = << >>,
         ~skipped' => (up' => Follows(disk', (Entries)')) /\ Bounded(disk')
  PROVE  TableFollowsMemory'
<1>1. TableFollowsMemory' <=>
        (~skipped' => /\ up' => Follows(RowsAfter(disk', pendingWrites')[Len(pendingWrites')],
                                        (Entries)')
                      /\ \A n \in 0 .. Len(pendingWrites') :
                           Bounded(RowsAfter(disk', pendingWrites')[n]))
  BY DEF TableFollowsMemory, Follows, About, EntryOf, Bounded, Full, After
<1>2. \A n \in 0 .. Len(pendingWrites') : RowsAfter(disk', pendingWrites')[n] = disk'
  BY EmptyQueue
<1>3. Len(pendingWrites') \in 0 .. Len(pendingWrites')
  OBVIOUS
<1> QED BY <1>1, <1>2, <1>3

LEMMA EmptyTable ==
  ASSUME NEW rows, \A p \in Stored : rows[p] = NoAnswer
  PROVE  Follows(rows, {}) /\ Bounded(rows)
<1>1. Full(rows) = {}
  BY DEF Full
<1>2. Bounded(rows)
  BY <1>1, FS_EmptySet, CacheAssumption DEF Bounded, CacheAssumption
<1> QED BY <1>2 DEF Follows, About, RowIs

LEMMA CacheInitMirrors == CacheInit => TableFollowsMemory
<1> SUFFICES ASSUME CacheInit PROVE TableFollowsMemory
  OBVIOUS
<1>1. pendingWrites = << >> /\ Entries = {} /\ \A p \in Stored : disk[p] = NoAnswer
  BY DEF CacheInit, Entries
<1>2. Follows(disk, Entries) /\ Bounded(disk)
  BY <1>1, EmptyTable
<1>3. /\ \A n \in 0 .. Len(pendingWrites) : After(n) = disk
      /\ Len(pendingWrites) \in 0 .. Len(pendingWrites)
  BY <1>1, EmptyQueue DEF After
<1> QED BY <1>2, <1>3, TableFollowsMemoryIs

LEMMA DrainPendingWritesMirrors ==
  ASSUME CacheInv, TableFollowsMemory, DrainPendingWrites
  PROVE  TableFollowsMemory'
<1>1. /\ disk' = After(Len(pendingWrites)) /\ pendingWrites' = << >>
      /\ up' = up /\ skipped' = skipped /\ (Entries)' = Entries
  BY DEF DrainPendingWrites, Entries
<1>2. Len(pendingWrites) \in 0 .. Len(pendingWrites)
  BY QueueTyped
<1>3. ~skipped => (up => Follows(disk', Entries)) /\ Bounded(disk')
  BY <1>1, <1>2, TableFollowsMemoryIs
<1> QED BY <1>1, <1>3, EmptyQueueNext

LEMMA ClearCacheMirrors ==
  ASSUME CacheInv, TableFollowsMemory, ClearCache
  PROVE  TableFollowsMemory'
<1>1. pendingWrites' = << >> /\ (Entries)' = {} /\ \A p \in Stored : disk'[p] = NoAnswer
  BY DEF ClearCache, Entries
<1>2. Follows(disk', (Entries)') /\ Bounded(disk')
  BY <1>1, EmptyTable
<1> QED BY <1>1, <1>2, EmptyQueueNext

LEMMA CacheDiesMirrors ==
  ASSUME CacheInv, TableFollowsMemory, NEW n \in 0 .. Len(pendingWrites), CacheDies(n)
  PROVE  TableFollowsMemory'
<1>1. /\ disk' = After(n) /\ pendingWrites' = << >> /\ ~up' /\ skipped' = skipped
  BY DEF CacheDies
<1>2. ~skipped => Bounded(disk')
  BY <1>1, TableFollowsMemoryIs
<1> QED BY <1>1, <1>2, EmptyQueueNext

LEMMA SwitchCacheMirrors ==
  ASSUME CacheInv, TableFollowsMemory, SwitchCache
  PROVE  TableFollowsMemory'
BY DEF SwitchCache, TableFollowsMemory, EntryOf, Entries, After

(* The rows a start leaves are the entries it loads. *)
LEMMA LoadCacheMirrors ==
  ASSUME CacheInv, TableFollowsMemory, LoadCache
  PROVE  TableFollowsMemory'
<1>1. /\ pendingWrites' = << >>
      /\ disk' = [p \in Stored |-> IF p \in Alive THEN disk[p] ELSE NoAnswer]
      /\ recent' \in Seq(EntryRecords) /\ Len(recent') <= MaxEntries
      /\ ~skipped' => In(recent') = {EntryFrom(p) : p \in Alive}
  BY LoadCacheIs
<1>2. ASSUME ~skipped' PROVE Follows(disk', In(recent'))
  <2> SUFFICES ASSUME NEW q \in Stored PROVE RowIs(disk'[q], About(In(recent'), q))
    BY DEF Follows
  <2>1. In(recent') = {EntryFrom(p) : p \in Alive}
    BY <1>1, <1>2
  <2>2. \A p \in Alive : EntryFrom(p).prompt = p
    BY EntryFromIs
  <2>3. CASE q \in Alive
    <3>1. About(In(recent'), q) = {EntryFrom(q)}
      BY <2>1, <2>2, <2>3 DEF About
    <3>2. disk'[q] = disk[q] /\ disk[q].hits \in Int
      BY <1>1, <2>3, EntryFromIs, CacheAssumption DEF AnswerRows, CacheAssumption
    <3>3. /\ disk'[q].answer = EntryFrom(q).answer /\ disk'[q].age = EntryFrom(q).age
          /\ disk'[q].hits <= EntryFrom(q).hits
      BY <3>2 DEF EntryFrom
    <3> QED BY <3>1, <3>3 DEF RowIs
  <2>4. CASE q \notin Alive
    <3>1. About(In(recent'), q) = {}
      BY <2>1, <2>2, <2>4 DEF About
    <3>2. disk'[q] = NoAnswer
      BY <1>1, <2>4
    <3> QED BY <3>1, <3>2 DEF RowIs
  <2> QED BY <2>3, <2>4
<1>3. ~skipped' => Bounded(disk')
  BY <1>1, <1>2, FollowsBounded
<1>4. (Entries)' = In(recent')
  BY EntriesIn
<1> QED BY <1>1, <1>2, <1>3, <1>4, EmptyQueueNext

(* Rows and entries age together. *)
LEMMA CacheAgesMirrors ==
  ASSUME CacheInv, TableFollowsMemory, CacheAges
  PROVE  TableFollowsMemory'
<1>1. /\ pendingWrites = << >> /\ pendingWrites' = << >>
      /\ up' = up /\ skipped' = skipped
      /\ recent' \in Seq(EntryRecords) /\ Len(recent') = Len(recent)
      /\ \A i \in 1 .. Len(recent) :
           recent'[i] = [recent[i] EXCEPT !.age = Elder(recent[i].age)]
      /\ \A p \in Stored : disk'[p] = IF disk[p] = NoAnswer THEN NoAnswer
                                      ELSE [disk[p] EXCEPT !.age = Elder(disk[p].age)]
  BY CacheAgesIs
<1>2. \A i \in 1 .. Len(recent) : recent[i] \in EntryRecords
  BY DEF CacheInv, Memory
<1>3. \A p \in Stored : disk[p] # NoAnswer => disk[p] \in AnswerRows
  BY DEF CacheInv, Table, Tabled
<1>4. Full(disk') \subseteq Full(disk)
  BY <1>1 DEF Full
<1>5. ~skipped => Bounded(disk')
  BY <1>1, <1>4, EmptyQueueNow, FullShrinks
<1>6. ASSUME up, ~skipped PROVE Follows(disk', (Entries)')
  <2> SUFFICES ASSUME NEW q \in Stored PROVE RowIs(disk'[q], About((Entries)', q))
    BY DEF Follows
  <2>1. RowIs(disk[q], About(Entries, q))
    BY <1>1, <1>6, EmptyQueueNow DEF Follows
  <2>2. /\ \A e \in Entries : \E i \in 1 .. Len(recent) : e = recent[i]
        /\ \A i \in 1 .. Len(recent) : recent'[i] \in (Entries)'
        /\ \A e \in (Entries)' : \E i \in 1 .. Len(recent) : e = recent'[i]
    BY <1>1 DEF Entries
  <2>3. \A i \in 1 .. Len(recent) :
          /\ recent'[i].prompt = recent[i].prompt /\ recent'[i].answer = recent[i].answer
          /\ recent'[i].hits = recent[i].hits /\ recent'[i].age = Elder(recent[i].age)
    BY <1>1, <1>2 DEF EntryRecords
  <2>4. CASE About(Entries, q) = {}
    <3>1. \A i \in 1 .. Len(recent) : recent[i].prompt # q
      BY <2>4 DEF About, Entries
    <3>2. About((Entries)', q) = {}
      BY <2>2, <2>3, <3>1 DEF About
    <3> QED BY <1>1, <2>1, <2>4, <3>2 DEF RowIs
  <2>5. CASE About(Entries, q) # {}
    <3>1. PICK e \in About(Entries, q) :
            /\ disk[q].answer = e.answer /\ disk[q].age = e.age /\ disk[q].hits <= e.hits
      BY <2>1, <2>5 DEF RowIs
    <3>2. PICK i \in 1 .. Len(recent) : e = recent[i]
      BY <2>2, <3>1 DEF About
    <3>3. recent'[i] \in About((Entries)', q)
      BY <2>2, <2>3, <3>1, <3>2 DEF About
    <3>4. disk[q] # NoAnswer
      BY <1>2, <3>1, <3>2, CacheAssumption DEF CacheAssumption, EntryRecords, NoAnswer
    <3>5. /\ disk'[q].answer = disk[q].answer /\ disk'[q].hits = disk[q].hits
          /\ disk'[q].age = Elder(disk[q].age)
      BY <1>1, <1>3, <3>4 DEF AnswerRows
    <3>6. /\ disk'[q].answer = recent'[i].answer /\ disk'[q].age = recent'[i].age
          /\ disk'[q].hits <= recent'[i].hits
      BY <2>3, <3>1, <3>2, <3>5
    <3> QED BY <3>3, <3>6 DEF RowIs
  <2> QED BY <2>4, <2>5
<1> QED BY <1>1, <1>5, <1>6, EmptyQueueNext

LEMMA MirrorStep ==
  CacheInv /\ TableFollowsMemory /\ [CacheNext]_cache => TableFollowsMemory'
<1> SUFFICES ASSUME CacheInv, TableFollowsMemory, [CacheNext]_cache PROVE TableFollowsMemory'
  OBVIOUS
<1>1. CASE \E p \in Prompts : LookupExpired(p)
  BY <1>1, LookupExpiredMirrors
<1>2. CASE \E p \in Prompts : LookupHits(p)
  BY <1>2, LookupHitsMirrors
<1>3. CASE \E p \in Prompts : \E a \in Answers : StoreAnswer(p, a)
  BY <1>3, StoreAnswerMirrors
<1>4. CASE FlushHitCounts
  BY <1>4, FlushHitCountsMirrors
<1>5. CASE DrainPendingWrites
  BY <1>5, DrainPendingWritesMirrors
<1>6. CASE ClearCache
  BY <1>6, ClearCacheMirrors
<1>7. CASE SwitchCache
  BY <1>7, SwitchCacheMirrors
<1>8. CASE \E n \in 0 .. Len(pendingWrites) : CacheDies(n)
  BY <1>8, CacheDiesMirrors
<1>9. CASE LoadCache
  BY <1>9, LoadCacheMirrors
<1>10. CASE CacheAges
  BY <1>10, CacheAgesMirrors
<1>11. CASE UNCHANGED cache
  BY <1>11 DEF cache, TableFollowsMemory, EntryOf, Entries, After
<1> QED
  BY <1>1, <1>2, <1>3, <1>4, <1>5, <1>6, <1>7, <1>8, <1>9, <1>10, <1>11 DEF CacheNext

(* Unless the switch made it leave a write out, the drained table is what  *)
(* memory is, its rows count no hits that another answer earned, and a     *)
(* crash between any two of the waiting writes leaves no more rows than    *)
(* memory may hold.                                                        *)
THEOREM TableMirrorsMemory == CacheSpec => []TableFollowsMemory
BY CacheInvHolds, CacheInitMirrors, MirrorStep, PTL DEF CacheSpec
=============================================================================
