------------------------------ MODULE KvCache ------------------------------
(***************************************************************************)
(* The KV cache of a context: the cells that sequences share               *)
(* (llama_kv_cells), the operations of llama_memory on sequences, and      *)
(* llama_decode: pending stream copies and K-shifts are applied, the       *)
(* batch is split, its ubatches are placed on trial and put back, and are  *)
(* then applied and computed one by one, each of which may fail.           *)
(*                                                                         *)
(* A cell has the position, the token and the sequences the metadata give  *)
(* it; kdata is what the K tensor of the cell really holds: the token it   *)
(* was computed for and the position it is rotated to.                     *)
(***************************************************************************)
EXTENDS Integers, FiniteSets, SequencesExt, FiniteSetsExt

CONSTANTS Seqs,       \* sequence ids, numbered from 0
          Size,       \* cells of a stream
          NUbatch,    \* n_ubatch: tokens of an ubatch
          Toks,       \* tokens
          Configs,    \* [stream: the stream of every sequence, swa: the window, 0 without]
          Batches,    \* input of the model: the sequence sets of the tokens of a batch
          Deltas,     \* input of the model: shifts of seq_add
          MaxPos,     \* bound of the model: positions stay below
          MaxCalls    \* bound of the model: calls of the interface

NoTok == "no token"

ASSUME SizeAssumption == Size \in Nat \ {0} /\ NUbatch \in Nat \ {0}
ASSUME BoundAssumption == MaxPos \in Nat /\ MaxCalls \in Nat
ASSUME SeqsAssumption == Seqs \subseteq Nat /\ \E n \in Seqs : Seqs = 0..n
\* llama_kv_cache::llama_kv_cache: one stream for all sequences, or one for each
ASSUME ConfigAssumption ==
  \A c \in Configs :
    /\ c.swa \in Nat
    /\ c.stream = [s \in Seqs |-> 0] \/ c.stream = [s \in Seqs |-> s]
\* llama_batch_allocr::init: every token has a sequence, and the ids are those of the context
ASSUME InputAssumption ==
  /\ NoTok \notin Toks /\ Deltas \subseteq Int
  /\ \A b \in Batches : b \in Seq((SUBSET Seqs) \ {{}})

VARIABLES
  conf,     \* the configuration the context was made with
  cells,    \* v_cells[stream][i]
  heads,    \* v_heads[stream]
  kdata,    \* the K tensor of every cell: [tok, rope]
  copies,   \* sc_info: stream copies to be made by the next update
  todo,     \* the ubatches of the decode that runs, with the cells found for them
  ret,      \* what the last call returned
  whole,    \* history: the sequences without a gap when the last call began
  calls     \* the calls made so far

vars == <<conf, cells, heads, kdata, copies, todo, ret, whole, calls>>

Streams == {conf.stream[s] : s \in Seqs}
Idx == 0..Size-1
\* mark: what keeps the K data from following the position (see DataFollows)
EmptyCell == [pos |-> -1, seqs |-> {}, tok |-> NoTok, shift |-> 0, mark |-> "none"]
Used(row) == {i \in Idx : row[i].pos # -1}

\* llama_kv_cells::seq_pos_min, seq_pos_max
PosIn(cs, s) == LET row == cs[conf.stream[s]]
                IN {row[i].pos : i \in {j \in Idx : s \in row[j].seqs}}
PosMax(cs, s) == IF PosIn(cs, s) = {} THEN -1 ELSE Max(PosIn(cs, s))
PosMin(cs, s) == IF PosIn(cs, s) = {} THEN -1 ELSE Min(PosIn(cs, s))
Gapless(cs, s) == PosIn(cs, s) = PosMin(cs, s)..PosMax(cs, s) \/ PosIn(cs, s) = {}
\* llama_hparams::is_masked_swa, LLAMA_SWA_TYPE_STANDARD
Masked(p0, p1) == conf.swa > 0 /\ p1 - p0 >= conf.swa

Init ==
  /\ conf \in Configs
  /\ cells = [st \in Streams |-> [i \in Idx |-> EmptyCell]]
  /\ heads = [st \in Streams |-> 0]
  /\ kdata = [st \in Streams |-> [i \in Idx |-> [tok |-> NoTok, rope |-> 0]]]
  /\ copies = <<>> /\ todo = <<>> /\ ret = "edited" /\ whole = {} /\ calls = 0

-----------------------------------------------------------------------------
(* The operations on sequences *)

Call == /\ ret' = "edited"
        /\ todo = <<>> /\ calls < MaxCalls /\ calls' = calls + 1
        /\ UNCHANGED <<conf, todo>> /\ whole' = {}

\* A cell that no sequence is left in is empty.
CellWithout(c, S) == IF c.seqs \subseteq S THEN EmptyCell ELSE [c EXCEPT !.seqs = @ \ S]
\* The first cell that became empty is where the next search starts, if it is below.
HeadAfter(head, old, new) ==
  LET freed == Used(old) \ Used(new)
  IN IF freed # {} /\ Min(freed) < head THEN Min(freed) ELSE head

Without(row, s, p0, p1) ==
  [i \in Idx |-> IF s \in row[i].seqs /\ row[i].pos \in p0..p1-1
                 THEN CellWithout(row[i], {s}) ELSE row[i]]
SeqRm(s, p0, p1) ==
  LET st == conf.stream[s]
      row == Without(cells[st], s, p0, p1)
  IN /\ Call /\ cells' = [cells EXCEPT ![st] = row]
     /\ heads' = [heads EXCEPT ![st] = HeadAfter(@, cells[st], row)]
     /\ UNCHANGED <<kdata, copies>>

\* seq_rm with seq_id -1: the cells of any sequence
AnyRm(p0, p1) ==
  LET rows == [st \in Streams |-> [i \in Idx |->
                 IF cells[st][i].pos \in p0..p1-1 THEN EmptyCell ELSE cells[st][i]]]
  IN /\ Call /\ cells' = rows
     /\ heads' = [st \in Streams |-> HeadAfter(heads[st], cells[st], rows[st])]
     /\ UNCHANGED <<kdata, copies>>

Clear ==
  /\ Call
  /\ cells' = [st \in Streams |-> [i \in Idx |-> EmptyCell]]
  /\ heads' = [st \in Streams |-> 0]
  /\ UNCHANGED <<kdata, copies>>

\* Within a stream the cells are shared; dst is not in them (callers remove it first).
With(c, s) == [c EXCEPT !.seqs = @ \cup {s}]
SeqCpShared(src, dst, p1) ==
  LET st == conf.stream[src]
      hit(c) == src \in c.seqs /\ c.pos < p1
  IN /\ src # dst /\ conf.stream[dst] = st /\ PosIn(cells, dst) = {}
     /\ Call
     /\ cells' = [cells EXCEPT ![st] = [i \in Idx |->
                    IF hit(@[i]) THEN With(@[i], dst) ELSE @[i]]]
     /\ UNCHANGED <<heads, kdata, copies>>

\* Between streams the metadata are copied at once, with the shift that is not applied
\* yet, and the data by the next update.
SeqCpStream(src, dst) ==
  LET st == conf.stream[src]  dt == conf.stream[dst]
  IN /\ st # dt /\ Call
     /\ cells' = [cells EXCEPT ![dt] = [i \in Idx |->
                    IF src \in cells[st][i].seqs THEN [cells[st][i] EXCEPT !.seqs = {dst}] ELSE EmptyCell]]
     /\ heads' = [heads EXCEPT ![dt] = heads[st]]
     /\ copies' = Append(copies, <<st, dt>>)
     /\ UNCHANGED kdata

SeqKeep(s) ==
  LET st == conf.stream[s]
      row == [i \in Idx |-> IF s \in cells[st][i].seqs
                            THEN [cells[st][i] EXCEPT !.seqs = {s}] ELSE EmptyCell]
  IN /\ Call /\ cells' = [cells EXCEPT ![st] = row]
     /\ heads' = [heads EXCEPT ![st] = HeadAfter(@, cells[st], row)]
     /\ UNCHANGED <<kdata, copies>>

\* llama_kv_cells::pos_add: every sequence of the cell moves; below 0 the cell is freed
Moved(c, d) == IF c.pos + d < 0 THEN EmptyCell
               ELSE [c EXCEPT !.pos = @ + d, !.shift = @ + d]
SeqAdd(s, p0, p1, d) ==
  LET st == conf.stream[s]
      row == [i \in Idx |-> IF s \in cells[st][i].seqs /\ cells[st][i].pos \in p0..p1-1
                            THEN Moved(cells[st][i], d) ELSE cells[st][i]]
      freed == Used(cells[st]) \ Used(row)
  IN /\ Call /\ \A i \in Idx : row[i].pos < MaxPos
     /\ cells' = [cells EXCEPT ![st] = row]
     /\ heads' = [heads EXCEPT ![st] = IF freed # {} THEN Min(freed) ELSE 0]
     /\ UNCHANGED <<kdata, copies>>

\* llama_kv_cells::pos_div: the shift has the opposite sign of pos_add's
Divided(c, d) == [c EXCEPT !.pos = @ \div d, !.shift = @ + (c.pos - c.pos \div d),
                           !.mark = IF c.pos = c.pos \div d THEN @ ELSE "divided"]
SeqDiv(s, p0, p1, d) ==
  LET st == conf.stream[s]
  IN /\ Call
     /\ cells' = [cells EXCEPT ![st] = [i \in Idx |->
                    IF s \in @[i].seqs /\ @[i].pos \in p0..p1-1 THEN Divided(@[i], d) ELSE @[i]]]
     /\ UNCHANGED <<heads, kdata, copies>>

-----------------------------------------------------------------------------
(* A batch: its positions and its ubatches *)

Count(toks, k, s) == Cardinality({j \in 1..k-1 : s \in toks[j]})
\* llama_batch_allocr::init: the positions of a sequence go on where the memory ends
Token(sets, tok, k) ==
  [seqs |-> sets[k], tok |-> tok,
   pos |-> LET s == Min(sets[k]) IN PosMax(cells, s) + 1 + Count(sets, k, s)]
\* coupled sequences must not have diverged; without kv_unified there are none
Valid(sets) ==
  \A k \in DOMAIN sets : \A s, t \in sets[k] :
    /\ PosMin(cells, s) = PosMin(cells, t) /\ PosMax(cells, s) = PosMax(cells, t)
    /\ Count(sets, k, s) = Count(sets, k, t)
    /\ s # t => Cardinality(Streams) = 1

\* split_simple: the first n_ubatch tokens
FirstSimple(toks) ==
  LET n == Min({NUbatch, Len(toks)})
  IN [parts |-> <<[strm |-> 0, toks |-> SubSeq(toks, 1, n)]>>, rest |-> SubSeq(toks, n + 1, Len(toks))]
\* The numbers of a set in their order.
InOrder(S) == [k \in 1..Cardinality(S) |->
                 CHOOSE x \in S : Cardinality({y \in S : y < x}) = k - 1]
\* split_equal, sequential: as many tokens of each of a run of sequence ids, which begins
\* with the first token's and takes the next id as it comes up
Id(t) == Min(t.seqs)
RunEnd(toks) ==
  FoldLeft(LAMBDA q, t : IF Id(t) = q /\ q - Id(toks[1]) <= NUbatch THEN q + 1 ELSE q,
           Id(toks[1]), toks)
IndicesOf(toks, s) == InOrder({j \in DOMAIN toks : Id(toks[j]) = s})
FirstEqual(toks) ==
  LET first == Id(toks[1])
      run == first..RunEnd(toks)-1
      n == Min({Len(IndicesOf(toks, s)) : s \in run} \cup {Max({1, NUbatch \div Cardinality(run)})})
      left == InOrder(DOMAIN toks \ {IndicesOf(toks, s)[j] : s \in run, j \in 1..n})
  IN [parts |-> [k \in 1..RunEnd(toks)-first |->
                   [strm |-> conf.stream[first + k - 1],
                    toks |-> [j \in 1..n |-> toks[IndicesOf(toks, first + k - 1)[j]]]]],
      rest |-> [j \in DOMAIN left |-> toks[left[j]]]]
First(toks) == IF Cardinality(Streams) = 1 THEN FirstSimple(toks) ELSE FirstEqual(toks)
Split(toks) ==
  FoldLeft(LAMBDA acc, k : IF acc.rest = <<>> THEN acc
                           ELSE [done |-> Append(acc.done, First(acc.rest).parts),
                                 rest |-> First(acc.rest).rest],
           [done |-> <<>>, rest |-> toks], [k \in DOMAIN toks |-> k]).done

-----------------------------------------------------------------------------
(* find_slot and apply_ubatch, on the metadata m = [cells, heads] *)

\* A cell may be taken when it is empty, or when its one sequence cannot see it any more.
CanUseShared(cs, c) ==                                 \* a mutant: forgets the count
  c.pos = -1 \/ (\E s \in c.seqs : Masked(c.pos, PosMax(cs, s) + 1))
CanUseEarly(cs, c) ==                                  \* a mutant: one position too early
  c.pos = -1 \/ (Cardinality(c.seqs) = 1 /\ \A s \in c.seqs : Masked(c.pos, PosMax(cs, s) + 2))
CanUse(cs, c) ==
  c.pos = -1 \/ (Cardinality(c.seqs) = 1 /\ \A s \in c.seqs : Masked(c.pos, PosMax(cs, s) + 1))
\* The cells for n tokens, from the head on and around; <<>> when there are too few.
FindIdxs(m, st, n) ==
  LET row == m.cells[st]
      from == IF m.heads[st] > Cardinality(Used(row)) + 2 * n THEN 0 ELSE m.heads[st]
      free == {k \in 0..Size-1 : CanUse(m.cells, row[(from + k) % Size])}
  IN IF Cardinality(free) >= n THEN [j \in 1..n |-> (from + InOrder(free)[j]) % Size] ELSE <<>>
FindSlot(m, parts) == [k \in DOMAIN parts |-> FindIdxs(m, parts[k].strm, Len(parts[k].toks))]
Empty(slot) == \E k \in DOMAIN slot : slot[k] = <<>>

\* The part of an ubatch in a stream; streams of its parts differ.
Parted(parts, st) == \E k \in DOMAIN parts : parts[k].strm = st
PartOf(parts, st) == CHOOSE k \in DOMAIN parts : parts[k].strm = st
\* The cell is one of those found for the ubatch.
Taken(parts, slot, st, i) == Parted(parts, st) /\ i \in ToSet(slot[PartOf(parts, st)])

\* A sequence that loses a cell loses every position up to that cell's.
PurgeNone(row, old, idxs) == row                       \* a mutant
Lost(old, idxs, s) == {old[i].pos : i \in {j \in ToSet(idxs) : s \in old[j].seqs}}
Gone(c, old, idxs) == {s \in c.seqs : \E p \in Lost(old, idxs, s) : c.pos <= p}
Purge(row, old, idxs) ==
  [i \in Idx |-> IF Gone(row[i], old, idxs) = {} THEN row[i]
                 ELSE CellWithout(row[i], Gone(row[i], old, idxs))]
NewCell(t) == [pos |-> t.pos, seqs |-> t.seqs, tok |-> t.tok, shift |-> 0, mark |-> "none"]
Put(row, idxs, toks) ==
  [i \in Idx |-> IF i \in ToSet(idxs)
                 THEN NewCell(toks[CHOOSE j \in DOMAIN idxs : idxs[j] = i]) ELSE row[i]]
CellsAfter(cs, parts, slot) ==
  [st \in Streams |->
     IF Parted(parts, st)
     THEN LET k == PartOf(parts, st)
          IN Purge(Put(cs[st], slot[k], parts[k].toks), cs[st], slot[k])
     ELSE cs[st]]
ApplyUbatch(m, parts, slot) ==
  [cells |-> CellsAfter(m.cells, parts, slot),
   heads |-> [st \in Streams |-> IF Parted(parts, st) THEN Last(slot[PartOf(parts, st)]) + 1
                                 ELSE m.heads[st]]]

\* prepare: place every ubatch on trial, remembering the heads and the cells it takes ...
Trial(m, ubs) ==
  FoldLeft(LAMBDA t, parts :
             LET slot == FindSlot(t.m, parts)
             IN IF ~t.ok \/ Empty(slot) THEN [ok |-> FALSE, m |-> t.m, states |-> t.states]
                ELSE [ok |-> TRUE, m |-> ApplyUbatch(t.m, parts, slot),
                      states |-> Append(t.states, [parts |-> parts, slot |-> slot, m |-> t.m])],
           [ok |-> TRUE, m |-> m, states |-> <<>>], ubs)
\* ... and put those back, the last first; the head of the k-th stream of a slot is taken
\* from the k-th head.
PutBack(m, state) ==
  [cells |-> [st \in Streams |-> [i \in Idx |->
                IF Taken(state.parts, state.slot, st, i) THEN state.m.cells[st][i] ELSE m.cells[st][i]]],
   heads |-> [st \in Streams |-> IF Parted(state.parts, st)
                                 THEN state.m.heads[PartOf(state.parts, st) - 1] ELSE m.heads[st]]]
RestoredForward(trial) == FoldLeft(PutBack, trial.m, trial.states)   \* a mutant
Restored(trial) == FoldLeft(PutBack, trial.m, Reverse(trial.states))

-----------------------------------------------------------------------------
(* llama_decode *)

\* update: the stream copies in their order, then the K-shift
Copied(kd, cs) == FoldLeft(LAMBDA k, c : [k EXCEPT ![c[2]] = k[c[1]]], kd, cs)
UpdatedLate == [st \in Streams |-> [i \in Idx |->       \* a mutant: shifts, then copies
  Copied([t \in Streams |-> [j \in Idx |-> [kdata[t][j] EXCEPT !.rope = @ + cells[t][j].shift]]], copies)[st][i]]]
Updated == [st \in Streams |-> [i \in Idx |->
  [Copied(kdata, copies)[st][i] EXCEPT !.rope = @ + cells[st][i].shift]]]
Settled == [st \in Streams |-> [i \in Idx |-> [cells[st][i] EXCEPT !.shift = 0]]]
\* get_has_shift, but for shifts that cancel out
HasShift == \E st \in Streams, i \in Idx : cells[st][i].shift # 0
\* llama_kv_cells::cp asserts that the cells it saves have no shift.
NoShiftSaved(trial) ==
  \A k \in DOMAIN trial.states : LET state == trial.states[k] IN
    \A st \in Streams, i \in Idx :
      Taken(state.parts, state.slot, st, i) => state.m.cells[st][i].shift = 0

\* The batch is placed on the cells cs, over the data kd.
Begin(sets, tok, ok, cs, kd) ==
  LET toks == [k \in DOMAIN sets |-> Token(sets, tok, k)]
      trial == Trial([cells |-> cs, heads |-> heads], Split(toks))
      back == Restored(trial)
  IN /\ ret' = IF ok THEN "running" ELSE "no slot"
     /\ todo = <<>> /\ calls < MaxCalls /\ calls' = calls + 1
     /\ Valid(sets) /\ \A k \in DOMAIN toks : toks[k].pos < MaxPos
     /\ kdata' = kd /\ copies' = <<>>
     /\ trial.ok = ok /\ NoShiftSaved(trial)
     /\ cells' = back.cells /\ heads' = back.heads
     /\ todo' = IF ok THEN [k \in DOMAIN trial.states |->
                              [parts |-> trial.states[k].parts, slot |-> trial.states[k].slot]]
                ELSE <<>>
     /\ whole' = IF ok THEN {s \in Seqs : Gapless(cells, s)} ELSE {}
     /\ UNCHANGED conf
\* A K-shift whose graph is not allocated or not computed leaves the shifts pending, and
\* llama_decode goes on all the same.
Decode(sets, tok) ==
  \/ Begin(sets, tok, TRUE, Settled, Updated)
  \/ HasShift /\ Begin(sets, tok, TRUE, cells, Copied(kdata, copies))
\* llama_decode returns 1: "could not find a KV slot for the batch"
NoSlot(sets, tok) == Begin(sets, tok, FALSE, Settled, Updated)

\* The data of an ubatch's cells, or nothing of use when it was not computed.
Written(ub, computed) ==
  [st \in Streams |-> [i \in Idx |->
     IF Taken(ub.parts, ub.slot, st, i)
     THEN LET k == PartOf(ub.parts, st)
              t == ub.parts[k].toks[CHOOSE j \in DOMAIN ub.slot[k] : ub.slot[k][j] = i]
          IN [tok |-> IF computed THEN t.tok ELSE NoTok, rope |-> t.pos]
     ELSE kdata[st][i]]]
\* apply and compute the next ubatch
Compute ==
  /\ todo # <<>>
  /\ LET ub == Head(todo)
         m == ApplyUbatch([cells |-> cells, heads |-> heads], ub.parts, ub.slot)
     IN /\ cells' = m.cells /\ heads' = m.heads
        /\ kdata' = Written(ub, TRUE)
  /\ todo' = Tail(todo) /\ ret' = IF todo' = <<>> THEN "decoded" ELSE "running"
  /\ UNCHANGED <<conf, copies, whole, calls>>

\* ... or it fails or is aborted: its positions are removed, of the first sequence of
\* every token; the other sequences keep cells that were not computed.
TokensOf(parts) == UNION {ToSet(parts[k].toks) : k \in DOMAIN parts}
Removed(cs, ub) ==
  LET from(s) == {t.pos : t \in {u \in TokensOf(ub.parts) : Min(u.seqs) = s}}
      gone(c) == {s \in c.seqs : \E p \in from(s) : c.pos >= p}
  IN [st \in Streams |-> [i \in Idx |-> CellWithout(cs[st][i], gone(cs[st][i]))]]
Torn(cs, ub) ==
  [st \in Streams |-> [i \in Idx |->
     IF cs[st][i].pos # -1 /\ Taken(ub.parts, ub.slot, st, i)
     THEN [cs[st][i] EXCEPT !.mark = "torn"] ELSE cs[st][i]]]
ComputeFails ==
  /\ todo # <<>>
  /\ LET ub == Head(todo)
         m == ApplyUbatch([cells |-> cells, heads |-> heads], ub.parts, ub.slot)
         left == Removed(m.cells, ub)
     IN /\ cells' = Torn(left, ub)
        /\ heads' = [st \in Streams |-> HeadAfter(m.heads[st], m.cells[st], left[st])]
        /\ kdata' = Written(ub, FALSE)
  /\ todo' = <<>> /\ ret' = "failed"
  /\ UNCHANGED <<conf, copies, whole, calls>>

-----------------------------------------------------------------------------
Ranges == {r \in (0..MaxPos-1) \X (1..MaxPos) : r[1] < r[2]}

Edit ==
  \/ \E s \in Seqs, r \in Ranges : SeqRm(s, r[1], r[2])
  \/ \E r \in Ranges : AnyRm(r[1], r[2])
  \/ Clear
  \/ \E s, t \in Seqs, p \in 1..MaxPos : SeqCpShared(s, t, p)
  \/ \E s, t \in Seqs : SeqCpStream(s, t)
  \/ \E s \in Seqs : SeqKeep(s)
  \/ \E s \in Seqs, r \in Ranges, d \in Deltas : SeqAdd(s, r[1], r[2], d)
  \/ \E s \in Seqs, r \in Ranges : SeqDiv(s, r[1], r[2], 2)
Decoding ==
  \/ \E b \in Batches, tok \in Toks : Decode(b, tok) \/ NoSlot(b, tok)
  \/ Compute
  \/ ComputeFails
Next == Edit \/ Decoding
Spec == Init /\ [][Next]_vars

-----------------------------------------------------------------------------
(* What the cache promises *)

\* Every variable has its type (llama_kv_cells, v_heads, sc_info).
TypeOK ==
  /\ conf \in Configs
  /\ cells \in [Streams -> [Idx -> [pos : -1..MaxPos-1, seqs : SUBSET Seqs, tok : Toks \cup {NoTok},
                                   shift : Int, mark : {"none", "divided", "torn"}]]]
  /\ \A st \in Streams, i \in Idx : cells[st][i].pos = -1 <=> cells[st][i].seqs = {}
  /\ heads \in [Streams -> 0..Size]
  /\ kdata \in [Streams -> [Idx -> [tok : Toks \cup {NoTok}, rope : Int]]]
  /\ copies \in Seq(Streams \X Streams)
  /\ ret \in {"edited", "running", "decoded", "no slot", "failed"}
  /\ whole \subseteq Seqs /\ calls \in 0..MaxCalls

\* The positions and tokens of a sequence.
Text(cs, s) == LET row == cs[conf.stream[s]]
               IN {<<row[i].pos, row[i].tok>> : i \in {j \in Idx : s \in row[j].seqs}}
\* Once the pending copies and shifts are made, the K data of every cell are of the
\* token the cell says it holds, rotated to the position it says it has -- whatever
\* copies, shifts, removals and decodes came before (the two ways the code breaks this
\* are marked, see SeqDiv and ComputeFails).
DataFollows ==
  \A st \in Streams, i \in Idx :
    LET c == cells[st][i]  k == Copied(kdata, copies)[st][i]
    IN c.pos # -1 /\ c.mark = "none" => k.tok = c.tok /\ k.rope + c.shift = c.pos

\* The cells an ubatch was given on trial hold at most one sequence when its turn comes,
\* on the cells that were put back and after the ubatches before it (apply_ubatch asserts
\* it: a shared cell would be taken from a sequence that may still see it).
SlotsStaySingle ==
  todo # <<>> =>
    \A k \in DOMAIN todo[1].parts :
      LET st == todo[1].parts[k].strm
      IN \A i \in ToSet(todo[1].slot[k]) : Cardinality(cells[st][i].seqs) <= 1

\* Placing a batch, on trial or not, takes from a sequence only what is masked for the
\* token that follows those the batch brings it, whether a slot is found and an ubatch
\* computed or not.
Sees(s, p) == {x \in Text(cells, s) : ~Masked(x[1], p)}
Brought(ubs, s) == {t.pos : t \in {u \in UNION {TokensOf(ubs[n].parts) : n \in DOMAIN ubs} :
                                    s \in u.seqs}}
LosesOnlyMasked ==
  /\ [][\A b \in Batches, tok \in Toks : Decode(b, tok) \/ NoSlot(b, tok) =>
         \A s \in Seqs : Sees(s, PosMax(cells, s) + Count(b, Len(b) + 1, s) + 1)
                          \subseteq Text(cells', s)]_vars
  /\ [][calls' = calls => \A s \in Seqs :
         Sees(s, Max({PosMax(cells, s)} \cup Brought(todo, s)) + 1) \subseteq Text(cells', s)]_vars

\* A decode that succeeds leaves no gap in a sequence that had none, whatever cells of it
\* were taken over and however its positions lie in the cells: "we want to preserve the
\* invariant that all positions between [pos_min, pos_max] for each sequence will be
\* present".
LeavesNoGap == ret = "decoded" => \A s \in whole : Gapless(cells, s)

\* include/llama.h: when llama_decode finds no slot for the batch (1), "the memory state
\* is restored to the state before this call"; the code loses what the trial purged, even
\* tokens that the sequence's next token sees.
FailedDecodeRestores ==
  [][calls' # calls /\ ret' = "no slot" =>
       \A s \in Seqs : Sees(s, PosMax(cells, s) + 1) \subseteq Text(cells', s)]_vars

\* include/llama.h: seq_add "adds relative position delta to all tokens that belong to
\* the specified sequence"; the code moves the other sequences of a shared cell with it.
AddIsLocal ==
  [][\A s \in Seqs, r \in Ranges, d \in Deltas :
       SeqAdd(s, r[1], r[2], d) =>
         \A t \in Seqs \ {s} : Text(cells', t) = Text(cells, t)]_vars

\* llama-kv-cells.h: the shift of a cell accumulates what was added to its position; the
\* code adds the opposite for a division, and K is rotated the wrong way.
ShiftAccumulates ==
  \A st \in Streams, i \in Idx :
    LET c == cells[st][i]  k == Copied(kdata, copies)[st][i]
    IN c.pos # -1 /\ c.mark # "torn" => k.rope + c.shift = c.pos

\* llama-context.cpp: a failed ubatch has "all positions of that ubatch" removed; the code
\* leaves those of a token's second sequence, over data that were not computed.
FailedUbatchLeavesNothing ==
  \A st \in Streams, i \in Idx : cells[st][i].mark # "torn"
=============================================================================
