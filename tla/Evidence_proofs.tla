--------------------------- MODULE Evidence_proofs ---------------------------
(***************************************************************************)
(* Proofs about Evidence, for every set of tasks, outputs and drafts: what *)
(* the evidence ledger keeps of what it told its callers, and where its    *)
(* chain may break.                                                        *)
(***************************************************************************)
EXTENDS Evidence, SequenceTheorems, TLAPS

\* Every line of file f is a record: the load takes it.
AllObjects(f) == \A i \in DOMAIN f.lines : IsObject(f.lines[i])

ItemAt(f, i) == f.lines[i][1].item

\* The number the chain carries on after the records s.
EndOf(s) == IF s = <<>> THEN 0 ELSE s[Len(s)].id

EndOfFile(f) == IF f.lines = <<>> THEN 0 ELSE ItemAt(f, Len(f.lines)).id

\* A file that still loads has every record a caller was told of, ...
FileKeeps == AllObjects(file) => returned \subseteq Objects(file)

\* ... its chain breaks only at a loss, ...
FileLinked ==
  AllObjects(file) =>
    \A i \in DOMAIN file.lines :
      \/ ItemAt(file, i).prev = IF i = 1 THEN 0 ELSE ItemAt(file, i - 1).id
      \/ ItemAt(file, i).prev \in unwritten

\* ... and a running process carries on its last record, or one that was lost.
EndsMatch ==
  (status = "up" /\ AllObjects(file)) =>
    EndOf(records) = EndOfFile(file) \/ EndOf(records) \in unwritten

\* The inductive invariant.
LedgerInv ==
  /\ TypeOK /\ ReturnedSurvives /\ ChainBreaksAtALoss
  /\ FileKeeps /\ FileLinked /\ EndsMatch

-----------------------------------------------------------------------------
(* Files *)

\* The lines of file g are those of f and one line for each record of xs, as
\* long as all of them are records.
Follows(g, f, xs) ==
  AllObjects(g) =>
    /\ AllObjects(f)
    /\ Len(g.lines) = Len(f.lines) + Len(xs)
    /\ \A i \in DOMAIN f.lines : ItemAt(g, i) = ItemAt(f, i)
    /\ \A k \in DOMAIN xs : ItemAt(g, Len(f.lines) + k) = xs[k]

\* What a write of the records xs to file f leaves.
Wrote(g, f, xs) ==
  g \in Files(Record) /\ Objects(g) \subseteq Objects(f) \cup RangeOf(xs) /\ Follows(g, f, xs)

LEMMA FileShape ==
  ASSUME NEW f \in Files(Record)
  PROVE  /\ f.lines \in Seq(Seq(Pieces(Record)) \ {<<>>}) /\ f.ended \in BOOLEAN
         /\ f.ended \/ f.lines # <<>>
         /\ Len(f.lines) \in Nat /\ DOMAIN f.lines = 1 .. Len(f.lines)
         /\ Objects(f) \subseteq Record
<1>1. /\ f.lines \in Seq(Seq(Pieces(Record)) \ {<<>>}) /\ f.ended \in BOOLEAN
      /\ f.ended \/ f.lines # <<>>
  BY DEF Files
<1>2. Len(f.lines) \in Nat /\ DOMAIN f.lines = 1 .. Len(f.lines)
  BY <1>1
<1>3. ASSUME NEW i \in ObjectLines(f) PROVE ItemAt(f, i) \in Record
  <2>1. f.lines[i] \in Seq(Pieces(Record)) /\ Len(f.lines[i]) = 1
    BY <1>1, <1>3 DEF ObjectLines, IsObject
  <2>2. f.lines[i][1] \in Pieces(Record)
    BY <2>1
  <2>3. QED
    BY <2>2 DEF Pieces, ItemAt
<1>4. QED
  BY <1>1, <1>2, <1>3 DEF Objects, ItemAt

\* One more piece: a line of its own, or the end of a line that is none.
LEMMA OneLine ==
  ASSUME NEW f \in Files(Record), NEW x \in Record, NEW kind \in {"whole"} \cup Cuts,
         NEW e \in BOOLEAN
  PROVE  Wrote([lines |-> Continued(f, Piece(x, kind)), ended |-> e], f, <<x>>)
<1> DEFINE p == Piece(x, kind)
           L == Seq(Pieces(Record)) \ {<<>>}
           g == [lines |-> Continued(f, p), ended |-> e]
           n == Len(f.lines)
<1>1. /\ f.lines \in Seq(L) /\ f.ended \in BOOLEAN /\ (f.ended \/ f.lines # <<>>)
      /\ n \in Nat /\ DOMAIN f.lines = 1 .. n
  BY FileShape
<1>2. p \in Pieces(Record) /\ p.item = x /\ p.kind = kind
  BY DEF Piece, Pieces
<1>3. g.lines = Continued(f, p) /\ g.ended = e
  OBVIOUS
<1> HIDE DEF p, g
<1>4. CASE f.ended
  <2>1. g.lines = Append(f.lines, <<p>>) /\ <<p>> \in L
    BY <1>2, <1>3, <1>4 DEF Continued
  <2>2. /\ g.lines \in Seq(L) /\ g.lines # <<>> /\ Len(g.lines) = n + 1
        /\ DOMAIN g.lines = 1 .. (n + 1)
        /\ \A i \in 1 .. n : g.lines[i] = f.lines[i]
        /\ g.lines[n + 1] = <<p>>
    BY <1>1, <2>1
  <2>3. g \in Files(Record)
    BY <1>3, <2>2 DEF Files, g
  <2>4. Objects(g) \subseteq Objects(f) \cup RangeOf(<<x>>)
    <3>1. ASSUME NEW i \in ObjectLines(g)
          PROVE  ItemAt(g, i) \in Objects(f) \cup {x}
      <4>1. CASE i \in 1 .. n
        BY <1>1, <2>2, <3>1, <4>1 DEF ObjectLines, Objects, ItemAt
      <4>2. CASE i = n + 1
        BY <1>2, <2>2, <4>2 DEF ItemAt
      <4>3. QED
        BY <1>1, <2>2, <3>1, <4>1, <4>2 DEF ObjectLines
    <3>2. RangeOf(<<x>>) = {x}
      BY DEF RangeOf
    <3>3. QED
      BY <3>1, <3>2 DEF Objects, ItemAt
  <2>5. Follows(g, f, <<x>>)
    <3>1. ASSUME AllObjects(g), NEW i \in DOMAIN f.lines PROVE IsObject(f.lines[i])
      <4>1. i \in 1 .. n /\ i \in 1 .. (n + 1)
        BY <1>1, <3>1
      <4>2. IsObject(g.lines[i]) /\ g.lines[i] = f.lines[i]
        BY <2>2, <3>1, <4>1 DEF AllObjects
      <4>3. QED
        BY <4>2
    <3>2. \A i \in DOMAIN f.lines : ItemAt(g, i) = ItemAt(f, i)
      BY <1>1, <2>2 DEF ItemAt
    <3>3. ItemAt(g, n + 1) = x
      BY <1>2, <2>2 DEF ItemAt
    <3>4. Len(<<x>>) = 1 /\ DOMAIN <<x>> = {1} /\ <<x>>[1] = x
      OBVIOUS
    <3>5. QED
      BY <2>2, <3>1, <3>2, <3>3, <3>4 DEF Follows, AllObjects
  <2>6. QED
    BY <2>3, <2>4, <2>5 DEF Wrote, g, p
<1>5. CASE ~f.ended
  <2>1. n \in 1 .. n /\ f.lines[n] \in L
    BY <1>1, <1>5
  <2>2. g.lines = [f.lines EXCEPT ![n] = Append(f.lines[n], p)]
    BY <1>3, <1>5 DEF Continued
  <2>3. Append(f.lines[n], p) \in L /\ Len(Append(f.lines[n], p)) > 1
    BY <1>2, <2>1
  <2>4. /\ g.lines \in Seq(L) /\ g.lines # <<>> /\ DOMAIN g.lines = 1 .. n
        /\ \A i \in 1 .. n : i # n => g.lines[i] = f.lines[i]
        /\ ~IsObject(g.lines[n])
    <3>1. /\ g.lines \in Seq(L) /\ DOMAIN g.lines = 1 .. n
          /\ \A i \in 1 .. n : i # n => g.lines[i] = f.lines[i]
          /\ g.lines[n] = Append(f.lines[n], p)
      BY <1>1, <2>1, <2>2, <2>3
    <3>2. ~IsObject(g.lines[n])
      BY <2>3, <3>1 DEF IsObject
    <3>3. g.lines # <<>>
      BY <2>1, <3>1
    <3>4. QED
      BY <3>1, <3>2, <3>3
  <2>5. g \in Files(Record)
    BY <1>3, <2>4 DEF Files, g
  <2>6. Objects(g) \subseteq Objects(f)
    BY <1>1, <2>4 DEF Objects, ObjectLines
  <2>7. ~AllObjects(g)
    BY <2>1, <2>4 DEF AllObjects
  <2>8. QED
    BY <2>5, <2>6, <2>7 DEF Wrote, Follows, g, p
<1>6. QED
  BY <1>1, <1>4, <1>5

\* Several records, each written and followed by its newline.
LEMMA AllWritten ==
  ASSUME NEW f \in Files(Record), NEW xs \in Seq(Record)
  PROVE  Wrote(WrittenAll(f, xs), f, xs)
<1>1. CASE xs = <<>>
  <2>1. WrittenAll(f, xs) = f
    BY <1>1 DEF WrittenAll
  <2>2. Len(xs) = 0 /\ DOMAIN xs = {} /\ Len(f.lines) \in Nat
    BY <1>1, FileShape
  <2>3. QED
    BY <2>1, <2>2 DEF Wrote, Follows
<1>2. CASE xs # <<>>
  <2> DEFINE x == Head(xs)
             h == Written(f, x)
             T == [k \in DOMAIN Tail(xs) |-> <<Piece(Tail(xs)[k], "whole")>>]
             g == WrittenAll(f, xs)
             n == Len(h.lines)
             L == Seq(Pieces(Record)) \ {<<>>}
  <2>1. /\ x \in Record /\ x = xs[1] /\ Len(xs) \in Nat \ {0} /\ DOMAIN xs = 1 .. Len(xs)
        /\ Tail(xs) \in Seq(Record) /\ Len(Tail(xs)) = Len(xs) - 1
        /\ DOMAIN Tail(xs) = 1 .. (Len(xs) - 1)
        /\ \A k \in 1 .. (Len(xs) - 1) : Tail(xs)[k] = xs[k + 1]
    BY <1>2
  <2>2. Wrote(h, f, <<x>>)
    BY <2>1, OneLine DEF Written
  <2>3. /\ h.lines \in Seq(L) /\ n \in Nat /\ DOMAIN h.lines = 1 .. n
    BY <2>2, FileShape DEF Wrote
  <2>4. /\ T \in Seq(L) /\ Len(T) = Len(xs) - 1
        /\ \A k \in 1 .. (Len(xs) - 1) : T[k] = <<Piece(xs[k + 1], "whole")>> /\ IsObject(T[k])
                                         /\ T[k][1].item = xs[k + 1]
    <3>1. ASSUME NEW k \in 1 .. (Len(xs) - 1)
          PROVE  /\ Tail(xs)[k] = xs[k + 1]
                 /\ <<Piece(xs[k + 1], "whole")>> \in L /\ IsObject(<<Piece(xs[k + 1], "whole")>>)
                 /\ <<Piece(xs[k + 1], "whole")>>[1].item = xs[k + 1]
      <4>1. xs[k + 1] \in Record
        BY <2>1
      <4>2. Piece(xs[k + 1], "whole") \in Pieces(Record)
        BY <4>1 DEF Piece, Pieces
      <4>3. QED
        BY <2>1, <4>2 DEF Piece, IsObject
    <3>2. T \in [1 .. (Len(xs) - 1) -> L]
      BY <2>1, <3>1
    <3>3. QED
      BY <2>1, <3>1, <3>2
  <2>5. g = [lines |-> h.lines \o T, ended |-> TRUE]
    BY <1>2 DEF WrittenAll
  <2> HIDE DEF T, h, g, x
  <2>6. /\ g.lines \in Seq(L) /\ Len(g.lines) = n + Len(xs) - 1
        /\ DOMAIN g.lines = 1 .. (n + Len(xs) - 1)
        /\ \A i \in 1 .. n : g.lines[i] = h.lines[i]
        /\ \A k \in 1 .. (Len(xs) - 1) : g.lines[n + k] = T[k]
    <3>1. g.lines = h.lines \o T
      BY <2>5
    <3> DEFINE m == Len(xs) - 1
    <3>2. m \in Nat /\ Len(T) = m
      BY <2>1, <2>4
    <3> HIDE DEF m
    <3>3. /\ h.lines \o T \in Seq(L) /\ Len(h.lines \o T) = n + m
          /\ \A i \in 1 .. (n + m) :
               (h.lines \o T)[i] = IF i <= n THEN h.lines[i] ELSE T[i - n]
      <4>1. T \in Seq(L) /\ n + m \in Nat
        BY ONLY <2>3, <2>4, <3>2
      <4>2. QED
        BY ONLY <2>3, <3>2, <4>1, ConcatProperties
    <3>4. g.lines \in Seq(L) /\ Len(g.lines) = n + m /\ DOMAIN g.lines = 1 .. (n + m)
      BY <3>1, <3>3
    <3>5. ASSUME NEW i \in 1 .. n PROVE g.lines[i] = h.lines[i]
      BY <2>3, <3>1, <3>2, <3>3
    <3>6. ASSUME NEW k \in 1 .. m PROVE g.lines[n + k] = T[k]
      <4>1. n + k \in 1 .. (n + m) /\ ~(n + k <= n) /\ (n + k) - n = k
        BY <2>3, <3>2
      <4>2. QED
        BY <3>1, <3>3, <4>1
    <3>7. n + m = n + Len(xs) - 1
      BY <2>1, <2>3 DEF m
    <3>8. QED
      BY <3>4, <3>5, <3>6, <3>7 DEF m
  <2>7. g \in Files(Record)
    BY <2>5, <2>6 DEF Files
  <2>8. ASSUME NEW i \in DOMAIN g.lines
        PROVE  \/ i \in 1 .. n
               \/ i - n \in 1 .. (Len(xs) - 1) /\ g.lines[i] = T[i - n]
    <3>1. i \in 1 .. n \/ i - n \in 1 .. (Len(xs) - 1)
      BY <2>1, <2>3, <2>6, <2>8
    <3>2. n + (i - n) = i
      BY <2>1, <2>3, <2>6, <2>8
    <3>3. QED
      BY <2>6, <3>1, <3>2
  <2>9. Objects(g) \subseteq Objects(f) \cup RangeOf(xs)
    <3>1. ASSUME NEW i \in ObjectLines(g)
          PROVE  ItemAt(g, i) \in Objects(f) \cup RangeOf(xs)
      <4>1. CASE i \in 1 .. n
        <5>1. i \in ObjectLines(h) /\ ItemAt(g, i) = ItemAt(h, i)
          BY <2>3, <2>6, <3>1, <4>1 DEF ObjectLines, ItemAt
        <5>2. ItemAt(g, i) \in Objects(f) \cup RangeOf(<<x>>)
          BY <2>2, <5>1 DEF Wrote, Objects, ItemAt
        <5>3. RangeOf(<<x>>) = {x} /\ x \in RangeOf(xs)
          BY <2>1 DEF RangeOf
        <5>4. QED
          BY <5>2, <5>3
      <4>2. CASE i - n \in 1 .. (Len(xs) - 1) /\ g.lines[i] = T[i - n]
        <5> DEFINE k == i - n
        <5>1. k \in 1 .. (Len(xs) - 1) /\ g.lines[i] = T[k]
          BY <4>2
        <5> HIDE DEF k
        <5>2. ItemAt(g, i) = xs[k + 1]
          BY <2>4, <5>1 DEF ItemAt
        <5>3. k + 1 \in DOMAIN xs
          BY ONLY <2>1, <5>1
        <5>4. QED
          BY <5>2, <5>3 DEF RangeOf
      <4>3. QED
        BY <2>8, <3>1, <4>1, <4>2 DEF ObjectLines
    <3>2. QED
      BY <3>1 DEF Objects, ItemAt
  <2>10. Follows(g, f, xs)
    <3> SUFFICES ASSUME AllObjects(g) PROVE
          /\ AllObjects(f) /\ Len(g.lines) = Len(f.lines) + Len(xs)
          /\ \A i \in DOMAIN f.lines : ItemAt(g, i) = ItemAt(f, i)
          /\ \A k \in DOMAIN xs : ItemAt(g, Len(f.lines) + k) = xs[k]
      BY DEF Follows
    <3>1. AllObjects(h)
      <4>1. ASSUME NEW i \in 1 .. n PROVE IsObject(h.lines[i])
        <5>1. i \in DOMAIN g.lines /\ g.lines[i] = h.lines[i]
          BY <2>1, <2>3, <2>6
        <5>2. QED
          BY <5>1 DEF AllObjects
      <4>2. QED
        BY <2>3, <4>1 DEF AllObjects
    <3>2. Len(<<x>>) = 1 /\ DOMAIN <<x>> = {1} /\ <<x>>[1] = x
      OBVIOUS
    <3>3. /\ AllObjects(f) /\ n = Len(f.lines) + 1
          /\ \A i \in DOMAIN f.lines : ItemAt(h, i) = ItemAt(f, i)
          /\ ItemAt(h, n) = x
      BY <2>2, <3>1, <3>2 DEF Wrote, Follows
    <3>4. Len(f.lines) \in Nat /\ DOMAIN f.lines = 1 .. Len(f.lines)
      BY FileShape
    <3>5. ASSUME NEW i \in DOMAIN f.lines PROVE ItemAt(g, i) = ItemAt(f, i)
      <4>1. i \in 1 .. n
        BY <3>3, <3>4
      <4>2. QED
        BY <2>6, <3>3, <4>1 DEF ItemAt
    <3>6. ASSUME NEW k \in DOMAIN xs PROVE ItemAt(g, Len(f.lines) + k) = xs[k]
      <4>1. CASE k = 1
        <5>1. n \in 1 .. n
          BY <3>3, <3>4
        <5>2. QED
          BY <2>1, <2>6, <3>3, <4>1, <5>1 DEF ItemAt
      <4>2. CASE k # 1
        <5>1. k - 1 \in 1 .. (Len(xs) - 1) /\ Len(f.lines) + k = n + (k - 1) /\ (k - 1) + 1 = k
          BY <2>1, <3>3, <3>4, <3>6, <4>2
        <5>2. QED
          BY <2>4, <2>6, <5>1 DEF ItemAt
      <4>3. QED
        BY <4>1, <4>2
    <3>7. QED
      BY <2>1, <2>6, <3>3, <3>4, <3>5, <3>6
  <2>11. QED
    BY <2>7, <2>9, <2>10 DEF Wrote, g
<1>3. QED
  BY <1>1, <1>2

-----------------------------------------------------------------------------
(* Calls *)

\* The records of a call carry on each other, and the first the last in memory.
Chained(xs) ==
  /\ xs \in Seq(Record)
  /\ \A k \in DOMAIN xs : xs[k].id = issued + k /\ xs[k].prev = PrevHash(k)

LEMMA Fronts ==
  ASSUME NEW xs, Chained(xs), NEW n \in 0 .. Len(xs)
  PROVE  /\ Chained(SubSeq(xs, 1, n)) /\ Len(SubSeq(xs, 1, n)) = n
         /\ DOMAIN SubSeq(xs, 1, n) = 1 .. n
         /\ \A k \in 1 .. n : SubSeq(xs, 1, n)[k] = xs[k]
<1>1. xs \in Seq(Record) /\ Len(xs) \in Nat /\ DOMAIN xs = 1 .. Len(xs) /\ n \in Nat /\ n <= Len(xs)
  BY DEF Chained
<1>2. \A k \in 1 .. n : k \in DOMAIN xs
  BY <1>1
<1> DEFINE ys == SubSeq(xs, 1, n)
<1>3. ys \in Seq(Record) /\ Len(ys) = n
  BY <1>1
<1>4. ASSUME NEW k \in 1 .. n PROVE ys[k] = xs[k]
  BY <1>1
<1> HIDE DEF ys
<1>5. DOMAIN ys = 1 .. n
  BY <1>3
<1>6. Chained(ys)
  BY <1>2, <1>3, <1>4, <1>5 DEF Chained
<1>7. QED
  BY <1>3, <1>4, <1>5, <1>6 DEF ys

\* An interrupted write leaves what its call wrote before, or that and its own
\* record, or a file that does not load.
LEMMA InterruptedWrite ==
  ASSUME NEW f \in Files(Record), NEW ys \in Seq(Record), NEW x \in Record,
         NEW xs \in Seq(Record),
         Len(xs) = Len(ys) + 1, \A k \in DOMAIN ys : xs[k] = ys[k], xs[Len(xs)] = x,
         NEW cuts \in SUBSET Cuts, NEW g \in Interrupted(WrittenAll(f, ys), x, cuts)
  PROVE  Wrote(g, f, ys) \/ Wrote(g, f, xs)
<1> DEFINE h == WrittenAll(f, ys)
<1>1. Wrote(h, f, ys)
  BY AllWritten
<1>2. h \in Files(Record)
  BY <1>1 DEF Wrote
<1>3. g = h \/ Wrote(g, h, <<x>>)
  <2>1. Wrote(Written(h, x), h, <<x>>)
    BY <1>2, OneLine DEF Written
  <2>2. \A kind \in cuts \cup {"whole"} :
          Wrote([lines |-> Continued(h, Piece(x, kind)), ended |-> FALSE], h, <<x>>)
    BY <1>2, OneLine
  <2>3. QED
    BY <2>1, <2>2 DEF Interrupted
<1> HIDE DEF h
<1>4. CASE g = h
  BY <1>1, <1>4
<1>5. CASE Wrote(g, h, <<x>>)
  <2>1. /\ Len(ys) \in Nat /\ DOMAIN ys = 1 .. Len(ys) /\ DOMAIN xs = 1 .. (Len(ys) + 1)
        /\ xs[Len(ys) + 1] = x
    OBVIOUS
  <2>2. RangeOf(<<x>>) = {x} /\ x \in RangeOf(xs) /\ RangeOf(ys) \subseteq RangeOf(xs)
    <3>1. RangeOf(<<x>>) = {x}
      BY DEF RangeOf
    <3>2. x \in RangeOf(xs)
      BY <2>1 DEF RangeOf
    <3>3. \A k \in DOMAIN ys : k \in DOMAIN xs
      BY <2>1
    <3>4. QED
      BY <3>1, <3>2, <3>3 DEF RangeOf
  <2>3. Objects(g) \subseteq Objects(f) \cup RangeOf(xs)
    BY <1>1, <1>5, <2>2 DEF Wrote
  <2>4. Follows(g, f, xs)
    <3> SUFFICES ASSUME AllObjects(g) PROVE
          /\ AllObjects(f) /\ Len(g.lines) = Len(f.lines) + Len(xs)
          /\ \A i \in DOMAIN f.lines : ItemAt(g, i) = ItemAt(f, i)
          /\ \A k \in DOMAIN xs : ItemAt(g, Len(f.lines) + k) = xs[k]
      BY DEF Follows
    <3>1. Len(<<x>>) = 1 /\ DOMAIN <<x>> = {1} /\ <<x>>[1] = x
      OBVIOUS
    <3>2. /\ AllObjects(h) /\ Len(g.lines) = Len(h.lines) + 1
          /\ \A i \in DOMAIN h.lines : ItemAt(g, i) = ItemAt(h, i)
          /\ ItemAt(g, Len(h.lines) + 1) = x
      BY <1>5, <3>1 DEF Wrote, Follows
    <3>3. /\ AllObjects(f) /\ Len(h.lines) = Len(f.lines) + Len(ys)
          /\ \A i \in DOMAIN f.lines : ItemAt(h, i) = ItemAt(f, i)
          /\ \A k \in DOMAIN ys : ItemAt(h, Len(f.lines) + k) = ys[k]
      BY <1>1, <3>2 DEF Wrote, Follows
    <3>4. /\ Len(f.lines) \in Nat /\ DOMAIN f.lines = 1 .. Len(f.lines)
          /\ Len(h.lines) \in Nat /\ DOMAIN h.lines = 1 .. Len(h.lines)
      BY <1>2, FileShape
    <3> DEFINE a == Len(f.lines)
               b == Len(ys)
    <3>5. /\ a \in Nat /\ b \in Nat /\ Len(h.lines) = a + b /\ Len(g.lines) = Len(h.lines) + 1
          /\ Len(xs) = b + 1
      BY <2>1, <3>2, <3>3, <3>4
    <3> HIDE DEF a, b
    <3>6. Len(g.lines) = a + Len(xs) /\ Len(h.lines) + 1 = a + (b + 1)
      BY <3>5
    <3>7. ASSUME NEW i \in DOMAIN f.lines PROVE ItemAt(g, i) = ItemAt(f, i)
      <4>1. i \in DOMAIN h.lines
        BY <2>1, <3>3, <3>4
      <4>2. QED
        BY <3>2, <3>3, <4>1
    <3>8. ASSUME NEW k \in DOMAIN xs PROVE ItemAt(g, Len(f.lines) + k) = xs[k]
      <4>1. CASE k \in DOMAIN ys
        <5>1. Len(f.lines) + k \in DOMAIN h.lines
          BY <2>1, <3>3, <3>4, <4>1
        <5>2. QED
          BY <3>2, <3>3, <4>1, <5>1
      <4>2. CASE k = Len(ys) + 1
        <5>1. Len(f.lines) + k = Len(h.lines) + 1
          BY <3>6, <4>2 DEF a, b
        <5>2. QED
          BY <2>1, <3>2, <4>2, <5>1
      <4>3. QED
        BY <2>1, <3>8, <4>1, <4>2
    <3>9. Len(g.lines) = Len(f.lines) + Len(xs)
      BY <3>6 DEF a
    <3>10. QED
      BY <3>3, <3>7, <3>8, <3>9
  <2>5. QED
    BY <1>5, <2>3, <2>4 DEF Wrote
<1>6. QED
  BY <1>3, <1>4, <1>5

\* The ends of lists and files.
LEMMA Ends ==
  ASSUME TypeOK, NEW xs, Chained(xs)
  PROVE  /\ EndOf(records) = PrevHash(1)
         /\ EndOf(records \o xs) = IF xs = <<>> THEN EndOf(records) ELSE xs[Len(xs)].id
<1>1. records \in Seq(Record) /\ xs \in Seq(Record)
  BY DEF TypeOK, Chained
<1>2. EndOf(records) = PrevHash(1)
  BY DEF EndOf, PrevHash
<1>3. CASE xs = <<>>
  BY <1>1, <1>2, <1>3
<1>4. CASE xs # <<>>
  <2> DEFINE n == Len(records)
             m == Len(xs)
  <2>1. n \in Nat /\ m \in Nat \ {0}
    BY <1>1, <1>4
  <2>2. /\ Len(records \o xs) = n + m
        /\ \A i \in 1 .. (n + m) :
             (records \o xs)[i] = IF i <= n THEN records[i] ELSE xs[i - n]
    BY <1>1, ConcatProperties
  <2> HIDE DEF n, m
  <2>3. n + m \in 1 .. (n + m) /\ ~(n + m <= n) /\ (n + m) - n = m
    BY <2>1
  <2>4. (records \o xs)[n + m] = xs[m]
    BY <2>2, <2>3
  <2>5. records \o xs # <<>>
    BY <2>1, <2>2
  <2>6. QED
    BY <1>2, <1>4, <2>2, <2>4, <2>5 DEF EndOf, m
<1>5. QED
  BY <1>3, <1>4

\* A list that a call goes on with keeps its records, and where its chain may break.
LEMMA ListGrows ==
  ASSUME LedgerInv, status = "up", NEW xs, Chained(xs)
  PROVE  /\ records \o xs \in Seq(Record)
         /\ RangeOf(records) \subseteq RangeOf(records \o xs)
         /\ RangeOf(xs) \subseteq RangeOf(records \o xs)
         /\ \A i \in DOMAIN (records \o xs) :
              \/ (records \o xs)[i].prev = IF i = 1 THEN 0 ELSE (records \o xs)[i - 1].id
              \/ (records \o xs)[i].prev \in unwritten
<1> DEFINE n == Len(records)
           m == Len(xs)
           s == records \o xs
<1>1. /\ records \in Seq(Record) /\ xs \in Seq(Record) /\ n \in Nat /\ m \in Nat
      /\ DOMAIN records = 1 .. n /\ DOMAIN xs = 1 .. m /\ issued \in Nat
  BY DEF LedgerInv, TypeOK, Chained
<1>2. /\ s \in Seq(Record) /\ Len(s) = n + m
      /\ \A i \in 1 .. (n + m) : s[i] = IF i <= n THEN records[i] ELSE xs[i - n]
  BY <1>1, ConcatProperties
<1>3. EndOf(records) = PrevHash(1) /\ (n # 0 => EndOf(records) = records[n].id)
  BY <1>1, Ends DEF LedgerInv, EndOf
<1>4. EndOf(records) = IF n = 0 THEN 0 ELSE records[n].id
  BY <1>1, <1>3 DEF EndOf
<1> HIDE DEF s, n, m
<1>5. DOMAIN s = 1 .. (n + m)
  BY <1>1, <1>2
<1>6. ASSUME NEW i \in 1 .. n PROVE i \in DOMAIN s /\ s[i] = records[i]
  BY <1>1, <1>2, <1>5
<1>7. ASSUME NEW k \in 1 .. m PROVE n + k \in DOMAIN s /\ s[n + k] = xs[k]
  <2>1. n + k \in 1 .. (n + m) /\ ~(n + k <= n) /\ (n + k) - n = k
    BY <1>1
  <2>2. QED
    BY <1>2, <1>5, <2>1
<1>8. RangeOf(records) \subseteq RangeOf(s) /\ RangeOf(xs) \subseteq RangeOf(s)
  BY <1>1, <1>6, <1>7 DEF RangeOf
<1>9. ASSUME NEW i \in DOMAIN s
      PROVE  s[i].prev = (IF i = 1 THEN 0 ELSE s[i - 1].id) \/ s[i].prev \in unwritten
  <2>1. CASE i \in 1 .. n
    <3>1. i = 1 \/ i - 1 \in 1 .. n
      BY <1>1, <2>1
    <3>2. records[i].prev = (IF i = 1 THEN 0 ELSE records[i - 1].id) \/ records[i].prev \in unwritten
      BY <1>1, <2>1 DEF LedgerInv, ChainBreaksAtALoss, ChainHolds
    <3>3. QED
      BY <1>6, <2>1, <3>1, <3>2
  <2>2. CASE i = n + 1
    <3>1. 1 \in 1 .. m
      BY <1>1, <1>5, <1>9, <2>2
    <3>2. s[i] = xs[1] /\ xs[1].prev = EndOf(records)
      BY <1>1, <1>3, <1>7, <2>2, <3>1 DEF Chained
    <3>3. i = 1 <=> n = 0
      BY <1>1, <2>2
    <3>4. n # 0 => n \in 1 .. n /\ i - 1 = n
      BY <1>1, <2>2
    <3>5. QED
      BY <1>4, <1>6, <3>2, <3>3, <3>4
  <2>3. CASE i \notin 1 .. (n + 1)
    <3> DEFINE k == i - n
    <3>1. k \in 1 .. m /\ k - 1 \in 1 .. m /\ k > 1 /\ i = n + k /\ i - 1 = n + (k - 1) /\ i # 1
      BY <1>1, <1>5, <1>9, <2>3
    <3> HIDE DEF k
    <3>2. s[i] = xs[k] /\ s[i - 1] = xs[k - 1]
      BY <1>7, <3>1
    <3>3. xs[k].prev = issued + k - 1 /\ xs[k - 1].id = issued + (k - 1)
      BY <1>1, <3>1 DEF Chained, PrevHash
    <3>4. issued + k - 1 = issued + (k - 1)
      BY <1>1, <3>1
    <3>5. QED
      BY <3>1, <3>2, <3>3, <3>4
  <2>4. QED
    BY <1>1, <1>5, <1>9, <2>1, <2>2, <2>3
<1>10. QED
  BY <1>2, <1>8, <1>9 DEF s

\* The same of a file that the call's records were written to.
LEMMA FileGrows ==
  ASSUME LedgerInv, status = "up", NEW xs, Chained(xs), NEW g, Wrote(g, file, xs), AllObjects(g)
  PROVE  /\ Objects(file) \cup RangeOf(xs) \subseteq Objects(g)
         /\ returned \subseteq Objects(g)
         /\ EndOfFile(g) = IF xs = <<>> THEN EndOfFile(file) ELSE xs[Len(xs)].id
         /\ \A i \in DOMAIN g.lines :
              \/ ItemAt(g, i).prev = IF i = 1 THEN 0 ELSE ItemAt(g, i - 1).id
              \/ ItemAt(g, i).prev \in unwritten
<1> DEFINE n == Len(file.lines)
           m == Len(xs)
<1>1. /\ xs \in Seq(Record) /\ m \in Nat /\ DOMAIN xs = 1 .. m /\ issued \in Nat
      /\ n \in Nat /\ DOMAIN file.lines = 1 .. n /\ Len(g.lines) \in Nat
      /\ DOMAIN g.lines = 1 .. Len(g.lines)
  BY FileShape DEF LedgerInv, TypeOK, Chained, Wrote
<1>2. /\ AllObjects(file) /\ Len(g.lines) = n + m
      /\ \A i \in 1 .. n : ItemAt(g, i) = ItemAt(file, i)
      /\ \A k \in 1 .. m : ItemAt(g, n + k) = xs[k]
  BY <1>1 DEF Wrote, Follows
<1>3. DOMAIN g.lines = 1 .. (n + m) /\ ObjectLines(g) = 1 .. (n + m) /\ ObjectLines(file) = 1 .. n
  BY <1>1, <1>2 DEF AllObjects, ObjectLines
<1>4. EndOf(records) = PrevHash(1)
  BY Ends DEF LedgerInv
<1>5. EndOf(records) = EndOfFile(file) \/ EndOf(records) \in unwritten
  BY <1>2 DEF LedgerInv, EndsMatch
<1>6. EndOfFile(file) = (IF n = 0 THEN 0 ELSE ItemAt(file, n).id) /\ (g.lines = <<>> <=> n + m = 0)
      /\ (xs = <<>> <=> m = 0)
  BY <1>1, <1>2, FileShape DEF EndOfFile, LedgerInv, TypeOK, Wrote
<1>7. EndOfFile(g) = IF n + m = 0 THEN 0 ELSE ItemAt(g, n + m).id
  BY <1>2, <1>6 DEF EndOfFile
<1> HIDE DEF n, m
<1>8. Objects(file) \subseteq Objects(g)
  <2>1. ASSUME NEW i \in 1 .. n PROVE ItemAt(file, i) \in Objects(g)
    <3>1. i \in 1 .. (n + m)
      BY <1>1
    <3>2. QED
      BY <1>2, <1>3, <3>1 DEF Objects, ItemAt
  <2>2. QED
    BY <1>3, <2>1 DEF Objects, ItemAt
<1>9. RangeOf(xs) \subseteq Objects(g)
  <2>1. ASSUME NEW k \in 1 .. m PROVE xs[k] \in Objects(g)
    <3>1. n + k \in 1 .. (n + m)
      BY <1>1
    <3>2. QED
      BY <1>2, <1>3, <3>1 DEF Objects, ItemAt
  <2>2. QED
    BY <1>1, <2>1 DEF RangeOf
<1>10. returned \subseteq Objects(g)
  BY <1>2, <1>8 DEF LedgerInv, FileKeeps
<1>11. EndOfFile(g) = IF xs = <<>> THEN EndOfFile(file) ELSE xs[m].id
  <2>1. CASE m = 0
    <3>1. n + m = n /\ (n # 0 => n \in 1 .. n)
      BY <1>1, <2>1
    <3>2. QED
      BY <1>2, <1>6, <1>7, <2>1, <3>1
  <2>2. CASE m # 0
    <3>1. n + m # 0 /\ m \in 1 .. m
      BY <1>1, <2>2
    <3>2. QED
      BY <1>2, <1>6, <1>7, <2>2, <3>1
  <2>3. QED
    BY <2>1, <2>2
<1>12. ASSUME NEW i \in DOMAIN g.lines
       PROVE  \/ ItemAt(g, i).prev = IF i = 1 THEN 0 ELSE ItemAt(g, i - 1).id
              \/ ItemAt(g, i).prev \in unwritten
  <2>1. CASE i \in 1 .. n
    <3>1. i = 1 \/ i - 1 \in 1 .. n
      BY <1>1, <2>1
    <3>2. \/ ItemAt(file, i).prev = IF i = 1 THEN 0 ELSE ItemAt(file, i - 1).id
          \/ ItemAt(file, i).prev \in unwritten
      BY <1>1, <1>2, <2>1 DEF LedgerInv, FileLinked, n
    <3>3. QED
      BY <1>2, <2>1, <3>1, <3>2
  <2>2. CASE i = n + 1
    <3>1. 1 \in 1 .. m
      BY <1>1, <1>3, <1>12, <2>2
    <3>2. ItemAt(g, i) = xs[1] /\ xs[1].prev = EndOf(records)
      BY <1>1, <1>2, <1>4, <2>2, <3>1 DEF Chained
    <3>3. i = 1 <=> n = 0
      BY <1>1, <2>2
    <3>4. n # 0 => n \in 1 .. n /\ i - 1 = n
      BY <1>1, <2>2
    <3>5. QED
      BY <1>2, <1>5, <1>6, <3>2, <3>3, <3>4
  <2>3. CASE i \notin 1 .. (n + 1)
    <3> DEFINE k == i - n
    <3>1. k \in 1 .. m /\ k - 1 \in 1 .. m /\ k > 1 /\ i = n + k /\ i - 1 = n + (k - 1) /\ i # 1
      BY <1>1, <1>3, <1>12, <2>3
    <3> HIDE DEF k
    <3>2. ItemAt(g, i) = xs[k] /\ ItemAt(g, i - 1) = xs[k - 1]
      BY <1>2, <3>1
    <3>3. xs[k].prev = issued + k - 1 /\ xs[k - 1].id = issued + (k - 1)
      BY <1>1, <3>1 DEF Chained, PrevHash
    <3>4. issued + k - 1 = issued + (k - 1)
      BY <1>1, <3>1
    <3>5. QED
      BY <3>1, <3>2, <3>3, <3>4
  <2>4. QED
    BY <1>1, <1>3, <1>12, <2>1, <2>2, <2>3
<1>13. QED
  BY <1>8, <1>9, <1>10, <1>11, <1>12 DEF m

LEMMA AllAppended ==
  ASSUME LedgerInv, NEW xs, Chained(xs), NEW raises \in BOOLEAN, Append_All(xs, raises)
  PROVE  LedgerInv'
<1>1. /\ status = "up" /\ status' = "up" /\ records' = records \o xs
      /\ file' = WrittenAll(file, xs) /\ issued' = issued + Len(xs)
      /\ returned \subseteq returned' /\ returned' \subseteq returned \cup RangeOf(xs)
      /\ torn' = torn /\ unwritten' = unwritten
  BY DEF Append_All, Makes, Appended
<1>2. /\ xs \in Seq(Record) /\ Len(xs) \in Nat /\ file \in Files(Record) /\ issued \in Nat
      /\ RangeOf(xs) \subseteq Record /\ unwritten \subseteq 1 .. issued
  BY DEF LedgerInv, TypeOK, Chained, RangeOf
<1>3. Wrote(file', file, xs)
  BY <1>1, <1>2, AllWritten
<1>4. /\ records' \in Seq(Record) /\ RangeOf(records) \cup RangeOf(xs) \subseteq RangeOf(records')
  BY <1>1, ListGrows
<1>5. ChainBreaksAtALoss'
  BY <1>1, ListGrows DEF ChainBreaksAtALoss, ChainHolds
<1>6. TypeOK'
  <2>1. Objects(file') \subseteq RangeOf(records')
    BY <1>1, <1>3, <1>4 DEF Wrote, LedgerInv, TypeOK
  <2>2. issued' \in Nat /\ unwritten' \subseteq 1 .. issued'
    BY <1>1, <1>2
  <2>3. file' \in Files(Record)
    BY <1>3 DEF Wrote
  <2>4. QED
    BY <1>1, <1>2, <1>4, <2>1, <2>2, <2>3 DEF LedgerInv, TypeOK
<1>7. ReturnedSurvives'
  BY <1>1, <1>4 DEF LedgerInv, ReturnedSurvives
<1>8. FileKeeps' /\ FileLinked'
  BY <1>1, <1>3, FileGrows DEF FileKeeps, FileLinked
<1>9. EndsMatch'
  <2> SUFFICES ASSUME AllObjects(file')
               PROVE  EndOf(records') = EndOfFile(file') \/ EndOf(records') \in unwritten
    BY <1>1 DEF EndsMatch
  <2>1. EndOfFile(file') = IF xs = <<>> THEN EndOfFile(file) ELSE xs[Len(xs)].id
    BY <1>1, <1>3, FileGrows
  <2>2. EndOf(records') = IF xs = <<>> THEN EndOf(records) ELSE xs[Len(xs)].id
    BY <1>1, Ends DEF LedgerInv
  <2>3. AllObjects(file)
    BY <1>3 DEF Wrote, Follows
  <2>4. EndOf(records) = EndOfFile(file) \/ EndOf(records) \in unwritten
    BY <1>1, <2>3 DEF LedgerInv, EndsMatch
  <2>5. QED
    BY <2>1, <2>2, <2>4
<1>10. QED
  BY <1>5, <1>6, <1>7, <1>8, <1>9 DEF LedgerInv

\* What the interrupted write of a call leaves on file, whatever becomes of the process.
LEMMA Interruption ==
  ASSUME LedgerInv, status = "up", NEW xs, Chained(xs), Interrupts(xs)
  PROVE  /\ Len(xs) \in Nat \ {0} /\ torn' \in Nat
         /\ file' \in Files(Record)
         /\ Objects(file') \subseteq Objects(file) \cup RangeOf(xs)
         /\ AllObjects(file') => returned \subseteq Objects(file')
         /\ AllObjects(file') => \A i \in DOMAIN file'.lines :
              \/ ItemAt(file', i).prev = IF i = 1 THEN 0 ELSE ItemAt(file', i - 1).id
              \/ ItemAt(file', i).prev \in unwritten
<1> DEFINE m == Len(xs)
           ys == SubSeq(xs, 1, m - 1)
<1>1. xs \in Seq(Record) /\ xs # <<>> /\ m \in Nat \ {0} /\ DOMAIN xs = 1 .. m /\ xs[m] \in Record
  BY DEF Chained, Interrupts
<1>2. m - 1 \in 0 .. m /\ m - 1 \in Nat /\ (m - 1) + 1 = m
  BY <1>1
<1>3. /\ Chained(ys) /\ Len(ys) = m - 1 /\ DOMAIN ys = 1 .. (m - 1)
      /\ \A k \in 1 .. (m - 1) : ys[k] = xs[k]
  BY <1>2, Fronts
<1>4. /\ torn' = torn + 1 /\ torn \in Nat
      /\ file' \in Interrupted(WrittenAll(file, ys), xs[m], IF Encoded THEN Cuts ELSE {"part"})
  BY DEF Interrupts, LedgerInv, TypeOK
<1>5. (IF Encoded THEN Cuts ELSE {"part"}) \in SUBSET Cuts
  BY DEF Cuts
<1>6. file \in Files(Record) /\ ys \in Seq(Record)
  BY <1>3 DEF LedgerInv, TypeOK, Chained
<1> HIDE DEF ys
<1>7. Wrote(file', file, ys) \/ Wrote(file', file, xs)
  BY <1>1, <1>2, <1>3, <1>4, <1>5, <1>6, InterruptedWrite
<1>8. RangeOf(ys) \subseteq RangeOf(xs)
  <2>1. \A k \in 1 .. (m - 1) : k \in 1 .. m
    BY <1>1
  <2>2. QED
    BY <1>1, <1>3, <2>1 DEF RangeOf
<1>9. file' \in Files(Record) /\ Objects(file') \subseteq Objects(file) \cup RangeOf(xs)
  BY <1>7, <1>8 DEF Wrote
<1>10. ASSUME AllObjects(file')
       PROVE  /\ returned \subseteq Objects(file')
              /\ \A i \in DOMAIN file'.lines :
                   \/ ItemAt(file', i).prev = IF i = 1 THEN 0 ELSE ItemAt(file', i - 1).id
                   \/ ItemAt(file', i).prev \in unwritten
  BY <1>3, <1>7, <1>10, FileGrows
<1>11. QED
  BY <1>1, <1>4, <1>9, <1>10

LEMMA AppendRaised ==
  ASSUME LedgerInv, NEW xs, Chained(xs), Append_Raises(xs)
  PROVE  LedgerInv'
<1>1. /\ status = "up" /\ status' = "up" /\ records' = records \o xs /\ issued' = issued + Len(xs)
      /\ unwritten' = unwritten \cup {xs[Len(xs)].id} /\ returned' = returned /\ Interrupts(xs)
  BY DEF Append_Raises, Makes, Appended
<1>2. /\ xs # <<>> /\ xs \in Seq(Record) /\ Len(xs) \in DOMAIN xs /\ issued \in Nat
      /\ Len(xs) \in Nat \ {0} /\ unwritten \subseteq 1 .. issued
  BY <1>1 DEF LedgerInv, TypeOK, Chained, Interrupts
<1>3. xs[Len(xs)].id = issued + Len(xs)
  BY <1>2 DEF Chained
<1>4. /\ records' \in Seq(Record) /\ RangeOf(records) \cup RangeOf(xs) \subseteq RangeOf(records')
  BY <1>1, ListGrows
<1>5. ChainBreaksAtALoss'
  BY <1>1, ListGrows DEF ChainBreaksAtALoss, ChainHolds
<1>6. TypeOK'
  <2>1. issued' \in Nat /\ unwritten' \subseteq 1 .. issued'
    <3>1. issued + Len(xs) \in 1 .. (issued + Len(xs))
      BY <1>2
    <3>2. ASSUME NEW u \in 1 .. issued PROVE u \in 1 .. (issued + Len(xs))
      BY <1>2
    <3>3. unwritten \cup {issued + Len(xs)} \subseteq 1 .. (issued + Len(xs))
      BY <1>2, <3>1, <3>2
    <3>4. unwritten' = unwritten \cup {issued + Len(xs)}
      BY <1>1, <1>3
    <3>5. issued' \in Nat
      BY <1>1, <1>2
    <3>6. QED
      BY <1>1, <3>3, <3>4, <3>5
  <2>2. file' \in Files(Record) /\ torn' \in Nat /\ Objects(file') \subseteq RangeOf(records')
    BY <1>1, <1>4, Interruption DEF LedgerInv, TypeOK
  <2>3. QED
    BY <1>1, <1>4, <2>1, <2>2 DEF LedgerInv, TypeOK
<1>7. ReturnedSurvives'
  BY <1>1, <1>4 DEF LedgerInv, ReturnedSurvives
<1>8. FileKeeps' /\ FileLinked'
  BY <1>1, Interruption DEF FileKeeps, FileLinked
<1>9. EndsMatch'
  <2>1. EndOf(records') = xs[Len(xs)].id
    BY <1>1, <1>2, Ends DEF LedgerInv
  <2>2. QED
    BY <1>1, <2>1 DEF EndsMatch
<1>10. QED
  BY <1>5, <1>6, <1>7, <1>8, <1>9 DEF LedgerInv

LEMMA AppendDied ==
  ASSUME LedgerInv, NEW xs, Chained(xs), Append_Dies(xs)
  PROVE  LedgerInv'
<1>1. /\ status = "up" /\ status' = "down" /\ records' = <<>> /\ issued' = issued + Len(xs)
      /\ unwritten' = unwritten /\ returned' = returned /\ Interrupts(xs)
  BY DEF Append_Dies, Makes
<1>2. /\ file' \in Files(Record) /\ torn' \in Nat /\ Len(xs) \in Nat /\ issued \in Nat
      /\ unwritten \subseteq 1 .. issued
  BY <1>1, Interruption DEF LedgerInv, TypeOK
<1>3. TypeOK'
  <2>1. issued' \in Nat /\ unwritten' \subseteq 1 .. issued'
    BY <1>1, <1>2
  <2>2. QED
    BY <1>1, <1>2, <2>1 DEF LedgerInv, TypeOK
<1>4. FileKeeps' /\ FileLinked'
  BY <1>1, Interruption DEF FileKeeps, FileLinked
<1>5. ReturnedSurvives' /\ ChainBreaksAtALoss' /\ EndsMatch'
  BY <1>1 DEF ReturnedSurvives, ChainBreaksAtALoss, EndsMatch
<1>6. QED
  BY <1>3, <1>4, <1>5 DEF LedgerInv

\* A call that appends a chain of records, one by one, keeps the invariant however it ends.
LEMMA CallStep ==
  ASSUME LedgerInv, NEW xs, Chained(xs), NEW raises \in BOOLEAN, Call(xs, raises)
  PROVE  LedgerInv'
<1>1. CASE Append_All(xs, raises)
  BY <1>1, AllAppended
<1>2. ASSUME NEW n \in DOMAIN xs,
             Append_Raises(SubSeq(xs, 1, n)) \/ Append_Dies(SubSeq(xs, 1, n))
      PROVE  LedgerInv'
  <2>1. n \in 0 .. Len(xs)
    BY <1>2 DEF Chained
  <2>2. Chained(SubSeq(xs, 1, n))
    BY <2>1, Fronts
  <2>3. QED
    BY <1>2, <2>2, AppendRaised, AppendDied
<1>3. QED
  BY <1>1, <1>2 DEF Call

-----------------------------------------------------------------------------
(* Steps *)

LEMMA SealedIsRecord ==
  ASSUME TypeOK, NEW k \in Nat \ {0}, NEW t \in Tasks, NEW type \in Types, NEW passed \in BOOLEAN,
         NEW st \in {"draft", "complete"}, NEW refs \in Nat \cup {None}
  PROVE  /\ Sealed(k, t, type, passed, st, refs) \in Record
         /\ Sealed(k, t, type, passed, st, refs).id = issued + k
         /\ Sealed(k, t, type, passed, st, refs).prev = PrevHash(k)
<1>1. issued \in Nat /\ records \in Seq(Record)
  BY DEF TypeOK
<1>2. PrevHash(k) \in Nat
  <2>1. CASE k > 1
    BY <1>1, <2>1 DEF PrevHash
  <2>2. CASE ~(k > 1)
    <3>1. records # <<>> => records[Len(records)] \in Record
      BY <1>1
    <3>2. QED
      BY <2>2, <3>1 DEF PrevHash, Record
  <2>3. QED
    BY <2>1, <2>2
<1>3. issued + k \in Nat
  BY <1>1
<1>4. QED
  BY <1>2, <1>3 DEF Sealed, Record

LEMMA OneSealed ==
  ASSUME TypeOK, NEW t \in Tasks, NEW type \in Types, NEW passed \in BOOLEAN,
         NEW st \in {"draft", "complete"}, NEW refs \in Nat \cup {None}
  PROVE  Chained(<<Sealed(1, t, type, passed, st, refs)>>)
<1> DEFINE r == Sealed(1, t, type, passed, st, refs)
<1>1. r \in Record /\ r.id = issued + 1 /\ r.prev = PrevHash(1)
  BY SealedIsRecord
<1> HIDE DEF r
<1>2. <<r>> \in Seq(Record) /\ DOMAIN <<r>> = {1} /\ <<r>>[1] = r
  BY <1>1
<1>3. QED
  BY <1>1, <1>2 DEF Chained, r

LEMMA OutputStep ==
  ASSUME LedgerInv, NEW o \in Outputs, record_output(o)
  PROVE  LedgerInv'
<1>1. /\ o.team \in DOMAIN OutputTypes /\ o.task \in Tasks /\ o.items \in Seq(Items)
  BY CallsAssumption
<1>2. PICK n \in 0 .. Len(o.items) :
        /\ Accepted(o, n)
        /\ Call([k \in 1 .. n |->
                   Sealed(k, o.task, o.items[k].type, o.items[k].passed, "complete", None)],
                n < Len(o.items))
  BY DEF record_output
<1> DEFINE xs == [k \in 1 .. n |->
                    Sealed(k, o.task, o.items[k].type, o.items[k].passed, "complete", None)]
<1>3. n \in Nat /\ n <= Len(o.items) /\ Len(o.items) \in Nat /\ DOMAIN o.items = 1 .. Len(o.items)
  BY <1>1
<1>4. ASSUME NEW k \in 1 .. n
      PROVE  xs[k] \in Record /\ xs[k].id = issued + k /\ xs[k].prev = PrevHash(k)
  <2>1. o.items[k] \in Items /\ k \in Nat \ {0}
    BY <1>1, <1>3
  <2>2. o.items[k].type \in OutputTypes[o.team] /\ o.items[k].passed \in BOOLEAN
    BY <1>2, <2>1 DEF Accepted, Refused, Items
  <2>3. o.items[k].type \in Types
    BY <1>1, <2>2 DEF Types
  <2> DEFINE r == Sealed(k, o.task, o.items[k].type, o.items[k].passed, "complete", None)
  <2>4. xs[k] = r
    OBVIOUS
  <2>5. "complete" \in {"draft", "complete"} /\ None \in Nat \cup {None}
    OBVIOUS
  <2> HIDE DEF xs
  <2>6. r \in Record /\ r.id = issued + k /\ r.prev = PrevHash(k)
    BY <1>1, <2>1, <2>2, <2>3, <2>5, SealedIsRecord DEF LedgerInv
  <2>7. QED
    BY <2>4, <2>6
<1>5. Chained(xs)
  <2>1. DOMAIN xs = 1 .. n
    OBVIOUS
  <2> HIDE DEF xs
  <2>2. xs \in Seq(Record)
    <3>1. xs = [k \in 1 .. n |-> xs[k]]
      BY <2>1 DEF xs
    <3>2. QED
      BY <1>3, <1>4, <3>1
  <2>3. QED
    BY <1>4, <2>1, <2>2 DEF Chained
<1>6. (n < Len(o.items)) \in BOOLEAN /\ Call(xs, n < Len(o.items))
  BY <1>2, <1>3
<1> HIDE DEF xs
<1>7. QED
  BY <1>5, <1>6, CallStep

\* What a file that loads makes of the list.
LEMMA LoadedList ==
  ASSUME LedgerInv, Loads(file)
  PROVE  /\ AllObjects(file) /\ Loaded(file) \in Seq(Record)
         /\ RangeOf(Loaded(file)) = Objects(file)
         /\ DOMAIN Loaded(file) = DOMAIN file.lines
         /\ \A i \in DOMAIN file.lines : Loaded(file)[i] = ItemAt(file, i)
         /\ EndOf(Loaded(file)) = EndOfFile(file)
<1> DEFINE n == Len(file.lines)
<1>1. /\ file \in Files(Record) /\ n \in Nat /\ DOMAIN file.lines = 1 .. n
      /\ Objects(file) \subseteq Record /\ file.lines \in Seq(Seq(Pieces(Record)) \ {<<>>})
  BY FileShape DEF LedgerInv, TypeOK
<1>2. AllObjects(file) /\ ObjectLines(file) = 1 .. n
  BY <1>1 DEF Loads, AllObjects, ObjectLines
<1>3. DOMAIN Loaded(file) = 1 .. n /\ \A i \in 1 .. n : Loaded(file)[i] = ItemAt(file, i)
  BY <1>2 DEF Loaded, ItemAt
<1>4. RangeOf(Loaded(file)) = Objects(file)
  BY <1>2, <1>3 DEF RangeOf, Objects, ItemAt
<1>5. \A i \in 1 .. n : Loaded(file)[i] \in Record
  BY <1>1, <1>3, <1>4 DEF RangeOf
<1>6. Loaded(file) = [i \in 1 .. n |-> Loaded(file)[i]]
  BY <1>2 DEF Loaded
<1> DEFINE L == Loaded(file)
<1> HIDE DEF n, L
<1>7. L \in Seq(Record) /\ Len(L) = n
  <2>1. L = [i \in 1 .. n |-> L[i]] /\ \A i \in 1 .. n : L[i] \in Record
    BY <1>5, <1>6 DEF L
  <2>2. L \in [1 .. n -> Record] /\ n \in Nat
    BY <1>1, <2>1
  <2>3. QED
    BY <2>2
<1>8. EndOf(L) = EndOfFile(file)
  <2>1. (L = <<>> <=> n = 0) /\ (file.lines = <<>> <=> n = 0)
    BY <1>1, <1>7 DEF n
  <2>2. n # 0 => n \in 1 .. n
    BY <1>1
  <2>3. QED
    BY <1>3, <1>7, <2>1, <2>2 DEF EndOf, EndOfFile, n, L
<1>9. QED
  BY <1>1, <1>2, <1>3, <1>4, <1>7, <1>8 DEF L

LEMMA OpenStep ==
  ASSUME LedgerInv, Open
  PROVE  LedgerInv'
<1>1. /\ status = "down" /\ file' = file /\ issued' = issued /\ returned' = returned
      /\ torn' = torn /\ unwritten' = unwritten
  BY DEF Open
<1>2. FileKeeps' /\ FileLinked'
  BY <1>1 DEF LedgerInv, FileKeeps, FileLinked
<1>3. CASE Loads(file)
  <2>1. status' = "up" /\ records' = Loaded(file)
    BY <1>3 DEF Open
  <2>2. TypeOK'
    BY <1>1, <1>3, <2>1, LoadedList DEF LedgerInv, TypeOK
  <2>3. ReturnedSurvives'
    BY <1>1, <1>3, <2>1, LoadedList DEF LedgerInv, FileKeeps, ReturnedSurvives
  <2>4. ChainBreaksAtALoss'
    <3>1. ASSUME NEW i \in DOMAIN file.lines
          PROVE  \/ Loaded(file)[i].prev = IF i = 1 THEN 0 ELSE Loaded(file)[i - 1].id
                 \/ Loaded(file)[i].prev \in unwritten
      <4>1. DOMAIN file.lines = 1 .. Len(file.lines) /\ Len(file.lines) \in Nat
        BY FileShape DEF LedgerInv, TypeOK
      <4>2. i = 1 \/ i - 1 \in DOMAIN file.lines
        BY <3>1, <4>1
      <4>3. QED
        BY <1>3, <3>1, <4>2, LoadedList DEF LedgerInv, FileLinked
    <3>2. QED
      BY <1>1, <1>3, <2>1, <3>1, LoadedList DEF ChainBreaksAtALoss, ChainHolds
  <2>5. EndsMatch'
    BY <1>1, <1>3, <2>1, LoadedList DEF EndsMatch
  <2>6. QED
    BY <1>2, <2>2, <2>3, <2>4, <2>5 DEF LedgerInv
<1>4. CASE ~Loads(file)
  <2>1. status' = "refused" /\ records' = <<>>
    BY <1>4 DEF Open
  <2>2. QED
    BY <1>1, <1>2, <2>1
       DEF LedgerInv, TypeOK, ReturnedSurvives, ChainBreaksAtALoss, EndsMatch
<1>5. QED
  BY <1>3, <1>4

LEMMA NextKeeps ==
  ASSUME LedgerInv, [Next]_vars
  PROVE  LedgerInv'
<1>1. ASSUME NEW o \in Outputs, record_output(o) PROVE LedgerInv'
  BY <1>1, OutputStep
<1>2. ASSUME NEW d \in Drafts, NEW p \in BOOLEAN, append_draft(d[1], d[2], p) PROVE LedgerInv'
  <2>1. d[1] \in Tasks /\ d[2] \in Types
    BY CallsAssumption
  <2>2. Chained(<<Sealed(1, d[1], d[2], p, "draft", None)>>)
    BY <2>1, OneSealed DEF LedgerInv
  <2>3. QED
    BY <1>2, <2>2, CallStep DEF append_draft
<1>3. ASSUME NEW r \in RangeOf(records), NEW p \in BOOLEAN, complete_evidence(r, p) PROVE LedgerInv'
  <2>1. r \in Record
    BY DEF LedgerInv, TypeOK, RangeOf
  <2>2. r.task \in Tasks /\ r.type \in Types /\ r.id \in Nat \cup {None}
    BY <2>1 DEF Record
  <2>3. Chained(<<Sealed(1, r.task, r.type, p, "complete", r.id)>>)
    BY <2>2, OneSealed DEF LedgerInv
  <2>4. QED
    BY <1>3, <2>3, CallStep DEF complete_evidence
<1>4. CASE Stop
  BY <1>4 DEF Stop, LedgerInv, TypeOK, ReturnedSurvives, ChainBreaksAtALoss, FileKeeps,
              FileLinked, EndsMatch
<1>5. CASE Open
  BY <1>5, OpenStep
<1>6. CASE UNCHANGED vars
  BY <1>6 DEF vars, LedgerInv, TypeOK, ReturnedSurvives, ChainBreaksAtALoss, ChainHolds, FileKeeps,
              FileLinked, EndsMatch
<1>7. QED
  BY <1>1, <1>2, <1>3, <1>4, <1>5, <1>6 DEF Next

LEMMA InitHolds ==
  ASSUME Init
  PROVE  LedgerInv
<1>1. /\ file.lines = <<>> /\ file.ended = TRUE /\ DOMAIN file.lines = {} /\ file \in Files(Record)
  BY DEF Init, EmptyFile, Files
<1>2. Objects(file) = {}
  BY <1>1 DEF Objects, ObjectLines
<1>3. DOMAIN records = {} /\ records \in Seq(Record)
  BY DEF Init
<1>4. EndOf(records) = EndOfFile(file)
  BY <1>1 DEF Init, EndOf, EndOfFile
<1>5. QED
  BY <1>1, <1>2, <1>3, <1>4 DEF Init, LedgerInv, TypeOK, ReturnedSurvives, ChainBreaksAtALoss,
                                FileKeeps, FileLinked, EndsMatch

-----------------------------------------------------------------------------
(* Results *)

\* The ledger, its file and what callers were told stay consistent through failed
\* writes, deaths and restarts: the file of a ledger that still loads has every
\* record a caller was told of, and memory carries the chain on where it ends.
THEOREM LedgerInvHolds == Spec => []LedgerInv
<1>1. Init => LedgerInv
  BY InitHolds
<1>2. LedgerInv /\ [Next]_vars => LedgerInv'
  BY NextKeeps
<1>3. QED
  BY <1>1, <1>2, PTL DEF Spec

\* Every variable holds a value of its kind, and a running process holds every
\* record that EvidenceLedger can read from its file.
THEOREM EvidenceTypes == Spec => []TypeOK
<1>1. LedgerInv => TypeOK
  BY DEF LedgerInv
<1>2. QED
  BY <1>1, LedgerInvHolds, PTL

\* A record that some caller of EvidenceLedger.append was told of is in the list of
\* every process that gets the ledger open, however many writes failed or died.
THEOREM RecordsSurvive == Spec => []ReturnedSurvives
<1>1. LedgerInv => ReturnedSurvives
  BY DEF LedgerInv
<1>2. QED
  BY <1>1, LedgerInvHolds, PTL

\* What has_evidence and verification_passing said of a record its caller was told of
\* they say in every later process: evidence stays, and so does a failed test result.
THEOREM GateAnswersHold == Spec => []GateAnswersStand
<1>1. LedgerInv => GateAnswersStand
  <2> SUFFICES ASSUME LedgerInv, status = "up", NEW r \in returned
               PROVE  /\ has_evidence(r.task, r.type)
                      /\ (r.type = "test_result" /\ ~r.passed) => ~verification_passing(r.task)
    BY DEF GateAnswersStand
  <2>1. r \in RangeOf(records)
    BY DEF LedgerInv, ReturnedSurvives
  <2>2. PICK i \in DOMAIN records : records[i] = r
    BY <2>1 DEF RangeOf
  <2>3. r.type = "test_result" => i \in TestResults(r.task)
    BY <2>2 DEF TestResults
  <2>4. QED
    BY <2>1, <2>2, <2>3 DEF has_evidence, verification_passing
<1>2. QED
  BY <1>1, LedgerInvHolds, PTL

\* verify_chain fails only at a record that carries on the hash of one whose write
\* failed: neither a restart nor an interrupted call breaks the chain elsewhere.
THEOREM ChainBreaksOnlyAtALoss == Spec => []ChainBreaksAtALoss
<1>1. LedgerInv => ChainBreaksAtALoss
  BY DEF LedgerInv
<1>2. QED
  BY <1>1, LedgerInvHolds, PTL

=============================================================================
