-------------------------- MODULE EventStore_proofs --------------------------
(* Proofs about EventStore: what the event log's file promises. *)
EXTENDS EventStore, FiniteSetTheorems, SequenceTheorems, TLAPS

Inv == TypeOK /\ OneLinePerKey

\* Continuing a file: the lines before stay, and an object on a line that was
\* not one before is what was written, on a line of its own.
LEMMA ContinuedFile ==
  ASSUME NEW f \in Files(Event), NEW x \in Event, NEW kind \in {"whole"} \cup Cuts,
         NEW g, g.lines = Continued(f, Piece(x, kind))
  PROVE  /\ g.lines \in Seq(Seq(Pieces(Event)) \ {<<>>}) \ {<<>>}
         /\ \A i \in ObjectLines(g) :
              \/ i \in ObjectLines(f) /\ g.lines[i] = f.lines[i]
              \/ i = Len(f.lines) + 1 /\ g.lines[i] = <<Piece(x, kind)>>
<1> DEFINE p == Piece(x, kind)
           L == Seq(Pieces(Event)) \ {<<>>}
<1>1. f.lines \in Seq(L) /\ f.ended \in BOOLEAN /\ (f.ended \/ f.lines # <<>>)
  BY DEF Files
<1>2. p \in Pieces(Event)
  BY DEF Piece, Pieces
<1>3. <<p>> \in L
  BY <1>2
<1>4. CASE f.ended
  <2>1. g.lines = Append(f.lines, <<p>>)
    BY <1>4 DEF Continued
  <2>2. g.lines \in Seq(L) \ {<<>>}
    <3>1. g.lines \in Seq(L) /\ Len(g.lines) = Len(f.lines) + 1
      BY <2>1, <1>1, <1>3
    <3>2. Len(f.lines) \in Nat
      BY <1>1
    <3> QED BY <3>1, <3>2
  <2>3. ASSUME NEW i \in ObjectLines(g)
        PROVE  \/ i \in ObjectLines(f) /\ g.lines[i] = f.lines[i]
               \/ i = Len(f.lines) + 1 /\ g.lines[i] = <<p>>
    BY <2>1, <1>1, <1>3 DEF ObjectLines
  <2> QED BY <2>2, <2>3
<1>5. CASE ~f.ended
  <2> DEFINE n == Len(f.lines)
  <2>1. n \in 1 .. Len(f.lines) /\ f.lines[n] \in L
    BY <1>5, <1>1
  <2>2. g.lines = [f.lines EXCEPT ![n] = Append(f.lines[n], p)]
    BY <1>5 DEF Continued
  <2>3. Append(f.lines[n], p) \in L /\ Len(Append(f.lines[n], p)) > 1
    BY <2>1, <1>2
  <2>4. /\ g.lines \in Seq(L) \ {<<>>}
        /\ DOMAIN g.lines = DOMAIN f.lines
        /\ \A i \in DOMAIN f.lines : i # n => g.lines[i] = f.lines[i]
        /\ g.lines[n] = Append(f.lines[n], p)
    BY <2>2, <2>1, <2>3, <1>1
  <2>5. ~IsObject(g.lines[n])
    BY <2>3, <2>4 DEF IsObject
  <2> QED BY <2>4, <2>5 DEF ObjectLines
<1> QED BY <1>4, <1>5, <1>1

\* A write, whatever becomes of it, leaves a file whose objects are those of
\* before, and perhaps the new one after all of them.
LEMMA WriteOutcome ==
  ASSUME NEW f \in Files(Event), NEW x \in Event, NEW cuts \in SUBSET Cuts,
         NEW g \in Interrupted(f, x, cuts)
  PROVE  /\ g \in Files(Event)
         /\ \A i \in ObjectLines(g) :
              \/ i \in ObjectLines(f) /\ g.lines[i] = f.lines[i]
              \/ i = Len(f.lines) + 1 /\ g.lines[i][1].item = x
<1>1. CASE g = f
  BY <1>1
<1>2. ASSUME NEW kind \in {"whole"} \cup Cuts, NEW e \in BOOLEAN,
             g = [lines |-> Continued(f, Piece(x, kind)), ended |-> e]
      PROVE  /\ g \in Files(Event)
             /\ \A i \in ObjectLines(g) :
                  \/ i \in ObjectLines(f) /\ g.lines[i] = f.lines[i]
                  \/ i = Len(f.lines) + 1 /\ g.lines[i][1].item = x
  <2>1. g.lines = Continued(f, Piece(x, kind)) /\ g.ended = e
    BY <1>2
  <2>2. /\ g.lines \in Seq(Seq(Pieces(Event)) \ {<<>>}) \ {<<>>}
        /\ \A i \in ObjectLines(g) :
             \/ i \in ObjectLines(f) /\ g.lines[i] = f.lines[i]
             \/ i = Len(f.lines) + 1 /\ g.lines[i] = <<Piece(x, kind)>>
    BY <2>1, ContinuedFile
  <2>3. g \in Files(Event)
    BY <2>2, <1>2 DEF Files
  <2>4. <<Piece(x, kind)>>[1].item = x
    BY DEF Piece
  <2> QED BY <2>2, <2>3, <2>4
<1>3. \/ g = f
      \/ \E kind \in {"whole"} \cup Cuts, e \in BOOLEAN :
           g = [lines |-> Continued(f, Piece(x, kind)), ended |-> e]
  BY DEF Interrupted, Written
<1> QED BY <1>1, <1>2, <1>3

\* The write of a new event keeps the file in order and its keys apart.
LEMMA NewLine ==
  ASSUME Inv, status = "up", NEW k \in Keys, Known(k) = {}, NEW cuts \in SUBSET Cuts,
         file' \in Interrupted(file, NewEvent(k), cuts), issued' = issued + 1
  PROVE  /\ file' \in Files(Event)
         /\ Objects(file)' \subseteq Objects(file) \cup {NewEvent(k)}
         /\ OneLinePerKey'
<1> DEFINE x == NewEvent(k)
<1>1. x \in Event /\ file \in Files(Event) /\ issued \in Nat
  BY DEF Inv, TypeOK, NewEvent, Event
<1>2. /\ file' \in Files(Event)
      /\ \A i \in ObjectLines(file') :
           \/ i \in ObjectLines(file) /\ file'.lines[i] = file.lines[i]
           \/ i = Len(file.lines) + 1 /\ file'.lines[i][1].item = x
  BY <1>1, WriteOutcome
<1>3. \A o \in Objects(file) : o \in Event /\ o.key # k /\ o.id <= issued
  BY DEF Inv, TypeOK, Known
<1>4. x.key = k /\ x.id = issued + 1
  BY DEF NewEvent
<1>5. Objects(file') \subseteq Objects(file) \cup {x}
  BY <1>2 DEF Objects
<1>6. ObjectLines(file) \subseteq 1 .. Len(file.lines) /\ Len(file.lines) \in Nat
  BY <1>1 DEF ObjectLines, Files
<1>7. ASSUME NEW i \in ObjectLines(file'), NEW j \in ObjectLines(file'), i < j
      PROVE  /\ file'.lines[i][1].item.key # file'.lines[j][1].item.key
             /\ file'.lines[i][1].item.id < file'.lines[j][1].item.id
  <2>1. i \in ObjectLines(file) /\ file'.lines[i] = file.lines[i]
    BY <1>2, <1>6, <1>7
  <2>2. file.lines[i][1].item \in Objects(file)
    BY <2>1 DEF Objects
  <2>3. CASE j \in ObjectLines(file) /\ file'.lines[j] = file.lines[j]
    BY <2>1, <2>3, <1>7 DEF Inv, OneLinePerKey
  <2>4. CASE file'.lines[j][1].item = x
    BY <2>1, <2>2, <2>4, <1>1, <1>3, <1>4 DEF Event
  <2> QED BY <1>2, <2>3, <2>4
<1>8. OneLinePerKey'
  BY <1>7 DEF OneLinePerKey
<1> QED BY <1>2, <1>5, <1>8

LEMMA StoreStep == Inv /\ [Next]_vars => Inv'
<1> SUFFICES ASSUME Inv, [Next]_vars PROVE Inv'
  OBVIOUS
<1> USE DEF Inv
<1>1. ASSUME NEW k \in Keys, append(k) PROVE Inv'
  <2>1. /\ status = "up" /\ Known(k) = {} /\ issued' = issued + 1
        /\ events' = events \cup {NewEvent(k)} /\ file' = Written(file, NewEvent(k))
        /\ returned' = returned \cup {NewEvent(k)} /\ status' = status /\ torn' = torn
    BY <1>1 DEF append, Remember
  <2>2. file' \in Interrupted(file, NewEvent(k), {})
    BY <2>1 DEF Interrupted
  <2>3. NewEvent(k) \in Event /\ NewEvent(k).id = issued + 1
    BY DEF NewEvent, Event, TypeOK
  <2>4. /\ file' \in Files(Event) /\ OneLinePerKey'
        /\ Objects(file)' \subseteq Objects(file) \cup {NewEvent(k)}
    BY <2>1, <2>2, NewLine
  <2>5. TypeOK'
    BY <2>1, <2>3, <2>4 DEF TypeOK, Event
  <2> QED BY <2>4, <2>5
<1>2. ASSUME NEW k \in Keys, append_Cached(k) PROVE Inv'
  BY <1>2 DEF append_Cached, Known, TypeOK, OneLinePerKey, ObjectLines, Objects
<1>3. ASSUME NEW k \in Keys, append_Raises(k) PROVE Inv'
  <2>1. /\ status = "up" /\ Known(k) = {} /\ issued' = issued + 1
        /\ events' = events \cup {NewEvent(k)} /\ returned' = returned
        /\ status' = status /\ torn' = torn + 1
    BY <1>3 DEF append_Raises, Remember, Interrupts
  <2>2. PICK cuts \in SUBSET Cuts : file' \in Interrupted(file, NewEvent(k), cuts)
    BY <1>3 DEF append_Raises, Interrupts, Cuts
  <2>3. NewEvent(k) \in Event /\ NewEvent(k).id = issued + 1
    BY DEF NewEvent, Event, TypeOK
  <2>4. /\ file' \in Files(Event) /\ OneLinePerKey'
        /\ Objects(file)' \subseteq Objects(file) \cup {NewEvent(k)}
    BY <2>1, <2>2, NewLine
  <2>5. TypeOK'
    BY <2>1, <2>3, <2>4 DEF TypeOK, Event
  <2> QED BY <2>4, <2>5
<1>4. ASSUME NEW k \in Keys, append_Dies(k) PROVE Inv'
  <2>1. /\ status = "up" /\ Known(k) = {} /\ issued' = issued + 1
        /\ events' = {} /\ returned' = returned
        /\ status' = "down" /\ torn' \in {torn, torn + 1}
    BY <1>4 DEF append_Dies, Interrupts
  <2>2. PICK cuts \in SUBSET Cuts : file' \in Interrupted(file, NewEvent(k), cuts)
    <3>1. CASE Interrupts(k)
      BY <3>1 DEF Interrupts, Cuts
    <3>2. CASE file' \in {file, Written(file, NewEvent(k))}
      <4>1. file' \in Interrupted(file, NewEvent(k), {})
        BY <3>2 DEF Interrupted
      <4>2. QED
        BY <4>1
    <3>3. QED
      BY <1>4, <3>1, <3>2 DEF append_Dies
  <2>3. NewEvent(k) \in Event /\ NewEvent(k).id = issued + 1
    BY DEF NewEvent, Event, TypeOK
  <2>4. /\ file' \in Files(Event) /\ OneLinePerKey'
        /\ Objects(file)' \subseteq Objects(file) \cup {NewEvent(k)}
    BY <2>1, <2>2, NewLine
  <2>5. TypeOK'
    BY <2>1, <2>3, <2>4 DEF TypeOK, Event
  <2> QED BY <2>4, <2>5
<1>5. CASE Stop
  BY <1>5 DEF Stop, TypeOK, OneLinePerKey, ObjectLines, Objects
<1>6. CASE Open
  <2>1. ObjectLines(file)' = ObjectLines(file) /\ Objects(file)' = Objects(file)
    BY <1>6 DEF Open, ObjectLines, Objects
  <2>2. Objects(file) \subseteq Event
    <3>1. file.lines \in Seq(Seq(Pieces(Event)))
      BY DEF TypeOK, Files
    <3>2. ASSUME NEW i \in ObjectLines(file) PROVE file.lines[i][1].item \in Event
      <4>1. file.lines[i] \in Seq(Pieces(Event)) /\ Len(file.lines[i]) = 1
        BY <3>1 DEF ObjectLines, IsObject
      <4>2. file.lines[i][1] \in Pieces(Event)
        BY <4>1
      <4> QED BY <4>2 DEF Pieces
    <3> QED BY <3>2 DEF Objects
  <2> QED BY <1>6, <2>1, <2>2 DEF Open, Loaded, TypeOK, OneLinePerKey
<1>7. CASE UNCHANGED vars
  BY <1>7 DEF vars, TypeOK, OneLinePerKey, ObjectLines, Objects
<1> QED BY <1>1, <1>2, <1>3, <1>4, <1>5, <1>6, <1>7 DEF Next

\* What holds of EventLog and its file in every execution, however many keys,
\* events and interrupted writes there are: types, and that memory covers the
\* readable file.
THEOREM StoreTypeCorrect == Spec => []TypeOK
<1>1. Init => Inv
  BY DEF Init, Inv, TypeOK, OneLinePerKey, EmptyFile, Files, Objects, ObjectLines
<1>2. Inv => TypeOK
  BY DEF Inv
<1> QED BY <1>1, <1>2, StoreStep, PTL DEF Spec

\* EventLog's file never holds two readable events of one key, and holds its
\* events in the order they were made: failed writes, torn lines and restarts
\* never lead to an execution whose trace a reader of the file sees twice.
THEOREM FileIsIdempotent == Spec => []OneLinePerKey
<1>1. Init => Inv
  BY DEF Init, Inv, TypeOK, OneLinePerKey, EmptyFile, Files, Objects, ObjectLines
<1>2. Inv => OneLinePerKey
  BY DEF Inv
<1> QED BY <1>1, <1>2, StoreStep, PTL DEF Spec

-----------------------------------------------------------------------------
(* What is lost *)

\* The events of a caller or of memory that cannot be read from file f.
Lost(M, f) == M \ Objects(f)

\* What the next write to file f may still cost on the account of the last
\* one: a line that has not ended takes what is written after it along, and
\* loses what it holds when that was readable.
Owed(f) == IF f.ended THEN 0 ELSE IF IsObject(f.lines[Len(f.lines)]) THEN 2 ELSE 1

LossInv ==
  /\ IsFiniteSet(Lost(returned \cup events, file))
  /\ Cardinality(Lost(returned \cup events, file)) + Owed(file) <= 2 * torn

\* A write to a line of its own loses nothing but, unless it is whole, its own
\* event; one that continues a line loses what that line held and its own.
LEMMA WriteObjects ==
  ASSUME NEW f \in Files(Event), NEW x \in Event, NEW kind \in {"whole"} \cup Cuts,
         NEW e \in BOOLEAN, NEW g, g = [lines |-> Continued(f, Piece(x, kind)), ended |-> e]
  PROVE  /\ f.ended => /\ Objects(f) \subseteq Objects(g)
                       /\ kind = "whole" => x \in Objects(g)
                       /\ Owed(g) = IF e THEN 0 ELSE IF kind = "whole" THEN 2 ELSE 1
         /\ ~f.ended => /\ \E y : Objects(f) \ {y} \subseteq Objects(g)
                        /\ Owed(f) = 1 => Objects(f) \subseteq Objects(g)
                        /\ Owed(g) = IF e THEN 0 ELSE 1
                        /\ Owed(f) \in {1, 2}
<1> DEFINE p == Piece(x, kind)
           L == Seq(Pieces(Event)) \ {<<>>}
           n == Len(f.lines)
<1>1. /\ f.lines \in Seq(L) /\ f.ended \in BOOLEAN /\ (f.ended \/ f.lines # <<>>)
      /\ n \in Nat /\ DOMAIN f.lines = 1 .. n
  BY DEF Files
<1>2. p \in Pieces(Event) /\ p.item = x /\ p.kind = kind
  BY DEF Piece, Pieces
<1>3. g.lines = Continued(f, p) /\ g.ended = e
  OBVIOUS
<1> HIDE DEF p
<1>4. CASE f.ended
  <2>1. g.lines = Append(f.lines, <<p>>) /\ <<p>> \in L
    BY <1>2, <1>3, <1>4 DEF Continued
  <2>2. /\ Len(g.lines) = n + 1 /\ DOMAIN g.lines = 1 .. (n + 1)
        /\ \A i \in 1 .. n : g.lines[i] = f.lines[i]
        /\ g.lines[n + 1] = <<p>>
    BY <1>1, <2>1
  <2>3. IsObject(<<p>>) <=> kind = "whole"
    BY <1>2 DEF IsObject
  <2>4. ASSUME NEW i \in ObjectLines(f) PROVE f.lines[i][1].item \in Objects(g)
    <3>1. i \in 1 .. n /\ i \in 1 .. (n + 1) /\ IsObject(f.lines[i])
      BY <1>1 DEF ObjectLines
    <3>2. i \in ObjectLines(g) /\ g.lines[i] = f.lines[i]
      BY <2>2, <3>1 DEF ObjectLines
    <3>3. QED
      BY <3>2 DEF Objects
  <2>5. ASSUME kind = "whole" PROVE x \in Objects(g)
    <3>1. n + 1 \in ObjectLines(g)
      <4>1. n + 1 \in DOMAIN g.lines
        BY ONLY <1>1, <2>2
      <4>2. IsObject(g.lines[n + 1])
        BY <2>2, <2>3, <2>5
      <4>3. QED
        BY <4>1, <4>2 DEF ObjectLines
    <3>2. g.lines[n + 1][1].item = x
      BY <1>2, <2>2
    <3>3. QED
      BY <3>1, <3>2 DEF Objects
  <2>6. Owed(g) = IF e THEN 0 ELSE IF kind = "whole" THEN 2 ELSE 1
    BY <1>3, <2>2, <2>3 DEF Owed
  <2>7. QED
    BY <1>4, <2>4, <2>5, <2>6 DEF Objects
<1>5. CASE ~f.ended
  <2>1. n \in 1 .. n /\ f.lines[n] \in L
    BY <1>1, <1>5
  <2>2. g.lines = [f.lines EXCEPT ![n] = Append(f.lines[n], p)]
    BY <1>3, <1>5 DEF Continued
  <2>3. Append(f.lines[n], p) \in L /\ Len(Append(f.lines[n], p)) > 1
    BY <1>2, <2>1
  <2>4. /\ DOMAIN g.lines = 1 .. n /\ Len(g.lines) = n
        /\ \A i \in 1 .. n : i # n => g.lines[i] = f.lines[i]
        /\ g.lines[n] = Append(f.lines[n], p)
    BY <1>1, <2>1, <2>2, <2>3
  <2>5. ~IsObject(g.lines[n])
    BY <2>3, <2>4 DEF IsObject
  <2>6. ASSUME NEW i \in ObjectLines(f), i # n PROVE f.lines[i][1].item \in Objects(g)
    <3>1. i \in 1 .. n /\ IsObject(f.lines[i])
      BY <1>1 DEF ObjectLines
    <3>2. i \in ObjectLines(g) /\ g.lines[i] = f.lines[i]
      BY <2>4, <2>6, <3>1 DEF ObjectLines
    <3>3. QED
      BY <3>2 DEF Objects
  <2>7. Objects(f) \ {f.lines[n][1].item} \subseteq Objects(g)
    BY <2>6 DEF Objects
  <2>8. Owed(f) = IF IsObject(f.lines[n]) THEN 2 ELSE 1
    BY <1>5 DEF Owed
  <2>9. Owed(f) = 1 => Objects(f) \subseteq Objects(g)
    <3>1. Owed(f) = 1 => n \notin ObjectLines(f)
      BY <2>8 DEF ObjectLines
    <3>2. QED
      BY <2>6, <3>1 DEF Objects
  <2>10. Owed(g) = IF e THEN 0 ELSE 1
    BY <1>3, <2>4, <2>5 DEF Owed
  <2>11. QED
    BY <1>5, <2>7, <2>8, <2>9, <2>10
<1>6. QED
  BY <1>1, <1>4, <1>5

\* Sets that grow by one or two elements at most.
LEMMA OneMore ==
  ASSUME NEW S, IsFiniteSet(S), NEW x, NEW T, T \subseteq S \cup {x}
  PROVE  IsFiniteSet(T) /\ Cardinality(T) <= Cardinality(S) + 1
         /\ Cardinality(S) \in Nat /\ Cardinality(T) \in Nat
<1>1. /\ IsFiniteSet(S \cup {x})
      /\ Cardinality(S \cup {x}) = IF x \in S THEN Cardinality(S) ELSE Cardinality(S) + 1
  BY FS_AddElement
<1>2. IsFiniteSet(T) /\ Cardinality(T) <= Cardinality(S \cup {x})
  BY <1>1, FS_Subset
<1>3. Cardinality(S) \in Nat /\ Cardinality(T) \in Nat
  BY <1>2, FS_CardinalityType
<1>4. QED
  BY <1>1, <1>2, <1>3

LEMMA NoMore ==
  ASSUME NEW S, IsFiniteSet(S), NEW T, T \subseteq S
  PROVE  IsFiniteSet(T) /\ Cardinality(T) <= Cardinality(S)
         /\ Cardinality(S) \in Nat /\ Cardinality(T) \in Nat
<1>1. IsFiniteSet(T) /\ Cardinality(T) <= Cardinality(S)
  BY FS_Subset
<1>2. QED
  BY <1>1, FS_CardinalityType

\* What one write costs: nothing more than is owed when it returns, and two
\* events more, some of them perhaps later, when it fails.
LEMMA WriteCost ==
  ASSUME NEW f \in Files(Event), NEW x \in Event, NEW M, IsFiniteSet(Lost(M, f)),
         NEW kind \in {"whole"} \cup Cuts, NEW e \in BOOLEAN,
         NEW g, g = [lines |-> Continued(f, Piece(x, kind)), ended |-> e]
  PROVE  /\ IsFiniteSet(Lost(M \cup {x}, g))
         /\ Cardinality(Lost(M, f)) \in Nat /\ Cardinality(Lost(M \cup {x}, g)) \in Nat
         /\ Cardinality(Lost(M \cup {x}, g)) + Owed(g) <= Cardinality(Lost(M, f)) + Owed(f) + 2
         /\ (kind = "whole" /\ e) =>
              Cardinality(Lost(M \cup {x}, g)) + Owed(g) <= Cardinality(Lost(M, f)) + Owed(f)
<1> DEFINE S == Lost(M, f)
           T == Lost(M \cup {x}, g)
           s == Cardinality(S)
           t == Cardinality(T)
<1>1. CASE f.ended
  <2>1. /\ Objects(f) \subseteq Objects(g) /\ (kind = "whole" => x \in Objects(g))
        /\ Owed(g) = IF e THEN 0 ELSE IF kind = "whole" THEN 2 ELSE 1
    BY <1>1, WriteObjects
  <2>2. Owed(f) = 0
    BY <1>1 DEF Owed
  <2>3. T \subseteq S \cup {x} /\ (kind = "whole" => T \subseteq S)
    BY <2>1 DEF Lost
  <2>4. IsFiniteSet(T) /\ t <= s + 1 /\ s \in Nat /\ t \in Nat
    BY <2>3, OneMore
  <2>5. kind = "whole" => t <= s
    BY <2>3, NoMore
  <2> HIDE DEF S, T, s, t
  <2>6. t + Owed(g) <= s + Owed(f) + 2 /\ ((kind = "whole" /\ e) => t + Owed(g) <= s + Owed(f))
    <3>1. CASE kind = "whole"
      BY <2>1, <2>2, <2>4, <2>5, <3>1
    <3>2. CASE kind # "whole"
      BY <2>1, <2>2, <2>4, <3>2
    <3>3. QED
      BY <3>1, <3>2
  <2>7. QED
    BY <2>4, <2>6 DEF S, T, s, t
<1>2. CASE ~f.ended
  <2>1. PICK y : Objects(f) \ {y} \subseteq Objects(g)
    BY <1>2, WriteObjects
  <2>2. /\ Owed(f) = 1 => Objects(f) \subseteq Objects(g)
        /\ Owed(g) = (IF e THEN 0 ELSE 1) /\ Owed(f) \in {1, 2}
    BY <1>2, WriteObjects
  <2>3. T \subseteq (S \cup {x}) \cup {y} /\ (Owed(f) = 1 => T \subseteq S \cup {x})
    BY <2>1, <2>2 DEF Lost
  <2>4. /\ IsFiniteSet(S \cup {x}) /\ Cardinality(S \cup {x}) <= s + 1
        /\ s \in Nat /\ Cardinality(S \cup {x}) \in Nat
    BY OneMore
  <2>5. IsFiniteSet(T) /\ t <= Cardinality(S \cup {x}) + 1 /\ t \in Nat
    BY <2>3, <2>4, OneMore
  <2>6. Owed(f) = 1 => t <= s + 1
    BY <2>3, OneMore
  <2> DEFINE u == Cardinality(S \cup {x})
  <2>7. u <= s + 1 /\ t <= u + 1 /\ u \in Nat
    BY <2>4, <2>5
  <2> HIDE DEF S, T, s, t, u
  <2>8. t <= s + Owed(f)
    <3>1. t <= s + 2
      BY <2>4, <2>5, <2>7
    <3>2. QED
      BY <2>2, <2>4, <2>5, <2>6, <3>1
  <2>9. t + Owed(g) <= s + Owed(f) + 2 /\ ((kind = "whole" /\ e) => t + Owed(g) <= s + Owed(f))
    BY <2>2, <2>4, <2>5, <2>8
  <2>10. QED
    BY <2>4, <2>5, <2>9 DEF S, T, s, t
<1>3. f.ended \in BOOLEAN
  BY DEF Files
<1>4. QED
  BY <1>1, <1>2, <1>3

\* The same of every outcome of an interrupted write, for the events that are
\* then in memory or were returned, some or all.
LEMMA InterruptionCost ==
  ASSUME NEW f \in Files(Event), NEW x \in Event, NEW M, IsFiniteSet(Lost(M, f)),
         NEW cuts \in SUBSET Cuts, NEW g \in Interrupted(f, x, cuts),
         NEW N, N \subseteq M \cup {x}
  PROVE  /\ IsFiniteSet(Lost(N, g))
         /\ Cardinality(Lost(N, g)) + Owed(g) <= Cardinality(Lost(M, f)) + Owed(f) + 2
<1> DEFINE s == Cardinality(Lost(M, f))
           t == Cardinality(Lost(M \cup {x}, g))
           v == Cardinality(Lost(N, g))
<1>1. \A h \in Files(Event) : Owed(h) \in Nat
  BY DEF Owed
<1>2. IsFiniteSet(Lost(M \cup {x}, g)) /\ s \in Nat /\ t \in Nat /\ t + Owed(g) <= s + Owed(f) + 2
  <2>1. CASE g = f
    <3>1. Lost(M \cup {x}, g) \subseteq Lost(M, f) \cup {x}
      BY <2>1 DEF Lost
    <3>2. IsFiniteSet(Lost(M \cup {x}, g)) /\ t <= s + 1 /\ s \in Nat /\ t \in Nat
      BY <3>1, OneMore
    <3>3. Owed(f) \in Nat /\ Owed(g) = Owed(f)
      BY <1>1, <2>1
    <3> HIDE DEF s, t
    <3>4. QED
      BY <3>2, <3>3
  <2>2. ASSUME NEW kind \in {"whole"} \cup Cuts, NEW e \in BOOLEAN,
               g = [lines |-> Continued(f, Piece(x, kind)), ended |-> e]
        PROVE  /\ IsFiniteSet(Lost(M \cup {x}, g)) /\ s \in Nat /\ t \in Nat
               /\ t + Owed(g) <= s + Owed(f) + 2
    BY <2>2, WriteCost
  <2>3. \/ g = f
        \/ \E kind \in {"whole"} \cup Cuts, e \in BOOLEAN :
             g = [lines |-> Continued(f, Piece(x, kind)), ended |-> e]
    BY DEF Interrupted, Written
  <2>4. QED
    BY <2>1, <2>2, <2>3
<1>3. Lost(N, g) \subseteq Lost(M \cup {x}, g)
  BY DEF Lost
<1>4. IsFiniteSet(Lost(N, g)) /\ v <= t /\ v \in Nat
  BY <1>2, <1>3, NoMore
<1>5. Owed(f) \in Nat /\ Owed(g) \in Nat
  BY <1>1, WriteOutcome
<1> HIDE DEF s, t, v
<1>6. v + Owed(g) <= s + Owed(f) + 2
  BY <1>2, <1>4, <1>5
<1>7. QED
  BY <1>4, <1>6 DEF s, v

LEMMA LossStep == Inv /\ LossInv /\ [Next]_vars => LossInv'
<1> SUFFICES ASSUME Inv, LossInv, [Next]_vars PROVE LossInv'
  OBVIOUS
<1> DEFINE M == returned \cup events
<1>1. /\ file \in Files(Event) /\ torn \in Nat /\ IsFiniteSet(Lost(M, file))
      /\ Cardinality(Lost(M, file)) \in Nat /\ Owed(file) \in Nat
      /\ Cardinality(Lost(M, file)) + Owed(file) <= 2 * torn
  <2>1. IsFiniteSet(Lost(M, file)) /\ Cardinality(Lost(M, file)) + Owed(file) <= 2 * torn
    BY DEF LossInv
  <2>2. QED
    BY <2>1, FS_CardinalityType DEF Inv, TypeOK, Owed
<1>2. ASSUME NEW k \in Keys PROVE NewEvent(k) \in Event
  BY DEF Inv, TypeOK, NewEvent, Event
\* Nothing written, and no more in memory or returned than before.
<1>3. ASSUME file' = file, torn' = torn, (returned \cup events)' \subseteq M
      PROVE  LossInv'
  <2>1. Lost(returned \cup events, file)' \subseteq Lost(M, file)
    BY <1>3 DEF Lost
  <2>2. /\ IsFiniteSet(Lost(returned \cup events, file)')
        /\ Cardinality(Lost(returned \cup events, file)') <= Cardinality(Lost(M, file))
        /\ Cardinality(Lost(returned \cup events, file)') \in Nat
    BY <1>1, <2>1, NoMore
  <2>3. Owed(file)' = Owed(file)
    BY <1>3 DEF Owed
  <2>4. QED
    BY <1>1, <1>3, <2>2, <2>3 DEF LossInv
\* A write that fails.
<1>4. ASSUME NEW k \in Keys, Interrupts(k), (returned \cup events)' \subseteq M \cup {NewEvent(k)}
      PROVE  LossInv'
  <2>1. torn' = torn + 1
    BY <1>4 DEF Interrupts
  <2>2. PICK cuts \in SUBSET Cuts : file' \in Interrupted(file, NewEvent(k), cuts)
    BY <1>4 DEF Interrupts, Cuts
  <2>3. /\ IsFiniteSet(Lost((returned \cup events)', file'))
        /\ Cardinality(Lost((returned \cup events)', file')) + Owed(file')
             <= Cardinality(Lost(M, file)) + Owed(file) + 2
    BY <1>1, <1>2, <1>4, <2>2, InterruptionCost
  <2>4. Lost(returned \cup events, file)' = Lost((returned \cup events)', file')
    BY DEF Lost, Objects, ObjectLines
  <2>5. Cardinality(Lost((returned \cup events)', file')) \in Nat /\ Owed(file') \in Nat
    BY <2>3, FS_CardinalityType DEF Owed
  <2>6. Owed(file)' = Owed(file')
    BY DEF Owed
  <2>7. QED
    BY <1>1, <2>1, <2>3, <2>4, <2>5, <2>6 DEF LossInv
\* A write that returns, or after which the process dies.
<1>5. ASSUME NEW k \in Keys, file' = Written(file, NewEvent(k)), torn' = torn,
             (returned \cup events)' \subseteq M \cup {NewEvent(k)}
      PROVE  LossInv'
  <2>1. file' = [lines |-> Continued(file, Piece(NewEvent(k), "whole")), ended |-> TRUE]
    BY <1>5 DEF Written
  <2>2. /\ IsFiniteSet(Lost(M \cup {NewEvent(k)}, file'))
        /\ Cardinality(Lost(M \cup {NewEvent(k)}, file')) + Owed(file')
             <= Cardinality(Lost(M, file)) + Owed(file)
        /\ Cardinality(Lost(M \cup {NewEvent(k)}, file')) \in Nat
    BY <1>1, <1>2, <2>1, WriteCost
  <2>3. /\ Lost(returned \cup events, file)' \subseteq Lost(M \cup {NewEvent(k)}, file')
        /\ Owed(file)' = Owed(file') /\ Owed(file') \in Nat
    BY <1>5 DEF Lost, Owed, Objects, ObjectLines
  <2>4. /\ IsFiniteSet(Lost(returned \cup events, file)')
        /\ Cardinality(Lost(returned \cup events, file)')
             <= Cardinality(Lost(M \cup {NewEvent(k)}, file'))
        /\ Cardinality(Lost(returned \cup events, file)') \in Nat
    BY <2>2, <2>3, NoMore
  <2>5. Cardinality(Lost(returned \cup events, file)') + Owed(file') <= 2 * torn
    BY <1>1, <2>2, <2>3, <2>4
  <2>6. QED
    BY <1>5, <2>3, <2>4, <2>5 DEF LossInv
<1>6. ASSUME NEW k \in Keys, append_Cached(k) PROVE LossInv'
  BY <1>3, <1>6 DEF append_Cached, Known
<1>7. ASSUME NEW k \in Keys, append_Raises(k) PROVE LossInv'
  BY <1>4, <1>7 DEF append_Raises, Remember
<1>8. ASSUME NEW k \in Keys, append_Dies(k) PROVE LossInv'
  <2>1. (returned \cup events)' \subseteq M
    BY <1>8 DEF append_Dies
  <2>2. CASE Interrupts(k)
    BY <1>4, <2>1, <2>2
  <2>3. CASE file' = file /\ torn' = torn
    BY <1>3, <2>1, <2>3
  <2>4. CASE file' = Written(file, NewEvent(k)) /\ torn' = torn
    BY <1>5, <2>1, <2>4
  <2>5. QED
    BY <1>8, <2>2, <2>3, <2>4 DEF append_Dies
<1>9. CASE Stop
  BY <1>3, <1>9 DEF Stop
\* A new process knows what is on file, no more.
<1>10. CASE Open
  <2>1. /\ file' = file /\ torn' = torn /\ returned' = returned
        /\ events' \subseteq Objects(file)
    BY <1>10 DEF Open, Loaded
  <2>2. Lost(returned \cup events, file)' \subseteq Lost(M, file)
    BY <2>1 DEF Lost
  <2>3. /\ IsFiniteSet(Lost(returned \cup events, file)')
        /\ Cardinality(Lost(returned \cup events, file)') <= Cardinality(Lost(M, file))
        /\ Cardinality(Lost(returned \cup events, file)') \in Nat
    BY <1>1, <2>2, NoMore
  <2>4. Owed(file)' = Owed(file)
    BY <2>1 DEF Owed
  <2>5. QED
    BY <1>1, <2>1, <2>3, <2>4 DEF LossInv
<1>11. ASSUME NEW k \in Keys, append(k) PROVE LossInv'
  BY <1>5, <1>11 DEF append, Remember
<1>12. CASE UNCHANGED vars
  BY <1>3, <1>12 DEF vars
<1>13. QED
  BY <1>6, <1>7, <1>8, <1>9, <1>10, <1>11, <1>12 DEF Next

\* EventLog loses no more than two of the events its callers were told of for
\* each write that failed or died: that write's own, and one beside it on the line.
THEOREM LossStaysBounded == Spec => []LossIsBounded
<1>1. Init => Inv /\ LossInv
  <2> SUFFICES ASSUME Init PROVE Inv /\ LossInv
    OBVIOUS
  <2>1. Inv
    BY DEF Init, Inv, TypeOK, OneLinePerKey, EmptyFile, Files, Objects, ObjectLines
  <2>2. Lost(returned \cup events, file) = {} /\ Owed(file) = 0 /\ torn = 0
    BY DEF Init, Lost, Owed, EmptyFile
  <2>3. IsFiniteSet({}) /\ Cardinality({}) = 0
    BY FS_EmptySet
  <2>4. LossInv
    BY ONLY <2>2, <2>3 DEF LossInv
  <2>5. QED
    BY <2>1, <2>4
<1>2. Inv /\ LossInv => LossIsBounded
  <2> SUFFICES ASSUME Inv, LossInv PROVE LossIsBounded
    OBVIOUS
  <2>1. returned \ Objects(file) \subseteq Lost(returned \cup events, file)
    BY DEF Lost
  <2>2. /\ Cardinality(returned \ Objects(file)) <= Cardinality(Lost(returned \cup events, file))
        /\ Cardinality(returned \ Objects(file)) \in Nat
        /\ Cardinality(Lost(returned \cup events, file)) \in Nat
    BY <2>1, NoMore DEF LossInv
  <2>3. Owed(file) \in Nat /\ torn \in Nat
    BY DEF Owed, Inv, TypeOK
  <2>4. QED
    BY <2>2, <2>3 DEF LossInv, LossIsBounded
<1>3. QED
  BY <1>1, <1>2, StoreStep, LossStep, PTL DEF Spec

-----------------------------------------------------------------------------
(* The durable log.  While no write is interrupted every line is one object, *)
(* so that the file is the list of its lines, and memory is that list.       *)

LinesOf(f) == [i \in DOMAIN f.lines |-> f.lines[i][1].item]

\* Every line is one object and has its end.
Whole(f) == f.ended /\ \A i \in DOMAIN f.lines : IsObject(f.lines[i])

WholeInv ==
  /\ Whole(file) /\ torn = 0
  /\ returned \subseteq Objects(file)
  /\ status \in {"up", "down"}
  /\ status = "up" => events = Objects(file)

\* The objects of such a file are its lines, and it loads.
LEMMA WholeFile ==
  ASSUME NEW f \in Files(Event), Whole(f)
  PROVE  /\ Objects(f) = Durable!EntriesOf(LinesOf(f))
         /\ Loads(f)
<1>1. ObjectLines(f) = DOMAIN f.lines
  BY DEF ObjectLines, Whole
<1>2. DOMAIN LinesOf(f) = DOMAIN f.lines /\ \A i \in DOMAIN f.lines : LinesOf(f)[i] = f.lines[i][1].item
  BY DEF LinesOf
<1>3. Objects(f) = Durable!EntriesOf(LinesOf(f))
  BY <1>1, <1>2 DEF Objects, Durable!EntriesOf
<1>4. Decodes(f)
  <2> SUFFICES ASSUME NEW i \in DOMAIN f.lines, NEW j \in DOMAIN f.lines[i]
               PROVE  f.lines[i][j].kind # "split"
    BY DEF Decodes
  <2>1. Len(f.lines[i]) = 1 /\ f.lines[i][1].kind = "whole"
    BY DEF Whole, IsObject
  <2>2. f.lines[i] \in Seq(Pieces(Event))
    BY DEF Files
  <2>3. j = 1
    BY <2>1, <2>2
  <2>4. QED
    BY <2>1, <2>3
<1>5. QED
  BY <1>3, <1>4 DEF Loads, Whole

\* A write that returns adds one line to such a file.
LEMMA WholeWrite ==
  ASSUME NEW f \in Files(Event), Whole(f), NEW x \in Event
  PROVE  /\ Written(f, x) \in Files(Event) /\ Whole(Written(f, x))
         /\ LinesOf(Written(f, x)) = Append(LinesOf(f), x)
<1> DEFINE g == Written(f, x)
           p == Piece(x, "whole")
<1>1. g = [lines |-> Append(f.lines, <<p>>), ended |-> TRUE]
  BY DEF Written, Continued, Whole
<1>2. g \in Files(Event)
  BY WriteOutcome DEF Interrupted
<1>3. p.item = x /\ p.kind = "whole"
  BY DEF Piece
<1>4. f.lines \in Seq(Seq(Pieces(Event)) \ {<<>>})
  BY DEF Files
<1> HIDE DEF p
<1>5. /\ g.lines = Append(f.lines, <<p>>) /\ g.ended
      /\ Len(f.lines) \in Nat /\ DOMAIN f.lines = 1 .. Len(f.lines)
      /\ DOMAIN g.lines = 1 .. (Len(f.lines) + 1)
      /\ \A i \in DOMAIN f.lines : g.lines[i] = f.lines[i]
      /\ g.lines[Len(f.lines) + 1] = <<p>>
  <2>1. <<p>> \in Seq(Pieces(Event)) \ {<<>>}
    BY DEF p, Piece, Pieces
  <2>2. QED
    BY <1>1, <1>4, <2>1
<1> HIDE DEF g
<1>6. Whole(g)
  <2>1. IsObject(<<p>>)
    BY <1>3 DEF IsObject
  <2>2. QED
    BY <1>5, <2>1 DEF Whole
<1>7. LinesOf(g) = Append(LinesOf(f), x)
  <2>1. LinesOf(f) \in Seq(Event) /\ Len(LinesOf(f)) = Len(f.lines)
    <3>1. \A i \in DOMAIN f.lines : f.lines[i][1].item \in Event
      <4> SUFFICES ASSUME NEW i \in DOMAIN f.lines PROVE f.lines[i][1].item \in Event
        OBVIOUS
      <4>1. f.lines[i] \in Seq(Pieces(Event)) /\ Len(f.lines[i]) = 1
        BY <1>4 DEF Whole, IsObject
      <4>2. f.lines[i][1] \in Pieces(Event)
        BY <4>1
      <4>3. QED
        BY <4>2 DEF Pieces
    <3>2. QED
      BY <1>5, <3>1 DEF LinesOf
  <2>2. LinesOf(g) \in Seq(Event) /\ Len(LinesOf(g)) = Len(f.lines) + 1
    <3>1. DOMAIN LinesOf(g) = 1 .. (Len(f.lines) + 1)
      BY <1>5 DEF LinesOf
    <3>2. \A i \in 1 .. (Len(f.lines) + 1) : LinesOf(g)[i] \in Event
      <4> SUFFICES ASSUME NEW i \in 1 .. (Len(f.lines) + 1) PROVE LinesOf(g)[i] \in Event
        OBVIOUS
      <4>1. CASE i \in 1 .. Len(f.lines)
        BY <1>5, <2>1, <4>1 DEF LinesOf
      <4>2. CASE i = Len(f.lines) + 1
        BY <1>3, <1>5, <4>2 DEF LinesOf
      <4>3. QED
        BY <1>5, <4>1, <4>2
    <3> DEFINE T == LinesOf(g)
               m == Len(f.lines) + 1
    <3>3. DOMAIN T = 1 .. m /\ m \in Nat /\ (\A i \in 1 .. m : T[i] \in Event)
          /\ T = [i \in 1 .. m |-> T[i]]
      <4>1. T = [i \in DOMAIN T |-> T[i]]
        BY ONLY DEF LinesOf
      <4>2. DOMAIN T = 1 .. m /\ m \in Nat
        BY <1>5, <3>1
      <4>3. \A i \in 1 .. m : T[i] \in Event
        BY <3>2
      <4> HIDE DEF T, m
      <4>4. QED
        BY <4>1, <4>2, <4>3
    <3> HIDE DEF T, m
    <3>4. T \in Seq(Event) /\ Len(T) = m
      BY <3>3
    <3>5. QED
      BY <3>4 DEF T, m
  <2>3. \A i \in 1 .. Len(f.lines) : LinesOf(g)[i] = LinesOf(f)[i]
    BY <1>5 DEF LinesOf
  <2>4. LinesOf(g)[Len(f.lines) + 1] = x
    BY <1>3, <1>5 DEF LinesOf
  <2> DEFINE S == LinesOf(f)
             T == LinesOf(g)
             n == Len(f.lines)
  <2>5. /\ S \in Seq(Event) /\ Len(S) = n /\ n \in Nat
        /\ T \in Seq(Event) /\ Len(T) = n + 1
        /\ \A i \in 1 .. n : T[i] = S[i]
        /\ T[n + 1] = x
    BY <1>5, <2>1, <2>2, <2>3, <2>4
  <2> HIDE DEF S, T, n
  <2>6. /\ Append(S, x) \in Seq(Event) /\ Len(Append(S, x)) = n + 1
        /\ \A i \in 1 .. (n + 1) : T[i] = Append(S, x)[i]
    BY <2>5
  <2>7. T = Append(S, x)
    BY ONLY <2>5, <2>6, SeqEqual
  <2>8. QED
    BY <2>7 DEF S, T
<1>8. QED
  BY <1>2, <1>6, <1>7 DEF g

\* The write of a new event adds an entry to the durable log, and what may be
\* served and told of is what is on file then.
LEMMA WholeStore ==
  ASSUME Inv, WholeInv, NEW k \in Keys, Known(k) = {}, status = "up",
         file' = Written(file, NewEvent(k))
  PROVE  /\ file' \in Files(Event) /\ Whole(file')
         /\ Objects(file') = Objects(file) \cup {NewEvent(k)}
         /\ Durable!Store
<1> DEFINE e == NewEvent(k)
<1>1. file \in Files(Event) /\ Whole(file) /\ e \in Event /\ issued \in Nat
      /\ e.key = k /\ e.id = issued + 1
  BY DEF Inv, TypeOK, WholeInv, NewEvent, Event
<1>2. /\ file' \in Files(Event) /\ Whole(file')
      /\ LinesOf(file') = Append(LinesOf(file), e)
  BY <1>1, WholeWrite
<1>3. Objects(file) = Durable!EntriesOf(LinesOf(file)) /\ Objects(file') = Durable!EntriesOf(LinesOf(file'))
  BY <1>1, <1>2, WholeFile
<1>4. LinesOf(file) \in Seq(Event)
  <2>1. \A i \in DOMAIN LinesOf(file) : LinesOf(file)[i] \in Event
    <3>1. Objects(file) \subseteq Event
      BY DEF Inv, TypeOK, WholeInv
    <3>2. QED
      BY <1>3, <3>1 DEF Durable!EntriesOf
  <2>2. DOMAIN LinesOf(file) = 1 .. Len(file.lines) /\ Len(file.lines) \in Nat
    BY <1>1 DEF LinesOf, Files
  <2>3. LinesOf(file) = [i \in 1 .. Len(file.lines) |-> LinesOf(file)[i]]
    BY <2>2 DEF LinesOf
  <2>4. QED
    BY <2>1, <2>2, <2>3
<1> HIDE DEF e
<1>5. Durable!EntriesOf(LinesOf(file')) = Durable!EntriesOf(LinesOf(file)) \cup {e}
  BY <1>2, <1>4 DEF Durable!EntriesOf
<1>6. \A d \in Durable!EntriesOf(LinesOf(file)) : d.key # e.key /\ d.id < e.id
  <2> SUFFICES ASSUME NEW d \in Objects(file) PROVE d.key # e.key /\ d.id < e.id
    BY <1>3
  <2>1. d \in Event /\ d \in events /\ d.id <= issued
    BY DEF Inv, TypeOK, WholeInv
  <2>2. d.key # k /\ d.id \in Nat
    BY <2>1 DEF Known, Event
  <2>3. QED
    BY <1>1, <2>1, <2>2
<1>7. Durable!Store
  <2>1. Lines = LinesOf(file) /\ Lines' = LinesOf(file')
    BY DEF Lines, LinesOf
  <2>2. QED
    BY <1>2, <1>5, <1>6, <2>1 DEF Durable!Store
<1>8. QED
  BY <1>2, <1>3, <1>5, <1>7 DEF e

\* While no write is interrupted, a step of the event log is one of the durable
\* log, and leaves the file whole.
LEMMA DurableStep ==
  ASSUME Inv, WholeInv, Inv', [Next]_vars, torn' = 0
  PROVE  WholeInv' /\ [Durable!DurableNext]_<<Lines, events, returned>>
<1>1. /\ file \in Files(Event) /\ file' \in Files(Event)
      /\ Objects(file) = Durable!EntriesOf(Lines)
  <2>1. Lines = LinesOf(file)
    BY DEF Lines, LinesOf
  <2>2. QED
    BY <2>1, WholeFile DEF Inv, TypeOK, WholeInv
<1>2. \A k \in Keys : ~Interrupts(k)
  BY DEF Interrupts, Inv, TypeOK
\* What is known of the file in the next state.
<1>3. ASSUME Whole(file') PROVE Objects(file') = Durable!EntriesOf(Lines')
  <2>1. Lines' = LinesOf(file')
    BY DEF Lines, LinesOf
  <2>2. QED
    BY <1>1, <1>3, <2>1, WholeFile
\* It is enough that the file grows or stays, and memory is it or nothing.
<1>4. ASSUME Whole(file'), torn' = torn, Durable!Store \/ Lines' = Lines,
             returned' \subseteq Objects(file'), status' \in {"up", "down"},
             status' = "up" => events' = Objects(file')
      PROVE  WholeInv' /\ Durable!DurableNext
  <2>1. status' # "up" => events' = {}
    BY DEF Inv, TypeOK
  <2>2. Objects(file)' = Objects(file') /\ Whole(file)' = Whole(file')
    BY DEF Objects, ObjectLines, Whole
  <2>3. WholeInv'
    BY <1>4, <2>2 DEF WholeInv
  <2>4. Durable!Serves
    BY <1>3, <1>4, <2>1 DEF Durable!Serves
  <2>5. QED
    BY <1>4, <2>3, <2>4 DEF Durable!DurableNext
<1>5. ASSUME file' = file PROVE Lines' = Lines /\ Whole(file') /\ Objects(file') = Objects(file)
  BY <1>5 DEF Lines, WholeInv
<1>6. ASSUME NEW k \in Keys, append(k) PROVE WholeInv' /\ Durable!DurableNext
  <2>1. /\ status = "up" /\ Known(k) = {} /\ file' = Written(file, NewEvent(k))
        /\ events' = events \cup {NewEvent(k)} /\ returned' = returned \cup {NewEvent(k)}
        /\ status' = status /\ torn' = torn
    BY <1>6 DEF append, Remember
  <2>2. /\ Whole(file') /\ Objects(file') = Objects(file) \cup {NewEvent(k)} /\ Durable!Store
    BY <2>1, WholeStore
  <2>3. events = Objects(file) /\ returned \subseteq Objects(file)
    BY <2>1 DEF WholeInv
  <2>4. QED
    BY <1>4, <2>1, <2>2, <2>3
<1>7. ASSUME NEW k \in Keys, append_Cached(k) PROVE WholeInv' /\ Durable!DurableNext
  <2>1. /\ status = "up" /\ returned' = returned \cup Known(k) /\ file' = file
        /\ events' = events /\ status' = status /\ torn' = torn
    BY <1>7 DEF append_Cached
  <2>2. events = Objects(file) /\ returned \subseteq Objects(file) /\ Known(k) \subseteq events
    BY <2>1 DEF WholeInv, Known
  <2>3. QED
    BY <1>4, <1>5, <2>1, <2>2
<1>8. ASSUME NEW k \in Keys, append_Dies(k) PROVE WholeInv' /\ Durable!DurableNext
  <2>1. /\ status = "up" /\ Known(k) = {} /\ file' \in {file, Written(file, NewEvent(k))}
        /\ status' = "down" /\ returned' = returned /\ torn' = torn
    BY <1>2, <1>8 DEF append_Dies
  <2>2. returned \subseteq Objects(file)
    BY DEF WholeInv
  <2>3. CASE file' = file
    BY <1>4, <1>5, <2>1, <2>2, <2>3
  <2>4. CASE file' = Written(file, NewEvent(k))
    <3>1. /\ Whole(file') /\ Objects(file') = Objects(file) \cup {NewEvent(k)} /\ Durable!Store
      BY <2>1, <2>4, WholeStore
    <3>2. QED
      BY <1>4, <2>1, <2>2, <3>1
  <2>5. QED
    BY <2>1, <2>3, <2>4
<1>9. CASE Stop
  <2>1. /\ status' = "down" /\ returned' = returned /\ torn' = torn /\ file' = file
    BY <1>9 DEF Stop
  <2>2. QED
    BY <1>4, <1>5, <2>1 DEF WholeInv
<1>10. CASE Open
  <2>1. Loads(file)
    BY <1>1, WholeFile DEF WholeInv
  <2>2. /\ status' = "up" /\ events' = Objects(file) /\ file' = file
        /\ returned' = returned /\ torn' = torn
    BY <1>10, <2>1 DEF Open, Loaded
  <2>3. QED
    BY <1>4, <1>5, <2>2 DEF WholeInv
<1>11. CASE UNCHANGED vars
  <2>1. UNCHANGED <<file, status, events, returned, torn>>
    BY <1>11 DEF vars
  <2>2. Lines' = Lines
    BY <2>1 DEF Lines
  <2>3. WholeInv'
    BY <2>1 DEF WholeInv, Whole, Objects, ObjectLines
  <2>4. QED
    BY <2>1, <2>2, <2>3
<1>12. CASE \E k \in Keys : append_Raises(k)
  BY <1>2, <1>12 DEF append_Raises
<1>13. QED
  BY <1>6, <1>7, <1>8, <1>9, <1>10, <1>11, <1>12 DEF Next

\* No step mends what an interrupted write did, and without bound none is there.
LEMMA TornStays ==
  ASSUME Inv, [Next]_vars
  PROVE  /\ torn' = 0 => torn = 0
         /\ MaxTorn = 0 /\ torn = 0 => torn' = 0
<1>1. torn \in Nat
  BY DEF Inv, TypeOK
<1>2. torn' = torn \/ (torn < MaxTorn /\ torn' = torn + 1)
  BY DEF Next, append, append_Cached, append_Raises, append_Dies, Interrupts, Stop, Open, vars
<1>3. QED
  BY <1>1, <1>2

LEMMA DurableStart == Init => Inv /\ WholeInv /\ Durable!DurableInit
<1> SUFFICES ASSUME Init PROVE Inv /\ WholeInv /\ Durable!DurableInit
  OBVIOUS
<1>1. Inv
  BY DEF Init, Inv, TypeOK, OneLinePerKey, EmptyFile, Files, Objects, ObjectLines
<1>2. file.lines = <<>> /\ file.ended /\ DOMAIN file.lines = {}
  BY DEF Init, EmptyFile
<1>3. WholeInv
  BY <1>2 DEF Init, WholeInv, Whole, Objects, ObjectLines
<1>4. Lines = <<>>
  BY <1>2 DEF Lines
<1>5. QED
  BY <1>1, <1>3, <1>4 DEF Init, Durable!DurableInit

\* The event log is the durable, append-only log of eventlog.py:1 until a write
\* fails or tears, however often processes end or die around their writes.
THEOREM StoreIsDurable == Spec => IsDurable
<1> DEFINE J == torn = 0 => WholeInv
<1>1. Init => Inv /\ J /\ Durable!DurableInit
  BY DurableStart
<1>2. ASSUME Inv, J, Inv', [Next]_vars
      PROVE  J' /\ [torn' = 0 => Durable!DurableNext]_vars
  <2> SUFFICES ASSUME torn' = 0 PROVE WholeInv' /\ [Durable!DurableNext]_vars
    OBVIOUS
  <2>1. WholeInv
    BY <1>2, TornStays
  <2>2. WholeInv' /\ [Durable!DurableNext]_<<Lines, events, returned>>
    BY <1>2, <2>1, DurableStep
  <2>3. UNCHANGED <<Lines, events, returned>> => Durable!DurableNext
    <3>1. file \in Files(Event) /\ Lines = LinesOf(file)
      BY <1>2 DEF Inv, TypeOK, Lines, LinesOf
    <3>2. Objects(file) = Durable!EntriesOf(Lines)
      BY <2>1, <3>1, WholeFile DEF WholeInv
    <3>3. events \in {{}, Durable!EntriesOf(Lines)} /\ returned \subseteq Durable!EntriesOf(Lines)
      BY <1>2, <2>1, <3>2 DEF WholeInv, Inv, TypeOK
    <3>4. UNCHANGED Lines => Durable!EntriesOf(Lines') = Durable!EntriesOf(Lines)
      OBVIOUS
    <3>5. QED
      BY <3>3, <3>4 DEF Durable!DurableNext, Durable!Serves
  <2>4. QED
    BY <2>2, <2>3
<1>3. QED
  BY <1>1, <1>2, StoreStep, PTL DEF Spec, IsDurable

\* Where none ever does, it implements the durable log.
THEOREM StoreImplementsDurableLog == ASSUME MaxTorn = 0 PROVE Spec => Durable!DurableSpec
<1>1. Inv /\ WholeInv /\ Inv' /\ [Next]_vars
        => WholeInv' /\ [Durable!DurableNext]_<<Lines, events, returned>>
  BY DurableStep, TornStays DEF WholeInv
<1>2. QED
  BY <1>1, DurableStart, StoreStep, PTL DEF Spec, Durable!DurableSpec, Durable!durableVars
=============================================================================
