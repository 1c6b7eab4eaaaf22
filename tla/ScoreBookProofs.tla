--------------------------- MODULE ScoreBookProofs ----------------------------
(***************************************************************************)
(* Theorems about the ScoreBook, for every window, alpha and number of     *)
(* miners, crashes and failing writes: what a crash can cost.              *)
(***************************************************************************)
EXTENDS ScoreBook, SequenceTheorems, TLAPS

-----------------------------------------------------------------------------
(* What is saved                                                           *)

Scores == 0 .. Top
Books == [Hotkeys -> Seq(Scores)]

BookTyped ==
    /\ owner \in [Uids -> Hotkeys] /\ metagraph \in [Uids -> Hotkeys]
    /\ pc \in {"sync", "task", "record", "dump", "replace", "submit", "down"}
    /\ DOMAIN due \subseteq Hotkeys /\ \A h \in DOMAIN due : due[h] \in Int
    /\ book \in Books /\ \A h \in Hotkeys : Len(book[h]) <= Window
    /\ file \in {Corrupt, NoObject} \cup Books
    /\ pc # "down" => Starts(file)
    /\ unsaved \in Nat
    /\ DOMAIN vector \subseteq Uids
    /\ age \in 0 .. Tempo

\* All but the newest n scores of b are the newest scores of s, and are all of s unless the
\* window is full.
Covers(s, b, n) ==
    /\ n \in 0 .. Len(b)
    /\ Len(b) - n <= Len(s)
    /\ \A i \in 1 .. Len(b) - n : b[i] = s[Len(s) - (Len(b) - n) + i]
    /\ Len(b) - n = Len(s) \/ Len(b) = Window

Covered ==
    pc # "down" => \A h \in Hotkeys : \E n \in 0 .. unsaved : Covers(Load(file)[h], book[h], n)

BookInv == BookTyped /\ Covered

\* The newest n elements, position by position.
LEMMA NewestAt ==
  ASSUME NEW h \in Seq(Scores), NEW n \in Nat
  PROVE  /\ Newest(h, n) \in Seq(Scores)
         /\ Len(Newest(h, n)) = IF Len(h) > n THEN n ELSE Len(h)
         /\ \A i \in 1 .. Len(Newest(h, n)) :
               Newest(h, n)[i] = h[Len(h) - Len(Newest(h, n)) + i]
<1> DEFINE a == IF Len(h) > n THEN Len(h) - n + 1 ELSE 1
<1>1. Len(h) \in Nat /\ a \in Int /\ a >= 1 /\ Newest(h, n) = SubSeq(h, a, Len(h))
  BY DEF Newest
<1>2a. (Len(h) > n => a = Len(h) - n + 1) /\ (Len(h) <= n => a = 1)
  BY <1>1
<1>2. \A i \in a .. Len(h) : h[i] \in Scores
  BY <1>1, ElementOfSeq
<1> HIDE DEF a
<1>3. /\ Newest(h, n) \in Seq(Scores)
      /\ Len(Newest(h, n)) = IF a <= Len(h) THEN Len(h) - a + 1 ELSE 0
      /\ \A i \in 1 .. Len(h) - a + 1 : Newest(h, n)[i] = h[a + i - 1]
  BY <1>1, <1>2, SubSeqProperties
<1>4. Len(Newest(h, n)) = IF Len(h) > n THEN n ELSE Len(h)
  <2>1. CASE Len(h) > n
    BY <1>1, <1>2a, <1>3, <2>1
  <2>2. CASE Len(h) <= n
    BY <1>1, <1>2a, <1>3, <2>2
  <2> QED
    BY <1>1, <2>1, <2>2
<1>5. Len(Newest(h, n)) > 0 =>
         Len(Newest(h, n)) = Len(h) - a + 1 /\ Len(h) - Len(Newest(h, n)) = a - 1
  BY <1>1, <1>3
<1>6. ASSUME NEW i \in 1 .. Len(Newest(h, n))
      PROVE  Newest(h, n)[i] = h[Len(h) - Len(Newest(h, n)) + i]
  <2>1. i \in 1 .. Len(h) - a + 1 /\ Len(h) - Len(Newest(h, n)) + i = a + i - 1
    <3>1. Len(Newest(h, n)) \in Nat
      BY <1>1, <1>4
    <3>2. Len(Newest(h, n)) > 0 /\ i \in Int
      BY <3>1
    <3>3. Len(Newest(h, n)) = Len(h) - a + 1 /\ Len(h) - Len(Newest(h, n)) = a - 1
      BY <1>5, <3>2
    <3>4. a - 1 + i = a + i - 1
      BY <1>1, <3>2
    <3> QED
      BY <3>3, <3>4
  <2> QED
    BY <1>3, <2>1
<1> QED
  BY <1>3, <1>4, <1>6

\* A history that is within the window is not cut.
LEMMA WithinWindow ==
  ASSUME NEW h \in Seq(Scores), NEW n \in Nat, Len(h) <= n
  PROVE  Newest(h, n) = h
<1>1. Len(h) \in Nat
  OBVIOUS
<1>2. Newest(h, n) = SubSeq(h, 1, Len(h))
  <2>1. ~(Len(h) > n)
    BY <1>1
  <2> QED
    BY <2>1 DEF Newest
<1> QED
  BY <1>2, SubSeqFull

\* A book without a score is a book.
LEMMA EmptyTyped == Empty \in Books /\ \A h \in Hotkeys : Len(Empty[h]) <= Window
<1>1. <<>> \in Seq(Scores) /\ Len(<<>>) = 0
  BY EmptySeq
<1> QED
  BY <1>1, WindowAssumption DEF Empty, Books

\* What is loaded from the file is a book.
LEMMA LoadTyped ==
  ASSUME NEW f \in {Corrupt} \cup Books
  PROVE  Load(f) \in Books /\ \A h \in Hotkeys : Len(Load(f)[h]) <= Window
<1>0. Window \in Nat
  BY WindowAssumption
<1>1. CASE f = Corrupt
  BY <1>1, EmptyTyped DEF Load
<1>2. CASE f # Corrupt
  <2>1. \A h \in Hotkeys : f[h] \in Seq(Scores) /\ Len(f[h]) \in Nat
    BY <1>2 DEF Books
  <2>2. \A h \in Hotkeys : Newest(f[h], Window) \in Seq(Scores) /\ Len(Newest(f[h], Window)) <= Window
    BY <1>0, <2>1, NewestAt
  <2> QED
    BY <1>2, <2>2 DEF Load, Books
<1> QED
  BY <1>1, <1>2

\* A file written from the book loads as the book.
LEMMA LoadOfBook ==
  ASSUME NEW b \in Books, \A h \in Hotkeys : Len(b[h]) <= Window
  PROVE  Load(b) = b
<1>1. b # Corrupt
  BY FilesAssumption DEF Books, Scores
<1>2. \A h \in Hotkeys : b[h] \in Seq(Scores)
  BY DEF Books
<1>3. \A h \in Hotkeys : Newest(b[h], Window) = b[h]
  BY <1>2, WithinWindow, WindowAssumption
<1>4. b = [h \in Hotkeys |-> b[h]]
  BY DEF Books
<1> QED
  BY <1>1, <1>3, <1>4 DEF Load

\* A book just saved lacks nothing.
LEMMA CoversItself ==
  ASSUME NEW b \in Seq(Scores)
  PROVE  Covers(b, b, 0)
<1>1. Len(b) \in Nat
  OBVIOUS
<1> QED
  BY <1>1 DEF Covers

\* One more score costs the cover at most one more.
LEMMA CoversMore ==
  ASSUME NEW s \in Seq(Scores), NEW b \in Seq(Scores), Len(b) <= Window,
         NEW n \in Nat, Covers(s, b, n), NEW x \in Scores
  PROVE  \E m \in 0 .. n + 1 : Covers(s, Newest(Append(b, x), Window), m)
<1> DEFINE c == Append(b, x)
           d == Newest(c, Window)
<1>0. Window \in Nat /\ Window >= 1 /\ Len(b) \in Nat /\ Len(s) \in Nat
  BY WindowAssumption
<1>1. /\ c \in Seq(Scores) /\ Len(c) = Len(b) + 1
      /\ \A i \in 1 .. Len(b) : c[i] = b[i]
  BY AppendProperties
<1>2. /\ n \in 0 .. Len(b) /\ Len(b) - n <= Len(s)
      /\ \A i \in 1 .. Len(b) - n : b[i] = s[Len(s) - (Len(b) - n) + i]
      /\ Len(b) - n = Len(s) \/ Len(b) = Window
  BY DEF Covers
<1> HIDE DEF c
<1>3. /\ Len(d) = IF Len(c) > Window THEN Window ELSE Len(c)
      /\ \A i \in 1 .. Len(d) : d[i] = c[Len(c) - Len(d) + i]
  BY <1>0, <1>1, NewestAt
<1> HIDE DEF d
<1>4. CASE Len(b) < Window
  <2>1. Len(d) = Len(b) + 1 /\ Len(d) - (n + 1) = Len(b) - n
    BY <1>0, <1>1, <1>3, <1>4
  <2>2. \A i \in 1 .. Len(b) - n : d[i] = b[i]
    <3>1. Len(c) - Len(d) = 0 /\ Len(d) = Len(b) + 1
      BY <1>0, <1>1, <2>1
    <3>2. \A i \in 1 .. Len(b) - n : i \in 1 .. Len(d) /\ i \in 1 .. Len(b) /\ 0 + i = i
      BY <1>0, <1>2, <3>1
    <3> QED
      BY <1>1, <1>3, <3>1, <3>2
  <2>3. Covers(s, d, n + 1)
    <3>1. n + 1 \in 0 .. Len(d) /\ (Len(b) - n = Len(s) \/ Len(d) = Window)
      <4>1. n \in 0 .. Len(b) /\ (Len(b) - n = Len(s) \/ Len(b) = Window)
        BY <1>2
      <4>2. n + 1 \in 0 .. Len(d)
        <5>1. Len(b) \in Nat
          BY <1>0
        <5>2. n <= Len(b)
          BY <4>1, <5>1
        <5>3. Len(d) = Len(b) + 1
          BY <2>1
        <5> QED
          BY <5>1, <5>2, <5>3
      <4> QED
        BY <1>0, <1>4, <4>1, <4>2
    <3> QED
      BY <1>2, <2>1, <2>2, <3>1 DEF Covers
  <2> QED
    BY <2>3 DEF d, c
<1>5. CASE Len(b) = Window /\ n < Window
  <2>1. Len(d) = Window /\ Len(c) - Len(d) = 1 /\ Len(d) - (n + 1) = Len(b) - n - 1
    BY <1>0, <1>1, <1>3, <1>5
  <2>2. \A i \in 1 .. Len(b) - n - 1 :
           i + 1 \in 1 .. Len(b) - n /\ i + 1 \in 1 .. Len(b) /\ i \in 1 .. Len(d)
    BY <1>0, <1>2, <1>5, <2>1
  <2>3. \A i \in 1 .. Len(b) - n - 1 : d[i] = b[i + 1]
    <3>1. \A i \in 1 .. Len(b) - n - 1 : 1 + i = i + 1
      BY <1>0, <1>2
    <3>2. \A i \in 1 .. Len(d) : d[i] = c[1 + i]
      BY <1>3, <2>1
    <3> TAKE i \in 1 .. Len(b) - n - 1
    <3>3. d[i] = c[i + 1]
      BY <2>2, <3>1, <3>2
    <3> QED
      BY <1>1, <2>2, <3>3
  <2>4. ASSUME NEW i \in 1 .. Len(b) - n - 1
        PROVE  d[i] = s[Len(s) - (Len(d) - (n + 1)) + i]
    <3>1. b[i + 1] = s[Len(s) - (Len(b) - n) + (i + 1)]
      BY <1>2, <2>2
    <3>2. Len(s) - (Len(b) - n) + (i + 1) = Len(s) - (Len(d) - (n + 1)) + i
      BY <1>0, <2>1
    <3> QED
      BY <2>3, <3>1, <3>2
  <2>5. Covers(s, d, n + 1)
    BY <1>0, <1>2, <1>5, <2>1, <2>4 DEF Covers
  <2> QED
    BY <2>5 DEF d, c
<1>6. CASE Len(b) = Window /\ n = Window
  <2>1. Len(d) = Window /\ Len(d) - n = 0
    BY <1>0, <1>1, <1>3, <1>6
  <2>2. Covers(s, d, n)
    BY <1>0, <1>6, <2>1 DEF Covers
  <2> QED
    BY <2>2 DEF d, c
<1> QED
  BY <1>0, <1>2, <1>4, <1>5, <1>6

\* The first book is the one of the file.
LEMMA BookStart ==
  ASSUME Init
  PROVE  BookInv
<1>1. BookTyped
  <2>1. file \in {Corrupt, NoObject} \cup Books
    BY FilesAssumption DEF Init, Books, Scores
  <2>2. book \in Books /\ \A h \in Hotkeys : Len(book[h]) <= Window
    <3>1. CASE Starts(file)
      <4>1. file \in {Corrupt} \cup Books /\ book = Load(file)
        BY <2>1, <3>1 DEF Init, Starts
      <4> QED
        BY <4>1, LoadTyped
    <3>2. CASE ~Starts(file)
      BY <3>2, EmptyTyped DEF Init
    <3> QED
      BY <3>1, <3>2
  <2> QED
    BY <2>1, <2>2, ChainAssumption DEF Init, BookTyped, NothingDue, NoVector
<1>2. Covered
  <2>1. pc # "down" => \A h \in Hotkeys : book[h] \in Seq(Scores) /\ book[h] = Load(file)[h]
    BY <1>1 DEF Init, BookTyped, Books
  <2>2. unsaved = 0 /\ 0 \in 0 .. 0
    BY DEF Init
  <2> QED
    BY <2>1, <2>2, CoversItself DEF Covered
<1> QED
  BY <1>1, <1>2 DEF BookInv

\* Recording a score, the file lacks at most that one more.
LEMMA RecordKeeps ==
  ASSUME BookInv, Record
  PROVE  BookInv'
<1>1. PICK h \in DOMAIN due :
         /\ book' = [book EXCEPT ![h] = Newest(Append(@, Clamp(due[h])), Window)]
         /\ due' = [k \in DOMAIN due \ {h} |-> due[k]]
  BY DEF Record
<1>2. /\ pc = "record" /\ pc' = "dump" /\ unsaved' = unsaved + 1
      /\ UNCHANGED <<owner, metagraph, file, age, vector>>
  BY DEF Record, chainVars, weightVars
<1>3. /\ h \in Hotkeys /\ due[h] \in Int /\ book \in Books /\ unsaved \in Nat
      /\ book[h] \in Seq(Scores) /\ Len(book[h]) <= Window /\ Window \in Nat
      /\ file \in {Corrupt} \cup Books
  BY <1>1, <1>2, WindowAssumption DEF BookInv, BookTyped, Books, Starts
<1>4. Clamp(due[h]) \in Scores
  BY <1>3, AlphaAssumption DEF Clamp, Scores
<1> DEFINE new == Newest(Append(book[h], Clamp(due[h])), Window)
<1>5. new \in Seq(Scores) /\ Len(new) <= Window
  <2>1. Append(book[h], Clamp(due[h])) \in Seq(Scores)
    BY <1>3, <1>4
  <2>2. /\ new \in Seq(Scores)
        /\ Len(new) = IF Len(Append(book[h], Clamp(due[h]))) > Window THEN Window
                      ELSE Len(Append(book[h], Clamp(due[h])))
    BY <1>3, <2>1, NewestAt
  <2>3. Len(Append(book[h], Clamp(due[h]))) \in Nat
    BY <2>1
  <2> HIDE DEF new
  <2> QED
    BY <1>3, <2>2, <2>3
<1>6. \A g \in Hotkeys : book'[g] = IF g = h THEN new ELSE book[g]
  BY <1>1, <1>3 DEF Books
<1> HIDE DEF new
<1>7. book' \in Books /\ \A g \in Hotkeys : Len(book'[g]) <= Window
  <2>1. book' = [g \in Hotkeys |-> book'[g]]
    BY <1>1, <1>3 DEF Books
  <2>2. \A g \in Hotkeys : book[g] \in Seq(Scores) /\ Len(book[g]) <= Window
    BY DEF BookInv, BookTyped, Books
  <2> QED
    BY <1>5, <1>6, <2>1, <2>2 DEF Books
<1>8. BookTyped'
  BY <1>1, <1>2, <1>3, <1>7 DEF BookInv, BookTyped
<1>9. Covered'
  <2> SUFFICES ASSUME NEW g \in Hotkeys
               PROVE  \E n \in 0 .. unsaved' : Covers(Load(file)[g], book'[g], n)
    BY <1>2 DEF Covered
  <2>1. PICK n \in 0 .. unsaved : Covers(Load(file)[g], book[g], n)
    BY <1>2 DEF BookInv, Covered
  <2>2. CASE g = h
    <3>1. Load(file)[h] \in Seq(Scores)
      BY <1>3, LoadTyped DEF Books
    <3>2. PICK m \in 0 .. n + 1 : Covers(Load(file)[h], new, m)
      BY <1>3, <1>4, <2>1, <2>2, <3>1, CoversMore DEF new
    <3> QED
      BY <1>2, <1>3, <1>6, <2>2, <3>2
  <2>3. CASE g # h
    BY <1>2, <1>3, <1>6, <2>1, <2>3
  <2> QED
    BY <2>2, <2>3
<1> QED
  BY <1>2, <1>8, <1>9 DEF BookInv

\* A step that leaves book and file alone.
LEMMA BookStep ==
  ASSUME BookInv, [Next]_vars
  PROVE  BookInv'
<1> USE DEF chainVars, bookVars, weightVars
<1>1. CASE Sync \/ Dump \/ PersistFails \/ Accepted \/ Rejected \/ Tick
  <2>1. /\ BookTyped'
        /\ UNCHANGED <<book, file, unsaved>>
        /\ pc # "down" \/ pc' = pc
        /\ pc' = "submit" => pc = "submit" /\ UNCHANGED <<vector, metagraph>>
    <3>1. CASE Sync
      BY <3>1 DEF Sync, BookInv, BookTyped
    <3>2. CASE Dump
      BY <3>2 DEF Dump, BookInv, BookTyped
    <3>3. CASE PersistFails
      BY <3>3 DEF PersistFails, BookInv, BookTyped
    <3>4. CASE Accepted \/ Rejected
      BY <3>4, ChainAssumption DEF Accepted, Rejected, NoVector, BookInv, BookTyped
    <3>5. CASE Tick
      BY <3>5, ChainAssumption DEF Tick, BookInv, BookTyped
    <3> QED
      BY <1>1, <3>1, <3>2, <3>3, <3>4, <3>5
  <2> QED
    BY <2>1 DEF BookInv, Covered
<1>2. CASE RunTask
  <2>1. PICK keys \in SUBSET {metagraph[u] : u \in Uids} : due' \in [keys -> Outcomes]
    BY <1>2 DEF RunTask
  <2>2. keys \subseteq Hotkeys
    BY <2>1 DEF BookInv, BookTyped
  <2> QED
    BY <1>2, <2>1, <2>2, ChainAssumption DEF RunTask, BookInv, BookTyped, Covered
<1>3. CASE Record
  BY <1>3, RecordKeeps
<1>4. CASE Replace
  <2>1. book \in Books /\ \A h \in Hotkeys : book[h] \in Seq(Scores) /\ Len(book[h]) <= Window
    BY DEF BookInv, BookTyped, Books
  <2>2. Load(book) = book
    BY <2>1, LoadOfBook
  <2>3. /\ file' = book /\ book' = book /\ unsaved' = 0 /\ pc' = "record"
        /\ UNCHANGED <<owner, metagraph, due, age, vector>>
    BY <1>4 DEF Replace
  <2>4. Covered'
    <3>1. Load(file)' = book
      BY <2>2, <2>3 DEF Load
    <3>2. 0 \in 0 .. unsaved'
      BY <2>3
    <3> QED
      BY <2>1, <2>3, <3>1, <3>2, CoversItself DEF Covered
  <2>5. Starts(file)'
    BY <2>1, <2>3, FilesAssumption DEF Starts, Books, Scores
  <2> QED
    BY <2>1, <2>3, <2>4, <2>5 DEF BookInv, BookTyped
<1>5. CASE Weigh
  <2>1. DOMAIN WeightVector(book, metagraph) \subseteq Uids
    BY DEF WeightVector
  <2> QED
    BY <1>5, <2>1 DEF Weigh, BookInv, BookTyped, Covered
<1>6. CASE Crash
  BY <1>6, EmptyTyped DEF Crash, NothingDue, NoVector, BookInv, BookTyped, Covered
<1>7. CASE Restart
  <2>1. /\ book' = Load(file) /\ file' = file /\ unsaved' = 0 /\ pc' = "sync"
        /\ metagraph' = owner /\ age' = Tempo /\ UNCHANGED <<owner, due, vector>>
    BY <1>7 DEF Restart
  <2>2. book' \in Books /\ \A h \in Hotkeys : book'[h] \in Seq(Scores) /\ Len(book'[h]) <= Window
    BY <1>7, <2>1, LoadTyped DEF Restart, Starts, BookInv, BookTyped, Books
  <2>3. Covered'
    <3>1. Load(file)' = book' /\ 0 \in 0 .. unsaved'
      BY <2>1 DEF Load
    <3> QED
      BY <2>2, <3>1, CoversItself DEF Covered
  <2>4. Starts(file)'
    BY <1>7 DEF Restart, Starts
  <2> QED
    BY <2>1, <2>2, <2>3, <2>4, ChainAssumption DEF BookInv, BookTyped
<1>8. CASE Register
  BY <1>8 DEF Register, BookInv, BookTyped, Covered
<1>9. CASE UNCHANGED vars
  BY <1>9 DEF vars, BookInv, BookTyped, Covered
<1> QED
  BY <1>1, <1>2, <1>3, <1>4, <1>5, <1>6, <1>7, <1>8, <1>9 DEF Next

\* The file always holds the book but for scores recorded since the last good write.
THEOREM ScoreBookSafety == Spec => []BookInv
<1>1. Init => BookInv
  BY BookStart
<1>2. BookInv /\ [Next]_vars => BookInv'
  BY BookStep
<1> QED
  BY <1>1, <1>2, PTL DEF Spec

\* The type invariant.
THEOREM ScoreBookTypeCorrect == Spec => []TypeOK
<1>1. BookInv => TypeOK
  <2> SUFFICES ASSUME BookInv, NEW h \in Hotkeys
               PROVE  book[h] \in BoundedSeq(0 .. Top, Window)
    BY DEF BookInv, BookTyped, TypeOK
  <2>1. book[h] \in Seq(0 .. Top) /\ Len(book[h]) <= Window
    BY DEF BookInv, BookTyped, Books, Scores
  <2>2. book[h] \in [1 .. Len(book[h]) -> 0 .. Top] /\ Len(book[h]) \in 0 .. Window
    <3>1. Len(book[h]) \in Nat /\ book[h] \in [1 .. Len(book[h]) -> 0 .. Top]
      BY <2>1, LenProperties
    <3> QED
      BY <2>1, <3>1, WindowAssumption
  <2> QED
    BY <2>2 DEF BoundedSeq, SeqOf
<1> QED
  BY <1>1, ScoreBookSafety, PTL

\* A reversed sequence, position by position.
LEMMA ReverseAt ==
  ASSUME NEW s \in Seq(Scores)
  PROVE  /\ Reverse(s) \in Seq(Scores) /\ Len(Reverse(s)) = Len(s)
         /\ \A i \in 1 .. Len(s) : Reverse(s)[i] = s[Len(s) - i + 1]
<1>1. Len(s) \in Nat /\ DOMAIN Reverse(s) = 1 .. Len(s)
  BY DEF Reverse
<1>2. \A i \in 1 .. Len(s) : Len(s) - i + 1 \in 1 .. Len(s)
  BY <1>1
<1>3. \A i \in 1 .. Len(s) : s[Len(s) - i + 1] \in Scores
  BY <1>2, ElementOfSeq
<1>4. Reverse(s) \in [1 .. Len(s) -> Scores]
  BY <1>3 DEF Reverse
<1>5. Reverse(s) \in Seq(Scores)
  BY <1>1, <1>4, SeqDef
<1> QED
  BY <1>1, <1>5 DEF Reverse

\* What a cover says in terms of suffixes.
LEMMA CoverIsSuffix ==
  ASSUME NEW s \in Seq(Scores), NEW b \in Seq(Scores), NEW n \in Nat, Covers(s, b, n)
  PROVE  /\ n <= Len(b)
         /\ IsSuffix(SubSeq(b, 1, Len(b) - n), s)
         /\ Len(SubSeq(b, 1, Len(b) - n)) = Len(s) \/ Len(b) = Window
<1> DEFINE k == Len(b) - n
           old == SubSeq(b, 1, k)
<1>1. /\ n \in 0 .. Len(b) /\ k <= Len(s)
      /\ \A i \in 1 .. k : b[i] = s[Len(s) - k + i]
      /\ k = Len(s) \/ Len(b) = Window
  BY DEF Covers
<1>2. Len(b) \in Nat /\ Len(s) \in Nat /\ k \in Nat /\ k <= Len(b)
  BY <1>1
<1> HIDE DEF k
<1>3. /\ old \in Seq(Scores) /\ Len(old) = k
      /\ \A i \in 1 .. k : old[i] = b[i]
  <2>1. \A i \in 1 .. k : b[i] \in Scores
    BY <1>2, ElementOfSeq
  <2>2. /\ old \in Seq(Scores) /\ Len(old) = IF 1 <= k THEN k - 1 + 1 ELSE 0
        /\ \A i \in 1 .. k - 1 + 1 : old[i] = b[1 + i - 1]
    BY <1>2, <2>1, SubSeqProperties
  <2> QED
    BY <1>2, <2>2
<1> HIDE DEF old
<1> DEFINE r == Reverse(old)
           q == Reverse(s)
<1>4. /\ r \in Seq(Scores) /\ Len(r) = k /\ \A i \in 1 .. k : r[i] = old[k - i + 1]
      /\ q \in Seq(Scores) /\ Len(q) = Len(s) /\ \A i \in 1 .. Len(s) : q[i] = s[Len(s) - i + 1]
  BY <1>3, ReverseAt
<1> HIDE DEF r, q
<1>5. ASSUME NEW i \in 1 .. k
      PROVE  r[i] = q[i]
  <2>1. k - i + 1 \in 1 .. k /\ i \in 1 .. Len(s) /\ Len(s) - k + (k - i + 1) = Len(s) - i + 1
    BY <1>1, <1>2
  <2>2. b[k - i + 1] = s[Len(s) - i + 1]
    BY <1>1, <2>1
  <2> QED
    BY <1>3, <1>4, <2>1, <2>2
<1>6. SubSeq(r, 1, k) = SubSeq(q, 1, k)
  <2>1. \A i \in 1 .. k : r[i] \in Scores /\ q[i] \in Scores
    BY <1>1, <1>2, <1>4, <1>5, ElementOfSeq
  <2>2. /\ SubSeq(r, 1, k) \in Seq(Scores) /\ SubSeq(q, 1, k) \in Seq(Scores)
        /\ Len(SubSeq(r, 1, k)) = IF 1 <= k THEN k - 1 + 1 ELSE 0
        /\ Len(SubSeq(q, 1, k)) = IF 1 <= k THEN k - 1 + 1 ELSE 0
        /\ \A i \in 1 .. k - 1 + 1 : SubSeq(r, 1, k)[i] = r[1 + i - 1]
        /\ \A i \in 1 .. k - 1 + 1 : SubSeq(q, 1, k)[i] = q[1 + i - 1]
    BY <1>2, <2>1, SubSeqProperties
  <2>3. /\ Len(SubSeq(r, 1, k)) = k /\ Len(SubSeq(q, 1, k)) = k
        /\ \A i \in 1 .. k : SubSeq(r, 1, k)[i] = r[i] /\ SubSeq(q, 1, k)[i] = q[i]
    BY <1>2, <2>2
  <2> QED
    BY <1>5, <2>2, <2>3, SeqEqual
<1>7. IsSuffix(old, s)
  BY <1>1, <1>4, <1>6 DEF IsSuffix, IsPrefix, r, q
<1> QED
  BY <1>1, <1>2, <1>3, <1>7 DEF old, k

\* Whenever the validator dies, its file lacks no score but those recorded since the last
\* write that succeeded, however writes fail and whatever the file held at first.
THEOREM SavedButTheLastHolds == Spec => []SavedButTheLast
<1>1. BookInv => SavedButTheLast
  <2> SUFFICES ASSUME BookInv, pc # "down", NEW h \in Hotkeys
               PROVE  \E n \in 0 .. unsaved :
                        /\ n <= Len(book[h])
                        /\ IsSuffix(SubSeq(book[h], 1, Len(book[h]) - n), Load(file)[h])
                        /\ \/ Len(SubSeq(book[h], 1, Len(book[h]) - n)) = Len(Load(file)[h])
                           \/ Len(book[h]) = Window
    BY DEF SavedButTheLast
  <2>1. PICK n \in 0 .. unsaved : Covers(Load(file)[h], book[h], n)
    BY DEF BookInv, Covered
  <2>2. unsaved \in Nat /\ n \in Nat
    BY DEF BookInv, BookTyped
  <2>3. book[h] \in Seq(Scores) /\ Load(file)[h] \in Seq(Scores)
    BY LoadTyped DEF BookInv, BookTyped, Books, Starts
  <2> QED
    BY <2>1, <2>2, <2>3, CoverIsSuffix
<1> QED
  BY <1>1, ScoreBookSafety, PTL

================================================================================
