--------------------------- MODULE NodesFileProofs ---------------------------
(***************************************************************************)
(* Proofs about NodesFile: for any number of nodes and of workers, rows of *)
(* any widths, a buffer of any size, and any number of updates, crashes    *)
(* and failed writes, the invariants that MCNodesFile checks.              *)
(*                                                                         *)
(* They rest on one idea: a file that lacks rows is still to be written by *)
(* some save, and each save ends with a write that completes its text,     *)
(* unless the pieces before were another's by then.                        *)
(***************************************************************************)
EXTENDS NodesFile, TLAPS

-----------------------------------------------------------------------------
(* The parts of the state *)

\* Rows of the file, in memory or in a buffer, with their capacities.
IsRows(f) == DOMAIN f \subseteq Rows /\ f \in [DOMAIN f -> Capacities]

IsFile(f) == IsRows(f.rows) /\ f.size \in Nat /\ f.owner \in Workers \cup {Nobody}

\* A saveNodes under way: the nodes before its row have been formatted.
IsOpen(s, loaded) ==
  /\ s = Open(s.row, s.text, s.size, s.at)
  /\ s.row \in 1 .. (NumRows + 1)
  /\ IsRows(s.text)
  /\ DOMAIN s.text = {r \in loaded : r < s.row}
  /\ s.size \in Nat /\ s.size <= (s.row - 1) * LongestRow
  /\ s.at \in 0 .. s.size
  /\ FitsBuffer => s.at = 0

IsSaver(s, loaded) == s = Idle \/ s = Closed \/ IsOpen(s, loaded)

TypeInv ==
  /\ IsRows(capacity)
  /\ IsFile(file)
  /\ saver = [w \in Workers |-> saver[w]]
  /\ \A w \in Workers : IsSaver(saver[w], DOMAIN capacity)
  /\ ~ up => \A w \in Workers : saver[w] = Idle
  /\ up \in BOOLEAN /\ torn \in BOOLEAN /\ overlap \in BOOLEAN /\ spoiled \in BOOLEAN

\* A file that lacks nodes in memory is going to be written again.
CoverInv ==
  TypeInv /\ (up /\ ~ spoiled =>
    DOMAIN capacity \subseteq DOMAIN file.rows \/ \E w \in Workers : saver[w] # Idle)

\* A file that lacks nodes was truncated by a save that still has it open.
SurviveInv ==
  TypeInv /\ (~ torn =>
    /\ Shipped \subseteq DOMAIN capacity
    /\ Shipped \subseteq DOMAIN file.rows \/ \E w \in Workers : saver[w].pc = "open")

\* Rows with their capacities in memory.
InMemory(rows) == \A r \in DOMAIN rows : r \in DOMAIN capacity /\ rows[r] = capacity[r]

OnFile == \A r \in DOMAIN capacity : r \in DOMAIN file.rows /\ file.rows[r] = capacity[r]

\* The file is what the stream of w wrote to it so far.
OwnFile(w) == file.owner = w /\ file.size = saver[w].at

\* A save that runs alone writes what is in memory to a file of its own.
SavedInv ==
  TypeInv /\ (up /\ ~ overlap /\ ~ spoiled =>
    /\ \A v, w \in Workers : saver[v] # Idle /\ saver[w] # Idle => v = w
    /\ \A w \in Workers : saver[w].pc = "open" => OwnFile(w) /\ InMemory(saver[w].text)
    /\ OnFile \/ \E w \in Workers : saver[w] # Idle)

-----------------------------------------------------------------------------
(* Rows, texts and files *)

\* Rows that take the place of others.
LEMMA RowsOver ==
  ASSUME NEW f, NEW g, IsRows(f), IsRows(g)
  PROVE  /\ IsRows(Over(f, g))
         /\ DOMAIN Over(f, g) = DOMAIN f \cup DOMAIN g
         /\ \A r \in DOMAIN f : Over(f, g)[r] = f[r]
         /\ \A r \in DOMAIN g \ DOMAIN f : Over(f, g)[r] = g[r]
  BY DEF IsRows, Over

\* Some of a number of rows.
LEMMA SomeRows ==
  ASSUME NEW f, IsRows(f), NEW S, S \subseteq DOMAIN f
  PROVE  /\ IsRows(Restrict(f, S)) /\ DOMAIN Restrict(f, S) = S
         /\ \A r \in S : Restrict(f, S)[r] = f[r]
  BY DEF IsRows, Restrict

\* Nothing has been formatted, or nothing is left in the file.
LEMMA NoRowsAreRows == IsRows(NoRows) /\ DOMAIN NoRows = {}
  BY DEF IsRows, NoRows

\* The constants that bound a file are numbers.
LEMMA SizesAreNumbers ==
  /\ NumRows \in Nat /\ LongestRow \in Nat /\ ShippedSize \in Nat
  /\ BufferSize \in Nat /\ BufferSize > 0
  /\ Rows \subseteq Nat /\ \A r \in Rows : 1 <= r /\ r <= NumRows
  BY RowsAssumption, SizeAssumption DEF Rows

\* The file after it was opened.
LEMMA EmptyFile ==
  ASSUME NEW w \in Workers
  PROVE  LET f == File(NoRows, 0, w) IN IsFile(f) /\ f.owner = w /\ f.size = 0
  BY NoRowsAreRows DEF IsFile, File

\* A text of the first rows is no longer than as many rows of the longest kind.
LEMMA OneRowLonger ==
  ASSUME NEW n \in Nat, NEW k \in Nat, NEW m \in Nat, m <= n * LongestRow, k <= LongestRow
  PROVE  m + k <= (n + 1) * LongestRow
<1>1. LongestRow \in Nat
  BY SizesAreNumbers
<1>2. (n + 1) * LongestRow = n * LongestRow + LongestRow
  BY <1>1
<1>3. n * LongestRow \in Nat
  BY <1>1
<1> QED
  BY <1>1, <1>2, <1>3

LEMMA TextFits ==
  ASSUME NEW s, NEW loaded, IsOpen(s, loaded)
  PROVE  /\ s.size \in 0 .. (NumRows * LongestRow)
         /\ FitsBuffer => ~ Full(s)
<1> DEFINE n == s.row - 1
           m == s.size
<1>1. n \in Nat /\ n <= NumRows /\ NumRows \in Nat /\ LongestRow \in Nat
      /\ m \in Nat /\ m <= n * LongestRow
  BY SizesAreNumbers DEF IsOpen
<1> HIDE DEF n, m
<1>2. n * LongestRow <= NumRows * LongestRow
  <2>1. PICK d \in Nat : NumRows = n + d
    <3>1. NumRows - n \in Nat /\ NumRows = n + (NumRows - n)
      BY <1>1
    <3> QED
      BY <3>1
  <2>2. NumRows * LongestRow = n * LongestRow + d * LongestRow
    BY <1>1, <2>1
  <2>3. d * LongestRow \in Nat /\ n * LongestRow \in Nat
    BY <1>1
  <2> QED
    BY <2>2, <2>3
<1>3. n * LongestRow \in Nat /\ NumRows * LongestRow \in Nat
  BY <1>1
<1>4. m \in 0 .. (NumRows * LongestRow)
  BY <1>1, <1>2, <1>3
<1>5. FitsBuffer => ~ (m > s.at + BufferSize)
  <2>1. s.at \in Nat
    BY DEF IsOpen
  <2>2. BufferSize \in Nat
    BY SizesAreNumbers
  <2> DEFINE all == NumRows * LongestRow
  <2>3. FitsBuffer => all <= BufferSize
    BY DEF FitsBuffer
  <2>4. all \in Nat /\ m \in Nat /\ m <= all
    BY <1>3, <1>4
  <2> HIDE DEF all
  <2> QED
    BY <2>1, <2>2, <2>3, <2>4
<1> QED
  BY <1>4, <1>5 DEF m, Full

\* What mixed texts read as.
LEMMA MisreadIsRows == ASSUME NEW rest \in Misread PROVE IsRows(rest)
  BY DEF Misread, IsRows, Capacities

\* A write that does not mix leaves a file with at least its rows, and with no
\* others if the file was no longer.
LEMMA FileWritten ==
  ASSUME IsFile(file), NEW w \in Workers, NEW rows, IsRows(rows), NEW end \in Nat,
         NEW f, f \in Written(w, rows, end)
  PROVE  /\ IsFile(f)
         /\ ~ Mixes(w) => DOMAIN rows \subseteq DOMAIN f.rows
         /\ ~ Mixes(w) /\ (saver[w].at = 0 => file.size <= end) => f = File(rows, end, w)
<1>1. /\ file.size \in Nat
      /\ \A g, n, o : File(g, n, o).rows = g /\ File(g, n, o).size = n /\ File(g, n, o).owner = o
  BY DEF IsFile, File
<1>2. CASE Mixes(w)
  <2>1. PICK misread \in Misread : f = File(misread, IF file.size > end THEN file.size ELSE end, Nobody)
    BY <1>2 DEF Written
  <2> QED
    BY <1>1, <1>2, <2>1, MisreadIsRows DEF IsFile
<1>3. CASE ~ Mixes(w) /\ saver[w].at = 0 /\ file.size > end
  <2>1. PICK misread \in Misread : f = File(Over(misread, rows), file.size, Nobody)
    BY <1>3 DEF Written
  <2>2. IsRows(Over(misread, rows)) /\ DOMAIN rows \subseteq DOMAIN Over(misread, rows)
    BY MisreadIsRows, RowsOver
  <2>3. ~ (file.size <= end)
    BY <1>1, <1>3
  <2> QED
    BY <1>1, <1>3, <2>1, <2>2, <2>3 DEF IsFile
<1>4. CASE ~ Mixes(w) /\ ~ (saver[w].at = 0 /\ file.size > end)
  <2>1. f = File(rows, end, w)
    BY <1>4 DEF Written
  <2> QED
    BY <1>1, <2>1 DEF IsFile
<1> QED
  BY <1>2, <1>3, <1>4

\* The three kinds of saver are told apart by their pc.
LEMMA SaverKinds ==
  ASSUME NEW s, NEW loaded, IsSaver(s, loaded)
  PROVE  /\ s = Idle <=> s.pc = "idle"
         /\ s = Closed <=> s.pc = "closed"
         /\ IsOpen(s, loaded) <=> s.pc = "open"
         /\ s.pc \in {"idle", "closed", "open"}
  BY DEF IsSaver, IsOpen, Idle, Closed, Open

\* A save that has just opened the file.
LEMMA FirstRowIsOpen ==
  ASSUME NEW loaded, loaded \subseteq Rows
  PROVE  /\ IsOpen(FirstRow, loaded) /\ FirstRow.pc = "open"
         /\ FirstRow.text = NoRows /\ FirstRow.at = 0
<1>1. FirstRow.row = 1 /\ FirstRow.text = NoRows /\ FirstRow.pc = "open" /\ FirstRow.size = 0
      /\ FirstRow.at = 0
  BY DEF FirstRow, Open
<1>2. {r \in loaded : r < 1} = {}
  <2>1. \A r \in loaded : r \in Nat /\ 1 <= r
    BY SizesAreNumbers
  <2>2. \A r \in loaded : ~ (r < 1)
    BY <2>1
  <2> QED
    BY <2>2, Zenon
<1>3. 1 \in 1 .. (NumRows + 1) /\ 0 <= (1 - 1) * LongestRow
  BY SizesAreNumbers
<1> QED
  BY <1>1, <1>2, <1>3, NoRowsAreRows DEF IsOpen, FirstRow

\* The next node is formatted, if there is one with this number.
LEMMA NextRowIsOpen ==
  ASSUME NEW s, IsRows(capacity), IsOpen(s, DOMAIN capacity), s.row \in Rows
  PROVE  LET t == NextRow(s) IN
         /\ IsOpen(t, DOMAIN capacity) /\ t.pc = "open" /\ t.at = s.at
         /\ InMemory(s.text) => InMemory(t.text)
<1> DEFINE t == NextRow(s)
           k == s.row
           new == {k} \cap DOMAIN capacity
           added == Restrict(capacity, new)
           size == Bytes(s)
<1>1. /\ IsRows(s.text) /\ DOMAIN s.text = {r \in DOMAIN capacity : r < k}
      /\ s.size \in Nat /\ s.size <= (k - 1) * LongestRow
      /\ k \in 1 .. NumRows /\ NumRows \in Nat /\ DOMAIN capacity \subseteq Nat
  BY SizesAreNumbers DEF IsOpen, IsRows, Rows
<1>2. IsRows(added) /\ DOMAIN added = new /\ \A r \in new : added[r] = capacity[r]
  BY SomeRows
<1>3. /\ t.pc = "open" /\ t.row = k + 1 /\ t.text = Over(s.text, added) /\ t.size = size
      /\ t.at = s.at /\ t = Open(t.row, t.text, t.size, t.at)
  BY DEF NextRow, Formatted, Open
<1>4. size \in Nat /\ size <= k * LongestRow /\ s.size <= size
  <2>1. (k - 1) \in Nat /\ k = (k - 1) + 1 /\ LongestRow \in Nat
    BY <1>1, SizesAreNumbers
  <2>2. CASE k \in DOMAIN capacity
    <3>1. capacity[k] \in Capacities /\ k \in Rows
      BY <2>2 DEF IsRows
    <3>2. RowSize[k][capacity[k]] \in 0 .. LongestRow
      BY <3>1, SizeAssumption
    <3>3. size = s.size + RowSize[k][capacity[k]]
      BY <2>2 DEF Bytes
    <3> HIDE DEF size
    <3> QED
      BY <1>1, <2>1, <3>2, <3>3, OneRowLonger
  <2>3. CASE k \notin DOMAIN capacity
    <3>1. size = s.size + 0
      BY <1>1, <2>3 DEF Bytes
    <3> QED
      BY <1>1, <2>1, <3>1, OneRowLonger
  <2> QED
    BY <2>2, <2>3
<1> HIDE DEF added, size, t
<1>5. /\ IsRows(t.text) /\ DOMAIN t.text = DOMAIN s.text \cup new
      /\ \A r \in DOMAIN s.text : t.text[r] = s.text[r]
      /\ \A r \in new : r \notin DOMAIN s.text /\ t.text[r] = capacity[r]
  <2> DEFINE old == s.text
  <2>1. IsRows(old) /\ t.text = Over(old, added) /\ DOMAIN added = new
        /\ \A r \in new : r \notin DOMAIN old
    BY <1>1, <1>2, <1>3
  <2> HIDE DEF old, new
  <2>2. /\ IsRows(Over(old, added)) /\ DOMAIN Over(old, added) = DOMAIN old \cup DOMAIN added
        /\ \A r \in DOMAIN old : Over(old, added)[r] = old[r]
        /\ \A r \in DOMAIN added \ DOMAIN old : Over(old, added)[r] = added[r]
    <3>1. IsRows(old) /\ IsRows(added)
      BY <1>2, <2>1
    <3> HIDE DEF old
    <3> QED
      BY <3>1, RowsOver, Zenon
  <2> QED
    BY <1>2, <2>1, <2>2 DEF old
<1>6. DOMAIN t.text = {r \in DOMAIN capacity : r < k + 1}
  BY <1>1, <1>5
<1>7. k + 1 \in 1 .. (NumRows + 1) /\ (k + 1) - 1 = k
  BY <1>1
<1>8. IsOpen(t, DOMAIN capacity)
  <2>1. t.at \in 0 .. t.size /\ (FitsBuffer => t.at = 0)
    BY <1>1, <1>3, <1>4 DEF IsOpen
  <2> QED
    BY <1>3, <1>4, <1>5, <1>6, <1>7, <2>1 DEF IsOpen
<1>9. InMemory(s.text) => InMemory(t.text)
  BY <1>5 DEF InMemory
<1> QED
  BY <1>3, <1>8, <1>9 DEF t

\* A full buffer is written.
LEMMA NextPieceIsOpen ==
  ASSUME NEW s, NEW loaded, IsOpen(s, loaded), Full(s)
  PROVE  LET t == [s EXCEPT !.at = @ + BufferSize] IN
         /\ IsOpen(t, loaded) /\ t.pc = "open" /\ t.text = s.text /\ t.at = s.at + BufferSize
         /\ s.at + BufferSize \in Nat
<1> DEFINE t == [s EXCEPT !.at = @ + BufferSize]
<1>1. s = Open(s.row, s.text, s.size, s.at) /\ s.at \in 0 .. s.size /\ s.size \in Nat
  BY DEF IsOpen
<1>2. /\ t.pc = "open" /\ t.row = s.row /\ t.text = s.text /\ t.size = s.size
      /\ t.at = s.at + BufferSize /\ t = Open(t.row, t.text, t.size, t.at)
  BY <1>1 DEF Open
<1>3. ~ FitsBuffer
  BY TextFits
<1>4. s.at + BufferSize \in 0 .. s.size
  BY <1>1, SizesAreNumbers DEF Full
<1> HIDE DEF t
<1>5. IsOpen(t, loaded)
  BY <1>2, <1>3, <1>4 DEF IsOpen
<1> QED
  BY <1>2, <1>4, <1>5 DEF t

\* A save that has come past the last row has formatted all nodes.
LEMMA AllFormatted ==
  ASSUME NEW s, IsRows(capacity), IsOpen(s, DOMAIN capacity), s.row \notin Rows
  PROVE  DOMAIN s.text = DOMAIN capacity
  BY SizesAreNumbers DEF IsOpen, IsRows, Rows

-----------------------------------------------------------------------------
(* Types *)

LEMMA InitTypes == Init => TypeInv
<1> SUFFICES ASSUME Init PROVE TypeInv
  OBVIOUS
<1>1. IsRows(InitialCapacity)
  BY RowsAssumption DEF IsRows, Capacities, Range, Shipped
<1>2. IsFile(File(InitialCapacity, ShippedSize, Nobody))
  BY <1>1, SizesAreNumbers DEF IsFile, File
<1> QED
  BY <1>1, <1>2 DEF Init, TypeInv, IsSaver

\* Only the worker that takes a step has another saver afterwards.
LEMMA SaverMoves ==
  ASSUME TypeInv, NEW w \in Workers, NEW s, saver' = [saver EXCEPT ![w] = s]
  PROVE  /\ saver'[w] = s
         /\ \A v \in Workers : v # w => saver'[v] = saver[v]
         /\ saver' = [v \in Workers |-> saver'[v]]
<1>1. saver = [v \in Workers |-> saver[v]]
  BY DEF TypeInv
<1> QED
  BY <1>1

\* What the steps of the savers, and the failures of their streams, do to the
\* shapes of the state.
LEMMA TypesKept ==
  ASSUME TypeInv, NEW w \in Workers, NEW s, saver' = [saver EXCEPT ![w] = s],
         IsSaver(s, DOMAIN capacity'), DOMAIN capacity' = DOMAIN capacity, IsRows(capacity'),
         IsFile(file'), up, up' = up,
         torn' \in BOOLEAN, overlap' \in BOOLEAN, spoiled' \in BOOLEAN
  PROVE  TypeInv'
<1>1. /\ saver' = [v \in Workers |-> saver'[v]]
      /\ saver'[w] = s /\ \A v \in Workers : v # w => saver'[v] = saver[v]
  BY SaverMoves
<1>2. \A v \in Workers : IsSaver(saver'[v], DOMAIN capacity')
  BY <1>1 DEF TypeInv
<1> QED
  BY <1>1, <1>2 DEF TypeInv

\* Only a process that runs has a save under way.
LEMMA SaverRuns ==
  ASSUME TypeInv, NEW w \in Workers, saver[w] # Idle
  PROVE  up
  BY DEF TypeInv

LEMMA UpdateTypes ==
  ASSUME TypeInv, NEW w \in Workers, NEW n \in Rows, NEW c \in CapInputs,
         UpdateCapacity(w, n, c)
  PROVE  TypeInv'
<1>1. DOMAIN capacity' = DOMAIN capacity /\ IsRows(capacity')
  BY DEF UpdateCapacity, TypeInv, IsRows, Capacities
<1>2. IsSaver(Closed, DOMAIN capacity')
  BY DEF IsSaver
<1>3. IsFile(file') /\ spoiled' \in BOOLEAN /\ overlap' \in BOOLEAN /\ torn' \in BOOLEAN
  BY DEF UpdateCapacity, TypeInv
<1> QED
  BY <1>1, <1>2, <1>3, TypesKept DEF UpdateCapacity

\* What a save has written, and the shapes of the state after its step.
LEMMA SaveSteps ==
  ASSUME TypeInv, NEW w \in Workers, Save(w)
  PROVE  LET s == saver[w]
             t == saver'[w]
         IN  /\ TypeInv' /\ up
             /\ \A v \in Workers : v # w => saver'[v] = saver[v]
             /\ UNCHANGED <<capacity, up, overlap>>
             /\ (torn => torn') /\ (spoiled => spoiled')
             /\ s # Idle
             /\ \/ s = Closed /\ t.pc = "open" /\ t.text = NoRows /\ OwnFile(w)'
                \/ /\ s.pc = "open" /\ t.pc = "open"
                   /\ InMemory(s.text) => InMemory(t.text)
                   /\ OwnFile(w) => OwnFile(w)'
                \/ /\ s.pc = "open" /\ t = Idle /\ DOMAIN s.text = DOMAIN capacity
                   /\ ~ torn' \/ ~ spoiled' => DOMAIN s.text \subseteq DOMAIN file'.rows
                   /\ OwnFile(w) => file'.rows = s.text
<1> DEFINE s == saver[w]
           t == saver'[w]
<1>1. /\ IsRows(capacity) /\ IsFile(file) /\ IsSaver(s, DOMAIN capacity)
      /\ DOMAIN capacity \subseteq Rows
      /\ torn \in BOOLEAN /\ overlap \in BOOLEAN /\ spoiled \in BOOLEAN
      /\ saver = [v \in Workers |-> saver[v]]
  BY DEF TypeInv, IsRows
<1>2. /\ s.pc \in {"closed", "open"} /\ s # Idle /\ up
      /\ UNCHANGED <<capacity, up, overlap>>
      /\ (torn => torn') /\ (spoiled => spoiled')
      /\ torn' \in BOOLEAN /\ spoiled' \in BOOLEAN
  <2>1. /\ s.pc \in {"closed", "open"}
        /\ UNCHANGED <<capacity, up, overlap>>
        /\ \/ torn' = torn /\ spoiled' = spoiled
           \/ torn' = (torn \/ Mixes(w)) /\ spoiled' = (spoiled \/ Mixes(w))
    BY DEF Save, OpenFile, FormatRow, FlushBuffer, CloseFile, Closed, history
  <2>2. s # Idle
    BY <2>1 DEF Idle
  <2>3. up
    BY <2>2, SaverRuns
  <2>4. Mixes(w) \in BOOLEAN
    BY DEF Mixes
  <2> QED
    BY <1>1, <2>1, <2>2, <2>3, <2>4
<1>3. ASSUME NEW x, saver' = [saver EXCEPT ![w] = x], IsSaver(x, DOMAIN capacity), IsFile(file')
      PROVE  t = x /\ TypeInv' /\ \A v \in Workers : v # w => saver'[v] = saver[v]
  BY <1>1, <1>2, <1>3, TypesKept, SaverMoves
<1>4. ASSUME OwnFile(w)
      PROVE  ~ Mixes(w) /\ (s.at = 0 => file.size = 0)
  BY <1>4 DEF OwnFile, Mixes
<1>5. CASE OpenFile(w)
  <2>1. s = Closed /\ saver' = [saver EXCEPT ![w] = FirstRow] /\ file' = File(NoRows, 0, w)
    BY <1>5 DEF OpenFile
  <2>2. /\ IsSaver(FirstRow, DOMAIN capacity) /\ FirstRow.pc = "open"
        /\ FirstRow.text = NoRows /\ FirstRow.at = 0
    BY <1>1, FirstRowIsOpen DEF IsSaver
  <2>3. IsFile(file') /\ file'.owner = w /\ file'.size = 0
    BY <2>1, EmptyFile
  <2> QED
    BY <1>2, <1>3, <2>1, <2>2, <2>3 DEF OwnFile
<1>6. CASE FormatRow(w)
  <2>1. s.pc = "open" /\ saver' = [saver EXCEPT ![w] = NextRow(s)] /\ file' = file
        /\ s.row \in Rows
    BY <1>6 DEF FormatRow
  <2>2. IsOpen(s, DOMAIN capacity)
    BY <1>1, <2>1, SaverKinds
  <2>3. /\ IsSaver(NextRow(s), DOMAIN capacity) /\ NextRow(s).pc = "open"
        /\ NextRow(s).at = s.at
        /\ InMemory(s.text) => InMemory(NextRow(s).text)
    BY <1>1, <2>1, <2>2, NextRowIsOpen DEF IsSaver
  <2> QED
    BY <1>1, <1>2, <1>3, <2>1, <2>3 DEF OwnFile
<1>7. CASE FlushBuffer(w)
  <2> DEFINE next == [s EXCEPT !.at = @ + BufferSize]
             end == s.at + BufferSize
  <2>1. /\ s.pc = "open" /\ Full(s)
        /\ saver' = [saver EXCEPT ![w].at = @ + BufferSize]
        /\ \E whole \in {s.row - 1, s.row} : file' \in Written(w, Before(whole, s.text), end)
    BY <1>7 DEF FlushBuffer
  <2>2. saver' = [saver EXCEPT ![w] = next]
    BY <2>1
  <2>3. IsOpen(s, DOMAIN capacity) /\ IsRows(s.text)
    BY <1>1, <2>1, SaverKinds DEF IsOpen
  <2>4. /\ IsSaver(next, DOMAIN capacity) /\ next.pc = "open" /\ next.text = s.text
        /\ next.at = end /\ end \in Nat
    BY <2>1, <2>3, NextPieceIsOpen DEF IsSaver
  <2>5. PICK whole \in {s.row - 1, s.row} : file' \in Written(w, Before(whole, s.text), end)
    BY <2>1
  <2>6. IsRows(Before(whole, s.text))
    BY <2>3, SomeRows DEF Before
  <2> HIDE DEF next, end
  <2>7. /\ IsFile(file')
        /\ ~ Mixes(w) /\ (s.at = 0 => file.size <= end) =>
             file' = File(Before(whole, s.text), end, w)
    BY <1>1, <2>4, <2>5, <2>6, FileWritten
  <2>8. t = next
    BY <1>3, <2>2, <2>4, <2>7
  <2>9. ASSUME OwnFile(w)
        PROVE  OwnFile(w)'
    <3>1. file' = File(Before(whole, s.text), end, w)
      BY <1>4, <2>4, <2>7, <2>9
    <3>2. file'.owner = w /\ file'.size = end
      BY <3>1 DEF File
    <3> QED
      BY <2>4, <2>8, <3>2 DEF OwnFile
  <2> QED
    BY <1>2, <1>3, <2>1, <2>2, <2>4, <2>7, <2>8, <2>9
<1>8. CASE CloseFile(w)
  <2>1. /\ s.pc = "open" /\ saver' = [saver EXCEPT ![w] = Idle] /\ s.row \notin Rows
        /\ file' \in Written(w, s.text, s.size)
        /\ torn' = (torn \/ Mixes(w)) /\ spoiled' = (spoiled \/ Mixes(w))
    BY <1>8 DEF CloseFile, Flushed, Formats
  <2>2. IsOpen(s, DOMAIN capacity) /\ IsRows(s.text) /\ s.size \in Nat
    BY <1>1, <2>1, SaverKinds DEF IsOpen
  <2>3. DOMAIN s.text = DOMAIN capacity
    BY <1>1, <2>1, <2>2, AllFormatted
  <2>4. /\ IsFile(file')
        /\ ~ Mixes(w) => DOMAIN s.text \subseteq DOMAIN file'.rows
        /\ ~ Mixes(w) /\ (s.at = 0 => file.size <= s.size) => file' = File(s.text, s.size, w)
    BY <1>1, <2>1, <2>2, FileWritten
  <2>5. ~ torn' \/ ~ spoiled' => DOMAIN s.text \subseteq DOMAIN file'.rows
    BY <2>1, <2>4
  <2>6. ASSUME OwnFile(w)
        PROVE  file'.rows = s.text
    <3>1. file' = File(s.text, s.size, w)
      BY <1>4, <2>2, <2>4, <2>6
    <3> QED
      BY <3>1 DEF File
  <2> QED
    BY <1>2, <1>3, <2>1, <2>3, <2>4, <2>5, <2>6 DEF IsSaver
<1> QED
  BY <1>5, <1>6, <1>7, <1>8 DEF Save

\* A stream that cannot be opened or written ends its save.
LEMMA FailTypes ==
  ASSUME TypeInv, NEW w \in Workers, OpenFails(w) \/ WriteFails(w)
  PROVE  /\ TypeInv' /\ spoiled' /\ up
         /\ \A v \in Workers : v # w => saver'[v] = saver[v]
         /\ \/ saver[w] = Closed /\ UNCHANGED <<capacity, file, torn>>
            \/ torn'
<1> DEFINE s == saver[w]
<1>1. /\ s # Idle /\ spoiled' = TRUE /\ UNCHANGED <<capacity, up, overlap>>
      /\ saver' = [saver EXCEPT ![w] = Idle]
      /\ (s = Closed /\ UNCHANGED <<capacity, file, torn>>) \/ torn' = TRUE
  BY DEF OpenFails, WriteFails, Idle, Closed
<1>2. IsSaver(Idle, DOMAIN capacity') /\ up
  BY <1>1, SaverRuns DEF IsSaver
<1>3. IsFile(file')
  <2>1. CASE OpenFails(w)
    BY <2>1 DEF OpenFails, TypeInv
  <2>2. CASE WriteFails(w)
    <3>1. PICK whole \in 1 .. s.row :
            s.pc = "open" /\ \E end \in s.at .. s.size :
              file' \in Written(w, Before(whole, s.text), end)
      BY <2>2 DEF WriteFails
    <3>2. PICK end \in s.at .. s.size : file' \in Written(w, Before(whole, s.text), end)
      BY <3>1
    <3>3. IsOpen(s, DOMAIN capacity) /\ IsRows(s.text) /\ IsFile(file)
      BY <3>1, SaverKinds DEF IsOpen, TypeInv
    <3>4. end \in Nat
      BY <3>3 DEF IsOpen
    <3>5. IsRows(Before(whole, s.text))
      BY <3>3, SomeRows DEF Before
    <3> QED
      BY <3>2, <3>3, <3>4, <3>5, FileWritten
  <2> QED
    BY <2>1, <2>2
<1>4. /\ DOMAIN capacity' = DOMAIN capacity /\ IsRows(capacity')
      /\ torn' \in BOOLEAN /\ overlap' \in BOOLEAN /\ spoiled' \in BOOLEAN
  BY <1>1 DEF TypeInv
<1> QED
  BY <1>1, <1>2, <1>3, <1>4, TypesKept, SaverMoves

LEMMA CrashTypes == ASSUME TypeInv, Crash PROVE TypeInv'
  BY DEF TypeInv, Crash, IsSaver

\* A new process has in memory what is on file.
LEMMA RestartTypes ==
  ASSUME TypeInv, Restart
  PROVE  /\ TypeInv' /\ capacity' = file.rows /\ file' = file /\ torn' = torn
         /\ \A w \in Workers : saver[w] = Idle /\ saver'[w] = Idle
<1>1. /\ capacity' = file.rows /\ file' = file /\ torn' = torn /\ IsRows(capacity')
      /\ \A w \in Workers : saver[w] = Idle /\ saver'[w] = Idle
  BY DEF Restart, TypeInv, IsFile
<1>2. TypeInv'
  BY <1>1 DEF TypeInv, Restart, IsSaver
<1> QED
  BY <1>1, <1>2

LEMMA NextTypes == TypeInv /\ [Next]_vars => TypeInv'
<1> SUFFICES ASSUME TypeInv, [Next]_vars PROVE TypeInv'
  OBVIOUS
<1>1. CASE UNCHANGED vars
  BY <1>1 DEF vars, history, TypeInv
<1> QED
  BY <1>1, UpdateTypes, SaveSteps, FailTypes, CrashTypes, RestartTypes DEF Next

-----------------------------------------------------------------------------
(* Nodes that are on file or will be *)

LEMMA InitCovers == Init => CoverInv
<1> SUFFICES ASSUME Init PROVE CoverInv
  OBVIOUS
<1>1. DOMAIN capacity = DOMAIN file.rows
  BY DEF Init, File
<1> QED
  BY <1>1, InitTypes DEF CoverInv

LEMMA NextCovers == CoverInv /\ [Next]_vars => CoverInv'
<1> DEFINE Covered == DOMAIN capacity' \subseteq DOMAIN file'.rows
                      \/ \E v \in Workers : saver'[v] # Idle
<1> SUFFICES ASSUME CoverInv, [Next]_vars, up', ~ spoiled'
             PROVE  Covered
  BY NextTypes DEF CoverInv
<1>1. TypeInv
  BY DEF CoverInv
<1>2. CASE UNCHANGED vars
  BY <1>2 DEF vars, history, CoverInv
<1>3. ASSUME NEW w \in Workers, NEW n \in Rows, NEW c \in CapInputs, UpdateCapacity(w, n, c)
      PROVE  Covered
  <2>1. saver'[w] = Closed
    BY <1>1, <1>3, SaverMoves DEF UpdateCapacity
  <2> QED
    BY <2>1 DEF Closed, Idle
<1>4. ASSUME NEW w \in Workers, Save(w)
      PROVE  Covered
  <2>1. \/ saver'[w].pc = "open"
        \/ capacity' = capacity /\ (~ spoiled' => DOMAIN capacity \subseteq DOMAIN file'.rows)
    BY <1>1, <1>4, SaveSteps
  <2> QED
    BY <2>1 DEF Idle
<1>5. \A w \in Workers : ~ OpenFails(w) /\ ~ WriteFails(w)
  BY <1>1, FailTypes
<1>6. ~ Crash
  BY DEF Crash
<1>7. CASE Restart
  BY <1>1, <1>7, RestartTypes
<1> QED
  BY <1>2, <1>3, <1>4, <1>5, <1>6, <1>7 DEF Next

LEMMA InitSurvives == Init => SurviveInv
<1> SUFFICES ASSUME Init PROVE SurviveInv
  OBVIOUS
<1>1. DOMAIN capacity = Shipped /\ DOMAIN file.rows = Shipped
  BY DEF Init, File, Shipped
<1> QED
  BY <1>1, InitTypes DEF SurviveInv

LEMMA NextSurvives == SurviveInv /\ [Next]_vars => SurviveInv'
<1> DEFINE Whole == /\ Shipped \subseteq DOMAIN capacity'
                    /\ \/ Shipped \subseteq DOMAIN file'.rows
                       \/ \E v \in Workers : saver'[v].pc = "open"
<1> SUFFICES ASSUME SurviveInv, [Next]_vars, ~ torn'
             PROVE  Whole
  BY NextTypes DEF SurviveInv, Shipped
<1>1. TypeInv
  BY DEF SurviveInv
<1>2. CASE UNCHANGED vars
  BY <1>2 DEF vars, history, SurviveInv
<1>3. ASSUME NEW w \in Workers, NEW n \in Rows, NEW c \in CapInputs, UpdateCapacity(w, n, c)
      PROVE  Whole
  <2>1. /\ DOMAIN capacity' = DOMAIN capacity /\ file' = file /\ saver[w] = Idle /\ ~ torn
    BY <1>3 DEF UpdateCapacity
  <2>2. \A v \in Workers : v # w => saver'[v] = saver[v]
    BY <1>1, <1>3, SaverMoves DEF UpdateCapacity
  <2> QED
    BY <2>1, <2>2 DEF SurviveInv, Idle
<1>4. ASSUME NEW w \in Workers, Save(w)
      PROVE  Whole
  <2>1. /\ capacity' = capacity /\ ~ torn
        /\ saver'[w].pc = "open" \/ DOMAIN capacity \subseteq DOMAIN file'.rows
    BY <1>1, <1>4, SaveSteps
  <2> QED
    BY <2>1 DEF SurviveInv
<1>5. ASSUME NEW w \in Workers, OpenFails(w) \/ WriteFails(w)
      PROVE  Whole
  <2>1. /\ saver[w] = Closed /\ UNCHANGED <<capacity, file, torn>>
        /\ \A v \in Workers : v # w => saver'[v] = saver[v]
    BY <1>1, <1>5, FailTypes
  <2> QED
    BY <2>1 DEF SurviveInv, Closed
<1>6. CASE Crash
  <2>1. ~ torn /\ \A w \in Workers : saver[w].pc # "open"
    BY <1>6 DEF Crash, TypeInv
  <2> QED
    BY <1>6, <2>1 DEF Crash, SurviveInv
<1>7. CASE Restart
  <2>1. capacity' = file.rows /\ file' = file /\ ~ torn /\ \A w \in Workers : saver[w] = Idle
    BY <1>1, <1>7, RestartTypes
  <2>2. Shipped \subseteq DOMAIN file.rows
    BY <2>1 DEF SurviveInv, Idle
  <2> QED
    BY <2>1, <2>2
<1> QED
  BY <1>2, <1>3, <1>4, <1>5, <1>6, <1>7 DEF Next

-----------------------------------------------------------------------------
(* The file and the memory *)

LEMMA InitSaves == Init => SavedInv
<1> SUFFICES ASSUME Init PROVE SavedInv
  OBVIOUS
<1>1. capacity = file.rows /\ \A w \in Workers : saver[w] = Idle
  BY DEF Init, File
<1> QED
  BY <1>1, InitTypes DEF SavedInv, OnFile, Idle

LEMMA NextSaves == SavedInv /\ [Next]_vars => SavedInv'
<1> DEFINE SavedAfter ==
             /\ \A v, w \in Workers : saver'[v] # Idle /\ saver'[w] # Idle => v = w
             /\ \A w \in Workers : saver'[w].pc = "open" =>
                  /\ OwnFile(w)'
                  /\ \A r \in DOMAIN saver'[w].text :
                       r \in DOMAIN capacity' /\ saver'[w].text[r] = capacity'[r]
             /\ \/ \A r \in DOMAIN capacity' :
                     r \in DOMAIN file'.rows /\ file'.rows[r] = capacity'[r]
                \/ \E w \in Workers : saver'[w] # Idle
<1> SUFFICES ASSUME SavedInv, [Next]_vars, up', ~ overlap', ~ spoiled'
             PROVE  SavedAfter
  BY NextTypes DEF SavedInv, OnFile, InMemory
<1>1. TypeInv
  BY DEF SavedInv
<1>2. up /\ ~ overlap /\ ~ spoiled =>
        /\ \A v, w \in Workers : saver[v] # Idle /\ saver[w] # Idle => v = w
        /\ \A w \in Workers : saver[w].pc = "open" => OwnFile(w) /\ InMemory(saver[w].text)
        /\ OnFile \/ \E w \in Workers : saver[w] # Idle
  BY DEF SavedInv
<1>3. CASE UNCHANGED vars
  BY <1>2, <1>3 DEF vars, history, InMemory, OnFile, OwnFile
<1>4. ASSUME NEW w \in Workers, NEW n \in Rows, NEW c \in CapInputs, UpdateCapacity(w, n, c)
      PROVE  SavedAfter
  <2>1. saver'[w] = Closed /\ \A v \in Workers : v # w => saver'[v] = saver[v]
    BY <1>1, <1>4, SaverMoves DEF UpdateCapacity
  <2>2. \A v \in Workers : saver[v] = Idle
    BY <1>4 DEF UpdateCapacity
  <2> QED
    BY <2>1, <2>2 DEF Closed, Idle
<1>5. ASSUME NEW w \in Workers, Save(w)
      PROVE  SavedAfter
  <2>1. /\ \A v \in Workers : v # w => saver'[v] = saver[v]
        /\ UNCHANGED <<capacity, up, overlap>> /\ ~ spoiled
        /\ saver[w] # Idle /\ up
        /\ \/ /\ saver'[w].pc = "open" /\ saver'[w].text = NoRows /\ OwnFile(w)'
           \/ /\ saver[w].pc = "open" /\ saver'[w].pc = "open" /\ (OwnFile(w) => OwnFile(w)')
              /\ InMemory(saver[w].text) => InMemory(saver'[w].text)
           \/ /\ saver[w].pc = "open" /\ saver'[w] = Idle /\ DOMAIN saver[w].text = DOMAIN capacity
              /\ OwnFile(w) => file'.rows = saver[w].text
    BY <1>1, <1>5, SaveSteps
  <2>2. /\ \A v \in Workers : v # w => saver'[v] = Idle
        /\ saver[w].pc = "open" => OwnFile(w) /\ InMemory(saver[w].text)
    BY <1>2, <2>1
  <2>3. \A v \in Workers : saver'[v].pc = "open" => v = w
    BY <2>2 DEF Idle
  <2>4. saver'[w].pc = "open" =>
          /\ OwnFile(w)'
          /\ \A r \in DOMAIN saver'[w].text :
               r \in DOMAIN capacity' /\ saver'[w].text[r] = capacity'[r]
    BY <2>1, <2>2, NoRowsAreRows DEF InMemory, Idle
  <2>5. \/ \A r \in DOMAIN capacity' :
             r \in DOMAIN file'.rows /\ file'.rows[r] = capacity'[r]
        \/ saver'[w] # Idle
    BY <2>1, <2>2 DEF InMemory, Idle
  <2> QED
    BY <2>2, <2>3, <2>4, <2>5
<1>6. \A w \in Workers : ~ OpenFails(w) /\ ~ WriteFails(w)
  BY <1>1, FailTypes
<1>7. ~ Crash
  BY DEF Crash
<1>8. CASE Restart
  <2>1. capacity' = file'.rows /\ \A w \in Workers : saver'[w] = Idle
    BY <1>1, <1>8, RestartTypes
  <2> QED
    BY <2>1 DEF Idle
<1> QED
  BY <1>3, <1>4, <1>5, <1>6, <1>7, <1>8 DEF Next

-----------------------------------------------------------------------------
(* The theorems *)

\* The state keeps its shapes: a text is as long as its rows allow, and where all
\* rows fit in the buffer of a stream no save of saveNodes needs a second write.
THEOREM NodesFileTypeCorrect == Spec => []TypeOK
<1>1. TypeInv => TypeOK
  <2> SUFFICES ASSUME TypeInv PROVE TypeOK
    OBVIOUS
  <2>1. ASSUME NEW w \in Workers, saver[w].pc = "open"
        PROVE  /\ saver[w].row \in 1 .. (NumRows + 1)
               /\ DOMAIN saver[w].text \subseteq DOMAIN capacity
               /\ saver[w].size \in 0 .. (NumRows * LongestRow)
               /\ saver[w].at \in 0 .. saver[w].size
               /\ FitsBuffer => saver[w].at = 0
    <3>1. IsOpen(saver[w], DOMAIN capacity)
      BY <2>1, SaverKinds DEF TypeInv
    <3> QED
      BY <3>1, TextFits DEF IsOpen
  <2> QED
    BY <2>1 DEF TypeInv, TypeOK, IsRows, IsFile
<1> QED
  BY <1>1, InitTypes, NextTypes, PTL DEF Spec

\* Savers that truncate and overwrite the file under each other, with texts of
\* any lengths, leave it complete all the same once they are through, unless an
\* open or a write failed or a piece was written behind another saver's bytes:
\* loadNodes then finds each node in memory in nodes_list.txt.
THEOREM EveryNodeIsOnFile == Spec => []EveryNodeOnFile
<1>1. CoverInv => EveryNodeOnFile
  BY DEF CoverInv, EveryNodeOnFile, Quiet
<1> QED
  BY <1>1, InitCovers, NextCovers, PTL DEF Spec

\* Nodes disappear from a restarted server only after a crash or a failed write
\* in the middle of a save, or after pieces of two saves were mixed, which takes a
\* file that outgrew the buffer; crashes between saves lose none.
THEOREM NodesDoSurvive == Spec => []NodesSurvive
<1>1. SurviveInv => NodesSurvive
  BY DEF SurviveInv, NodesSurvive
<1> QED
  BY <1>1, InitSurvives, NextSurvives, PTL DEF Spec

\* A save that ran alone since the last update and did not fail leaves on file
\* what updateCapacity left in memory, in however many pieces it is written and
\* whatever went wrong before it.
THEOREM SavedIfUndisturbed == Spec => []SavedUnlessDisturbed
<1>1. SavedInv => SavedUnlessDisturbed
  BY DEF SavedInv, SavedUnlessDisturbed, SavedWhenQuiet, Quiet, OnFile
<1> QED
  BY <1>1, InitSaves, NextSaves, PTL DEF Spec

=============================================================================
