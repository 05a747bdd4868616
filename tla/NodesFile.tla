------------------------------ MODULE NodesFile ------------------------------
(***************************************************************************)
(* nodes_list.txt: rewritten by saveNodes at the end of every /update, on  *)
(* the worker thread that serves it, and read when the process starts.     *)
(*                                                                         *)
(* The map nodes is iterated in ascending id order, so a node is its       *)
(* number in that order.  Only the capacity column ever changes; the slots *)
(* table of the same /update is in ParkingServer.                          *)
(*                                                                         *)
(* An ofstream truncates the file when it opens it, formats row after row  *)
(* into its buffer and writes the buffer at its own offset, once it is     *)
(* full and when it is closed.  The shipped file has 1994 bytes.  libstdc++ *)
(* has buffers of BUFSIZ bytes: with glibc (8192) a save is one write at   *)
(* offset 0, with MinGW (512), which built the committed server.exe, it is *)
(* several.                                                                *)
(*                                                                         *)
(* Rows are as wide as their capacities.  A write that is shorter than     *)
(* what is in the file leaves the end of the longer text behind it, and a  *)
(* later piece lands anywhere in the rows of another save.  loadNodes      *)
(* reads on there, starting anywhere in a row: ids, capacities and         *)
(* coordinates shift, and if there are words enough they make rows of any  *)
(* node, also of one that was not there.                                   *)
(*                                                                         *)
(* A crash loses every buffer and leaves the file.  saveNodes never asks   *)
(* whether the stream is good: an open or a write that fails turns the     *)
(* rest of it into nothing, and /update reports success all the same.      *)
(***************************************************************************)
EXTENDS Integers, Functions

CONSTANTS
  NumRows,          \* nodes, those that a misread row can add included
  InitialCapacity,  \* capacities of the nodes in nodes_list.txt as shipped
  CapInputs,        \* capacities an administrator may enter
  MisreadCaps,      \* capacities that mixed texts may read as
  RowSize,          \* bytes of a row, by node and capacity
  ShippedSize,      \* bytes of the shipped file
  LongestRow,       \* bytes of the longest row
  BufferSize,       \* bytes of the buffer of an ofstream
  Workers,          \* Crow's worker threads
  MaxUpdates,       \* bound on the updates taken in
  MaxFaults         \* bound on the crashes and on the opens and writes that fail

Rows == 1 .. NumRows

Shipped == DOMAIN InitialCapacity

Capacities == Range(InitialCapacity) \cup CapInputs \cup MisreadCaps

ASSUME RowsAssumption ==
  /\ NumRows \in Nat
  /\ Shipped \subseteq Rows
  /\ InitialCapacity \in [Shipped -> Nat]
  /\ CapInputs \subseteq Nat

ASSUME SizeAssumption ==
  /\ LongestRow \in Nat /\ ShippedSize \in Nat /\ BufferSize \in Nat \ {0}
  /\ RowSize \in [Rows -> [Capacities -> 0 .. LongestRow]]

VARIABLES
  capacity,   \* nodes[n].capacity
  file,       \* what loadNodes reads from the file, its bytes and who wrote them
  saver,      \* per worker: its saveNodes, if any
  up,         \* whether the process runs
  updates,    \* updates taken in so far
  faults,     \* crashes, failed opens and failed writes so far
  torn,       \* history: a crash or a failed write cut a save short, or two saves
              \* were mixed
  overlap,    \* history: the last update started while another save was going on
  spoiled     \* history: an open or a write failed, or two saves were mixed, and
              \* no save started alone since

bounds == <<updates, faults>>
history == <<torn, overlap, spoiled>>
vars == <<capacity, file, saver, up, bounds, history>>

NoRows == [r \in {} |-> 0]

\* The contents of the file.  owner is the worker whose stream wrote all of it.
File(rows, size, owner) == [rows |-> rows, size |-> size, owner |-> owner]

Nobody == "nobody"

Idle == [pc |-> "idle"]

\* saveNodes is called and has not opened the file.
Closed == [pc |-> "closed"]

\* saveNodes has the file open, has formatted text and comes to row next.  size is
\* the length of text in bytes, of which the first at are written.
Open(row, text, size, at) ==
  [pc |-> "open", row |-> row, text |-> text, size |-> size, at |-> at]

\* Rows that take the place of others (the prover does not know TLC's @@).
Over(rows, others) ==
  [r \in DOMAIN rows \cup DOMAIN others |-> IF r \in DOMAIN rows THEN rows[r] ELSE others[r]]

\* The rows of a text before a number.
Before(n, text) == Restrict(text, {r \in DOMAIN text : r < n})

\* What mixed texts may read as.
Misread == UNION {[S -> MisreadCaps] : S \in SUBSET Rows}

\* The stream of w writes behind bytes that are not its own.
Mixes(w) == saver[w].at > 0 /\ file.owner # w

\* The file after the stream of w has written up to byte end, with which its
\* first bytes read as rows.  At its beginning a shorter text leaves the end of a
\* longer one, whose rows are read later and take the place of earlier ones.
Written(w, rows, end) ==
  LET rest == {File(Over(misread, rows), file.size, Nobody) : misread \in Misread}
      mixed == {File(misread, IF file.size > end THEN file.size ELSE end, Nobody) :
                  misread \in Misread}
  IN  IF Mixes(w) THEN mixed
      ELSE IF saver[w].at = 0 /\ file.size > end THEN rest
      ELSE {File(rows, end, w)}

-----------------------------------------------------------------------------

Init ==
  /\ capacity = InitialCapacity
  /\ file = File(InitialCapacity, ShippedSize, Nobody)
  /\ saver = [w \in Workers |-> Idle]
  /\ up = TRUE
  /\ updates = 0
  /\ faults = 0
  /\ torn = FALSE
  /\ overlap = FALSE
  /\ spoiled = FALSE

\* updateCapacity sets nodes[id].capacity and goes on to saveNodes.
UpdateCapacity(w, n, newCap) ==
  /\ up
  /\ saver[w] = Idle
  /\ updates < MaxUpdates
  /\ n \in DOMAIN capacity
  /\ capacity' = [capacity EXCEPT ![n] = newCap]
  /\ saver' = [saver EXCEPT ![w] = Closed]
  /\ updates' = updates + 1
  /\ overlap' = \E v \in Workers : saver[v] # Idle
  /\ spoiled' = (spoiled /\ overlap')
  /\ UNCHANGED <<file, up, faults, torn>>

\* The first node is left out.
SecondRow == Open(2, NoRows, 0, 0)

FirstRow == Open(1, NoRows, 0, 0)

\* ofstream file("nodes_list.txt")
OpenFile(w) ==
  /\ saver[w] = Closed
  /\ file' = File(NoRows, 0, w)
  /\ saver' = [saver EXCEPT ![w] = FirstRow]
  /\ UNCHANGED <<capacity, up, bounds, history>>

\* Something the operating system refuses, or a crash.
Fault == faults < MaxFaults /\ faults' = faults + 1

\* ... cannot open the file, which stays as it is.
OpenFails(w) ==
  /\ saver[w] = Closed
  /\ Fault
  /\ saver' = [saver EXCEPT ![w] = Idle]
  /\ spoiled' = TRUE
  /\ UNCHANGED <<capacity, file, up, updates, torn, overlap>>

\* More has been formatted than the buffer holds.
Full(s) == s.size > s.at + BufferSize

Formatted(s) == Over(s.text, Restrict(capacity, {s.row} \cap DOMAIN capacity))

Bytes(s) ==
  IF s.row \in DOMAIN capacity THEN s.size + RowSize[s.row][capacity[s.row]] ELSE s.size

\* The loop does not go on to the next node.
SameRow(s) == Open(s.row, Formatted(s), Bytes(s), s.at)

NextRow(s) == Open(s.row + 1, Formatted(s), Bytes(s), s.at)

\* file << ..., if there is a node with this number.
FormatRow(w) ==
  /\ saver[w].pc = "open"
  /\ saver[w].row \in Rows
  /\ ~ Full(saver[w])
  /\ saver' = [saver EXCEPT ![w] = NextRow(@)]
  /\ UNCHANGED <<capacity, file, up, bounds, history>>

\* Whole rows and a piece of the one formatted last are written.  The piece reads
\* as the row if only the end of its line is missing.
FlushBuffer(w) ==
  LET s == saver[w]
  IN  /\ s.pc = "open"
      /\ Full(s)
      /\ \E whole \in {s.row - 1, s.row} :
           file' \in Written(w, Before(whole, s.text), s.at + BufferSize)
      /\ saver' = [saver EXCEPT ![w].at = @ + BufferSize]
      /\ torn' = (torn \/ Mixes(w))
      /\ spoiled' = (spoiled \/ Mixes(w))
      /\ UNCHANGED <<capacity, up, bounds, overlap>>

\* The buffer is not written.
Unflushed(w) == {file}

\* close() writes the buffer.
Flushed(w) == Written(w, saver[w].text, saver[w].size)

\* All rows are formatted, and what is left of them fits in the buffer.
Formats(s) == s.pc = "open" /\ (s.row \in Rows \/ Full(s))

\* file.close() after the last row, and the response to the administrator.
CloseFile(w) ==
  /\ saver[w].pc = "open"
  /\ ~ Formats(saver[w])
  /\ file' \in Flushed(w)
  /\ saver' = [saver EXCEPT ![w] = Idle]
  /\ torn' = (torn \/ Mixes(w))
  /\ spoiled' = (spoiled \/ Mixes(w))
  /\ UNCHANGED <<capacity, up, bounds, overlap>>

\* The buffer cannot be written, or only its first bytes can: whole rows and
\* perhaps a piece of the next one.
WriteFails(w) ==
  LET s == saver[w]
  IN  /\ s.pc = "open"
      /\ Full(s) \/ s.row \notin Rows
      /\ Fault
      /\ \E whole \in 1 .. s.row, end \in s.at .. s.size :
           file' \in Written(w, Before(whole, s.text), end)
      /\ saver' = [saver EXCEPT ![w] = Idle]
      /\ torn' = TRUE
      /\ spoiled' = TRUE
      /\ UNCHANGED <<capacity, up, updates, overlap>>

\* The process is killed or the machine stops.
Crash ==
  /\ up
  /\ Fault
  /\ up' = FALSE
  /\ torn' = (torn \/ \E w \in Workers : saver[w].pc = "open")
  /\ saver' = [w \in Workers |-> Idle]
  /\ UNCHANGED <<capacity, file, updates, overlap, spoiled>>

\* loadNodes of a new process.
Restart ==
  /\ ~ up
  /\ up' = TRUE
  /\ capacity' = file.rows
  /\ overlap' = FALSE
  /\ spoiled' = FALSE
  /\ UNCHANGED <<file, saver, bounds, torn>>

Save(w) == OpenFile(w) \/ FormatRow(w) \/ FlushBuffer(w) \/ CloseFile(w)

Next ==
  \/ \E w \in Workers :
       \/ \E n \in Rows, newCap \in CapInputs : UpdateCapacity(w, n, newCap)
       \/ Save(w) \/ OpenFails(w) \/ WriteFails(w)
  \/ Crash
  \/ Restart

Spec == Init /\ [][Next]_vars

\* A running handler is scheduled and a stopped server is started again.
FairSpec == Spec /\ WF_vars(Restart) /\ \A w \in Workers : WF_vars(Save(w))

-----------------------------------------------------------------------------

Quiet == up /\ \A w \in Workers : saver[w] = Idle

FitsBuffer == NumRows * LongestRow <= BufferSize

\* Shapes of the state.  Where the file fits in the buffer of a stream, each save
\* is a single write and nothing is mixed.
TypeOK ==
  /\ DOMAIN capacity \subseteq Rows /\ \A r \in DOMAIN capacity : capacity[r] \in Capacities
  /\ DOMAIN file.rows \subseteq Rows /\ \A r \in DOMAIN file.rows : file.rows[r] \in Capacities
  /\ file.size \in Nat /\ file.owner \in Workers \cup {Nobody}
  /\ \A w \in Workers :
       saver[w].pc = "open" => /\ saver[w].row \in 1 .. (NumRows + 1)
                               /\ DOMAIN saver[w].text \subseteq DOMAIN capacity
                               /\ saver[w].size \in 0 .. (NumRows * LongestRow)
                               /\ saver[w].at \in 0 .. saver[w].size
                               /\ FitsBuffer => saver[w].at = 0
  /\ up \in BOOLEAN /\ torn \in BOOLEAN /\ overlap \in BOOLEAN /\ spoiled \in BOOLEAN

\* With every save finished loadNodes finds each node in memory on file, though
\* perhaps with another capacity: a single write leaves it complete whatever other
\* savers did to it before, and so do the pieces of a save that were not mixed
\* with another's, and the first save that starts alone after one that failed.
EveryNodeOnFile == Quiet /\ ~ spoiled => DOMAIN capacity \subseteq DOMAIN file.rows

\* Only a save cut short by a crash or a failed write, or one written in pieces
\* under which another saver truncated or wrote the file, makes nodes disappear.
NodesSurvive == ~ torn => Shipped \subseteq DOMAIN capacity

\* With every save finished the file holds the capacities in memory, so that
\* the next process starts with what administrators were told is "Updated".
SavedWhenQuiet ==
  Quiet => \A r \in DOMAIN capacity : r \in DOMAIN file.rows /\ file.rows[r] = capacity[r]

\* A save that ran alone since the last update and did not fail leaves the
\* capacities in memory on file, whatever happened before it, and so does a
\* restart: a single good save repairs the file.
SavedUnlessDisturbed == ~ overlap /\ ~ spoiled => SavedWhenQuiet

\* Every save comes to an end, and with it the response, whatever the other
\* savers write; a crash ends it as well.
SavesEnd == \A w \in Workers : saver[w] # Idle ~> saver[w] = Idle

=============================================================================
