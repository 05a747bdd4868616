--------------------------- MODULE AccountsProofs ---------------------------
(***************************************************************************)
(* Proofs about Accounts: for any users.txt that is shipped, any number of *)
(* workers and anything that users enter, the invariants and the action    *)
(* property that MCAccounts checks.                                        *)
(***************************************************************************)
EXTENDS Accounts, SequenceTheorems, WellFoundedInduction, TLAPS

-----------------------------------------------------------------------------
(* The inductive invariant *)

AllWords == Words \cup Roles

\* A registration between its search and its row.
IsPending(t) == t = Account(t.user, t.pass) /\ t.user \in Fields /\ t.pass \in Fields

Pending(w) == thread[w] # Idle

TypeInv ==
  /\ file \in Seq(AllWords)
  /\ ~ garbled => WholeRows(file)
  /\ thread = [w \in Workers |-> thread[w]]
  /\ \A w \in Workers : Pending(w) => IsPending(thread[w])
  /\ unwritten \subseteq told
  /\ garbled \in BOOLEAN
  /\ doubted \subseteq {user.words : user \in Fields}

\* The words of a name are the name of a row, whatever is around them.
Held(words, name) == \E i \in RowNumbers(words) : name = <<NameIn(words, i)>>

\* A name that has been searched and is taken all the same, by a row or by
\* another registration under way, is in doubt, and so is one with white space.
TakenInv ==
  TypeInv /\ (~ garbled =>
    /\ NameTakenOnce
    /\ \A w \in Workers : Pending(w) /\ (thread[w].user.padded \/ Held(file, thread[w].user.words)) =>
         thread[w].user.words \in doubted
    /\ \A v, w \in Workers :
         Pending(v) /\ Pending(w) /\ v # w /\ thread[v].user.words = thread[w].user.words =>
           thread[w].user.words \in doubted)

LoginInv == TypeInv /\ RegisteredCanLogIn
-----------------------------------------------------------------------------
(* Rows of a file that has been appended to *)

\* The rows that were there keep their numbers and their words; the others come
\* after them.
LEMMA RowsStay ==
  ASSUME NEW words \in Seq(AllWords), NEW line \in Seq(AllWords)
  PROVE  LET after == words \o line IN
         /\ after \in Seq(AllWords)
         /\ RowNumbers(words) \subseteq RowNumbers(after)
         /\ \A i \in RowNumbers(words) :
              /\ NameIn(after, i) = NameIn(words, i)
              /\ PassIn(after, i) = PassIn(words, i)
              /\ RoleIn(after, i) = RoleIn(words, i)
         /\ \A i \in RowNumbers(words), j \in RowNumbers(after) \ RowNumbers(words) : i < j
<1> DEFINE after == words \o line
           n == Len(words)
           m == Len(line)
<1>1. /\ after \in Seq(AllWords) /\ Len(after) = n + m /\ n \in Nat /\ m \in Nat
      /\ \A k \in 1 .. n : after[k] = words[k]
  OBVIOUS
<1> HIDE DEF after, n, m
<1>2. n \div 3 <= (n + m) \div 3 /\ n \div 3 \in Nat /\ (n + m) \div 3 \in Nat
      /\ 3 * (n \div 3) <= n
  BY <1>1
<1>3. /\ RowNumbers(words) = 1 .. (n \div 3)
      /\ RowNumbers(after) = 1 .. ((n + m) \div 3)
  BY <1>1 DEF RowNumbers, n
<1>4. \A i \in RowNumbers(words) :
        3 * i - 2 \in 1 .. n /\ 3 * i - 1 \in 1 .. n /\ 3 * i \in 1 .. n
  BY <1>1, <1>2, <1>3
<1>5. \A i \in RowNumbers(words) :
        /\ NameIn(after, i) = NameIn(words, i)
        /\ PassIn(after, i) = PassIn(words, i)
        /\ RoleIn(after, i) = RoleIn(words, i)
  BY <1>1, <1>4 DEF NameIn, PassIn, RoleIn
<1>6. \A i \in RowNumbers(words), j \in RowNumbers(after) \ RowNumbers(words) : i < j
  BY <1>2, <1>3
<1>7. RowNumbers(words) \subseteq RowNumbers(after)
  BY <1>2, <1>3
<1> QED
  BY <1>1, <1>5, <1>6, <1>7 DEF after

\* What users enter: words and whether there is white space around them.
LEMMA FieldParts ==
  ASSUME NEW field \in Fields
  PROVE  /\ field.words \in Seq(Words) /\ field.padded \in BOOLEAN
         /\ field = [words |-> field.words, padded |-> field.padded]
  BY FieldsAssumption

\* A name without white space in it is taken when its words are a row's name.
LEMMA BareIsTaken ==
  ASSUME NEW words, NEW user \in Fields, ~ user.padded
  PROVE  NameTaken(words, user) <=> Held(words, user.words)
<1>1. user = Bare(user.words)
  BY FieldParts DEF Bare
<1>2. ASSUME NEW i \in RowNumbers(words)
      PROVE  user = Bare(<<NameIn(words, i)>>) <=> user.words = <<NameIn(words, i)>>
  BY <1>1 DEF Bare
<1> QED
  BY <1>2 DEF NameTaken, Held

\* ... and the row that registerUser makes of two fields.
LEMMA LineIsWords ==
  ASSUME NEW user \in Fields, NEW pass \in Fields
  PROVE  Line(user, pass) \in Seq(AllWords)
<1>1. user.words \in Seq(AllWords) /\ pass.words \in Seq(AllWords)
  BY FieldParts DEF AllWords
<1>2. <<"user">> \in Seq(AllWords)
  BY DEF AllWords, Roles
<1> QED
  BY <1>1, <1>2 DEF Line

\* A field of one word.
LEMMA OneWord ==
  ASSUME NEW field \in Seq(Words), Len(field) = 1
  PROVE  field[1] \in Words /\ field = <<field[1]>>
<1>1. field[1] \in Words
  BY ElementOfSeq
<1>2. <<field[1]>> \in Seq(Words) /\ Len(<<field[1]>>) = 1 /\ <<field[1]>>[1] = field[1]
  BY <1>1
<1> QED
  BY <1>2, SeqEqual

\* A row of a name and a password of one word each is the next row of a file
\* of whole rows.
LEMMA RowIsAppended ==
  ASSUME NEW words \in Seq(AllWords), WholeRows(words),
         NEW user \in Fields, NEW pass \in Fields, Len(user.words) = 1, Len(pass.words) = 1
  PROVE  LET after == words \o Line(user, pass)
             new == (Len(words) \div 3) + 1
         IN  /\ WholeRows(after)
             /\ RowNumbers(after) = RowNumbers(words) \cup {new}
             /\ new \notin RowNumbers(words)
             /\ user.words = <<NameIn(after, new)>> /\ pass.words = <<PassIn(after, new)>>
<1> DEFINE name == user.words
           word == pass.words
           line == Line(user, pass)
           after == words \o line
           n == Len(words)
           k == n \div 3
           new == k + 1
<1>1. /\ name \in Seq(Words) /\ word \in Seq(Words) /\ Len(name) = 1 /\ Len(word) = 1
      /\ line = name \o word \o <<"user">>
  BY FieldParts DEF Line
<1> HIDE DEF name, word
<1>2. /\ name[1] \in Words /\ name = <<name[1]>>
      /\ word[1] \in Words /\ word = <<word[1]>>
  BY <1>1, OneWord
<1>3. line = <<name[1]>> \o <<word[1]>> \o <<"user">>
  BY <1>1, <1>2
<1>4. /\ Len(line) = 3 /\ line[1] = name[1] /\ line[2] = word[1] /\ line[3] = "user"
      /\ line \in Seq(AllWords)
  <2> DEFINE u == name[1]
             p == word[1]
  <2> HIDE DEF u, p
  <2>1. <<u>> \in Seq(AllWords) /\ <<p>> \in Seq(AllWords) /\ <<"user">> \in Seq(AllWords)
    BY <1>2 DEF AllWords, Roles, u, p
  <2>2. /\ <<u>> \o <<p>> \in Seq(AllWords) /\ Len(<<u>> \o <<p>>) = 2
        /\ (<<u>> \o <<p>>)[1] = u /\ (<<u>> \o <<p>>)[2] = p
    BY <2>1
  <2>3. /\ Len(line) = 3
        /\ \A i \in 1 .. 3 : line[i] = IF i <= 2 THEN (<<u>> \o <<p>>)[i] ELSE <<"user">>[i - 2]
    BY <1>3, <2>1, <2>2, ConcatProperties DEF u, p
  <2>4. Len(line) = 3 /\ line[1] = u /\ line[2] = p /\ line[3] = "user"
    BY <2>2, <2>3
  <2>5. line \in Seq(AllWords)
    BY LineIsWords
  <2> QED
    BY <2>4, <2>5 DEF u, p
<1> HIDE DEF line
<1>5. /\ n \in Nat /\ k \in Nat /\ n = 3 * k
  BY DEF WholeRows
<1>6. /\ after \in Seq(AllWords) /\ Len(after) = n + 3
      /\ \A i \in 1 .. n : after[i] = words[i]
      /\ after[n + 1] = name[1] /\ after[n + 2] = word[1] /\ after[n + 3] = "user"
  <2>1. line \in Seq(AllWords)
    BY <1>4
  <2>2. /\ after \in Seq(AllWords) /\ Len(after) = n + Len(line)
        /\ \A i \in 1 .. n + Len(line) :
             after[i] = IF i <= n THEN words[i] ELSE line[i - n]
    BY <2>1, ConcatProperties
  <2> HIDE DEF after, n
  <2> QED
    BY <1>4, <1>5, <2>1, <2>2
<1> HIDE DEF after, n, k
<1>7. RowNumbers(words) = 1 .. k /\ RowNumbers(after) = 1 .. new
  <2>1. (n + 3) \div 3 = k + 1 /\ n \div 3 = k
    BY <1>5
  <2> QED
    BY <1>6, <2>1 DEF RowNumbers, n
<1>8. /\ 3 * new - 2 = n + 1 /\ 3 * new - 1 = n + 2 /\ 3 * new = n + 3
      /\ RowNumbers(after) = RowNumbers(words) \cup {new} /\ new \notin RowNumbers(words)
  BY <1>5, <1>7
<1>9. name = <<NameIn(after, new)>> /\ word = <<PassIn(after, new)>>
  BY <1>2, <1>6, <1>8 DEF NameIn, PassIn
<1>10. WholeRows(after)
  <2>1. Len(after) % 3 = 0 /\ DOMAIN after = 1 .. (n + 3) /\ DOMAIN words = 1 .. n
    BY <1>5, <1>6 DEF n
  <2>2. \A i \in 1 .. n : after[i] \in IF i % 3 = 0 THEN Roles ELSE Words
    BY <1>6, <2>1 DEF WholeRows
  <2>3. (n + 1) % 3 # 0 /\ (n + 2) % 3 # 0 /\ (n + 3) % 3 = 0
    BY <1>5
  <2>4. \A i \in {n + 1, n + 2, n + 3} : after[i] \in IF i % 3 = 0 THEN Roles ELSE Words
    BY <1>2, <1>6, <2>3 DEF Roles
  <2>5. \A i \in 1 .. (n + 3) : i \in 1 .. n \/ i \in {n + 1, n + 2, n + 3}
    BY <1>5
  <2> QED
    BY <2>1, <2>2, <2>4, <2>5 DEF WholeRows
<1> QED
  BY <1>8, <1>9, <1>10 DEF name, word, line, after, n, k

\* The first of some rows.
LEMMA FirstRow ==
  ASSUME NEW S \in SUBSET Nat, S # {}
  PROVE  Min(S) \in S /\ \A i \in S : Min(S) <= i
<1>1. PICK x \in S : \A y \in S : ~ (<<y, x>> \in OpToRel(<, Nat))
  BY NatLessThanWellFounded, WFMin
<1>2. OpToRel(<, Nat) = {p \in Nat \X Nat : p[1] < p[2]}
  BY DEF OpToRel
<1>3. \A y \in S : x <= y
  <2>1. ASSUME NEW y \in Nat, NEW z \in Nat, y < z
        PROVE  <<y, z>> \in {p \in Nat \X Nat : p[1] < p[2]}
    BY <2>1
  <2>2. \A y \in S : ~ y < x
    BY <1>1, <1>2, <2>1
  <2> QED
    BY <2>2
<1> QED
  BY <1>3 DEF Min
-----------------------------------------------------------------------------
(* Types *)

LEMMA InitTypes == Init => TypeInv
  BY ShippedAssumption DEF Init, TypeInv, AllWords, Pending

\* Only the worker that takes a step has another registration afterwards.
LEMMA ThreadMoves ==
  ASSUME TypeInv, NEW w \in Workers, NEW t, thread' = [thread EXCEPT ![w] = t]
  PROVE  /\ thread'[w] = t
         /\ \A v \in Workers : v # w => thread'[v] = thread[v]
         /\ thread' = [v \in Workers |-> thread'[v]]
  BY DEF TypeInv

\* A name that is entered passes its search: registerUser goes on to append it.
LEMMA Passes ==
  ASSUME TypeInv, NEW w \in Workers, NEW user \in Fields, NEW pass \in Fields,
         PassName(w, user, pass) \/ PassUnread(w, user, pass)
  PROVE  /\ TypeInv' /\ thread[w] = Idle
         /\ thread'[w] = Account(user, pass)
         /\ \A v \in Workers : v # w => thread'[v] = thread[v]
         /\ UNCHANGED <<file, told, unwritten, garbled>>
         /\ doubted \subseteq doubted'
         /\ \/ user.words \in doubted'
            \/ /\ ~ user.padded /\ ~ Held(file, user.words)
               /\ \A v \in Workers : Pending(v) => thread[v].user # user
<1>1. /\ thread[w] = Idle /\ thread' = [thread EXCEPT ![w] = Account(user, pass)]
      /\ UNCHANGED <<file, told, unwritten, garbled>>
  BY DEF PassName, PassUnread, Accept
<1>2. /\ thread'[w] = Account(user, pass)
      /\ \A v \in Workers : v # w => thread'[v] = thread[v]
      /\ thread' = [v \in Workers |-> thread'[v]]
  BY <1>1, ThreadMoves
<1>3. /\ doubted \subseteq doubted' /\ doubted' \subseteq {u.words : u \in Fields}
      /\ \/ user.words \in doubted'
         \/ /\ ~ user.padded /\ ~ Held(file, user.words)
            /\ \A v \in Workers : Pending(v) => thread[v].user # user
  <2>1. CASE PassUnread(w, user, pass)
    BY <2>1 DEF PassUnread, TypeInv
  <2>2. CASE PassName(w, user, pass)
    <3>1. /\ doubted' = IF Blind(user) THEN doubted \cup {user.words} ELSE doubted
          /\ ~ NameTaken(file, user)
      BY <2>2 DEF PassName
    <3>2. doubted \subseteq doubted' /\ doubted' \subseteq {u.words : u \in Fields}
      BY <3>1 DEF TypeInv
    <3>3. CASE Blind(user)
      BY <3>1, <3>2, <3>3
    <3>4. CASE ~ Blind(user)
      <4>1. ~ user.padded /\ \A v \in Workers : Pending(v) => thread[v].user # user
        BY <3>4 DEF Blind, Pending
      <4> QED
        BY <3>1, <3>2, <4>1, BareIsTaken
    <3> QED
      BY <3>3, <3>4
  <2> QED
    BY <2>1, <2>2
<1>4. \A v \in Workers : Pending(v)' => IsPending(thread'[v])
  <2>1. IsPending(Account(user, pass))
    BY DEF IsPending, Account
  <2> QED
    BY <1>2, <2>1 DEF TypeInv, Pending
<1> QED
  BY <1>1, <1>2, <1>3, <1>4 DEF TypeInv

\* A registration ends, with its row in the file or without.
LEMMA Ends ==
  ASSUME TypeInv, NEW w \in Workers, AppendRow(w) \/ AppendFails(w)
  PROVE  /\ TypeInv'
         /\ Pending(w) /\ IsPending(thread[w])
         /\ thread'[w] = Idle
         /\ \A v \in Workers : v # w => thread'[v] = thread[v]
         /\ told' = told \cup {thread[w]} /\ doubted' = doubted
         /\ LET user == thread[w].user
                pass == thread[w].pass
            IN  \/ /\ file' = file \o Line(user, pass) /\ unwritten' = unwritten
                   /\ garbled' = (garbled \/ Len(user.words) # 1 \/ Len(pass.words) # 1)
                \/ /\ file' = file /\ unwritten' = unwritten \cup {thread[w]}
                   /\ garbled' = garbled
<1> DEFINE user == thread[w].user
           pass == thread[w].pass
<1>1. /\ Pending(w) /\ thread' = [thread EXCEPT ![w] = Idle]
      /\ told' = told \cup {thread[w]} /\ doubted' = doubted
      /\ \/ /\ file' = file \o Line(user, pass) /\ unwritten' = unwritten
            /\ garbled' = (garbled \/ Len(user.words) # 1 \/ Len(pass.words) # 1)
         \/ /\ file' = file /\ unwritten' = unwritten \cup {thread[w]}
            /\ garbled' = garbled
  BY DEF AppendRow, AppendFails, Success, Appended, Pending
<1>2. IsPending(thread[w]) /\ user \in Fields /\ pass \in Fields
  BY <1>1 DEF TypeInv, IsPending
<1>3. /\ thread'[w] = Idle
      /\ \A v \in Workers : v # w => thread'[v] = thread[v]
      /\ thread' = [v \in Workers |-> thread'[v]]
  BY <1>1, ThreadMoves
<1> HIDE DEF user, pass
<1>4. file' \in Seq(AllWords) /\ garbled' \in BOOLEAN /\ (~ garbled' => WholeRows(file'))
  <2>1. CASE file' = file /\ garbled' = garbled
    BY <2>1 DEF TypeInv
  <2>2. CASE /\ file' = file \o Line(user, pass)
             /\ garbled' = (garbled \/ Len(user.words) # 1 \/ Len(pass.words) # 1)
    <3>1. file \in Seq(AllWords) /\ Line(user, pass) \in Seq(AllWords)
      BY <1>2, LineIsWords DEF TypeInv
    <3>2. file' \in Seq(AllWords)
      BY <2>2, <3>1, ConcatProperties
    <3>3. ~ garbled' => WholeRows(file) /\ Len(user.words) = 1 /\ Len(pass.words) = 1
      BY <2>2 DEF TypeInv
    <3>4. ~ garbled' => WholeRows(file')
      BY <1>2, <2>2, <3>1, <3>3, RowIsAppended
    <3>5. garbled' \in BOOLEAN
      BY <2>2
    <3> QED
      BY <3>2, <3>4, <3>5
  <2> QED
    BY <1>1, <2>1, <2>2 DEF user, pass
<1>5. \A v \in Workers : Pending(v)' => IsPending(thread'[v])
  BY <1>3 DEF TypeInv, Pending
<1>6. unwritten' \subseteq told' /\ doubted' \subseteq {u.words : u \in Fields}
  BY <1>1 DEF TypeInv
<1>7. TypeInv'
  BY <1>3, <1>4, <1>5, <1>6 DEF TypeInv
<1> QED
  BY <1>1, <1>2, <1>3, <1>7 DEF user, pass

LEMMA NextTypes == TypeInv /\ [Next]_vars => TypeInv'
<1> SUFFICES ASSUME TypeInv, [Next]_vars PROVE TypeInv'
  OBVIOUS
<1>1. CASE UNCHANGED vars
  BY <1>1 DEF vars, TypeInv, Pending
<1>2. ASSUME NEW w \in Workers, NEW user \in Fields, RefuseName(w, user)
      PROVE  TypeInv'
  BY <1>2 DEF RefuseName, TypeInv, Pending
<1> QED
  BY <1>1, <1>2, Passes, Ends DEF Next

-----------------------------------------------------------------------------
(* Names *)

LEMMA InitTakesOnce == Init => TakenInv
<1> SUFFICES ASSUME Init PROVE TakenInv
  OBVIOUS
<1>1. NameTakenOnce /\ \A w \in Workers : ~ Pending(w)
  BY ShippedNamesAssumption DEF Init, NameTakenOnce, Pending
<1> QED
  BY <1>1, InitTypes DEF TakenInv

\* What the row of a registration does to the names that are taken.
LEMMA NamesAfterRow ==
  ASSUME TypeInv, WholeRows(file), NEW user \in Fields, NEW pass \in Fields,
         Len(user.words) = 1, Len(pass.words) = 1, file' = file \o Line(user, pass)
  PROVE  /\ \A name : Held(file', name) => Held(file, name) \/ name = user.words
         /\ \A i, j \in RowNumbers(file') :
              NameIn(file', i) = NameIn(file', j) =>
                \/ i = j
                \/ /\ i \in RowNumbers(file) /\ j \in RowNumbers(file)
                   /\ NameIn(file, i) = NameIn(file, j)
                   /\ NameIn(file', i) = NameIn(file, i)
                \/ Held(file, user.words) /\ <<NameIn(file', i)>> = user.words
<1> DEFINE new == (Len(file) \div 3) + 1
<1>1. /\ file \in Seq(AllWords) /\ Line(user, pass) \in Seq(AllWords)
  BY LineIsWords DEF TypeInv
<1>2. /\ RowNumbers(file') = RowNumbers(file) \cup {new} /\ new \notin RowNumbers(file)
      /\ user.words = <<NameIn(file', new)>>
  BY <1>1, RowIsAppended
<1>3. \A i \in RowNumbers(file) : NameIn(file', i) = NameIn(file, i)
  BY <1>1, RowsStay
<1> HIDE DEF new
<1>4. \A name : Held(file', name) => Held(file, name) \/ name = user.words
  BY <1>2, <1>3 DEF Held
<1>5. ASSUME NEW i \in RowNumbers(file'), NEW j \in RowNumbers(file'), i # j,
             NameIn(file', i) = NameIn(file', j)
      PROVE  \/ /\ i \in RowNumbers(file) /\ j \in RowNumbers(file)
                /\ NameIn(file, i) = NameIn(file, j)
                /\ NameIn(file', i) = NameIn(file, i)
             \/ Held(file, user.words) /\ <<NameIn(file', i)>> = user.words
  <2>1. CASE i = new
    <3>1. j \in RowNumbers(file) /\ user.words = <<NameIn(file, j)>>
      BY <1>2, <1>3, <1>5, <2>1
    <3> QED
      BY <1>2, <2>1, <3>1 DEF Held
  <2>2. CASE j = new
    <3>1. i \in RowNumbers(file) /\ user.words = <<NameIn(file, i)>>
      BY <1>2, <1>3, <1>5, <2>2
    <3> QED
      BY <1>3, <3>1 DEF Held
  <2> QED
    BY <1>2, <1>3, <1>5, <2>1, <2>2
<1> QED
  BY <1>4, <1>5

LEMMA NextTakesOnce == TakenInv /\ [Next]_vars => TakenInv'
<1> SUFFICES ASSUME TakenInv, [Next]_vars, ~ garbled'
             PROVE  /\ NameTakenOnce'
                    /\ \A w \in Workers : Pending(w)' /\ (thread'[w].user.padded \/ Held(file', thread'[w].user.words)) =>
                         thread'[w].user.words \in doubted'
                    /\ \A v, w \in Workers :
                         Pending(v)' /\ Pending(w)' /\ v # w
                           /\ thread'[v].user.words = thread'[w].user.words =>
                             thread'[w].user.words \in doubted'
  BY NextTypes DEF TakenInv
<1> DEFINE Goal == /\ NameTakenOnce'
                   /\ \A w \in Workers : Pending(w)' /\ (thread'[w].user.padded \/ Held(file', thread'[w].user.words)) =>
                        thread'[w].user.words \in doubted'
                   /\ \A v, w \in Workers :
                        Pending(v)' /\ Pending(w)' /\ v # w
                          /\ thread'[v].user.words = thread'[w].user.words =>
                            thread'[w].user.words \in doubted'
<1>1. TypeInv
  BY DEF TakenInv
<1>2. ~ garbled =>
        /\ NameTakenOnce
        /\ \A w \in Workers : Pending(w) /\ (thread[w].user.padded \/ Held(file, thread[w].user.words)) =>
             thread[w].user.words \in doubted
        /\ \A v, w \in Workers :
             Pending(v) /\ Pending(w) /\ v # w /\ thread[v].user.words = thread[w].user.words =>
               thread[w].user.words \in doubted
  BY DEF TakenInv
<1>3. ASSUME UNCHANGED <<file, thread, garbled, doubted>>
      PROVE  Goal
  BY <1>2, <1>3 DEF NameTakenOnce, Pending
<1>4. ASSUME NEW w \in Workers, NEW user \in Fields, NEW pass \in Fields,
             PassName(w, user, pass) \/ PassUnread(w, user, pass)
      PROVE  Goal
  <2>1. /\ thread[w] = Idle /\ thread'[w] = Account(user, pass)
        /\ \A v \in Workers : v # w => thread'[v] = thread[v]
        /\ UNCHANGED <<file, garbled>> /\ doubted \subseteq doubted'
        /\ \/ user.words \in doubted'
           \/ /\ ~ user.padded /\ ~ Held(file, user.words)
              /\ \A v \in Workers : Pending(v) => thread[v].user # user
    BY <1>1, <1>4, Passes
  <2>2. thread'[w].user = user /\ ~ Pending(w)
    BY <2>1 DEF Account, Pending
  <2>3. \A v \in Workers : v # w => (Pending(v)' <=> Pending(v)) /\ thread'[v] = thread[v]
    BY <2>1 DEF Pending
  <2>4. NameTakenOnce'
    BY <1>2, <2>1 DEF NameTakenOnce
  <2>5. \A v \in Workers : Pending(v)' /\ (thread'[v].user.padded \/ Held(file', thread'[v].user.words)) =>
          thread'[v].user.words \in doubted'
    BY <1>2, <2>1, <2>2, <2>3
  <2>6. \A v \in Workers : Pending(v) /\ thread[v].user.words = user.words =>
          user.words \in doubted'
    <3> SUFFICES ASSUME NEW v \in Workers, Pending(v), thread[v].user.words = user.words,
                        user.words \notin doubted'
                 PROVE  FALSE
      OBVIOUS
    <3>1. thread[v].user \in Fields /\ thread[v].user # user /\ ~ user.padded
      BY <1>1, <2>1 DEF TypeInv, IsPending
    <3>2. thread[v].user.padded
      BY <3>1, FieldParts
    <3> QED
      BY <1>2, <2>1, <3>2
  <2>7. \A u, v \in Workers :
          Pending(u)' /\ Pending(v)' /\ u # v /\ thread'[u].user.words = thread'[v].user.words =>
            thread'[v].user.words \in doubted'
    BY <1>2, <2>1, <2>2, <2>3, <2>6
  <2> QED
    BY <2>4, <2>5, <2>7
<1>5. ASSUME NEW w \in Workers, AppendRow(w) \/ AppendFails(w)
      PROVE  Goal
  <2> DEFINE user == thread[w].user
             pass == thread[w].pass
  <2>1. /\ Pending(w) /\ thread'[w] = Idle
        /\ user \in Fields /\ pass \in Fields
        /\ \A v \in Workers : v # w => thread'[v] = thread[v]
        /\ doubted' = doubted
        /\ \/ /\ file' = file \o Line(user, pass)
              /\ garbled' = (garbled \/ Len(user.words) # 1 \/ Len(pass.words) # 1)
           \/ file' = file /\ garbled' = garbled
    BY <1>1, <1>5, Ends DEF IsPending
  <2> HIDE DEF user, pass
  <2>2. ~ garbled
    BY <2>1
  <2>3. \A v \in Workers : Pending(v)' => v # w /\ Pending(v) /\ thread'[v] = thread[v]
    BY <2>1 DEF Pending
  <2>4. \A u, v \in Workers :
          Pending(u)' /\ Pending(v)' /\ u # v /\ thread'[u].user.words = thread'[v].user.words =>
            thread'[v].user.words \in doubted'
    BY <1>2, <2>1, <2>2, <2>3
  <2>5. CASE file' = file
    BY <1>2, <2>1, <2>2, <2>3, <2>4, <2>5 DEF NameTakenOnce
  <2>6. CASE file' = file \o Line(user, pass) /\ Len(user.words) = 1 /\ Len(pass.words) = 1
    <3>1. WholeRows(file)
      BY <1>1, <2>2 DEF TypeInv
    <3>2. /\ \A name : Held(file', name) => Held(file, name) \/ name = user.words
          /\ \A i, j \in RowNumbers(file') :
               NameIn(file', i) = NameIn(file', j) =>
                 \/ i = j
                 \/ /\ i \in RowNumbers(file) /\ j \in RowNumbers(file)
                    /\ NameIn(file, i) = NameIn(file, j)
                    /\ NameIn(file', i) = NameIn(file, i)
                 \/ Held(file, user.words) /\ <<NameIn(file', i)>> = user.words
      BY <1>1, <2>1, <2>6, <3>1, NamesAfterRow
    <3>3. Held(file, user.words) => user.words \in doubted'
      BY <1>2, <2>1, <2>2 DEF user
    <3>4. NameTakenOnce'
      BY <1>2, <2>1, <2>2, <3>2, <3>3 DEF NameTakenOnce
    <3>5. \A v \in Workers : Pending(v)' /\ (thread'[v].user.padded \/ Held(file', thread'[v].user.words)) =>
            thread'[v].user.words \in doubted'
      BY <1>2, <2>1, <2>2, <2>3, <3>2 DEF user
    <3> QED
      BY <2>4, <3>4, <3>5
  <2> QED
    BY <2>1, <2>5, <2>6
<1>6. ASSUME NEW w \in Workers, NEW user \in Fields, RefuseName(w, user)
      PROVE  Goal
  BY <1>3, <1>6 DEF RefuseName
<1>7. CASE UNCHANGED vars
  BY <1>3, <1>7 DEF vars
<1> QED
  BY <1>4, <1>5, <1>6, <1>7 DEF Next

-----------------------------------------------------------------------------
(* Logins *)

\* What a login finds in a file that has been appended to: everything it found
\* before, and the same role with it.
LEMMA LoginAfterAppend ==
  ASSUME NEW words \in Seq(AllWords), NEW line \in Seq(AllWords), NEW user, NEW pass,
         LoginUser(words, user, pass).success
  PROVE  LoginUser(words \o line, user, pass) = LoginUser(words, user, pass)
<1> DEFINE after == words \o line
           old == {i \in RowNumbers(words) : /\ user = Bare(<<NameIn(words, i)>>)
                                             /\ pass = Bare(<<PassIn(words, i)>>)}
           all == {i \in RowNumbers(after) : /\ user = Bare(<<NameIn(after, i)>>)
                                             /\ pass = Bare(<<PassIn(after, i)>>)}
<1>1. /\ LoginUser(words, user, pass) =
           [success |-> old # {},
            role    |-> IF old = {} THEN "user" ELSE RoleIn(words, Min(old))]
      /\ LoginUser(after, user, pass) =
           [success |-> all # {},
            role    |-> IF all = {} THEN "user" ELSE RoleIn(after, Min(all))]
  BY DEF LoginUser
<1>2. old # {}
  BY DEF LoginUser
<1>3. /\ RowNumbers(words) \subseteq RowNumbers(after)
      /\ \A i \in RowNumbers(words) : /\ NameIn(after, i) = NameIn(words, i)
                                      /\ PassIn(after, i) = PassIn(words, i)
                                      /\ RoleIn(after, i) = RoleIn(words, i)
      /\ \A i \in RowNumbers(words), j \in RowNumbers(after) \ RowNumbers(words) : i < j
  BY RowsStay
<1>4. old \subseteq all /\ \A j \in all \ old : j \in RowNumbers(after) \ RowNumbers(words)
  BY <1>3
<1>5. RowNumbers(words) \subseteq Nat /\ RowNumbers(after) \subseteq Nat
  BY DEF RowNumbers
<1>6. old \subseteq RowNumbers(words) /\ all \subseteq RowNumbers(after)
  OBVIOUS
<1> HIDE DEF after, old, all
<1>7. /\ Min(old) \in old /\ \A i \in old : Min(old) <= i
      /\ Min(all) \in all /\ \A i \in all : Min(all) <= i
  <2>1. old \in SUBSET Nat /\ all \in SUBSET Nat /\ old # {} /\ all # {}
    BY <1>2, <1>4, <1>5, <1>6
  <2> QED
    BY <2>1, FirstRow
<1>8. Min(all) = Min(old)
  <2>1. Min(all) <= Min(old) /\ Min(all) \in Nat /\ Min(old) \in Nat
    BY <1>4, <1>5, <1>6, <1>7
  <2>2. Min(all) \in old
    BY <1>3, <1>4, <1>6, <1>7, <2>1
  <2> QED
    BY <1>7, <2>1, <2>2
<1>9. RoleIn(after, Min(all)) = RoleIn(words, Min(old))
  BY <1>3, <1>6, <1>7, <1>8
<1> QED
  BY <1>1, <1>2, <1>4, <1>9 DEF after

\* A registration whose row went into the file can log in.
LEMMA LoginAfterRow ==
  ASSUME NEW words \in Seq(AllWords), WholeRows(words),
         NEW user \in Fields, NEW pass \in Fields, Len(user.words) = 1, Len(pass.words) = 1
  PROVE  LoginUser(words \o Line(user, pass), Bare(user.words), Bare(pass.words)).success
<1> DEFINE after == words \o Line(user, pass)
           new == (Len(words) \div 3) + 1
<1>1. /\ new \in RowNumbers(after)
      /\ user.words = <<NameIn(after, new)>> /\ pass.words = <<PassIn(after, new)>>
  BY RowIsAppended
<1> HIDE DEF after, new
<1>2. {i \in RowNumbers(after) : /\ Bare(user.words) = Bare(<<NameIn(after, i)>>)
                                 /\ Bare(pass.words) = Bare(<<PassIn(after, i)>>)} # {}
  BY <1>1
<1>3. LoginUser(after, Bare(user.words), Bare(pass.words)).success
  BY <1>2 DEF LoginUser
<1> QED
  BY <1>3 DEF after

\* Every step leaves users.txt as it is or appends words to it.
LEMMA FileGrows ==
  ASSUME TypeInv, [Next]_vars
  PROVE  file' = file \/ \E line \in Seq(AllWords) : file' = file \o line
<1>1. ASSUME NEW w \in Workers, AppendRow(w) \/ AppendFails(w)
      PROVE  file' = file \/ \E line \in Seq(AllWords) : file' = file \o line
  BY <1>1, Ends, LineIsWords DEF IsPending
<1>2. ASSUME NEW w \in Workers, NEW user \in Fields, NEW pass \in Fields,
             PassName(w, user, pass) \/ PassUnread(w, user, pass)
      PROVE  file' = file
  BY <1>2 DEF PassName, PassUnread
<1>3. ASSUME NEW w \in Workers, NEW user \in Fields, RefuseName(w, user)
      PROVE  file' = file
  BY <1>3 DEF RefuseName
<1>4. CASE UNCHANGED vars
  BY <1>4 DEF vars
<1> QED
  BY <1>1, <1>2, <1>3, <1>4 DEF Next

LEMMA StepKeepsLogins ==
  ASSUME TypeInv, [Next]_vars, NEW user, NEW pass, LoginUser(file, user, pass).success
  PROVE  LoginUser(file', user, pass) = LoginUser(file, user, pass)
<1>1. file \in Seq(AllWords)
  BY DEF TypeInv
<1>2. ASSUME NEW line \in Seq(AllWords), file' = file \o line
      PROVE  LoginUser(file', user, pass) = LoginUser(file, user, pass)
  <2>1. LoginUser(file \o line, user, pass) = LoginUser(file, user, pass)
    BY <1>1, LoginAfterAppend
  <2> QED
    BY <1>2, <2>1
<1> QED
  BY <1>2, FileGrows

LEMMA InitLogsIn == Init => LoginInv
  BY InitTypes DEF Init, LoginInv, RegisteredCanLogIn

LEMMA NextLogsIn == LoginInv /\ [Next]_vars => LoginInv'
<1> SUFFICES ASSUME LoginInv, [Next]_vars, ~ garbled', NEW a \in told' \ unwritten'
             PROVE  LoginUser(file', Bare(a.user.words), Bare(a.pass.words)).success
  BY NextTypes DEF LoginInv, RegisteredCanLogIn
<1>1. TypeInv
  BY DEF LoginInv
<1>2. ASSUME ~ garbled, a \in told \ unwritten
      PROVE  LoginUser(file', Bare(a.user.words), Bare(a.pass.words)).success
  <2>1. LoginUser(file, Bare(a.user.words), Bare(a.pass.words)).success
    BY <1>2 DEF LoginInv, RegisteredCanLogIn
  <2> QED
    BY <1>1, <2>1, StepKeepsLogins
<1>3. ASSUME NEW w \in Workers, AppendRow(w) \/ AppendFails(w)
      PROVE  LoginUser(file', Bare(a.user.words), Bare(a.pass.words)).success
  <2> DEFINE user == thread[w].user
             pass == thread[w].pass
  <2>1. /\ user \in Fields /\ pass \in Fields /\ told' = told \cup {thread[w]}
        /\ \/ /\ file' = file \o Line(user, pass) /\ unwritten' = unwritten
              /\ garbled' = (garbled \/ Len(user.words) # 1 \/ Len(pass.words) # 1)
           \/ /\ file' = file /\ unwritten' = unwritten \cup {thread[w]}
              /\ garbled' = garbled
    BY <1>1, <1>3, Ends DEF IsPending
  <2> HIDE DEF user, pass
  <2>2. ~ garbled
    BY <2>1
  <2>3. CASE a \in told \ unwritten
    BY <1>2, <2>2, <2>3
  <2>4. CASE a = thread[w] /\ a \notin unwritten'
    <3>1. /\ file' = file \o Line(user, pass) /\ Len(user.words) = 1 /\ Len(pass.words) = 1
          /\ file \in Seq(AllWords) /\ WholeRows(file)
      BY <1>1, <2>1, <2>2, <2>4 DEF TypeInv
    <3>2. LoginUser(file', Bare(user.words), Bare(pass.words)).success
      BY <2>1, <3>1, LoginAfterRow
    <3> QED
      BY <2>4, <3>2 DEF user, pass
  <2> QED
    BY <2>1, <2>3, <2>4
<1>4. ASSUME UNCHANGED <<told, unwritten, garbled>>
      PROVE  LoginUser(file', Bare(a.user.words), Bare(a.pass.words)).success
  BY <1>2, <1>4
<1>5. ASSUME NEW w \in Workers, NEW user \in Fields, NEW pass \in Fields,
             PassName(w, user, pass) \/ PassUnread(w, user, pass)
      PROVE  UNCHANGED <<told, unwritten, garbled>>
  BY <1>5 DEF PassName, PassUnread
<1>6. ASSUME NEW w \in Workers, NEW user \in Fields, RefuseName(w, user)
      PROVE  UNCHANGED <<told, unwritten, garbled>>
  BY <1>6 DEF RefuseName
<1> QED
  BY <1>3, <1>4, <1>5, <1>6 DEF Next, vars

-----------------------------------------------------------------------------
(* The theorems *)

\* The state keeps its shapes; as long as users enter single words, users.txt
\* consists of whole rows.
THEOREM AccountsTypeCorrect == Spec => []TypeOK
<1>1. TypeInv => TypeOK
  BY DEF TypeInv, TypeOK, IsPending, Account, Pending, AllWords
<1> QED
  BY <1>1, InitTypes, NextTypes, PTL DEF Spec

\* registerUser gives a name out twice only if two registrations of it were under
\* way at once, or one of them could not read users.txt or had white space around
\* the name, whatever users enter: its words are what is compared in the end.
THEOREM NamesAreTakenOnce == Spec => []NameTakenOnce
<1>1. TypeInv /\ TakenInv => (garbled \/ NameTakenOnce)
  BY DEF TakenInv
<1>2. garbled => NameTakenOnce
  BY DEF NameTakenOnce
<1> QED
  BY <1>1, <1>2, InitTypes, NextTypes, InitTakesOnce, NextTakesOnce, PTL DEF Spec

\* Who was told "Registration Success" and whose row was written can log in with
\* the words that were entered, white space around them left off.
THEOREM RegisteredDoLogIn == Spec => []RegisteredCanLogIn
<1>1. LoginInv => RegisteredCanLogIn
  BY DEF LoginInv
<1> QED
  BY <1>1, InitLogsIn, NextLogsIn, PTL DEF Spec

\* No registration, whatever is entered, changes what an existing account logs
\* in to.
THEOREM LoginsDoStay == Spec => LoginsStay
<1>1. TypeInv /\ [Next]_vars =>
        [\A user, pass \in Fields :
           LoginUser(file, user, pass).success =>
             LoginUser(file', user, pass) = LoginUser(file, user, pass)]_vars
  BY StepKeepsLogins
<1> QED
  BY <1>1, InitTypes, NextTypes, PTL DEF Spec, LoginsStay

=============================================================================
