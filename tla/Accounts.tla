------------------------------ MODULE Accounts ------------------------------
(***************************************************************************)
(* UserFiles/users.txt: /register searches it for the name and appends a   *)
(* row, /login searches it for a row with the name and the password.       *)
(*                                                                         *)
(* operator>> knows words, not lines: the file is its sequence of words,   *)
(* and a row is what three extractions in a row return.  The page sends    *)
(* its two fields as they are, so a name or a password is any sequence of  *)
(* words, the empty one included, perhaps padded with white space.  The    *)
(* padding goes into the file and never comes out of it: a string with     *)
(* white space in it equals no word that was read.                         *)
(*                                                                         *)
(* Handlers run on Crow's worker threads.  Reading a file of a few hundred *)
(* bytes is one read of the stream's buffer, and a row goes out in one     *)
(* write in append mode when the stream is closed, so a step is one pass   *)
(* over the file.  /register never asks whether its streams are open:      *)
(* reading one that is not finds no row, and writing to it is lost.        *)
(***************************************************************************)
EXTENDS Integers, Sequences, FiniteSetsExt

CONSTANTS
  Workers,       \* Crow's worker threads
  Words,         \* words that occur in names and passwords
  Fields,        \* what users enter
  ShippedFile,   \* the words of users.txt as shipped
  MaxRequests,   \* bound on the registrations taken in
  MaxFaults      \* bound on the opens that fail

Roles == {"admin", "user"}

ASSUME FieldsAssumption == Fields \subseteq [words : Seq(Words), padded : BOOLEAN]

\* A string of words with no white space around them.
Bare(words) == [words |-> words, padded |-> FALSE]

\* A file of whole rows: name, password, role.
WholeRows(words) ==
  /\ Len(words) % 3 = 0
  /\ \A k \in DOMAIN words : words[k] \in IF k % 3 = 0 THEN Roles ELSE Words

ASSUME ShippedAssumption == ShippedFile \in Seq(Words \cup Roles) /\ WholeRows(ShippedFile)

ASSUME BoundAssumption == MaxRequests \in Nat /\ MaxFaults \in Nat

VARIABLES
  file,       \* the words of users.txt
  thread,     \* per worker: the registration that has passed its search, if any
  requests,   \* registrations taken in so far
  faults,     \* opens that failed so far
  told,       \* history: accounts told "Registration Success"
  unwritten,  \* history: the ones among them whose row could not be written
  garbled,    \* history: a name or a password that is not one word was written
  doubted     \* history: names that were searched while another registration of
              \* them was under way, without the file, or with white space

bounds == <<requests, faults>>
vars == <<file, thread, bounds, told, unwritten, garbled, doubted>>

Idle == [pc |-> "idle"]

Account(user, pass) == [pc |-> "append", user |-> user, pass |-> pass]

-----------------------------------------------------------------------------

\* while(file >> u >> p >> r) reads row i.
RowNumbers(words) == 1 .. (Len(words) \div 3)
NameIn(words, i) == words[3 * i - 2]
PassIn(words, i) == words[3 * i - 1]
RoleIn(words, i) == words[3 * i]

\* No name is in users.txt twice as it is shipped.
ASSUME ShippedNamesAssumption ==
  \A i, j \in RowNumbers(ShippedFile) :
    NameIn(ShippedFile, i) = NameIn(ShippedFile, j) => i = j

\* The first row with the name and the password gives the role.
LoginUser(words, user, pass) ==
  LET matching == {i \in RowNumbers(words) : /\ user = Bare(<<NameIn(words, i)>>)
                                             /\ pass = Bare(<<PassIn(words, i)>>)}
  IN  [success |-> matching # {},
       role    |-> IF matching = {} THEN "user" ELSE RoleIn(words, Min(matching))]

\* The last row is not looked at.
NameTakenBeforeLast(words, user) ==
  \E i \in RowNumbers(words) : i + 1 \in RowNumbers(words) /\ user = Bare(<<NameIn(words, i)>>)

NameTaken(words, user) == \E i \in RowNumbers(words) : user = Bare(<<NameIn(words, i)>>)

\* The role is left out of the row, or name and password are swapped.
LineWithoutRole(user, pass) == user.words \o pass.words
LineSwapped(user, pass) == pass.words \o user.words \o <<"user">>

\* file << user << " " << pass << " user\n"
Line(user, pass) == user.words \o pass.words \o <<"user">>

\* The stream is opened without ios::app.
Truncated(words, line) == line

Appended(words, line) == words \o line

-----------------------------------------------------------------------------

Init ==
  /\ file = ShippedFile
  /\ thread = [w \in Workers |-> Idle]
  /\ requests = 0
  /\ faults = 0
  /\ told = {}
  /\ unwritten = {}
  /\ garbled = FALSE
  /\ doubted = {}

\* A worker picks up the next /register.
Accept(w) ==
  /\ thread[w] = Idle
  /\ requests < MaxRequests
  /\ requests' = requests + 1

Fault == faults < MaxFaults /\ faults' = faults + 1

\* The search finds the name: "User already exists".
RefuseName(w, user) ==
  /\ Accept(w)
  /\ NameTaken(file, user)
  /\ UNCHANGED <<file, thread, faults, told, unwritten, garbled, doubted>>

\* The search cannot see what it looks for: another registration of the name is
\* under way, or white space is compared with words.
Blind(user) == user.padded \/ \E v \in Workers : thread[v] # Idle /\ thread[v].user = user

\* The search reads the whole file and does not find the name.
PassName(w, user, pass) ==
  /\ Accept(w)
  /\ ~ NameTaken(file, user)
  /\ thread' = [thread EXCEPT ![w] = Account(user, pass)]
  /\ doubted' = IF Blind(user) THEN doubted \cup {user.words} ELSE doubted
  /\ UNCHANGED <<file, faults, told, unwritten, garbled>>

\* The search cannot open the file and therefore finds nothing.
PassUnread(w, user, pass) ==
  /\ Accept(w)
  /\ Fault
  /\ thread' = [thread EXCEPT ![w] = Account(user, pass)]
  /\ doubted' = doubted \cup {user.words}
  /\ UNCHANGED <<file, told, unwritten, garbled>>

\* "Registration Success".
Success(w) ==
  /\ thread[w] # Idle
  /\ thread' = [thread EXCEPT ![w] = Idle]
  /\ told' = told \cup {thread[w]}

\* The row is appended, and the user told so.
AppendRow(w) ==
  /\ Success(w)
  /\ file' = Appended(file, Line(thread[w].user, thread[w].pass))
  /\ garbled' = (garbled \/ Len(thread[w].user.words) # 1 \/ Len(thread[w].pass.words) # 1)
  /\ UNCHANGED <<bounds, unwritten, doubted>>

\* The file cannot be opened, and the user is told the same.
AppendFails(w) ==
  /\ Success(w)
  /\ Fault
  /\ unwritten' = unwritten \cup {thread[w]}
  /\ UNCHANGED <<file, requests, garbled, doubted>>

Next ==
  \E w \in Workers :
    \/ \E user \in Fields : RefuseName(w, user)
    \/ \E user, pass \in Fields : PassName(w, user, pass) \/ PassUnread(w, user, pass)
    \/ AppendRow(w)
    \/ AppendFails(w)

Spec == Init /\ [][Next]_vars

-----------------------------------------------------------------------------

\* Shapes of the state; as long as names and passwords are single words, the
\* file consists of whole rows.
TypeOK ==
  /\ file \in Seq(Words \cup Roles)
  /\ ~ garbled => WholeRows(file)
  /\ \A w \in Workers : thread[w] # Idle =>
       thread[w].pc = "append" /\ thread[w].user \in Fields /\ thread[w].pass \in Fields
  /\ unwritten \subseteq told
  /\ garbled \in BOOLEAN
  /\ doubted \subseteq {user.words : user \in Fields}

\* registerUser tests a name and appends it in two steps without a lock.  A name
\* is in the file twice only if two registrations of it overlapped, or one of
\* them could not read the file or was entered with white space around the name.
NameTakenOnce ==
  ~ garbled =>
    \A i, j \in RowNumbers(file) :
      NameIn(file, i) = NameIn(file, j) => i = j \/ <<NameIn(file, i)>> \in doubted

\* Whoever was told "Registration Success" can log in with the words entered,
\* also where the name was given out twice, unless the row could not be written.
\* Entered as they were, with white space around them, they do not log in.
\* A field that is not one word shifts the rows behind it and breaks this for
\* everyone after it.
RegisteredCanLogIn ==
  ~ garbled =>
    \A a \in told \ unwritten :
      LoginUser(file, Bare(a.user.words), Bare(a.pass.words)).success

\* Whatever is registered later, even a name or a password that is not one word,
\* an account that could log in still can, and with the same role.
LoginsStay ==
  [][\A user, pass \in Fields :
       LoginUser(file, user, pass).success =>
         LoginUser(file', user, pass) = LoginUser(file, user, pass)]_vars

=============================================================================
