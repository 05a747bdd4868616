----------------------------- MODULE MCAccounts -----------------------------
(***************************************************************************)
(* A file with one administrator, and fields that are one word, no word,   *)
(* two words and a word with white space, for model checking Accounts.     *)
(***************************************************************************)
EXTENDS Accounts

MCWords == {"root", "ann", "pw"}
MCShippedFile == <<"root", "pw", "admin">>
MCPadded == [words |-> <<"ann">>, padded |-> TRUE]
MCFields == {Bare(words) : words \in {<<"root">>, <<"ann">>, <<"pw">>, << >>, <<"ann", "pw">>}}
              \cup {MCPadded}

=============================================================================
