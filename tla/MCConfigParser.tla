----------------------------- MODULE MCConfigParser -----------------------------
(***************************************************************************)
(* Up to the Free-th word a file may hold any word the grammar uses, and   *)
(* one the scanner knows but no statement has; after it the words of two   *)
(* statements of a profile, of headers and ends.                           *)
(***************************************************************************)
EXTENDS ConfigParser
CONSTANT Free
AllWords == (3 .. 19) \cup {EOF, 21, 22, 28, 29, 32} \cup (34 .. 44)
ProfileWords ==
  {EOF, OBRACE, EBRACE, SEMICOLON, PROFILETOK, LIMITTOK, FILTERTOK, BITPSTOK,
   NUMBER, FACTOR, STRINGTOK}
MCWordsAt == [i \in 1 .. MaxTokens |-> IF i <= Free THEN AllWords ELSE ProfileWords]
DebugOrPid == {{"debug"}, {"pid_file"}}
================================================================================
