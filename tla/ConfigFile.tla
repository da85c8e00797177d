------------------------------- MODULE ConfigFile -------------------------------
(***************************************************************************)
(* What a configuration file is and what it says, independently of how the *)
(* parser reads it: the words of the language, the statements that may     *)
(* stand in each place, and where the last statement about a thing is.     *)
(* A file is the sequence of its words; a word's value, where it has one,  *)
(* is known by its position.                                               *)
(***************************************************************************)
EXTENDS Naturals, Sequences, FiniteSets, SequencesExt

(* The token numbers, as yyparse sees them after YYTRANSLATE. *)
EOF == 0
OBRACE == 3
EBRACE == 4
SEMICOLON == 5
PROFILETOK == 6
LIMITTOK == 7
FILTERTOK == 8
BITPSTOK == 9
PPSTOK == 10
FPSTOK == 11
FILETOK == 12
STARTTOK == 13
STOPTOK == 14
OPTIONSTOK == 15
DEBUGTOK == 16
PIDTOK == 17
ACTIONTOK == 18
LEVELTOK == 21
COMMANDTOK == 22
WINDOWTOK == 28
DYNAMICTOK == 29
SIZETOK == 32
DELAYTOK == 34
INPUTTOK == 35
SHMTOK == 36
DBTOK == 37
CONNECTTOK == 38
EXPORTTOK == 39
INTERVALTOK == 40
MINTOK == 41
NUMBER == 42
FACTOR == 43
STRINGTOK == 44

(* The statements that set an option, by the option they are meant to set. *)
OptionForm == [
  debug           |-> <<DEBUGTOK, LEVELTOK, NUMBER>>,
  pid_file        |-> <<PIDTOK, FILETOK, STRINGTOK>>,
  window_size     |-> <<WINDOWTOK, SIZETOK, NUMBER>>,
  shm             |-> <<INPUTTOK, SHMTOK, STRINGTOK>>,
  filter          |-> <<INPUTTOK, FILTERTOK, STRINGTOK>>,
  db_connstr      |-> <<DBTOK, CONNECTTOK, STRINGTOK>>,
  export_interval |-> <<DBTOK, EXPORTTOK, INTERVALTOK, NUMBER>>,
  export_min_pps  |-> <<DBTOK, EXPORTTOK, MINTOK, PPSTOK, NUMBER>>,
  exec_start      |-> <<ACTIONTOK, STARTTOK, COMMANDTOK, STRINGTOK>>,
  exec_stop       |-> <<ACTIONTOK, STOPTOK, COMMANDTOK, STRINGTOK>>,
  stop_delay      |-> <<ACTIONTOK, STOPTOK, DELAYTOK, NUMBER>>]

(* The statements inside a profile: for each thing set, its spellings. *)
LimitForms(unit) ==
  {<<LIMITTOK, NUMBER, unit>>, <<LIMITTOK, NUMBER, FACTOR, unit>>}
ParamForms == [
  filter  |-> {<<FILTERTOK, STRINGTOK>>},
  dynamic |-> {<<DYNAMICTOK, STRINGTOK>>},
  bytes   |-> LimitForms(BITPSTOK),
  pkts    |-> LimitForms(PPSTOK),
  flows   |-> LimitForms(FPSTOK)]

Header == <<PROFILETOK, STRINGTOK, OBRACE>>
DbHeader == <<PROFILETOK, DBTOK, SEMICOLON>>

--------------------------------------------------------------------------------
(* The language: a statement ends at the next delimiter, and where it      *)
(* stands decides which statements it may be.                              *)
Ends(s) == {i \in DOMAIN s : s[i] \in {EOF, OBRACE, EBRACE, SEMICOLON}}
Begin(s, i) == 1 + Max({0} \cup {j \in Ends(s) : j < i})
Count(s, word, i) == Cardinality({j \in DOMAIN s : j < i /\ s[j] = word})

Place(s, i) ==
  LET opened == Count(s, OBRACE, i) IN
  IF opened = 0 THEN "begin"
  ELSE IF opened <= Count(s, EBRACE, i) THEN "between"
  ELSE IF opened = 1 THEN "options" ELSE "profile"

Closing(forms) == {Append(f, SEMICOLON) : f \in forms} \cup {<<SEMICOLON>>, <<EBRACE>>}
Statements == [
  begin   |-> {<<OPTIONSTOK, OBRACE>>},
  options |-> Closing({OptionForm[o] : o \in DOMAIN OptionForm}),
  between |-> {Header, DbHeader, <<EOF>>},
  profile |-> Closing(UNION {ParamForms[p] : p \in DOMAIN ParamForms})]

WellFormed(s) ==
  \A i \in Ends(s) :
    SubSeq(s, Begin(s, i), i) \in Statements[Place(s, Begin(s, i))]

(* s is a complete file; s is the beginning of one. *)
Sentence(s) == WellFormed(s) /\ s # <<>> /\ Last(s) = EOF
Viable(s) ==
  LET rest == Begin(s, Len(s) + 1) IN
  /\ WellFormed(s)
  /\ \E f \in Statements[Place(s, rest)] : IsPrefix(SubSeq(s, rest, Len(s)), f)

--------------------------------------------------------------------------------
(* The meaning: the last statement of its kind counts.                     *)
Occurrences(s, f) == {i \in DOMAIN s : IsPrefix(f, SubSeq(s, i, Len(s)))}
LastValue(s, f) ==
  LET at == Occurrences(s, f) IN
  IF at = {} THEN 0 ELSE Max(at) + Len(f) - 1

(* The k-th profile is written between its header and the next one. *)
Headers(s) == Occurrences(s, Header)
HeaderOf(s, k) ==
  CHOOSE i \in Headers(s) : Cardinality({j \in Headers(s) : j <= i}) = k
About(s, k, forms) ==
  {i \in UNION {Occurrences(s, f) : f \in forms} :
     i > HeaderOf(s, k) /\ ~\E j \in Headers(s) : HeaderOf(s, k) < j /\ j < i}

(* Position of the string of the last filter or dynamic statement of the   *)
(* k-th profile; number and factor of the last limit for a unit.           *)
StringOf(s, k, param) ==
  LET at == About(s, k, ParamForms[param]) IN
  IF at = {} THEN 0 ELSE Max(at) + 1
LimitOf(s, k, param) ==
  LET at == About(s, k, ParamForms[param])
      last == Max(at)
  IN IF at = {} THEN <<0, 0>>
     ELSE <<last + 1, IF s[last + 2] = FACTOR THEN last + 2 ELSE 0>>
================================================================================
