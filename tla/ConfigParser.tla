------------------------------ MODULE ConfigParser ------------------------------
(***************************************************************************)
(* nfd_cfg_parse of config.c and the parser bison made of config.y:        *)
(* yyparse, its tables and its semantic actions (config.tab.c).            *)
(*                                                                         *)
(* The scanner is the environment: it returns any word at any time, at     *)
(* most MaxTokens of them.  A word with a value (NUMBER, FACTOR, STRING)   *)
(* carries its position in the file as its value, so that it can be told   *)
(* which statement a setting came from.  profile.c and libnf are not in    *)
(* the repository: their calls succeed or fail.                            *)
(***************************************************************************)
EXTENDS Integers, ConfigFile

CONSTANTS
  MaxTokens,  \* bound: length of a file, its end included
  WordsAt,    \* bound: WordsAt[i], what the scanner may return as i-th word
  FromArgs    \* the sets of options that may be given on the command line

ASSUME ConfigParserAssumption ==
  /\ MaxTokens \in Nat \ {0}
  /\ WordsAt \in [1 .. MaxTokens -> SUBSET ((3 .. 44) \cup {EOF})]
  /\ \A i \in 1 .. MaxTokens : EOF \in WordsAt[i]
  /\ FromArgs \subseteq SUBSET {"debug", "pid_file"}

--------------------------------------------------------------------------------
(* The tables; the entry for state or rule n is at n + 1. *)
YYFINAL == 5
YYLAST == 60
YYNTOKENS == 45
YYTERROR == 1
YYINITDEPTH == 200
YYPACT_NINF == -30
YYEMPTY == -2

yyr1 ==
  <<0, 45, 46, 47, 48, 48, 49, 49, 49, 49, 49, 49, 49, 49, 49, 49, 49, 49,
    50, 50, 51, 52, 51, 51, 53, 54, 53, 55, 55, 55, 55, 55, 55, 55, 55, 55>>
yyr2 ==
  <<0, 2, 2, 4, 0, 3, 0, 3, 3, 3, 3, 3, 3, 4, 5, 4, 4, 4,
    0, 2, 0, 0, 6, 3, 0, 0, 4, 0, 2, 2, 3, 3, 3, 4, 4, 4>>
yydefact ==
  <<0, 0, 0, 18, 4, 1, 2, 6, 0, 19, 3, 0, 0, 0, 0, 0, 0, 0, 0, 0,
    0, 0, 0, 0, 0, 0, 0, 0, 0, 5, 23, 21, 7, 8, 0, 0, 0, 9, 11, 10,
    12, 0, 0, 24, 15, 16, 17, 13, 0, 25, 14, 22, 27, 0, 0, 0, 0, 0, 28, 29,
    26, 30, 31, 32, 0, 33, 34, 35>>
yydefgoto == <<-1, 2, 3, 7, 17, 6, 9, 43, 49, 52, 56>>
yypact ==
  <<-6, 21, 25, -30, -30, -30, 20, 0, -29, -30, -30, 8, 18, 7, 4, -5, -25,
    27, 28, 35, -3, -4, 19, -15, 2, -1, 3, 5, -18, -30, -30, -30, -30, -30,
    6, 9, 10, -30, -30, -30, -30, 12, 32, -30, -30, -30, -30, -30, 13, 41,
    -30, -30, -2, 14, 15, 16, 43, -9, -30, -30, -30, -30, -30, -30, 1, -30,
    -30, -30>>
yypgoto == <<-30, -30, -30, -30, -30, -30, -30, -30, -30, -30, -30>>
yytable ==
  <<61, 62, 63, 25, 10, 53, 54, 35, 18, 1, 65, 66, 67, 27, 28, 19, 11, 12,
    13, 36, 22, 23, 41, 42, 4, 5, 8, 55, 14, 20, 21, 26, 29, 30, 64, 15, 24,
    16, 31, 32, 33, 34, 48, 38, 37, 51, 0, 39, 60, 40, 44, 0, 46, 45, 47, 50,
    57, 0, 0, 58, 59>>
yycheck ==
  <<9, 10, 11, 8, 4, 7, 8, 22, 37, 15, 9, 10, 11, 38, 39, 44, 16, 17, 18, 34,
    13, 14, 40, 41, 3, 0, 6, 29, 28, 21, 12, 36, 5, 5, 43, 35, 32, 37, 3, 42,
    44, 22, 10, 44, 42, 4, -1, 44, 5, 44, 44, -1, 42, 44, 42, 42, 42, -1, -1,
    44, 44>>

(* No state can shift the error token: the loop at yyerrlab1 empties the   *)
(* stack and every syntax error ends the parse.                            *)
ASSUME NoRecovery == \A i \in DOMAIN yycheck : yycheck[i] # YYTERROR

--------------------------------------------------------------------------------
VARIABLES
  pc,       \* "open", "parse", and as nfd_cfg_parse ends, "ok" or "failed"
  stack,    \* yyss and yyvs: pairs of a state and a semantic value
  yychar,   \* lookahead word, YYEMPTY if there is none
  read,     \* the words read; yylval is the position of the last one
  fromarg,  \* the options given on the command line
  opt,      \* the options: position of the value set, 0 for the default
  profiles, \* the list root_profile, in the order of nfd_prof_add
  cause     \* history: why the parse failed

vars == <<pc, stack, yychar, read, fromarg, opt, profiles, cause>>

Settings == DOMAIN OptionForm \cup {"db_profiles"}
Garbage == -1   \* a semantic value nobody has set
Profile == [name : Nat, filter : Nat, dynamic : Nat,
            bytes : Nat \X Nat, pkts : Nat \X Nat, flows : Nat \X Nat]
NewProfile(name) == [name |-> name, filter |-> 0, dynamic |-> 0,
                     bytes |-> <<0, 0>>, pkts |-> <<0, 0>>, flows |-> <<0, 0>>]
Bottom == [state |-> 0, val |-> Garbage]

(* The deepest stack is that of "profile "x" { limit 1 k b/s": twelve     *)
(* symbols above the bottom.  It never comes near YYINITDEPTH, where       *)
(* yyparse would have to move it to the heap.                              *)
TypeOK ==
  /\ pc \in {"open", "parse", "ok", "failed"}
  /\ stack \in Seq([state : 0 .. 67, val : {Garbage} \cup Nat])
  /\ Len(stack) \in 1 .. 13 /\ Len(stack) < YYINITDEPTH
  /\ yychar \in (3 .. 44) \cup {EOF, YYEMPTY}
  /\ Len(read) <= MaxTokens /\ \A i \in DOMAIN read : read[i] \in WordsAt[i]
  /\ fromarg \in FromArgs
  /\ opt \in [Settings -> Nat]
  /\ profiles \in Seq(Profile)
  /\ cause \in {"none", "file", "syntax", "action"}

(* The options as main has set them before it calls nfd_cfg_parse. *)
Init ==
  /\ pc = "open" /\ stack = <<Bottom>> /\ yychar = YYEMPTY /\ read = <<>>
  /\ fromarg \in FromArgs
  /\ opt = [s \in Settings |-> 0] /\ profiles = <<>> /\ cause = "none"

(* fopen of the configuration file. *)
Open ==
  /\ pc = "open"
  /\ \/ pc' = "parse" /\ UNCHANGED cause
     \/ pc' = "failed" /\ cause' = "file"
  /\ UNCHANGED <<stack, yychar, read, fromarg, opt, profiles>>

--------------------------------------------------------------------------------
(* One turn of yyparse. *)
State == Last(stack).state
Parsing == pc = "parse" /\ State # YYFINAL

(* What yytable says of a word in a state: the state to shift to, 0 if     *)
(* there is no entry.                                                      *)
UncheckedEntryBug(state, word) ==
  LET n == yypact[state + 1] + word IN
  IF n \in 0 .. YYLAST THEN yytable[n + 1] ELSE 0
Entry(state, word) ==
  LET n == yypact[state + 1] + word IN
  IF n \in 0 .. YYLAST /\ yycheck[n + 1] = word THEN yytable[n + 1] ELSE 0

(* States with nothing to look up reduce without reading a word. *)
NeedsWord == yypact[State + 1] # YYPACT_NINF
EmptyRuleFirstBug(state) == IF state = 6 THEN 20 ELSE yydefact[state + 1]
DefaultRule(state) == yydefact[state + 1]

(* yybackup: read a lookahead word. *)
ReadWord ==
  /\ Parsing /\ NeedsWord /\ yychar = YYEMPTY
  /\ \E w \in IF Len(read) + 1 < MaxTokens THEN WordsAt[Len(read) + 1] ELSE {EOF} :
       yychar' = w /\ read' = Append(read, w)
  /\ UNCHANGED <<pc, stack, fromarg, opt, profiles, cause>>

Shift ==
  /\ Parsing /\ NeedsWord /\ yychar # YYEMPTY /\ Entry(State, yychar) # 0
  /\ stack' = Append(stack, [state |-> Entry(State, yychar), val |-> Len(read)])
  /\ yychar' = YYEMPTY
  /\ UNCHANGED <<pc, read, fromarg, opt, profiles, cause>>

(* yydefault: the rule to reduce by, 0 for an error. *)
AtDefault ==
  /\ Parsing
  /\ NeedsWord => yychar # YYEMPTY /\ Entry(State, yychar) = 0
Reduces(rules) == AtDefault /\ DefaultRule(State) \in rules

(* $k in an action placed after the n-th symbol of its rule. *)
Val(k, n) == stack[Len(stack) + k - n].val

(* The state a reduction goes to from the state below it. *)
Goto(rule, below) ==
  LET symbol == yyr1[rule + 1] - YYNTOKENS
      n == yypgoto[symbol + 1] + below
  IN IF n \in 0 .. YYLAST /\ yycheck[n + 1] = below
     THEN yytable[n + 1] ELSE yydefgoto[symbol + 1]

(* The stack after the rule at hand, whose left-hand side gets val. *)
EmptyPopBug(val) ==
  LET rule == DefaultRule(State)
      rest == SubSeq(stack, 1, Len(stack) - Max({1, yyr2[rule + 1]}) + 1)
  IN Append(rest, [state |-> Goto(rule, Last(rest).state), val |-> val])
Reduced(val) ==
  LET rule == DefaultRule(State)
      rest == SubSeq(stack, 1, Len(stack) - yyr2[rule + 1])
  IN Append(rest, [state |-> Goto(rule, Last(rest).state), val |-> val])

(* $$ = $1 before the action; an empty rule leaves what lies above the     *)
(* stack.                                                                  *)
DefaultVal ==
  LET len == yyr2[DefaultRule(State) + 1] IN
  IF len = 0 THEN Garbage ELSE Val(1, len)

Continue == stack' = Reduced(DefaultVal) /\ UNCHANGED <<pc, cause>>
Abort == stack' = <<Bottom>> /\ pc' = "failed" /\ cause' = "action"

--------------------------------------------------------------------------------
(* The semantic actions. *)

(* Rules without one. *)
ReducePlain ==
  /\ Reduces({1, 2, 3, 4, 5, 6, 18, 19, 20, 22, 24, 26, 27})
  /\ Continue
  /\ UNCHANGED <<yychar, read, fromarg, opt, profiles>>

(* Rules 7-10 and 12-17 assign the last word of the statement to an        *)
(* option; debug and pid_file only if the command line has not.            *)
IntervalTwiceBug(rule) ==
  CASE rule = 7 -> "debug" [] rule = 8 -> "pid_file" [] rule = 9 -> "window_size"
    [] rule = 10 -> "shm" [] rule = 12 -> "db_connstr"
    [] rule \in {13, 14} -> "export_interval" [] rule \in {15, 16} -> "exec_start"
    [] rule = 17 -> "stop_delay"
Assigned(rule) ==
  CASE rule = 7 -> "debug" [] rule = 8 -> "pid_file" [] rule = 9 -> "window_size"
    [] rule = 10 -> "shm" [] rule = 12 -> "db_connstr"
    [] rule = 13 -> "export_interval" [] rule = 14 -> "export_min_pps"
    [] rule = 15 -> "exec_start" [] rule = 16 -> "exec_start"
    [] rule = 17 -> "stop_delay"
SetOption ==
  /\ Reduces((7 .. 10) \cup (12 .. 17))
  /\ LET rule == DefaultRule(State)
         len == yyr2[rule + 1]
     IN opt' = IF Assigned(rule) \in fromarg THEN opt
               ELSE [opt EXCEPT ![Assigned(rule)] = Val(len, len)]
  /\ Continue
  /\ UNCHANGED <<yychar, read, fromarg, profiles>>

(* Rule 11, nfd_cfg_set_filter: an empty string is refused at once; the    *)
(* old filter is freed before libnf compiles the new one.                  *)
SetInputFilter ==
  /\ Reduces({11})
  /\ \/ opt' = [opt EXCEPT !.filter = Val(3, 3)] /\ Continue
     \/ opt' = [opt EXCEPT !.filter = 0] /\ Abort
     \/ UNCHANGED opt /\ Abort
  /\ UNCHANGED <<yychar, read, fromarg, profiles>>

(* Rule 23. *)
SetDbProfiles ==
  /\ Reduces({23})
  /\ opt' = [opt EXCEPT !.db_profiles = 1]
  /\ Continue
  /\ UNCHANGED <<yychar, read, fromarg, profiles>>

(* Rule 21, in the middle of a profile: nfd_prof_new and nfd_prof_add; the *)
(* profile becomes the value of the action's place on the stack.           *)
AddProfile ==
  /\ Reduces({21})
  /\ \/ /\ profiles' = Append(profiles, NewProfile(Val(2, 3)))
        /\ stack' = Reduced(Len(profiles'))
        /\ UNCHANGED <<pc, cause>>
     \/ UNCHANGED profiles /\ Abort
  /\ UNCHANGED <<yychar, read, fromarg, opt>>

(* Rule 25, before each statement of a profile: the value below            *)
(* ruleparams, which is the profile, is put within the statement's reach.  *)
NothingPassedBug ==
  /\ Reduces({25})
  /\ stack' = Reduced(DefaultVal)
  /\ UNCHANGED <<pc, yychar, read, fromarg, opt, profiles, cause>>
PassProfile ==
  /\ Reduces({25})
  /\ stack' = Reduced(Val(0, 1))
  /\ UNCHANGED <<pc, yychar, read, fromarg, opt, profiles, cause>>

(* Rules 28 and 29, nfd_prof_set_filter and nfd_prof_set_dynamic. *)
SetParam ==
  /\ Reduces({28, 29})
  /\ LET param == IF DefaultRule(State) = 28 THEN "filter" ELSE "dynamic" IN
     \/ profiles' = [profiles EXCEPT ![Val(0, 2)][param] = Val(2, 2)] /\ Continue
     \/ UNCHANGED profiles /\ Abort
  /\ UNCHANGED <<yychar, read, fromarg, opt>>

(* Rules 30-35: a limit is the number, times the factor if there is one    *)
(* (and then, for bytes, divided by 8).                                    *)
LimitSet(rule) ==
  CASE rule \in {30, 33} -> "bytes" [] rule \in {31, 34} -> "pkts"
    [] rule \in {32, 35} -> "flows"
SetLimit ==
  /\ Reduces(30 .. 35)
  /\ LET rule == DefaultRule(State)
         len == yyr2[rule + 1]
     IN profiles' = [profiles EXCEPT ![Val(0, len)][LimitSet(rule)] =
                       <<Val(2, len), IF rule >= 33 THEN Val(3, len) ELSE 0>>]
  /\ Continue
  /\ UNCHANGED <<yychar, read, fromarg, opt>>

--------------------------------------------------------------------------------
(* yyerrlab: no state on the stack can shift the error token (NoRecovery), *)
(* so all are popped and yyparse returns 1.                                *)
SyntaxError ==
  /\ Reduces({0})
  /\ \A i \in DOMAIN stack : Entry(stack[i].state, YYTERROR) = 0
  /\ stack' = <<Bottom>> /\ pc' = "failed" /\ cause' = "syntax"
  /\ UNCHANGED <<yychar, read, fromarg, opt, profiles>>

Accept ==
  /\ pc = "parse" /\ State = YYFINAL
  /\ stack' = <<Bottom>> /\ pc' = "ok"
  /\ UNCHANGED <<yychar, read, fromarg, opt, profiles, cause>>

Returned ==
  /\ pc \in {"ok", "failed"}
  /\ UNCHANGED vars

Step ==
  \/ Open \/ ReadWord \/ Shift
  \/ ReducePlain \/ SetOption \/ SetInputFilter \/ SetDbProfiles
  \/ AddProfile \/ PassProfile \/ SetParam \/ SetLimit
  \/ SyntaxError \/ Accept
Next == Step \/ Returned

(* The parser is one thread of control: it goes on while it can. *)
Spec == Init /\ [][Next]_vars /\ WF_vars(Step)

--------------------------------------------------------------------------------
(* Properties *)

(* The parser accepts the files of the language and no others, and refuses *)
(* a file at the first word with which no file of the language goes on     *)
(* (yytable, yycheck, yydefact: default reductions delay an error, but no  *)
(* wrong word is ever shifted).                                            *)
AcceptsTheLanguage ==
  /\ pc = "ok" => Sentence(read)
  /\ cause = "syntax" => ~Viable(read)
  /\ pc = "parse" /\ yychar = YYEMPTY => Viable(read)

LastCommand(s) ==
  LET start == LastValue(s, OptionForm.exec_start)
      stop  == LastValue(s, OptionForm.exec_stop)
  IN IF start > stop THEN start ELSE stop

(* Each option has the value of the last statement about it, those of the  *)
(* command line the value given there (config.tab.c:1496-1560).  The two   *)
(* commands are an exception: rule 16 stores a stop command as the start   *)
(* command, so exec_start is what was written last under either name and   *)
(* exec_stop is never set (config.y:109-110), although nfddos.conf:25-26   *)
(* writes a start command and then a stop command.                         *)
SettingsAsWritten ==
  pc = "ok" =>
    /\ \A s \in DOMAIN OptionForm \ {"exec_start", "exec_stop"} :
         opt[s] = IF s \in fromarg THEN 0 ELSE LastValue(read, OptionForm[s])
    /\ opt.exec_start = LastCommand(read) /\ opt.exec_stop = 0
    /\ opt.db_profiles = 1 <=> Occurrences(read, DbHeader) # {}

(* There is one profile for each header, in order, with its name and the   *)
(* last filter, field list and limits written between its braces: the      *)
(* value each statement finds two places down the stack is its profile.    *)
ProfilesAsWritten ==
  pc = "ok" =>
    /\ Len(profiles) = Cardinality(Headers(read))
    /\ \A k \in DOMAIN profiles :
         profiles[k] = [
           name    |-> HeaderOf(read, k) + 1,
           filter  |-> StringOf(read, k, "filter"),
           dynamic |-> StringOf(read, k, "dynamic"),
           bytes   |-> LimitOf(read, k, "bytes"),
           pkts    |-> LimitOf(read, k, "pkts"),
           flows   |-> LimitOf(read, k, "flows")]

(* Every file is parsed to an end: the grammar's empty rules (an empty     *)
(* rule in a list of rules) never make yyparse reduce for ever.            *)
ParseEnds == <>(pc \in {"ok", "failed"})
================================================================================
