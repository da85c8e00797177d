--------------------------- MODULE ConfigParserProofs ---------------------------
(***************************************************************************)
(* Proofs about ConfigParser, for files of any length.  The inductive      *)
(* argument is that the parser's tables leave each state one way onto the  *)
(* stack: what lies below a state, and the words read since the last       *)
(* delimiter, follow from the state at the top.  First the types and that  *)
(* every turn makes progress, then that the parser takes the language of   *)
(* the grammar and nothing else, then that the options and the profiles    *)
(* are what the file says last.                                            *)
(***************************************************************************)
EXTENDS ConfigParser, FiniteSetTheorems, SequenceTheorems, WellFoundedInduction, TLAPS

(* The state below each state, the depth of the stack it is on top of, and *)
(* the word it was shifted with (YYEMPTY: it was entered by a reduction).  *)
Below ==
  <<0, 0, 0, 0, 1, 2, 3, 4, 6, 6, 7, 7, 7, 7, 7, 7, 7, 7, 8, 8, 11, 12, 13,
    13, 14, 15, 15, 16, 16, 17, 18, 19, 20, 21, 22, 23, 23, 24, 25, 26, 27,
    28, 28, 31, 34, 35, 36, 41, 42, 43, 48, 49, 49, 52, 52, 52, 52, 53, 54,
    55, 56, 57, 57, 57, 57, 64, 64, 64>>
Depth ==
  <<1, 2, 2, 2, 3, 3, 3, 4, 4, 4, 5, 5, 5, 5, 5, 5, 5, 5, 5, 5, 6, 6, 6, 6,
    6, 6, 6, 6, 6, 6, 6, 6, 7, 7, 7, 7, 7, 7, 7, 7, 7, 7, 7, 7, 8, 8, 8, 8,
    8, 8, 9, 9, 9, 10, 10, 10, 10, 11, 11, 11, 11, 12, 12, 12, 12, 13, 13,
    13>>
WordOf ==
  <<-2, 15, -2, -2, 3, 0, -2, -2, 6, -2, 4, 16, 17, 18, 28, 35, 37, -2, 37,
    44, 21, 12, 13, 14, 32, 8, 36, 38, 39, 5, 5, 3, 42, 44, 22, 22, 34, 42,
    44, 44, 44, 40, 41, -2, 44, 44, 42, 42, 10, -2, 42, 4, -2, 7, 8, 29, -2,
    42, 44, 44, 5, 9, 10, 11, 43, 9, 10, 11>>

States ==
  {0, 1, 2, 3, 4, 5, 6, 7, 8, 9, 10, 11, 12, 13, 14, 15, 16, 17, 18, 19, 20,
   21, 22, 23, 24, 25, 26, 27, 28, 29, 30, 31, 32, 33, 34, 35, 36, 37, 38, 39,
   40, 41, 42, 43, 44, 45, 46, 47, 48, 49, 50, 51, 52, 53, 54, 55, 56, 57, 58,
   59, 60, 61, 62, 63, 64, 65, 66, 67}

Rules == {0, 2, 3, 4, 5, 6, 7, 8, 9, 10, 11, 12, 13, 14, 15, 16, 17, 18, 19,
   21, 22, 23, 24, 25, 26, 27, 28, 29, 30, 31, 32, 33, 34, 35}
Indices ==
  {0, 1, 2, 3, 4, 5, 6, 7, 8, 9, 10, 11, 12, 13, 14, 15, 16, 17, 18, 19,
   20, 21, 22, 23, 24, 25, 26, 27, 28, 29, 30, 31, 32, 33, 34, 35, 36, 37,
   38, 39, 40, 41, 42, 43, 44, 45, 46, 47, 48, 49, 50, 51, 52, 53, 54, 55,
   56, 57, 58, 59, 60}

(* The k-th state below the top. *)
Back(s, k) ==
  CASE k = 0 -> s
    [] k = 1 -> Below[s + 1]
    [] k = 2 -> Below[Below[s + 1] + 1]
    [] k = 3 -> Below[Below[Below[s + 1] + 1] + 1]
    [] k = 4 -> Below[Below[Below[Below[s + 1] + 1] + 1] + 1]
    [] k = 5 -> Below[Below[Below[Below[Below[s + 1] + 1] + 1] + 1] + 1]
    [] k = 6 -> Below[Below[Below[Below[Below[Below[s + 1] + 1] + 1] + 1] + 1] + 1]

(* What a rule is reduced on top of, and the state that is then entered. *)
Exposed ==
  <<0, 0, 0, 0, 4, 4, 7, 7, 7, 7, 7, 7, 7, 7, 7, 7, 7, 7, 3, 3, 0, 31, 6, 6,
    43, 49, 43, 52, 52, 52, 52, 52, 52, 52, 52, 52>>
Entered ==
  <<0, 0, 2, 3, 7, 7, 17, 17, 17, 17, 17, 17, 17, 17, 17, 17, 17, 17, 6, 6,
    0, 43, 9, 9, 49, 52, 49, 56, 56, 56, 56, 56, 56, 56, 56, 56>>

--------------------------------------------------------------------------------
(* What the tables say of every state. *)

LEMMA StatesAre == States = 0 .. 67
BY DEF States

LEMMA BelowTable ==
  \A s \in States :
    /\ Below[s + 1] \in States /\ Depth[s + 1] \in 1 .. 13
    /\ s # 0 => Depth[s + 1] = Depth[Below[s + 1] + 1] + 1
BY DEF States, Below, Depth

LEMMA RuleTable ==
  \A s \in States :
    /\ yydefact[s + 1] \in 0 .. 35
    /\ yyr2[yydefact[s + 1] + 1] \in 0 .. 6
    /\ yyr2[yydefact[s + 1] + 1] < Depth[s + 1]
BY DEF States, Depth, yydefact, yyr2

(* A word is shifted onto the one state its new state can stand on. *)
LEMMA ShiftTable ==
  ASSUME NEW s \in States, NEW w \in 0 .. 44,
         yypact[s + 1] # YYPACT_NINF, Entry(s, w) # 0
  PROVE  /\ Entry(s, w) \in States /\ Entry(s, w) # 0
         /\ Below[Entry(s, w) + 1] = s
         /\ Depth[Entry(s, w) + 1] = Depth[s + 1] + 1
         /\ WordOf[Entry(s, w) + 1] = w
<1> DEFINE n == yypact[s + 1] + w
<1>1. n \in 0 .. 60 /\ yycheck[n + 1] = w /\ Entry(s, w) = yytable[n + 1]
  BY DEF Entry, YYLAST
<1> HIDE DEF n
<1>0. n \in Indices
  BY <1>1 DEF Indices
<1>2. \A i \in Indices : yycheck[i + 1] # -1 =>
        /\ yytable[i + 1] \in States
        /\ yytable[i + 1] # 0
        /\ WordOf[yytable[i + 1] + 1] = yycheck[i + 1]
        /\ yypact[Below[yytable[i + 1] + 1] + 1] = i - yycheck[i + 1]
  BY DEF Indices, yycheck, yytable, States, WordOf, Below, yypact
<1>3. \A t \in States :
        yypact[s + 1] = yypact[t + 1] => s = t
  BY DEF States, yypact, YYPACT_NINF
<1>4. yypact[Below[yytable[n + 1] + 1] + 1] = n - w
  BY <1>0, <1>1, <1>2
<1>5. yytable[n + 1] \in States /\ yytable[n + 1] # 0 /\ WordOf[yytable[n + 1] + 1] = w
  BY <1>0, <1>1, <1>2
<1>6. yypact[s + 1] = n - w
  <2>1. yypact[s + 1] \in Int
    BY DEF States, yypact
  <2> QED
    BY <2>1 DEF n
<1>7. Below[yytable[n + 1] + 1] = s
  BY <1>3, <1>4, <1>5, <1>6, BelowTable
<1> QED
  BY <1>1, <1>5, <1>7, BelowTable

LEMMA ReduceTable ==
  ASSUME NEW s \in States, s # YYFINAL, NEW rule, rule = yydefact[s + 1], rule # 0
  PROVE  /\ Goto(rule, Back(s, yyr2[rule + 1])) = Entered[rule + 1]
         /\ Entered[rule + 1] \in States
         /\ Below[Entered[rule + 1] + 1] = Back(s, yyr2[rule + 1])
         /\ Depth[Entered[rule + 1] + 1] = Depth[s + 1] - yyr2[rule + 1] + 1
         /\ WordOf[Entered[rule + 1] + 1] = YYEMPTY
<1>1. Back(s, yyr2[rule + 1]) = Exposed[rule + 1]
  <2> DEFINE len == yyr2[rule + 1]
  <2>1. len \in 0 .. 6
    BY RuleTable
  <2>2. CASE len = 0
    <3>1. Back(s, 0) = s
      BY DEF Back
    <3>2. s = Exposed[rule + 1]
      BY <2>2 DEF States, Below, Exposed, yydefact, yyr2, YYFINAL
    <3> QED
      BY <2>2, <3>1, <3>2
  <2>3. CASE len = 1
    <3>1. Back(s, 1) = Below[s + 1]
      BY DEF Back
    <3>2. Below[s + 1] = Exposed[rule + 1]
      BY <2>3 DEF States, Below, Exposed, yydefact, yyr2, YYFINAL
    <3> QED
      BY <2>3, <3>1, <3>2
  <2>4. CASE len = 2
    <3>1. Back(s, 2) = Below[Below[s + 1] + 1]
      BY DEF Back
    <3>2. Below[Below[s + 1] + 1] = Exposed[rule + 1]
      BY <2>4 DEF States, Below, Exposed, yydefact, yyr2, YYFINAL
    <3> QED
      BY <2>4, <3>1, <3>2
  <2>5. CASE len = 3
    <3>1. Back(s, 3) = Below[Below[Below[s + 1] + 1] + 1]
      BY DEF Back
    <3>2. Below[Below[Below[s + 1] + 1] + 1] = Exposed[rule + 1]
      BY <2>5 DEF States, Below, Exposed, yydefact, yyr2, YYFINAL
    <3> QED
      BY <2>5, <3>1, <3>2
  <2>6. CASE len = 4
    <3>1. Back(s, 4) = Below[Below[Below[Below[s + 1] + 1] + 1] + 1]
      BY DEF Back
    <3>2. s \in {10, 44, 45, 46, 47, 60, 65, 66, 67}
      BY <2>6 DEF States, yydefact, yyr2
    <3>3. Below[Below[Below[Below[s + 1] + 1] + 1] + 1] = Exposed[rule + 1]
      BY <3>2 DEF Below, Exposed, yydefact
    <3> QED
      BY <2>6, <3>1, <3>3
  <2>7. CASE len = 5
    <3>1. Back(s, 5) = Below[Below[Below[Below[Below[s + 1] + 1] + 1] + 1] + 1]
      BY DEF Back
    <3>2. s \in {50}
      BY <2>7 DEF States, yydefact, yyr2
    <3>3. Below[Below[Below[Below[Below[s + 1] + 1] + 1] + 1] + 1] = Exposed[rule + 1]
      BY <3>2 DEF Below, Exposed, yydefact
    <3> QED
      BY <2>7, <3>1, <3>3
  <2>8. CASE len = 6
    <3>1. s = 51
      BY <2>8 DEF States, yydefact, yyr2
    <3>2. /\ Below[52] = 49 /\ Below[50] = 43 /\ Below[44] = 31 /\ Below[32] = 19
          /\ Below[20] = 8 /\ Below[9] = 6
      BY DEF Below
    <3>3. Exposed[rule + 1] = 6
      BY <3>1 DEF Exposed, yydefact
    <3>4. Back(s, 6) = Below[Below[Below[Below[Below[Below[s + 1] + 1] + 1] + 1] + 1] + 1]
      BY DEF Back
    <3> QED
      BY <2>8, <3>1, <3>2, <3>3, <3>4
  <2> QED
    BY <2>1, <2>2, <2>3, <2>4, <2>5, <2>6, <2>7, <2>8
<1>2. rule \in Rules
  BY DEF States, Rules, yydefact, YYFINAL
<1>3. Goto(rule, Exposed[rule + 1]) = Entered[rule + 1]
  BY <1>2 DEF Rules, Goto, Exposed, Entered, yyr1, yypgoto, yydefgoto, yycheck, yytable,
              YYLAST, YYNTOKENS
<1>4. /\ Entered[rule + 1] \in States
      /\ Below[Entered[rule + 1] + 1] = Exposed[rule + 1]
      /\ WordOf[Entered[rule + 1] + 1] = YYEMPTY
  BY <1>2 DEF Rules, States, Below, WordOf, Exposed, Entered, YYEMPTY
<1>5. Depth[Entered[rule + 1] + 1] = Depth[s + 1] - yyr2[rule + 1] + 1
  BY DEF States, Depth, Entered, yydefact, yyr2, YYFINAL
<1> QED
  BY <1>1, <1>3, <1>4, <1>5

--------------------------------------------------------------------------------
LEMMA PrefixOf ==
  ASSUME NEW S, NEW s \in Seq(S), NEW k \in 0 .. Len(s)
  PROVE  /\ SubSeq(s, 1, k) \in Seq(S) /\ Len(SubSeq(s, 1, k)) = k
         /\ \A i \in 1 .. k : SubSeq(s, 1, k)[i] = s[i]
<1>1. k \in Nat /\ \A i \in 1 .. k : s[i] \in S
  BY ElementOfSeq, LenProperties
<1> QED
  BY <1>1, SubSeqProperties

(* The stack. *)

Values == {Garbage} \cup Nat
Symbol == [state : States, val : Values]

(* Each state stands where it can, on the one state it can stand on. *)
Path(s) ==
  /\ s \in Seq(Symbol) /\ s # <<>>
  /\ \A i \in 1 .. Len(s) : Depth[s[i].state + 1] = i
  /\ \A i \in 2 .. Len(s) : s[i - 1].state = Below[s[i].state + 1]

LEMMA TopOfPath ==
  ASSUME NEW s, Path(s)
  PROVE  /\ Len(s) \in 1 .. 13 /\ Last(s).state \in States
         /\ Depth[Last(s).state + 1] = Len(s)
         /\ \A i \in 1 .. Len(s) : s[i] \in Symbol /\ s[i].state \in States /\ s[i].val \in Values
<1>1. Len(s) \in Nat /\ Len(s) > 0 /\ \A i \in 1 .. Len(s) : s[i] \in Symbol
  BY DEF Path
<1>2. \A i \in 1 .. Len(s) : s[i].state \in States /\ s[i].val \in Values
  BY <1>1 DEF Symbol
<1>3. Last(s) = s[Len(s)] /\ Len(s) \in 1 .. Len(s)
  BY <1>1 DEF Last
<1>4. Depth[Last(s).state + 1] = Len(s)
  BY <1>3 DEF Path
<1> QED
  BY <1>1, <1>2, <1>3, <1>4, BelowTable

LEMMA PathBack ==
  ASSUME NEW s, Path(s), NEW k \in 0 .. 6, k < Len(s)
  PROVE  s[Len(s) - k].state = Back(Last(s).state, k)
<1> DEFINE top == Last(s).state
           n == Len(s)
<1>1. n \in Nat /\ n > 0
  BY TopOfPath
<1>2. \A i \in 2 .. n : s[i - 1].state = Below[s[i].state + 1]
  BY DEF Path
<1>3. s[n].state = top
  BY DEF Last
<1> HIDE DEF top, n
<1>4. n > 1 => s[n - 1].state = Below[top + 1]
  BY <1>1, <1>2, <1>3
<1>5. n > 2 => s[n - 2].state = Below[Below[top + 1] + 1]
  <2>1. n > 2 => n - 1 \in 2 .. n /\ (n - 1) - 1 = n - 2
    BY <1>1
  <2> QED
    BY <1>1, <1>2, <1>4, <2>1
<1>6. n > 3 => s[n - 3].state = Below[Below[Below[top + 1] + 1] + 1]
  <2>1. n > 3 => n - 2 \in 2 .. n /\ (n - 2) - 1 = n - 3
    BY <1>1
  <2> QED
    BY <1>1, <1>2, <1>5, <2>1
<1>7. n > 4 => s[n - 4].state = Below[Below[Below[Below[top + 1] + 1] + 1] + 1]
  <2>1. n > 4 => n - 3 \in 2 .. n /\ (n - 3) - 1 = n - 4
    BY <1>1
  <2> QED
    BY <1>1, <1>2, <1>6, <2>1
<1>8. n > 5 => s[n - 5].state = Below[Below[Below[Below[Below[top + 1] + 1] + 1] + 1] + 1]
  <2>1. n > 5 => n - 4 \in 2 .. n /\ (n - 4) - 1 = n - 5
    BY <1>1
  <2> QED
    BY <1>1, <1>2, <1>7, <2>1
<1>9. n > 6 => s[n - 6].state = Below[Below[Below[Below[Below[Below[top + 1] + 1] + 1] + 1] + 1] + 1]
  <2>1. n > 6 => n - 5 \in 2 .. n /\ (n - 5) - 1 = n - 6
    BY <1>1
  <2> QED
    BY <1>1, <1>2, <1>8, <2>1
<1>10. n - 0 = n
  BY <1>1
<1>11. k = 0 \/ k = 1 \/ k = 2 \/ k = 3 \/ k = 4 \/ k = 5 \/ k = 6
  OBVIOUS
<1> QED
  BY <1>1, <1>3, <1>4, <1>5, <1>6, <1>7, <1>8, <1>9, <1>10, <1>11 DEF Back, top, n

(* A symbol is pushed on what is left of the stack. *)
Push(s, k, t, v) == Append(SubSeq(s, 1, k), [state |-> t, val |-> v])

LEMMA Pushed ==
  ASSUME NEW s, Path(s), NEW k \in 1 .. Len(s), NEW t \in States, t # 0,
         NEW v \in Values, Below[t + 1] = s[k].state
  PROVE  /\ Path(Push(s, k, t, v)) /\ Len(Push(s, k, t, v)) = k + 1
         /\ \A i \in 1 .. k : Push(s, k, t, v)[i] = s[i]
         /\ Last(Push(s, k, t, v)).state = t /\ Last(Push(s, k, t, v)).val = v
<1> DEFINE rest == SubSeq(s, 1, k)
           symbol == [state |-> t, val |-> v]
           new == Push(s, k, t, v)
<1>1. s \in Seq(Symbol) /\ k \in Nat /\ Len(s) \in Nat /\ k <= Len(s) /\ k >= 1
  BY TopOfPath DEF Path
<1>2. rest \in Seq(Symbol) /\ Len(rest) = k /\ \A i \in 1 .. k : rest[i] = s[i]
  BY <1>1
<1>3. symbol \in Symbol
  BY DEF Symbol
<1>4. symbol.state = t /\ symbol.val = v
  OBVIOUS
<1>0. new = Append(rest, symbol)
  BY DEF Push
<1> HIDE DEF rest, symbol, new
<1>5. /\ new \in Seq(Symbol) /\ Len(new) = k + 1 /\ new[k + 1] = symbol
      /\ \A i \in 1 .. k : new[i] = s[i]
  BY <1>0, <1>1, <1>2, <1>3
<1>6. Last(new) = symbol
  BY <1>5 DEF Last
<1>7. Depth[t + 1] = k + 1
  BY <1>1, BelowTable DEF Path
<1>8. \A i \in 1 .. k + 1 : Depth[new[i].state + 1] = i
  BY <1>1, <1>4, <1>5, <1>7 DEF Path
<1>9. \A i \in 2 .. k + 1 : new[i - 1].state = Below[new[i].state + 1]
  <2> TAKE i \in 2 .. k + 1
  <2>1. CASE i = k + 1
    BY <1>1, <1>4, <1>5, <2>1
  <2>2. CASE i <= k
    <3>1. i \in 2 .. Len(s) /\ i \in 1 .. k /\ i - 1 \in 1 .. k
      BY <1>1, <2>2
    <3> QED
      BY <1>5, <3>1 DEF Path
  <2> QED
    BY <1>1, <2>1, <2>2
<1>10. Path(new)
  BY <1>1, <1>5, <1>8, <1>9 DEF Path
<1> QED
  BY <1>4, <1>5, <1>6, <1>10 DEF new

(* A reduction takes the symbols of its rule off and pushes one.  *)
LEMMA ReducedStack ==
  ASSUME Path(stack), Parsing, NEW rule, rule = DefaultRule(State), rule # 0,
         NEW v \in Values
  PROVE  /\ Path(Reduced(v)) /\ yyr2[rule + 1] \in 0 .. 6 /\ yyr2[rule + 1] < Len(stack)
         /\ Len(Reduced(v)) = Len(stack) - yyr2[rule + 1] + 1
         /\ \A i \in 1 .. Len(stack) - yyr2[rule + 1] : Reduced(v)[i] = stack[i]
         /\ Last(Reduced(v)).state = Entered[rule + 1] /\ Last(Reduced(v)).val = v
         /\ Entered[rule + 1] \in States /\ WordOf[Entered[rule + 1] + 1] = YYEMPTY
<1> DEFINE len == yyr2[rule + 1]
           k == Len(stack) - len
           rest == SubSeq(stack, 1, k)
           t == Entered[rule + 1]
<1>1. /\ State \in States /\ Len(stack) \in Nat /\ Depth[State + 1] = Len(stack)
      /\ State # YYFINAL /\ rule = yydefact[State + 1] /\ stack \in Seq(Symbol)
  BY TopOfPath DEF State, Parsing, DefaultRule, Path
<1>2. len \in 0 .. 6 /\ len < Len(stack)
  BY <1>1, RuleTable
<1>3. k \in 1 .. Len(stack) /\ Len(stack) - len \in 1 .. Len(stack)
  BY <1>1, <1>2
<1>4. stack[k].state = Back(State, len)
  BY <1>2, PathBack DEF State
<1>5. /\ Goto(rule, Back(State, len)) = t /\ t \in States
      /\ Below[t + 1] = Back(State, len)
      /\ WordOf[t + 1] = YYEMPTY /\ Depth[t + 1] = Depth[State + 1] - len + 1
  BY <1>1, ReduceTable
<1>6. t # 0
  <2>1. Depth[0 + 1] = 1
    BY DEF Depth
  <2> QED
    BY <1>1, <1>2, <1>5, <2>1
<1>7. Len(rest) = k /\ rest[k] = stack[k] /\ Last(rest) = stack[k]
  <2>1. Len(rest) = k /\ rest[k] = stack[k]
    BY <1>1, <1>3
  <2> QED
    BY <2>1 DEF Last
<1>8. Reduced(v) = Append(rest, [state |-> Goto(rule, Last(rest).state), val |-> v])
  BY DEF Reduced
<1>9. Reduced(v) = Push(stack, k, t, v)
  BY <1>4, <1>5, <1>7, <1>8 DEF Push
<1> HIDE DEF t, len, k
<1>10. /\ Path(Reduced(v)) /\ Len(Reduced(v)) = k + 1
       /\ \A i \in 1 .. k : Reduced(v)[i] = stack[i]
       /\ Last(Reduced(v)).state = t /\ Last(Reduced(v)).val = v
  <2>1. PICK j, u : j = k /\ u = t
    OBVIOUS
  <2>2. /\ j \in 1 .. Len(stack) /\ u \in States /\ u # 0 /\ Below[u + 1] = stack[j].state
        /\ Reduced(v) = Push(stack, j, u, v)
    BY <1>3, <1>4, <1>5, <1>6, <1>9, <2>1
  <2>3. /\ Path(Push(stack, j, u, v)) /\ Len(Push(stack, j, u, v)) = j + 1
        /\ \A i \in 1 .. j : Push(stack, j, u, v)[i] = stack[i]
        /\ Last(Push(stack, j, u, v)).state = u /\ Last(Push(stack, j, u, v)).val = v
    BY <2>2, Pushed
  <2> QED
    BY <2>1, <2>2, <2>3
<1> QED
  BY <1>2, <1>5, <1>10 DEF t, len, k

(* $1, or what an empty rule leaves. *)
LEMMA DefaultValue ==
  ASSUME Path(stack), Parsing
  PROVE  DefaultVal \in Values
<1> DEFINE len == yyr2[DefaultRule(State) + 1]
<1>1. /\ State \in States /\ Len(stack) \in Nat /\ Depth[State + 1] = Len(stack)
      /\ \A i \in 1 .. Len(stack) : stack[i].val \in Values
  BY TopOfPath DEF State
<1>2. len \in 0 .. 6 /\ len < Len(stack)
  BY <1>1, RuleTable DEF DefaultRule
<1> HIDE DEF len
<1>3. CASE len = 0
  BY <1>3 DEF DefaultVal, Values, len
<1>4. CASE len # 0
  <2>1. Len(stack) + 1 - len \in 1 .. Len(stack)
    BY <1>1, <1>2, <1>4
  <2> QED
    BY <1>1, <1>4, <2>1 DEF DefaultVal, Val, len
<1> QED
  BY <1>3, <1>4

--------------------------------------------------------------------------------
(* The words. *)

(* The words behind the lookahead. *)
Eaten == IF yychar = YYEMPTY THEN read ELSE Front(read)

Word == (3 .. 44) \cup {EOF}

(* A file that is read to its last word ends with its end. *)
ReadInv ==
  /\ read \in Seq(Word)
  /\ yychar # YYEMPTY => read # <<>> /\ Last(read) = yychar
  /\ Len(read) = MaxTokens => Last(read) = EOF
  /\ pc = "open" => read = <<>> /\ stack = <<Bottom>>
  /\ pc = "parse" /\ yychar = YYEMPTY /\ Len(read) = MaxTokens => State = YYFINAL

(* The value of a word on the stack s is its place in the file w, of which *)
(* the word on top is the last, and words shifted one after the other are  *)
(* on the stack one above the other.                                       *)
Shifted(s, i) == WordOf[s[i].state + 1] # YYEMPTY
Places(s, w) ==
  \A i \in 1 .. Len(s) : Shifted(s, i) =>
    /\ s[i].val \in 1 .. Len(w) /\ w[s[i].val] = WordOf[s[i].state + 1]
    /\ i = Len(s) => s[i].val = Len(w)
    /\ i > 1 /\ Shifted(s, i - 1) => s[i].val = s[i - 1].val + 1

ParserInv ==
  TypeOK /\ Path(stack) /\ ReadInv /\ Places(stack, Eaten)

(* A bottom alone, before and after the parse. *)
LEMMA BottomAlone ==
  ASSUME NEW w \in Seq(Word)
  PROVE  /\ Path(<<Bottom>>) /\ Places(<<Bottom>>, w) /\ Last(<<Bottom>>).state = 0
<1>1. Bottom \in Symbol /\ Bottom.state = 0
  BY DEF Bottom, Symbol, States, Values
<1>2. Depth[0 + 1] = 1 /\ WordOf[0 + 1] = YYEMPTY
  BY DEF Depth, WordOf, YYEMPTY
<1> DEFINE s == <<Bottom>>
<1>3. s \in Seq(Symbol) /\ Len(s) = 1 /\ s[1] = Bottom
  BY <1>1
<1> HIDE DEF s
<1>4. Path(s) /\ Places(s, w) /\ Last(s).state = 0
  BY <1>1, <1>2, <1>3 DEF Path, Places, Shifted, Last
<1> QED
  BY <1>4 DEF s

LEMMA EatenIs ==
  ASSUME ReadInv
  PROVE  /\ Eaten \in Seq(Word)
         /\ yychar = YYEMPTY => Eaten = read
         /\ yychar # YYEMPTY => /\ Len(read) \in Nat \ {0} /\ Len(Eaten) = Len(read) - 1
                                /\ yychar \in Word /\ read = Append(Eaten, yychar)
<1>1. CASE yychar = YYEMPTY
  BY <1>1 DEF ReadInv, Eaten
<1>2. CASE yychar # YYEMPTY
  <2> DEFINE n == Len(read)
  <2>1. read \in Seq(Word) /\ n \in Nat \ {0} /\ read[n] = yychar /\ read[n] \in Word
    BY <1>2 DEF ReadInv, Last
  <2>2. Eaten = SubSeq(read, 1, n - 1)
    BY <1>2 DEF Eaten, Front
  <2>3. Eaten \in Seq(Word) /\ Len(Eaten) = n - 1 /\ \A i \in 1 .. n - 1 : Eaten[i] = read[i]
    <3>1. \A i \in 1 .. n - 1 : read[i] \in Word
      BY <2>1, ElementOfSeq
    <3>2. n \in Nat \ {0}
      BY <2>1
    <3> HIDE DEF n
    <3> QED
      BY <2>2, <3>1, <3>2, SubSeqProperties
  <2>4. /\ Append(Eaten, yychar) \in Seq(Word) /\ Len(Append(Eaten, yychar)) = n
        /\ \A i \in 1 .. n : Append(Eaten, yychar)[i] = read[i]
    BY <2>1, <2>3
  <2>5. Append(Eaten, yychar) = read
    BY <2>1, <2>4
  <2> QED
    BY <1>2, <2>1, <2>3, <2>5
<1> QED
  BY <1>1, <1>2

(* What a reduction keeps of the words on the stack. *)
LEMMA PlacesReduced ==
  ASSUME Path(stack), Parsing, DefaultRule(State) # 0, NEW v \in Values,
         NEW w, Places(stack, w)
  PROVE  Places(Reduced(v), w)
<1> DEFINE new == Reduced(v)
           k == Len(new) - 1
<1>1. /\ Path(new) /\ k \in Nat /\ Len(new) = k + 1 /\ k <= Len(stack)
      /\ \A i \in 1 .. k : new[i] = stack[i]
      /\ WordOf[Last(new).state + 1] = YYEMPTY /\ Len(stack) \in Nat
  <2>1. Len(stack) \in Nat
    BY TopOfPath
  <2> QED
    BY <2>1, ReducedStack
<1> HIDE DEF new, k
<1>2. ~Shifted(new, k + 1)
  BY <1>1 DEF Shifted, Last
<1>3. ASSUME NEW i \in 1 .. k + 1, Shifted(new, i)
      PROVE  /\ new[i].val \in 1 .. Len(w) /\ w[new[i].val] = WordOf[new[i].state + 1]
             /\ i = Len(new) => new[i].val = Len(w)
             /\ i > 1 /\ Shifted(new, i - 1) => new[i].val = new[i - 1].val + 1
  <2>1. i \in 1 .. k /\ i \in 1 .. Len(stack) /\ i # Len(new)
    BY <1>1, <1>2, <1>3
  <2>2. new[i] = stack[i] /\ Shifted(stack, i)
    BY <1>1, <1>3, <2>1 DEF Shifted
  <2>3. i > 1 => i - 1 \in 1 .. k
    BY <1>1, <2>1
  <2>4. i > 1 /\ Shifted(new, i - 1) => new[i - 1] = stack[i - 1] /\ Shifted(stack, i - 1)
    BY <1>1, <2>3 DEF Shifted
  <2> QED
    BY <2>1, <2>2, <2>4 DEF Places
<1> QED
  BY <1>1, <1>3 DEF Places, new

--------------------------------------------------------------------------------
(* Type correctness, by what a step does to the stack. *)

LEMMA TypeOfStack ==
  ASSUME NEW s, Path(s)
  PROVE  /\ s \in Seq([state : 0 .. 67, val : {Garbage} \cup Nat])
         /\ Len(s) \in 1 .. 13 /\ Len(s) < YYINITDEPTH
<1>1. Symbol = [state : 0 .. 67, val : {Garbage} \cup Nat]
  BY StatesAre DEF Symbol, Values
<1>2. s \in Seq(Symbol) /\ Len(s) \in 1 .. 13
  BY TopOfPath DEF Path
<1>3. s \in Seq([state : 0 .. 67, val : {Garbage} \cup Nat])
  BY <1>1, <1>2, Zenon
<1>4. Len(s) < YYINITDEPTH
  <2>1. \A n \in 1 .. 13 : n < 200
    OBVIOUS
  <2> QED
    BY <1>2, <2>1 DEF YYINITDEPTH
<1> QED
  BY <1>2, <1>3, <1>4

(* The value of a word on the stack, k below the top. *)
LEMMA WordValue ==
  ASSUME ParserInv, NEW k \in 0 .. 6, k < Len(stack),
         WordOf[Back(State, k) + 1] # YYEMPTY
  PROVE  /\ stack[Len(stack) - k].val \in 1 .. Len(Eaten)
         /\ Eaten[stack[Len(stack) - k].val] = WordOf[Back(State, k) + 1]
         /\ k = 0 => stack[Len(stack)].val = Len(Eaten)
<1>1. Path(stack) /\ Places(stack, Eaten) /\ Len(stack) \in Nat
  BY TopOfPath DEF ParserInv
<1>2. stack[Len(stack) - k].state = Back(State, k)
  BY <1>1, PathBack DEF State
<1> DEFINE i == Len(stack) - k
<1>3. i \in 1 .. Len(stack) /\ (k = 0 => i = Len(stack))
  BY <1>1
<1>4. stack[i].state = Back(State, k)
  BY <1>2
<1> HIDE DEF i
<1>5. Shifted(stack, i)
  BY <1>4 DEF Shifted
<1>6. /\ stack[i].val \in 1 .. Len(Eaten) /\ Eaten[stack[i].val] = WordOf[stack[i].state + 1]
      /\ i = Len(stack) => stack[i].val = Len(Eaten)
  BY <1>1, <1>3, <1>5 DEF Places
<1>7. k = 0 => stack[Len(stack)].val = Len(Eaten)
  BY <1>3, <1>6
<1> QED
  BY <1>4, <1>6, <1>7 DEF i

LEMMA StepReduce ==
  ASSUME ParserInv, Parsing, DefaultRule(State) # 0, NEW v \in Values,
         stack' = Reduced(v), UNCHANGED <<pc, yychar, read>>
  PROVE  (Path(stack) /\ ReadInv /\ Places(stack, Eaten))'
<1>1. Path(stack) /\ ReadInv /\ Places(stack, Eaten) /\ Eaten' = Eaten
  BY DEF ParserInv, Eaten
<1>2. Path(stack')
  BY <1>1, ReducedStack
<1>3. Places(stack', Eaten)
  BY <1>1, PlacesReduced
<1>4. ReadInv'
  BY <1>1 DEF ReadInv, Parsing
<1> QED
  BY <1>1, <1>2, <1>3, <1>4 DEF Path, Places, Shifted

LEMMA StepEnd ==
  ASSUME ParserInv, stack' = <<Bottom>>, pc' \in {"ok", "failed"}, UNCHANGED <<yychar, read>>
  PROVE  (Path(stack) /\ ReadInv /\ Places(stack, Eaten))'
<1>1. ReadInv /\ Eaten' = Eaten
  BY DEF ParserInv, Eaten
<1>2. Eaten \in Seq(Word)
  BY <1>1, EatenIs
<1>3. Path(stack') /\ Places(stack', Eaten)
  BY <1>2, BottomAlone
<1>4. ReadInv'
  BY <1>1 DEF ReadInv
<1> QED
  BY <1>1, <1>3, <1>4 DEF Path, Places, Shifted

(* A reduction, or the end the action of a rule puts to the parse. *)
LEMMA StepAction ==
  ASSUME ParserInv, Parsing, DefaultRule(State) # 0, Continue \/ Abort,
         UNCHANGED <<yychar, read>>
  PROVE  /\ (Path(stack) /\ ReadInv /\ Places(stack, Eaten))'
         /\ pc' \in {"open", "parse", "ok", "failed"}
         /\ cause' \in {"none", "file", "syntax", "action"}
<1>1. TypeOK /\ Path(stack)
  BY DEF ParserInv
<1>2. CASE Continue
  <2>1. DefaultVal \in Values
    BY <1>1, DefaultValue
  <2> QED
    BY <1>1, <1>2, <2>1, StepReduce DEF Continue, TypeOK
<1>3. CASE Abort
  BY <1>3, StepEnd, <1>1 DEF Abort, TypeOK
<1> QED
  BY <1>2, <1>3

LEMMA InitParser == Init => ParserInv
<1> SUFFICES ASSUME Init PROVE ParserInv
  OBVIOUS
<1>1. MaxTokens \in Nat \ {0}
  BY ConfigParserAssumption
<1>2. read = <<>> /\ stack = <<Bottom>> /\ yychar = YYEMPTY /\ pc = "open"
  BY DEF Init
<1>3. ReadInv
  <2>1. <<>> \in Seq(Word) /\ Len(<<>>) = 0
    BY EmptySeq
  <2> QED
    BY <1>1, <1>2, <2>1 DEF ReadInv
<1>4. Eaten \in Seq(Word)
  BY <1>3, EatenIs
<1>5. Path(stack) /\ Places(stack, Eaten)
  BY <1>2, <1>4, BottomAlone
<1>6. TypeOK
  <2>1. opt \in [Settings -> Nat] /\ profiles = <<>> /\ cause = "none" /\ fromarg \in FromArgs
    BY DEF Init
  <2>2. profiles \in Seq(Profile) /\ Len(read) = 0
    BY <1>2, <2>1, EmptySeq
  <2>3. DOMAIN read = 1 .. 0
    BY <1>2, EmptySeq, LenProperties
  <2> QED
    <3>1. Len(read) <= MaxTokens /\ \A i \in DOMAIN read : read[i] \in WordsAt[i]
      BY <1>1, <2>2, <2>3
    <3>2. /\ stack \in Seq([state : 0 .. 67, val : {Garbage} \cup Nat])
          /\ Len(stack) \in 1 .. 13 /\ Len(stack) < YYINITDEPTH
      BY <1>5, TypeOfStack
    <3> QED
      BY <1>2, <2>1, <2>2, <3>1, <3>2 DEF TypeOK
<1> QED
  BY <1>3, <1>5, <1>6 DEF ParserInv

(* A step that keeps the words and the options well-typed. *)
LEMMA TypeKept ==
  ASSUME ParserInv, Path(stack'), UNCHANGED <<yychar, read, fromarg>>,
         pc' \in {"open", "parse", "ok", "failed"},
         cause' \in {"none", "file", "syntax", "action"},
         opt' \in [Settings -> Nat], profiles' \in Seq(Profile)
  PROVE  TypeOK'
<1>1. TypeOK
  BY DEF ParserInv
<1>2. /\ stack' \in Seq([state : 0 .. 67, val : {Garbage} \cup Nat])
      /\ Len(stack') \in 1 .. 13 /\ Len(stack') < YYINITDEPTH
  BY TypeOfStack
<1> QED
  BY <1>1, <1>2 DEF TypeOK

LEMMA StepOpen ==
  ASSUME ParserInv, Open
  PROVE  ParserInv'
<1>1. /\ UNCHANGED <<stack, yychar, read, fromarg, opt, profiles>>
      /\ pc = "open" /\ pc' \in {"parse", "failed"}
      /\ cause' \in {"none", "file", "syntax", "action"}
  BY DEF Open, ParserInv, TypeOK
<1>2. Eaten' = Eaten
  BY <1>1 DEF Eaten
<1>3. Path(stack') /\ Places(stack', Eaten')
  BY <1>1, <1>2 DEF ParserInv
<1>4. ReadInv'
  <2>1. read = <<>> /\ Len(read) = 0 /\ MaxTokens # 0
    BY <1>1, EmptySeq, ConfigParserAssumption DEF ParserInv, ReadInv
  <2> QED
    BY <1>1, <2>1 DEF ParserInv, ReadInv
<1>5. TypeOK'
  BY <1>1, <1>3, TypeKept DEF ParserInv, TypeOK
<1> QED
  BY <1>3, <1>4, <1>5 DEF ParserInv, Path, Places, Shifted

LEMMA StepReadWord ==
  ASSUME ParserInv, ReadWord
  PROVE  ParserInv' /\ Eaten' = Eaten /\ yychar' \in Word /\ yychar' # YYEMPTY
<1> DEFINE n == Len(read)
<1>1. PICK w \in IF n + 1 < MaxTokens THEN WordsAt[n + 1] ELSE {EOF} :
         yychar' = w /\ read' = Append(read, w)
  BY DEF ReadWord
<1>2. /\ TypeOK /\ ReadInv /\ Path(stack) /\ Places(stack, Eaten) /\ yychar = YYEMPTY
      /\ pc = "parse" /\ State # YYFINAL
      /\ UNCHANGED <<pc, stack, fromarg, opt, profiles, cause>>
  BY DEF ReadWord, ParserInv, Parsing
<1>3. read \in Seq(Word) /\ n \in Nat /\ n <= MaxTokens /\ MaxTokens \in Nat \ {0}
  BY <1>2, ConfigParserAssumption, LenProperties DEF ReadInv, TypeOK
<1>4. n + 1 \in 1 .. MaxTokens
  BY <1>2, <1>3 DEF ReadInv
<1>5. w \in WordsAt[n + 1] /\ w \in Word /\ w # YYEMPTY /\ (n + 1 = MaxTokens => w = EOF)
  <2>1. WordsAt[n + 1] \subseteq Word /\ EOF \in WordsAt[n + 1]
    BY <1>4, ConfigParserAssumption DEF Word
  <2>2. w \in WordsAt[n + 1] /\ (n + 1 = MaxTokens => w = EOF)
    BY <1>1, <1>3, <1>4, <2>1
  <2>3. w \in Word
    BY <2>1, <2>2
  <2>4. \A u \in Word : u # YYEMPTY
    BY DEF Word, EOF, YYEMPTY
  <2> QED
    BY <2>2, <2>3, <2>4
<1>6. /\ read' \in Seq(Word) /\ Len(read') = n + 1 /\ read'[n + 1] = w
      /\ \A i \in 1 .. n : read'[i] = read[i]
  BY <1>1, <1>3, <1>5, AppendProperties
<1>7. read' # <<>> /\ Last(read') = w
  BY <1>3, <1>6, EmptySeq DEF Last
<1>8. ReadInv'
  BY <1>1, <1>2, <1>5, <1>6, <1>7 DEF ReadInv
<1>9. Eaten' = Eaten
  <2>1. Eaten' = Front(read') /\ Eaten = read
    BY <1>1, <1>2, <1>5 DEF Eaten
  <2>2. Front(read') = SubSeq(read', 1, n)
    BY <1>3, <1>6 DEF Front
  <2>3. /\ SubSeq(read', 1, n) \in Seq(Word) /\ Len(SubSeq(read', 1, n)) = n
        /\ \A i \in 1 .. n : SubSeq(read', 1, n)[i] = read[i]
    BY <1>3, <1>6, PrefixOf
  <2>4. SubSeq(read', 1, n) = read
    BY <1>3, <2>3, SeqEqual
  <2> QED
    BY <2>1, <2>2, <2>4
<1>10. TypeOK'
  <2>1. DOMAIN read' = 1 .. n + 1 /\ DOMAIN read = 1 .. n
    BY <1>3, <1>6, LenProperties
  <2>2. \A i \in 1 .. n : read[i] \in WordsAt[i]
    BY <1>2, <2>1 DEF TypeOK
  <2>3. \A i \in 1 .. n + 1 : read'[i] \in WordsAt[i]
    BY <1>3, <1>5, <1>6, <2>2
  <2>4. Len(read') <= MaxTokens
    BY <1>3, <1>4, <1>6
  <2>5. yychar' \in (3 .. 44) \cup {EOF, YYEMPTY}
    BY <1>1, <1>5 DEF Word
  <2> QED
    BY <1>2, <2>1, <2>3, <2>4, <2>5 DEF TypeOK
<1> QED
  BY <1>1, <1>2, <1>5, <1>8, <1>9, <1>10 DEF ParserInv, Path, Places, Shifted

LEMMA StepShift ==
  ASSUME ParserInv, Shift
  PROVE  /\ ParserInv'
         /\ Eaten' = Append(Eaten, yychar) /\ Eaten' = read
         /\ State' = Entry(State, yychar) /\ Last(stack').val = Len(read)
         /\ WordOf[State' + 1] = yychar
<1> DEFINE t == Entry(State, yychar)
           n == Len(stack)
<1>1. /\ TypeOK /\ ReadInv /\ Path(stack) /\ Places(stack, Eaten) /\ yychar # YYEMPTY
      /\ pc = "parse" /\ NeedsWord /\ t # 0 /\ yychar' = YYEMPTY
      /\ stack' = Append(stack, [state |-> t, val |-> Len(read)])
      /\ UNCHANGED <<pc, read, fromarg, opt, profiles, cause>>
  BY DEF Shift, ParserInv, Parsing
<1>2. /\ Eaten \in Seq(Word) /\ read = Append(Eaten, yychar) /\ yychar \in Word
      /\ Len(read) \in Nat \ {0} /\ Len(Eaten) = Len(read) - 1 /\ Eaten' = read
  BY <1>1, EatenIs DEF Eaten
<1>3. n \in Nat \ {0} /\ State \in States /\ yychar \in 0 .. 44 /\ yypact[State + 1] # YYPACT_NINF
  <2>1. n \in 1 .. 13 /\ State \in States
    BY <1>1, TopOfPath DEF State
  <2>2. \A j \in 1 .. 13 : j \in Nat \ {0}
    OBVIOUS
  <2>3. \A u \in Word : u \in 0 .. 44
    BY DEF Word, EOF
  <2> QED
    BY <1>1, <1>2, <2>1, <2>2, <2>3 DEF NeedsWord
<1>4. t \in States /\ t # 0 /\ Below[t + 1] = State /\ WordOf[t + 1] = yychar
  BY <1>1, <1>3, ShiftTable
<1>5. stack' = Push(stack, n, t, Len(read))
  <2>1. SubSeq(stack, 1, n) = stack
    BY <1>1, SubSeqFull DEF Path
  <2> QED
    BY <1>1, <2>1 DEF Push
<1>6. /\ Path(stack') /\ Len(stack') = n + 1 /\ \A i \in 1 .. n : stack'[i] = stack[i]
      /\ Last(stack').state = t /\ Last(stack').val = Len(read)
  <2>1. PICK j, u, v : j = n /\ u = t /\ v = Len(read)
    OBVIOUS
  <2>2. /\ j \in 1 .. Len(stack) /\ u \in States /\ u # 0 /\ v \in Values
        /\ Below[u + 1] = stack[j].state
    BY <1>2, <1>3, <1>4, <2>1 DEF Values, State, Last
  <2>3. /\ Path(Push(stack, j, u, v)) /\ Len(Push(stack, j, u, v)) = j + 1
        /\ \A i \in 1 .. j : Push(stack, j, u, v)[i] = stack[i]
        /\ Last(Push(stack, j, u, v)).state = u /\ Last(Push(stack, j, u, v)).val = v
    BY <1>1, <2>2, Pushed
  <2> QED
    BY <1>5, <2>1, <2>3
<1> HIDE DEF t, n
<1>7. Places(stack', read)
  <2> SUFFICES ASSUME NEW i \in 1 .. n + 1, Shifted(stack', i)
               PROVE  /\ stack'[i].val \in 1 .. Len(read)
                      /\ read[stack'[i].val] = WordOf[stack'[i].state + 1]
                      /\ i = n + 1 => stack'[i].val = Len(read)
                      /\ i > 1 /\ Shifted(stack', i - 1) => stack'[i].val = stack'[i - 1].val + 1
    BY <1>6 DEF Places
  <2>1. Len(read) = Len(Eaten) + 1 /\ read[Len(read)] = yychar
        /\ \A j \in 1 .. Len(Eaten) : read[j] = Eaten[j]
    BY <1>2
  <2>2. stack'[n + 1].state = t /\ stack'[n + 1].val = Len(read)
    BY <1>6 DEF Last
  <2>3. \A j \in 1 .. n : Shifted(stack', j) => Shifted(stack, j)
    BY <1>6 DEF Shifted
  <2>4. CASE i = n + 1
    <3>1. i > 1 /\ i - 1 = n /\ n \in 1 .. n
      BY <1>3, <2>4
    <3>2. Shifted(stack', n) => stack'[n].val = Len(Eaten)
      BY <1>1, <1>6, <2>3, <3>1 DEF Places, n
    <3> QED
      BY <1>2, <1>4, <2>1, <2>2, <2>4, <3>1, <3>2
  <2>5. CASE i <= n
    <3>1. i \in 1 .. n /\ i # n + 1
      BY <1>3, <2>5
    <3>2. i > 1 => i - 1 \in 1 .. n
      BY <1>3, <3>1
    <3>3. /\ stack[i].val \in 1 .. Len(Eaten) /\ Eaten[stack[i].val] = WordOf[stack[i].state + 1]
          /\ i > 1 /\ Shifted(stack, i - 1) => stack[i].val = stack[i - 1].val + 1
      BY <1>1, <2>3, <3>1 DEF Places, n
    <3>4. /\ stack[i].val \in 1 .. Len(read)
          /\ read[stack[i].val] = WordOf[stack[i].state + 1]
      BY <1>2, <2>1, <3>3
    <3> QED
      BY <1>6, <2>3, <3>1, <3>2, <3>3, <3>4
  <2> QED
    BY <1>3, <2>4, <2>5
<1>8. State' = t
  BY <1>6 DEF State
<1>9. ReadInv'
  <2>1. Len(read) = MaxTokens => State' = YYFINAL
    <3>1. Len(read) = MaxTokens => yychar = EOF
      BY <1>1 DEF ReadInv
    <3>2. \A u \in States : WordOf[u + 1] = 0 => u = 5
      BY DEF States, WordOf
    <3> QED
      BY <1>4, <1>8, <3>1, <3>2 DEF EOF, YYFINAL
  <2> QED
    BY <1>1, <1>2, <2>1 DEF ReadInv
<1>10. TypeOK'
  <2>1. /\ stack' \in Seq([state : 0 .. 67, val : {Garbage} \cup Nat])
        /\ Len(stack') \in 1 .. 13 /\ Len(stack') < YYINITDEPTH
    BY <1>6, TypeOfStack
  <2> QED
    BY <1>1, <2>1 DEF TypeOK
<1>11. ParserInv'
  BY <1>2, <1>6, <1>7, <1>9, <1>10 DEF ParserInv, Path, Places, Shifted
<1> QED
  BY <1>2, <1>4, <1>6, <1>8, <1>11 DEF t

--------------------------------------------------------------------------------
(* The semantic actions. *)

(* The value of an option, a name or a limit is that of a word. *)
LEMMA SettingsAre ==
  Settings = {"debug", "pid_file", "window_size", "shm", "filter", "db_connstr",
              "export_interval", "export_min_pps", "exec_start", "exec_stop",
              "stop_delay", "db_profiles"}
BY DEF Settings, OptionForm

LEMMA TypedOption ==
  ASSUME TypeOK, NEW s \in Settings, NEW v \in Nat
  PROVE  [opt EXCEPT ![s] = v] \in [Settings -> Nat]
BY DEF TypeOK

LEMMA TypedProfile ==
  ASSUME TypeOK, NEW p \in Profile
  PROVE  Append(profiles, p) \in Seq(Profile) /\ Len(Append(profiles, p)) \in Nat
BY AppendProperties DEF TypeOK

(* A field of a profile is changed, or of none if there is no such profile. *)
LEMMA TypedField ==
  ASSUME TypeOK, NEW k, NEW field, NEW v,
         \/ field \in {"filter", "dynamic"} /\ v \in Nat
         \/ field \in {"bytes", "pkts", "flows"} /\ v \in Nat \X Nat
  PROVE  [profiles EXCEPT ![k][field] = v] \in Seq(Profile)
<1>1. profiles \in Seq(Profile)
  BY DEF TypeOK
<1>2. ASSUME NEW p \in Profile PROVE [p EXCEPT ![field] = v] \in Profile
  BY DEF Profile
<1> DEFINE new == [profiles EXCEPT ![k][field] = v]
           n == Len(profiles)
<1>3. DOMAIN profiles = 1 .. n /\ n \in Nat /\ \A i \in 1 .. n : profiles[i] \in Profile
  BY <1>1, LenProperties, ElementOfSeq
<1>4. new \in [1 .. n -> Profile]
  <2>1. new = [i \in 1 .. n |-> IF i = k THEN [profiles[i] EXCEPT ![field] = v] ELSE profiles[i]]
    BY <1>3
  <2> QED
    BY <1>2, <1>3, <2>1
<1> QED
  BY <1>3, <1>4, SeqDef

LEMMA Typed0 ==
  ASSUME ParserInv, Parsing
  PROVE  /\ State \in States /\ State # YYFINAL /\ Len(stack) \in 1 .. 13
         /\ Depth[State + 1] = Len(stack) /\ DefaultRule(State) = yydefact[State + 1]
         /\ \A i \in 1 .. Len(stack) : stack[i].val \in Values
BY TopOfPath DEF ParserInv, Parsing, State, DefaultRule

(* The last word of a statement is on top of the stack. *)
LEMMA TopValue ==
  ASSUME ParserInv, Parsing, WordOf[State + 1] # YYEMPTY
  PROVE  /\ stack[Len(stack)].val \in Nat \ {0} /\ stack[Len(stack)].val = Len(Eaten)
         /\ \A n \in Nat : Val(n, n) = stack[Len(stack)].val
<1>1. Len(stack) \in 1 .. 13
  BY Typed0
<1>2. 0 \in 0 .. 6 /\ 0 < Len(stack) /\ Back(State, 0) = State /\ Len(stack) - 0 = Len(stack)
  <2>1. Back(State, 0) = State
    BY DEF Back
  <2> QED
    BY <1>1, <2>1
<1>3. /\ stack[Len(stack)].val \in 1 .. Len(Eaten) /\ stack[Len(stack)].val = Len(Eaten)
  BY <1>2, WordValue
<1>4. Len(Eaten) \in Nat
  BY EatenIs DEF ParserInv
<1>5. \A n \in Nat : Val(n, n) = stack[Len(stack)].val
  <2> TAKE n \in Nat
  <2>1. Len(stack) + n - n = Len(stack)
    BY <1>1
  <2> QED
    BY <2>1 DEF Val
<1> QED
  BY <1>3, <1>4, <1>5

LEMMA StepReducePlain ==
  ASSUME ParserInv, ReducePlain
  PROVE  ParserInv'
<1>1. /\ Parsing /\ DefaultRule(State) # 0 /\ Continue
      /\ UNCHANGED <<yychar, read, fromarg, opt, profiles>>
  BY DEF ReducePlain, Reduces, AtDefault
<1>2. /\ (Path(stack) /\ ReadInv /\ Places(stack, Eaten))'
      /\ pc' \in {"open", "parse", "ok", "failed"}
      /\ cause' \in {"none", "file", "syntax", "action"}
  BY <1>1, StepAction
<1>3. TypeOK'
  BY <1>1, <1>2, TypeKept DEF ParserInv, TypeOK, Path
<1> QED
  BY <1>2, <1>3 DEF ParserInv

(* What the statements of options and profiles end with. *)
LEMMA LastWords ==
  \A s \in States :
    /\ yydefact[s + 1] \in 7 .. 17 => WordOf[s + 1] # YYEMPTY
    /\ yydefact[s + 1] = 21 => WordOf[s + 1] # YYEMPTY
    /\ yydefact[s + 1] \in {28, 29} => WordOf[s + 1] # YYEMPTY
    /\ yydefact[s + 1] \in 30 .. 35 =>
         /\ WordOf[Back(s, yyr2[yydefact[s + 1] + 1] - 2) + 1] # YYEMPTY
         /\ yydefact[s + 1] >= 33 => WordOf[Back(s, 1) + 1] # YYEMPTY
<1>1. \A s \in States : yydefact[s + 1] \in (7 .. 17) \cup {21, 28, 29} => WordOf[s + 1] # YYEMPTY
  BY DEF States, yydefact, WordOf, YYEMPTY
<1>2. \A s \in States : yydefact[s + 1] \in 30 .. 35 =>
         s \in {61, 62, 63, 65, 66, 67}
  BY DEF States, yydefact
<1>3. \A s \in {61, 62, 63} : yyr2[yydefact[s + 1] + 1] - 2 = 1 /\ yydefact[s + 1] < 33
  BY DEF yydefact, yyr2
<1>4. \A s \in {65, 66, 67} : yyr2[yydefact[s + 1] + 1] - 2 = 2
  BY DEF yydefact, yyr2
<1>5. \A s \in {61, 62, 63, 65, 66, 67} : WordOf[Below[s + 1] + 1] # YYEMPTY
  BY DEF Below, WordOf, YYEMPTY
<1>6. \A s \in {65, 66, 67} : WordOf[Below[Below[s + 1] + 1] + 1] # YYEMPTY
  BY DEF Below, WordOf, YYEMPTY
<1>7. \A s : Back(s, 1) = Below[s + 1] /\ Back(s, 2) = Below[Below[s + 1] + 1]
  BY DEF Back
<1> QED
  <2> TAKE s \in States
  <2>1. yydefact[s + 1] \in 0 .. 35
    BY RuleTable
  <2>2. yydefact[s + 1] \in 30 .. 35 =>
         /\ WordOf[Back(s, yyr2[yydefact[s + 1] + 1] - 2) + 1] # YYEMPTY
         /\ yydefact[s + 1] >= 33 => WordOf[Back(s, 1) + 1] # YYEMPTY
    <3> SUFFICES ASSUME yydefact[s + 1] \in 30 .. 35
                 PROVE  /\ WordOf[Back(s, yyr2[yydefact[s + 1] + 1] - 2) + 1] # YYEMPTY
                        /\ WordOf[Back(s, 1) + 1] # YYEMPTY
      OBVIOUS
    <3>1. CASE s \in {61, 62, 63}
      BY <3>1, <1>3, <1>5, <1>7
    <3>2. CASE s \in {65, 66, 67}
      BY <3>2, <1>4, <1>5, <1>6, <1>7
    <3> QED
      BY <1>2, <3>1, <3>2
  <2> QED
    BY <1>1, <2>1, <2>2

LEMMA StepSetOption ==
  ASSUME ParserInv, SetOption
  PROVE  ParserInv'
<1> DEFINE rule == DefaultRule(State)
<1>1. /\ Parsing /\ rule \in (7 .. 10) \cup (12 .. 17) /\ Continue
      /\ opt' = IF Assigned(rule) \in fromarg THEN opt
                ELSE [opt EXCEPT ![Assigned(rule)] = Val(yyr2[rule + 1], yyr2[rule + 1])]
      /\ UNCHANGED <<yychar, read, fromarg, profiles>>
  BY DEF SetOption, Reduces, AtDefault
<1>2. State \in States /\ rule = yydefact[State + 1]
  BY <1>1, Typed0
<1>3. rule \in 7 .. 17 /\ rule # 0 /\ WordOf[State + 1] # YYEMPTY /\ yyr2[rule + 1] \in Nat
  <2>1. rule \in 7 .. 17 /\ rule # 0
    BY <1>1
  <2>2. yyr2[rule + 1] \in 0 .. 6
    BY <1>2, RuleTable
  <2> QED
    BY <1>2, <2>1, <2>2, LastWords
<1> HIDE DEF rule
<1>4. /\ (Path(stack) /\ ReadInv /\ Places(stack, Eaten))'
      /\ pc' \in {"open", "parse", "ok", "failed"}
      /\ cause' \in {"none", "file", "syntax", "action"}
  BY <1>1, <1>3, StepAction DEF rule
<1>5. Val(yyr2[rule + 1], yyr2[rule + 1]) \in Nat
  BY <1>1, <1>3, TopValue
<1>6. Assigned(rule) \in Settings
  <2>1. Assigned(rule) \in {"debug", "pid_file", "window_size", "shm", "db_connstr",
          "export_interval", "export_min_pps", "exec_start", "stop_delay"}
    <3>1. \A r \in {7, 8, 9, 10, 12, 13, 14, 15, 16, 17} : Assigned(r) \in
            {"debug", "pid_file", "window_size", "shm", "db_connstr",
             "export_interval", "export_min_pps", "exec_start", "stop_delay"}
      BY DEF Assigned
    <3>2. rule \in {7, 8, 9, 10, 12, 13, 14, 15, 16, 17}
      BY <1>1
    <3> QED
      BY <3>1, <3>2
  <2> QED
    BY <2>1, SettingsAre
<1>7. opt' \in [Settings -> Nat] /\ profiles' \in Seq(Profile)
  BY <1>1, <1>5, <1>6, TypedOption DEF ParserInv, TypeOK
<1>8. TypeOK'
  BY <1>1, <1>4, <1>7, TypeKept DEF Path
<1> QED
  BY <1>4, <1>8 DEF ParserInv

LEMMA StepSetInputFilter ==
  ASSUME ParserInv, SetInputFilter
  PROVE  ParserInv'
<1>1. /\ Parsing /\ DefaultRule(State) = 11 /\ (Continue \/ Abort)
      /\ \/ opt' = [opt EXCEPT !.filter = Val(3, 3)]
         \/ opt' = [opt EXCEPT !.filter = 0]
         \/ UNCHANGED opt
      /\ UNCHANGED <<yychar, read, fromarg, profiles>>
  BY DEF SetInputFilter, Reduces, AtDefault
<1>2. State \in States /\ yydefact[State + 1] = 11
  BY <1>1, Typed0
<1>3. WordOf[State + 1] # YYEMPTY
  BY <1>2, LastWords
<1>4. /\ (Path(stack) /\ ReadInv /\ Places(stack, Eaten))'
      /\ pc' \in {"open", "parse", "ok", "failed"}
      /\ cause' \in {"none", "file", "syntax", "action"}
  BY <1>1, StepAction
<1>5. Val(3, 3) \in Nat /\ "filter" \in Settings
  BY <1>1, <1>3, TopValue, SettingsAre
<1>6. opt' \in [Settings -> Nat] /\ profiles' \in Seq(Profile)
  BY <1>1, <1>5, TypedOption DEF ParserInv, TypeOK
<1>7. TypeOK'
  BY <1>1, <1>4, <1>6, TypeKept DEF Path
<1> QED
  BY <1>4, <1>7 DEF ParserInv

LEMMA StepSetDbProfiles ==
  ASSUME ParserInv, SetDbProfiles
  PROVE  ParserInv'
<1>1. /\ Parsing /\ DefaultRule(State) # 0 /\ Continue
      /\ opt' = [opt EXCEPT !.db_profiles = 1]
      /\ UNCHANGED <<yychar, read, fromarg, profiles>>
  BY DEF SetDbProfiles, Reduces, AtDefault
<1>2. /\ (Path(stack) /\ ReadInv /\ Places(stack, Eaten))'
      /\ pc' \in {"open", "parse", "ok", "failed"}
      /\ cause' \in {"none", "file", "syntax", "action"}
  BY <1>1, StepAction
<1>3. opt' \in [Settings -> Nat] /\ profiles' \in Seq(Profile)
  BY <1>1, SettingsAre, TypedOption DEF ParserInv, TypeOK
<1>4. TypeOK'
  BY <1>1, <1>2, <1>3, TypeKept DEF Path
<1> QED
  BY <1>2, <1>4 DEF ParserInv

LEMMA StepAddProfile ==
  ASSUME ParserInv, AddProfile
  PROVE  ParserInv'
<1>1. /\ Parsing /\ DefaultRule(State) = 21
      /\ UNCHANGED <<yychar, read, fromarg, opt>>
  BY DEF AddProfile, Reduces, AtDefault
<1>2. State \in States /\ yydefact[State + 1] = 21
  BY <1>1, Typed0
<1>3. CASE UNCHANGED profiles /\ Abort
  <2>1. /\ (Path(stack) /\ ReadInv /\ Places(stack, Eaten))'
        /\ pc' \in {"open", "parse", "ok", "failed"}
        /\ cause' \in {"none", "file", "syntax", "action"}
    BY <1>1, <1>3, StepAction
  <2>2. TypeOK'
    BY <1>1, <1>3, <2>1, TypeKept DEF ParserInv, TypeOK, Path
  <2> QED
    BY <2>1, <2>2 DEF ParserInv
<1>4. CASE /\ profiles' = Append(profiles, NewProfile(Val(2, 3)))
           /\ stack' = Reduced(Len(profiles')) /\ UNCHANGED <<pc, cause>>
  <2>1. Below[State + 1] = 19 /\ WordOf[19 + 1] # YYEMPTY
    <3>1. State = 31
      BY <1>2 DEF States, yydefact
    <3> QED
      BY <3>1 DEF Below, WordOf, YYEMPTY
  <2>2. Val(2, 3) \in Nat
    <3>1. Back(State, 1) = 19 /\ 1 \in 0 .. 6
      BY <2>1 DEF Back
    <3>2. Len(stack) \in Nat /\ Len(stack) > 1
      <4>1. Len(stack) \in 1 .. 13 /\ Depth[State + 1] = Len(stack)
        BY <1>1, Typed0
      <4>2. State = 31
        BY <1>2 DEF States, yydefact
      <4>3. Depth[32] = 6
        BY DEF Depth
      <4> QED
        BY <4>1, <4>2, <4>3
    <3>3. stack[Len(stack) - 1].val \in 1 .. Len(Eaten) /\ Len(Eaten) \in Nat
      <4>1. WordOf[Back(State, 1) + 1] # YYEMPTY
        BY <2>1, <3>1
      <4>2. Len(Eaten) \in Nat
        BY EatenIs DEF ParserInv
      <4> QED
        BY <3>1, <3>2, <4>1, <4>2, WordValue
    <3>4. Len(stack) + 2 - 3 = Len(stack) - 1
      BY <3>2
    <3> QED
      BY <3>3, <3>4 DEF Val
  <2>3. NewProfile(Val(2, 3)) \in Profile
    BY <2>2 DEF NewProfile, Profile
  <2>4. profiles' \in Seq(Profile) /\ Len(profiles') \in Values
    BY <1>4, <2>3, TypedProfile DEF ParserInv, Values
  <2>5. (Path(stack) /\ ReadInv /\ Places(stack, Eaten))'
    BY <1>1, <1>4, <2>4, StepReduce
  <2>6. TypeOK'
    BY <1>1, <1>4, <2>4, <2>5, TypeKept DEF ParserInv, TypeOK, Path
  <2> QED
    BY <2>5, <2>6 DEF ParserInv
<1> QED
  BY <1>3, <1>4 DEF AddProfile

(* The value passed on to a statement of a profile. *)
LEMMA PassedValue ==
  ASSUME ParserInv, PassProfile
  PROVE  Val(0, 1) \in Values
<1>1. Parsing /\ DefaultRule(State) = 25
  BY DEF PassProfile, Reduces, AtDefault
<1>2. /\ Len(stack) \in 1 .. 13 /\ Depth[State + 1] = Len(stack)
      /\ \A i \in 1 .. Len(stack) : stack[i].val \in Values
  BY <1>1, Typed0
<1>3. State = 49
  <2>1. State \in States /\ yydefact[State + 1] = 25
    BY <1>1, Typed0
  <2> QED
    BY <2>1 DEF States, yydefact
<1>4. Depth[50] = 8
  BY DEF Depth
<1>5. Len(stack) + 0 - 1 \in 1 .. Len(stack)
  BY <1>2, <1>3, <1>4
<1> QED
  BY <1>2, <1>5 DEF Val

LEMMA StepPassProfile ==
  ASSUME ParserInv, PassProfile
  PROVE  ParserInv'
<1>1. /\ Parsing /\ DefaultRule(State) = 25 /\ stack' = Reduced(Val(0, 1))
      /\ UNCHANGED <<pc, yychar, read, fromarg, opt, profiles, cause>>
  BY DEF PassProfile, Reduces, AtDefault
<1>2. Val(0, 1) \in Values
  BY PassedValue
<1>3. DefaultRule(State) # 0
  BY <1>1
<1>4. (Path(stack) /\ ReadInv /\ Places(stack, Eaten))'
  BY <1>1, <1>2, <1>3, StepReduce
<1>5. TypeOK'
  BY <1>1, <1>4, TypeKept DEF ParserInv, TypeOK, Path
<1> QED
  BY <1>4, <1>5 DEF ParserInv

LEMMA StepSetParam ==
  ASSUME ParserInv, SetParam
  PROVE  ParserInv'
<1> DEFINE param == IF DefaultRule(State) = 28 THEN "filter" ELSE "dynamic"
<1>1. /\ Parsing /\ DefaultRule(State) \in {28, 29} /\ (Continue \/ Abort)
      /\ \/ profiles' = [profiles EXCEPT ![Val(0, 2)][param] = Val(2, 2)]
         \/ UNCHANGED profiles
      /\ UNCHANGED <<yychar, read, fromarg, opt>>
  BY DEF SetParam, Reduces, AtDefault
<1>2. State \in States /\ yydefact[State + 1] \in {28, 29}
  BY <1>1, Typed0
<1>3. WordOf[State + 1] # YYEMPTY
  BY <1>2, LastWords
<1>4. /\ (Path(stack) /\ ReadInv /\ Places(stack, Eaten))'
      /\ pc' \in {"open", "parse", "ok", "failed"}
      /\ cause' \in {"none", "file", "syntax", "action"}
  BY <1>1, StepAction
<1>5. Val(2, 2) \in Nat /\ param \in {"filter", "dynamic"}
  BY <1>1, <1>3, TopValue
<1> HIDE DEF param
<1>6. [profiles EXCEPT ![Val(0, 2)][param] = Val(2, 2)] \in Seq(Profile)
  BY <1>5, TypedField DEF ParserInv
<1>7. opt' \in [Settings -> Nat] /\ profiles' \in Seq(Profile)
  BY <1>1, <1>6 DEF ParserInv, TypeOK
<1>8. TypeOK'
  BY <1>1, <1>4, <1>7, TypeKept DEF Path
<1> QED
  BY <1>4, <1>8 DEF ParserInv

LEMMA StepSetLimit ==
  ASSUME ParserInv, SetLimit
  PROVE  ParserInv'
<1> DEFINE rule == DefaultRule(State)
           len == yyr2[rule + 1]
           limit == <<Val(2, len), IF rule >= 33 THEN Val(3, len) ELSE 0>>
<1>1. /\ Parsing /\ rule \in 30 .. 35 /\ Continue
      /\ profiles' = [profiles EXCEPT ![Val(0, len)][LimitSet(rule)] = limit]
      /\ UNCHANGED <<yychar, read, fromarg, opt>>
  BY DEF SetLimit, Reduces, AtDefault
<1>2. /\ State \in States /\ rule = yydefact[State + 1]
      /\ Len(stack) \in 1 .. 13 /\ Depth[State + 1] = Len(stack)
  BY <1>1, Typed0
<1>3. /\ (Path(stack) /\ ReadInv /\ Places(stack, Eaten))'
      /\ pc' \in {"open", "parse", "ok", "failed"}
      /\ cause' \in {"none", "file", "syntax", "action"}
  BY <1>1, StepAction
<1>4. limit \in Nat \X Nat
  <2>0. Len(Eaten) \in Nat
    BY EatenIs DEF ParserInv
  <2>1. /\ WordOf[Back(State, len - 2) + 1] # YYEMPTY
        /\ rule >= 33 => WordOf[Back(State, 1) + 1] # YYEMPTY
    BY <1>1, <1>2, LastWords
  <2>2. len \in {3, 4} /\ (rule >= 33 => len = 4)
    <3>1. \A r \in 30 .. 35 : yyr2[r + 1] \in {3, 4} /\ (r >= 33 => yyr2[r + 1] = 4)
      BY DEF yyr2
    <3> QED
      BY <1>1, <3>1
  <2>3. Len(stack) > 2
    <3>1. \A s \in States : yydefact[s + 1] \in 30 .. 35 => Depth[s + 1] > 2
      BY DEF States, yydefact, Depth
    <3> QED
      BY <1>1, <1>2, <3>1
  <2> HIDE DEF len, rule
  <2>4. Val(2, len) \in Nat
    <3>1. len - 2 \in 0 .. 6 /\ len - 2 < Len(stack) /\ Len(stack) - (len - 2) = Len(stack) + 2 - len
      BY <1>2, <2>2, <2>3
    <3>2. stack[Len(stack) - (len - 2)].val \in 1 .. Len(Eaten)
      BY <2>1, <3>1, WordValue
    <3> QED
      BY <2>0, <3>1, <3>2 DEF Val
  <2>5. rule >= 33 => Val(3, len) \in Nat
    <3> SUFFICES ASSUME rule >= 33 PROVE Val(3, len) \in Nat
      OBVIOUS
    <3>1. 1 \in 0 .. 6 /\ 1 < Len(stack) /\ Len(stack) - 1 = Len(stack) + 3 - len
      BY <1>2, <2>2, <2>3
    <3>2. stack[Len(stack) - 1].val \in 1 .. Len(Eaten)
      BY <2>1, <3>1, WordValue
    <3> QED
      BY <2>0, <3>1, <3>2 DEF Val
  <2> QED
    BY <2>4, <2>5
<1>5. LimitSet(rule) \in {"bytes", "pkts", "flows"}
  BY <1>1 DEF LimitSet
<1> HIDE DEF limit, rule, len
<1>6. [profiles EXCEPT ![Val(0, len)][LimitSet(rule)] = limit] \in Seq(Profile)
  BY <1>4, <1>5, TypedField DEF ParserInv
<1>7. opt' \in [Settings -> Nat] /\ profiles' \in Seq(Profile)
  BY <1>1, <1>6 DEF ParserInv, TypeOK
<1>8. TypeOK'
  BY <1>1, <1>3, <1>7, TypeKept DEF Path
<1> QED
  BY <1>3, <1>8 DEF ParserInv

LEMMA StepEnds ==
  ASSUME ParserInv, SyntaxError \/ Accept
  PROVE  ParserInv'
<1>1. /\ stack' = <<Bottom>> /\ pc' \in {"ok", "failed"}
      /\ UNCHANGED <<yychar, read, fromarg, opt, profiles>>
      /\ cause' \in {"none", "file", "syntax", "action"}
  BY DEF SyntaxError, Accept, ParserInv, TypeOK
<1>2. (Path(stack) /\ ReadInv /\ Places(stack, Eaten))'
  BY <1>1, StepEnd
<1>3. TypeOK'
  BY <1>1, <1>2, TypeKept DEF ParserInv, TypeOK, Path
<1> QED
  BY <1>2, <1>3 DEF ParserInv

LEMMA ParserStep == ParserInv /\ [Next]_vars => ParserInv'
<1> SUFFICES ASSUME ParserInv, [Next]_vars PROVE ParserInv'
  OBVIOUS
<1>1. CASE UNCHANGED vars
  BY <1>1 DEF vars, ParserInv, TypeOK, Path, ReadInv, Places, Shifted, Eaten, State
<1>2. CASE Shift
  BY <1>2, StepShift
<1> QED
  BY <1>1, <1>2, StepOpen, StepReadWord, StepReducePlain, StepSetOption, StepSetInputFilter,
     StepSetDbProfiles, StepAddProfile, StepPassProfile, StepSetParam, StepSetLimit, StepEnds
     DEF Next, Step, Returned

(* Whatever a file holds and however long it is, the stack never holds     *)
(* more than thirteen symbols (the room yyparse starts with, YYINITDEPTH,  *)
(* is never outgrown, config.tab.c:1319), no table is looked up outside    *)
(* it, and each value an action takes from the stack is one it may have.   *)
THEOREM ParserTypeCorrect == Spec => []TypeOK
<1>1. ParserInv => TypeOK
  BY DEF ParserInv
<1> QED
  BY InitParser, ParserStep, <1>1, PTL DEF Spec

--------------------------------------------------------------------------------
(* Progress: how many turns are left.                                      *)

(* How many rules each state reduces by default before a word is needed.   *)
Height ==
  <<0, 0, 0, 2, 2, 0, 1, 1, 0, 2, 3, 0, 0, 0, 0, 0, 0, 0, 0, 0, 0, 0, 0, 0,
    0, 0, 0, 0, 0, 2, 3, 4, 1, 1, 0, 0, 0, 1, 1, 1, 1, 0, 0, 3, 1, 1, 1, 1,
    0, 2, 1, 3, 1, 0, 0, 0, 0, 0, 1, 1, 3, 1, 1, 1, 0, 1, 1, 1>>

(* Each word still to come is read and shifted, and what it is shifted to  *)
(* reduces at most four times; a word already read is only to be shifted.  *)
WordsLeft == 2 * (MaxTokens - Len(read)) + (IF yychar = YYEMPTY THEN 0 ELSE 1)
TurnsLeft == 5 * WordsLeft + Height[State + 1]

LEMMA HeightTable ==
  \A s \in States :
    /\ Height[s + 1] \in 0 .. 4
    /\ s # YYFINAL /\ yydefact[s + 1] # 0 =>
         Height[Entered[yydefact[s + 1] + 1] + 1] < Height[s + 1]
<1>1. \A s \in States : Height[s + 1] \in 0 .. 4
  BY DEF States, Height
<1>2. \A s \in States : s # YYFINAL /\ yydefact[s + 1] # 0 =>
         Height[Entered[yydefact[s + 1] + 1] + 1] < Height[s + 1]
  BY DEF States, Height, Entered, yydefact, YYFINAL
<1> QED
  BY <1>1, <1>2

LEMMA WordsLeftIs ==
  ASSUME ParserInv
  PROVE  /\ WordsLeft \in 0 .. 2 * MaxTokens + 1 /\ Height[State + 1] \in 0 .. 4
         /\ MaxTokens \in Nat /\ Len(read) \in 0 .. MaxTokens
<1>1. MaxTokens \in Nat /\ Len(read) \in Nat /\ Len(read) <= MaxTokens
  BY ConfigParserAssumption, LenProperties DEF ParserInv, TypeOK, ReadInv
<1>2. State \in States
  BY TopOfPath DEF ParserInv, State
<1>3. Height[State + 1] \in 0 .. 4
  BY <1>2, HeightTable
<1>4. WordsLeft \in 0 .. 2 * MaxTokens + 1
  BY <1>1 DEF WordsLeft
<1> QED
  BY <1>1, <1>3, <1>4

LEMMA TurnsAre ==
  ASSUME ParserInv
  PROVE  TurnsLeft \in Nat
<1> DEFINE w == WordsLeft
           h == Height[State + 1]
<1>1. w \in 0 .. 2 * MaxTokens + 1 /\ h \in 0 .. 4 /\ MaxTokens \in Nat
  BY WordsLeftIs
<1>2. TurnsLeft = 5 * w + h
  BY DEF TurnsLeft
<1> HIDE DEF w, h
<1> QED
  BY <1>1, <1>2

(* A reduction leaves the words alone and a lower state on top.  *)
LEMMA ReduceLowers ==
  ASSUME ParserInv, Parsing, DefaultRule(State) # 0, NEW v \in Values,
         stack' = Reduced(v), UNCHANGED <<yychar, read>>
  PROVE  TurnsLeft' < TurnsLeft
<1>1. Path(stack) /\ WordsLeft' = WordsLeft /\ WordsLeft \in Int
  BY WordsLeftIs DEF ParserInv, WordsLeft
<1>2. State \in States /\ State # YYFINAL /\ DefaultRule(State) = yydefact[State + 1]
  BY Typed0
<1>3. State' = Entered[yydefact[State + 1] + 1] /\ State' \in States
  BY <1>1, <1>2, ReducedStack DEF State
<1>4. Height[State' + 1] < Height[State + 1]
  BY <1>2, <1>3, HeightTable
<1>5. Height[State' + 1] \in Int /\ Height[State + 1] \in Int
  BY <1>2, <1>3, HeightTable
<1> QED
  BY <1>1, <1>4, <1>5 DEF TurnsLeft

LEMMA ContinueLowers ==
  ASSUME ParserInv, Parsing, DefaultRule(State) # 0, Continue, UNCHANGED <<yychar, read>>
  PROVE  TurnsLeft' < TurnsLeft
<1>1. DefaultVal \in Values
  BY DefaultValue DEF ParserInv
<1> QED
  BY <1>1, ReduceLowers DEF Continue

LEMMA ReadLowers ==
  ASSUME ParserInv, ReadWord
  PROVE  TurnsLeft' < TurnsLeft
<1>1. /\ yychar = YYEMPTY /\ yychar' # YYEMPTY /\ read' = Append(read, yychar') /\ State' = State
      /\ yychar' \in Word /\ read \in Seq(Word)
  BY StepReadWord DEF ReadWord, State, ParserInv, ReadInv
<1>2. Len(read') = Len(read) + 1
  BY <1>1
<1>3. WordsLeft' = WordsLeft - 1
  BY <1>1, <1>2, WordsLeftIs DEF WordsLeft
<1>4. WordsLeft \in Int /\ Height[State + 1] \in Int
  BY WordsLeftIs
<1> QED
  BY <1>1, <1>3, <1>4 DEF TurnsLeft

LEMMA ShiftLowers ==
  ASSUME ParserInv, Shift
  PROVE  TurnsLeft' < TurnsLeft
<1>1. yychar # YYEMPTY /\ yychar' = YYEMPTY /\ read' = read
  BY DEF Shift
<1>2. WordsLeft' = WordsLeft - 1
  BY <1>1, WordsLeftIs DEF WordsLeft
<1>3. WordsLeft \in Int /\ Height[State + 1] \in 0 .. 4
  BY WordsLeftIs
<1>4. Height[State' + 1] \in 0 .. 4
  <2>1. ParserInv'
    BY StepShift
  <2>2. Path(stack')
    BY <2>1 DEF ParserInv, Path
  <2> QED
    BY <2>2, TopOfPath, HeightTable DEF State
<1> QED
  BY <1>2, <1>3, <1>4 DEF TurnsLeft

(* A turn that does not end the parse uses up turns.                      *)
EachTurnCounts == pc = "parse" /\ pc' = "parse" => TurnsLeft' < TurnsLeft

(* yyparse has at most ten turns to take for each word a file may have,    *)
(* and every turn that does not end the parse leaves fewer: no chain of    *)
(* default reductions comes back to a state, so the empty rules of         *)
(* config.y cannot make yyparse turn for ever (config.tab.c:1323-1670).    *)
THEOREM ParserMakesProgress ==
  Spec => /\ TurnsLeft = 10 * MaxTokens
          /\ [](TurnsLeft \in Nat)
          /\ [][EachTurnCounts]_vars
<1>0. Init => TurnsLeft = 10 * MaxTokens
  <2> SUFFICES ASSUME Init PROVE TurnsLeft = 10 * MaxTokens
    OBVIOUS
  <2>1. yychar = YYEMPTY /\ Len(read) = 0 /\ State = 0
    BY BottomAlone, EmptySeq DEF Init, State
  <2>2. Height[0 + 1] = 0 /\ MaxTokens \in Nat
    BY ConfigParserAssumption DEF Height
  <2> QED
    BY <2>1, <2>2 DEF TurnsLeft, WordsLeft
<1>1. ParserInv => TurnsLeft \in Nat
  BY TurnsAre
<1>2. ParserInv /\ [Next]_vars => [EachTurnCounts]_vars
  <2> SUFFICES ASSUME ParserInv, Next, pc = "parse", pc' = "parse"
               PROVE  TurnsLeft' < TurnsLeft
    BY DEF EachTurnCounts
  <2>1. CASE ReducePlain \/ SetOption \/ SetInputFilter \/ SetDbProfiles \/ SetParam \/ SetLimit
    <3>1. Parsing /\ DefaultRule(State) # 0 /\ (Continue \/ Abort) /\ UNCHANGED <<yychar, read>>
      BY <2>1 DEF ReducePlain, SetOption, SetInputFilter, SetDbProfiles, SetParam, SetLimit,
                  Reduces, AtDefault
    <3>2. Continue
      BY <3>1 DEF Abort
    <3> QED
      BY <3>1, <3>2, ContinueLowers
  <2>2. CASE AddProfile
    <3>1. /\ Parsing /\ DefaultRule(State) = 21 /\ UNCHANGED <<yychar, read>>
          /\ profiles' = Append(profiles, NewProfile(Val(2, 3)))
          /\ stack' = Reduced(Len(profiles'))
      BY <2>2 DEF AddProfile, Reduces, AtDefault, Abort
    <3>2. profiles' \in Seq(Profile)
      BY <2>2, StepAddProfile DEF ParserInv, TypeOK
    <3>3. Len(profiles') \in Values
      BY <3>2, LenProperties DEF Values
    <3> QED
      BY <3>1, <3>3, ReduceLowers
  <2>3. CASE PassProfile
    <3>1. /\ Parsing /\ DefaultRule(State) = 25 /\ UNCHANGED <<yychar, read>>
          /\ stack' = Reduced(Val(0, 1))
      BY <2>3 DEF PassProfile, Reduces, AtDefault
    <3> QED
      BY <2>3, <3>1, PassedValue, ReduceLowers
  <2>4. CASE Open \/ SyntaxError \/ Accept \/ Returned
    BY <2>4 DEF Open, SyntaxError, Accept, Returned
  <2> QED
    BY <2>1, <2>2, <2>3, <2>4, ReadLowers, ShiftLowers DEF Next, Step
<1> QED
  BY InitParser, ParserStep, <1>0, <1>1, <1>2, PTL DEF Spec

--------------------------------------------------------------------------------
(* How a file reads when one more word is read. *)

Delimiters == {EOF, OBRACE, EBRACE, SEMICOLON}

(* How often a word is in s; what s holds after its last delimiter, and    *)
(* where in the file that is.                                              *)
Total(s, word) == Count(s, word, Len(s) + 1)
Rest(s) == SubSeq(s, Begin(s, Len(s) + 1), Len(s))
Here(s) == Place(s, Begin(s, Len(s) + 1))

LEMMA GreatestIs ==
  ASSUME NEW n \in Nat, NEW S \in SUBSET (0 .. n), S # {}
  PROVE  Max(S) \in S /\ \A i \in S : i <= Max(S)
<1> DEFINE T == {n - i : i \in S}
           R == {p \in Nat \X Nat : p[1] < p[2]}
<1>1. T \subseteq Nat /\ T # {}
  <2>1. \A i \in S : n - i \in Nat
    OBVIOUS
  <2>2. PICK i : i \in S
    OBVIOUS
  <2>3. n - i \in T
    BY <2>2
  <2> QED
    BY <2>1, <2>3
<1>2. PICK j \in T : \A k \in T : <<k, j>> \notin R
  <2>1. IsWellFoundedOn(R, Nat)
    BY NatLessThanWellFounded, Zenon DEF OpToRel
  <2> QED
    BY <1>1, <2>1, WFMin
<1>3. \A k \in T : ~(k < j)
  BY <1>1, <1>2
<1>4. PICK m \in S : j = n - m
  BY <1>2
<1>5. \A i \in S : n - i \in T
  OBVIOUS
<1> HIDE DEF T, R
<1>6. \A i \in S : m >= i
  BY <1>1, <1>3, <1>4, <1>5
<1>7. Max(S) \in S /\ \A i \in S : Max(S) >= i
  BY <1>6 DEF Max
<1> QED
  BY <1>4, <1>7

(* A statement begins after a delimiter and holds none before its end. *)
LEMMA BeginIs ==
  ASSUME NEW s \in Seq(Word), NEW i \in 1 .. Len(s) + 1
  PROVE  /\ Begin(s, i) \in 1 .. i
         /\ \A j \in Begin(s, i) .. i - 1 : s[j] \notin Delimiters
         /\ Begin(s, i) = 1 \/ s[Begin(s, i) - 1] \in Delimiters
<1> DEFINE S == {0} \cup {j \in Ends(s) : j < i}
<1>1. DOMAIN s = 1 .. Len(s) /\ Len(s) \in Nat
  BY LenProperties
<1>2. S \in SUBSET (0 .. Len(s)) /\ S # {} /\ \A j \in S : j < i
  BY <1>1 DEF Ends
<1>3. Max(S) \in S /\ \A j \in S : j <= Max(S)
  BY <1>1, <1>2, GreatestIs
<1>4. Begin(s, i) = 1 + Max(S)
  BY DEF Begin
<1>5. Max(S) \in Nat /\ Max(S) < i
  BY <1>2, <1>3
<1>6. \A j \in 1 .. Len(s) : j \in Ends(s) <=> s[j] \in Delimiters
  BY <1>1 DEF Ends, Delimiters
<1>7. \A j \in Begin(s, i) .. i - 1 : s[j] \notin Delimiters
  <2> TAKE j \in Begin(s, i) .. i - 1
  <2>1. j \in 1 .. Len(s) /\ j < i /\ j > Max(S)
    BY <1>1, <1>4, <1>5
  <2>2. j \notin S
    BY <1>3, <1>5, <2>1
  <2> QED
    BY <1>6, <2>1, <2>2
<1>8. Begin(s, i) = 1 \/ s[Begin(s, i) - 1] \in Delimiters
  <2>1. CASE Max(S) = 0
    BY <1>4, <2>1
  <2>2. CASE Max(S) # 0
    <3>1. Max(S) \in Ends(s)
      BY <1>3, <2>2
    <3>2. s[Max(S)] \in Delimiters
      BY <3>1 DEF Ends, Delimiters
    <3> QED
      BY <1>4, <1>5, <3>2
  <2> QED
    BY <2>1, <2>2
<1> QED
  BY <1>4, <1>5, <1>7, <1>8

(* The only such number. *)
LEMMA BeginAt ==
  ASSUME NEW s \in Seq(Word), NEW i \in 1 .. Len(s) + 1, NEW b \in 1 .. i,
         \A j \in b .. i - 1 : s[j] \notin Delimiters,
         b = 1 \/ s[b - 1] \in Delimiters
  PROVE  Begin(s, i) = b
<1> DEFINE c == Begin(s, i)
<1>1. /\ c \in 1 .. i
      /\ \A j \in c .. i - 1 : s[j] \notin Delimiters
      /\ c = 1 \/ s[c - 1] \in Delimiters
  BY BeginIs
<1>2. Len(s) \in Nat
  OBVIOUS
<1> HIDE DEF c
<1>3. ~(b < c)
  <2>1. b < c => c - 1 \in b .. i - 1 /\ c # 1
    BY <1>1, <1>2
  <2> QED
    BY <1>1, <2>1
<1>4. ~(c < b)
  <2>1. c < b => b - 1 \in c .. i - 1 /\ b # 1
    BY <1>1, <1>2
  <2> QED
    BY <1>1, <2>1
<1> QED
  BY <1>1, <1>2, <1>3, <1>4 DEF c

LEMMA Appended ==
  ASSUME NEW s \in Seq(Word), NEW w \in Word
  PROVE  /\ Append(s, w) \in Seq(Word) /\ Len(Append(s, w)) = Len(s) + 1
         /\ Append(s, w)[Len(s) + 1] = w /\ Len(s) \in Nat
         /\ \A i \in 1 .. Len(s) : Append(s, w)[i] = s[i]
         /\ DOMAIN Append(s, w) = 1 .. Len(s) + 1 /\ DOMAIN s = 1 .. Len(s)
<1>1. /\ Append(s, w) \in Seq(Word) /\ Len(Append(s, w)) = Len(s) + 1 /\ Len(s) \in Nat
      /\ Append(s, w)[Len(s) + 1] = w
      /\ \A i \in 1 .. Len(s) : Append(s, w)[i] = s[i]
  BY AppendProperties, LenProperties
<1> QED
  BY <1>1, LenProperties

LEMMA BeginAppended ==
  ASSUME NEW s \in Seq(Word), NEW w \in Word
  PROVE  /\ \A i \in 1 .. Len(s) + 1 : Begin(Append(s, w), i) = Begin(s, i)
         /\ Begin(Append(s, w), Len(s) + 2) =
              IF w \in Delimiters THEN Len(s) + 2 ELSE Begin(s, Len(s) + 1)
<1> DEFINE t == Append(s, w)
           n == Len(s)
<1>1. /\ t \in Seq(Word) /\ Len(t) = n + 1 /\ t[n + 1] = w /\ n \in Nat
      /\ \A i \in 1 .. n : t[i] = s[i]
  BY Appended
<1> HIDE DEF t, n
<1>2. ASSUME NEW i \in 1 .. n + 1 PROVE Begin(t, i) = Begin(s, i)
  <2>1. PICK b : b = Begin(s, i)
    OBVIOUS
  <2>2. /\ b \in 1 .. i /\ \A j \in b .. i - 1 : s[j] \notin Delimiters
        /\ b = 1 \/ s[b - 1] \in Delimiters
    BY <2>1, BeginIs DEF n
  <2>3. \A j \in b .. i - 1 : t[j] \notin Delimiters
    BY <1>1, <2>2
  <2>4. b = 1 \/ t[b - 1] \in Delimiters
    <3>1. b # 1 => b - 1 \in 1 .. n
      BY <1>1, <2>2
    <3> QED
      BY <1>1, <2>2, <3>1
  <2>5. i \in 1 .. Len(t) + 1
    BY <1>1
  <2>6. Begin(t, i) = b
    BY <1>1, <2>2, <2>3, <2>4, <2>5, BeginAt
  <2> QED
    BY <2>1, <2>6
<1>3. CASE w \in Delimiters
  <2>1. n + 2 \in 1 .. Len(t) + 1 /\ n + 2 \in 1 .. n + 2 /\ (n + 2) - 1 = n + 1
    BY <1>1
  <2>2. \A j \in n + 2 .. (n + 2) - 1 : t[j] \notin Delimiters
    BY <1>1
  <2>3. Begin(t, n + 2) = n + 2
    BY <1>1, <1>3, <2>1, <2>2, BeginAt
  <2> QED
    BY <1>2, <1>3, <2>3 DEF t, n
<1>4. CASE w \notin Delimiters
  <2>1. PICK b : b = Begin(s, n + 1)
    OBVIOUS
  <2>2. /\ b \in 1 .. n + 1 /\ \A j \in b .. n : s[j] \notin Delimiters
        /\ b = 1 \/ s[b - 1] \in Delimiters
    <3>1. n + 1 \in 1 .. Len(s) + 1 /\ (n + 1) - 1 = n
      BY <1>1 DEF n
    <3> QED
      BY <2>1, <3>1, BeginIs
  <2>3. \A j \in b .. n + 1 : t[j] \notin Delimiters
    BY <1>1, <1>4, <2>2
  <2>4. b = 1 \/ t[b - 1] \in Delimiters
    <3>1. b # 1 => b - 1 \in 1 .. n
      BY <1>1, <2>2
    <3> QED
      BY <1>1, <2>2, <3>1
  <2>5. n + 2 \in 1 .. Len(t) + 1 /\ b \in 1 .. n + 2 /\ (n + 2) - 1 = n + 1
    BY <1>1, <2>2
  <2>6. Begin(t, n + 2) = b
    BY <1>1, <2>3, <2>4, <2>5, BeginAt
  <2> QED
    BY <1>2, <1>4, <2>1, <2>6 DEF t, n
<1> QED
  BY <1>3, <1>4

LEMMA CountAppended ==
  ASSUME NEW s \in Seq(Word), NEW w \in Word, NEW x
  PROVE  /\ \A i \in 1 .. Len(s) + 1 : Count(Append(s, w), x, i) = Count(s, x, i)
         /\ Total(s, x) \in Nat
         /\ Total(Append(s, w), x) = Total(s, x) + IF w = x THEN 1 ELSE 0
<1> DEFINE t == Append(s, w)
           n == Len(s)
           S(i) == {j \in 1 .. n : j < i /\ s[j] = x}
<1>1. /\ Len(t) = n + 1 /\ t[n + 1] = w /\ n \in Nat /\ \A i \in 1 .. n : t[i] = s[i]
      /\ DOMAIN t = 1 .. n + 1 /\ DOMAIN s = 1 .. n
  BY Appended
<1>2. \A i : Count(s, x, i) = Cardinality(S(i))
  BY <1>1 DEF Count
<1>3. \A i : IsFiniteSet(S(i)) /\ Cardinality(S(i)) \in Nat
  <2> TAKE i
  <2>1. IsFiniteSet(1 .. n)
    BY <1>1, FS_Interval
  <2>2. IsFiniteSet(S(i))
    BY <2>1, FS_Subset
  <2> QED
    BY <2>2, FS_CardinalityType
<1>4. \A i \in 1 .. n + 1 : Count(t, x, i) = Cardinality(S(i))
  <2> TAKE i \in 1 .. n + 1
  <2>1. {j \in 1 .. n + 1 : j < i /\ t[j] = x} = S(i)
    BY <1>1
  <2> QED
    BY <1>1, <2>1 DEF Count
<1>5. Total(s, x) = Cardinality(S(n + 1))
  BY <1>2 DEF Total
<1>6. Total(t, x) = Cardinality({j \in 1 .. n + 1 : t[j] = x})
  <2>1. {j \in 1 .. n + 1 : j < n + 2 /\ t[j] = x} = {j \in 1 .. n + 1 : t[j] = x}
    BY <1>1
  <2>2. Total(t, x) = Cardinality({j \in 1 .. n + 1 : j < n + 2 /\ t[j] = x})
    <3>1. Len(t) + 1 = n + 2
      BY <1>1
    <3>2. Total(t, x) = Count(t, x, n + 2)
      BY <3>1, Zenon DEF Total
    <3> QED
      BY <1>1, <3>2, Zenon DEF Count
  <2> QED
    BY <2>1, <2>2, Zenon
<1> HIDE DEF t, n
<1>7. CASE w = x
  <2>1. {j \in 1 .. n + 1 : t[j] = x} = S(n + 1) \cup {n + 1}
    BY <1>1, <1>7
  <2>2. n + 1 \notin S(n + 1)
    BY <1>1
  <2> HIDE DEF S
  <2>3. Cardinality(S(n + 1) \cup {n + 1}) = Cardinality(S(n + 1)) + 1
    BY <1>3, <2>2, FS_AddElement
  <2> QED
    BY <1>2, <1>3, <1>4, <1>5, <1>6, <1>7, <2>1, <2>3 DEF t, n
<1>8. CASE w # x
  <2>1. {j \in 1 .. n + 1 : t[j] = x} = S(n + 1)
    BY <1>1, <1>8
  <2> HIDE DEF S
  <2>2. Cardinality(S(n + 1)) + 0 = Cardinality(S(n + 1))
    BY <1>3
  <2> QED
    BY <1>2, <1>3, <1>4, <1>5, <1>6, <1>8, <2>1, <2>2 DEF t, n
<1> QED
  BY <1>7, <1>8

(* The braces since the last delimiter are all the braces. *)
LEMMA HereIs ==
  ASSUME NEW s \in Seq(Word)
  PROVE  Here(s) = IF Total(s, OBRACE) = 0 THEN "begin"
                   ELSE IF Total(s, OBRACE) <= Total(s, EBRACE) THEN "between"
                   ELSE IF Total(s, OBRACE) = 1 THEN "options" ELSE "profile"
<1> DEFINE n == Len(s)
           b == Begin(s, n + 1)
<1>1. n \in Nat /\ DOMAIN s = 1 .. n
  BY LenProperties
<1>2. b \in 1 .. n + 1 /\ \A j \in b .. n : s[j] \notin Delimiters
  <2>1. n + 1 \in 1 .. Len(s) + 1 /\ (n + 1) - 1 = n
    BY <1>1
  <2> QED
    BY <2>1, BeginIs
<1> HIDE DEF b, n
<1>3. ASSUME NEW x \in {OBRACE, EBRACE} PROVE Count(s, x, b) = Count(s, x, n + 1)
  <2>1. x \in Delimiters
    BY DEF Delimiters
  <2>2. {j \in 1 .. n : j < b /\ s[j] = x} = {j \in 1 .. n : j < n + 1 /\ s[j] = x}
    BY <1>1, <1>2, <2>1
  <2> QED
    BY <1>1, <2>2 DEF Count
<1>4. Count(s, OBRACE, b) = Total(s, OBRACE) /\ Count(s, EBRACE, b) = Total(s, EBRACE)
  BY <1>3 DEF Total, n
<1> QED
  BY <1>4 DEF Here, Place, b, n

LEMMA RestAppended ==
  ASSUME NEW s \in Seq(Word), NEW w \in Word
  PROVE  /\ Rest(s) \in Seq(Word) /\ Len(Rest(s)) \in Nat
         /\ Rest(Append(s, w)) = IF w \in Delimiters THEN <<>> ELSE Append(Rest(s), w)
         /\ SubSeq(Append(s, w), Begin(s, Len(s) + 1), Len(s) + 1) = Append(Rest(s), w)
<1> DEFINE t == Append(s, w)
           n == Len(s)
           b == Begin(s, n + 1)
<1>1. /\ t \in Seq(Word) /\ Len(t) = n + 1 /\ t[n + 1] = w /\ n \in Nat
      /\ \A i \in 1 .. n : t[i] = s[i]
  BY Appended
<1>2. b \in 1 .. n + 1
  <2>1. n + 1 \in 1 .. Len(s) + 1
    BY <1>1
  <2> QED
    BY <2>1, BeginIs
<1>3. Begin(t, n + 2) = IF w \in Delimiters THEN n + 2 ELSE b
  BY BeginAppended
<1>4. Rest(s) = SubSeq(s, b, n) /\ Rest(t) = SubSeq(t, Begin(t, n + 2), n + 1)
  <2>1. Len(t) + 1 = n + 2
    BY <1>1
  <2> QED
    BY <1>1, <2>1, Zenon DEF Rest
<1> HIDE DEF t, n, b
<1>5. /\ SubSeq(s, b, n) \in Seq(Word) /\ Len(SubSeq(s, b, n)) = n - b + 1
      /\ \A i \in 1 .. n - b + 1 : SubSeq(s, b, n)[i] = s[b + i - 1]
  <2>1. \A i \in b .. n : s[i] \in Word
    BY <1>2, ElementOfSeq DEF n
  <2>2. b \in Nat /\ n \in Nat /\ (b > n => b = n + 1)
    BY <1>1, <1>2
  <2>3. s \in Seq(Word)
    OBVIOUS
  <2> QED
    BY <2>1, <2>2, <2>3, SubSeqProperties
<1>6. /\ SubSeq(t, b, n + 1) \in Seq(Word) /\ Len(SubSeq(t, b, n + 1)) = n - b + 2
      /\ \A i \in 1 .. n - b + 2 : SubSeq(t, b, n + 1)[i] = t[b + i - 1]
  <2>1. \A i \in b .. n + 1 : t[i] \in Word
    BY <1>1, <1>2, ElementOfSeq
  <2>2. b \in Nat /\ n + 1 \in Nat /\ b <= n + 1 /\ (n + 1) - b + 1 = n - b + 2
    BY <1>1, <1>2
  <2> QED
    BY <1>1, <2>1, <2>2, SubSeqProperties
<1>7. SubSeq(t, b, n + 1) = Append(SubSeq(s, b, n), w)
  <2> DEFINE u == SubSeq(s, b, n)
             v == SubSeq(t, b, n + 1)
             x == Append(u, w)
  <2>1. u \in Seq(Word) /\ Len(u) = n - b + 1
    BY <1>5
  <2>2. /\ x \in Seq(Word) /\ Len(x) = n - b + 2 /\ x[n - b + 2] = w
        /\ \A i \in 1 .. n - b + 1 : x[i] = u[i]
    <3> HIDE DEF u
    <3>1. /\ x \in Seq(Word) /\ Len(x) = Len(u) + 1 /\ x[Len(u) + 1] = w
          /\ \A i \in 1 .. Len(u) : x[i] = u[i]
      BY <2>1, AppendProperties
    <3>2. Len(u) + 1 = n - b + 2
      BY <1>1, <1>2, <2>1
    <3> QED
      BY <2>1, <3>1, <3>2
  <2>3. v \in Seq(Word) /\ Len(v) = n - b + 2
    BY <1>6
  <2>4. \A i \in 1 .. n - b + 2 : x[i] = v[i]
    <3> TAKE i \in 1 .. n - b + 2
    <3>1. v[i] = t[b + i - 1]
      BY <1>6
    <3>2. CASE i = n - b + 2
      <4>1. b + i - 1 = n + 1
        BY <1>1, <1>2, <3>2
      <4> QED
        BY <1>1, <2>2, <3>1, <3>2, <4>1
    <3>3. CASE i # n - b + 2
      <4>1. i \in 1 .. n - b + 1 /\ b + i - 1 \in 1 .. n
        BY <1>1, <1>2, <3>3
      <4>2. u[i] = s[b + i - 1]
        BY <1>5, <4>1
      <4> QED
        BY <1>1, <2>2, <3>1, <4>1, <4>2
    <3> QED
      BY <3>2, <3>3
  <2> HIDE DEF u, v, x
  <2>5. x = v
    BY <2>2, <2>3, <2>4, SeqEqual
  <2> QED
    BY <2>5 DEF u, v, x
<1>8. Rest(t) = IF w \in Delimiters THEN <<>> ELSE Append(Rest(s), w)
  <2>1. CASE w \in Delimiters
    <3>1. SubSeq(t, n + 2, n + 1) = <<>>
      BY <1>1, SubSeqEmpty
    <3> QED
      BY <1>3, <1>4, <2>1, <3>1
  <2>2. CASE w \notin Delimiters
    BY <1>3, <1>4, <1>7, <2>2
  <2> QED
    BY <2>1, <2>2
<1> QED
  BY <1>4, <1>5, <1>7, <1>8, LenProperties DEF t, n, b

(* A word that ends a statement ends it well or not; the others stay as    *)
(* they are.                                                               *)
LEMMA WellFormedAppended ==
  ASSUME NEW s \in Seq(Word), NEW w \in Word
  PROVE  WellFormed(Append(s, w)) <=>
           WellFormed(s) /\ (w \in Delimiters => Append(Rest(s), w) \in Statements[Here(s)])
<1> DEFINE t == Append(s, w)
           n == Len(s)
           Fine(u, i) == SubSeq(u, Begin(u, i), i) \in Statements[Place(u, Begin(u, i))]
<1>1. /\ t \in Seq(Word) /\ Len(t) = n + 1 /\ t[n + 1] = w /\ n \in Nat
      /\ \A i \in 1 .. n : t[i] = s[i]
      /\ DOMAIN t = 1 .. n + 1 /\ DOMAIN s = 1 .. n
  BY Appended
<1>2. /\ WellFormed(t) <=> \A i \in Ends(t) : Fine(t, i)
      /\ WellFormed(s) <=> \A i \in Ends(s) : Fine(s, i)
  BY DEF WellFormed
<1>3. /\ \A i \in 1 .. n : i \in Ends(t) <=> i \in Ends(s)
      /\ n + 1 \in Ends(t) <=> w \in Delimiters
      /\ Ends(s) \subseteq 1 .. n /\ Ends(t) \subseteq 1 .. n + 1
  BY <1>1 DEF Ends, Delimiters
<1>4. ASSUME NEW i \in 1 .. n PROVE Fine(t, i) <=> Fine(s, i)
  <2>1. PICK b : b = Begin(s, i) /\ b = Begin(t, i)
    BY <1>1, BeginAppended
  <2>2. b \in 1 .. i
    <3>1. i \in 1 .. Len(s) + 1
      BY <1>1
    <3> QED
      BY <2>1, <3>1, BeginIs
  <2>3. Place(t, b) = Place(s, b)
    <3>1. b \in 1 .. Len(s) + 1
      BY <1>1, <2>2
    <3>2. Count(t, OBRACE, b) = Count(s, OBRACE, b) /\ Count(t, EBRACE, b) = Count(s, EBRACE, b)
      BY <3>1, CountAppended
    <3> QED
      BY <3>2 DEF Place
  <2> HIDE DEF t, n
  <2>4. SubSeq(t, b, i) = SubSeq(s, b, i)
    <3>1. \A j \in b .. i : t[j] = s[j] /\ s[j] \in Word /\ t[j] \in Word
      <4>1. \A j \in b .. i : j \in 1 .. n /\ j \in 1 .. Len(s)
        BY <1>1, <2>2 DEF n
      <4>2. \A j \in 1 .. Len(s) : s[j] \in Word
        BY ElementOfSeq
      <4> QED
        BY <1>1, <4>1, <4>2
    <3>2. b \in Nat /\ i \in Nat /\ b <= i
      BY <1>1, <2>2
    <3>3. /\ SubSeq(t, b, i) \in Seq(Word) /\ Len(SubSeq(t, b, i)) = i - b + 1
          /\ \A j \in 1 .. i - b + 1 : SubSeq(t, b, i)[j] = t[b + j - 1]
      BY <1>1, <3>1, <3>2, SubSeqProperties
    <3>4. s \in Seq(Word)
      OBVIOUS
    <3>5. /\ SubSeq(s, b, i) \in Seq(Word) /\ Len(SubSeq(s, b, i)) = i - b + 1
          /\ \A j \in 1 .. i - b + 1 : SubSeq(s, b, i)[j] = s[b + j - 1]
      BY <3>1, <3>2, <3>4, SubSeqProperties
    <3>6. \A j \in 1 .. i - b + 1 : b + j - 1 \in b .. i
      BY <3>2
    <3>7. \A j \in 1 .. i - b + 1 : SubSeq(t, b, i)[j] = SubSeq(s, b, i)[j]
      BY <3>1, <3>3, <3>5, <3>6
    <3> QED
      BY <3>3, <3>5, <3>7, SeqEqual
  <2> QED
    BY <2>1, <2>3, <2>4
<1>5. Fine(t, n + 1) <=> Append(Rest(s), w) \in Statements[Here(s)]
  <2>1. PICK b : b = Begin(s, n + 1) /\ b = Begin(t, n + 1)
    <3>1. n + 1 \in 1 .. Len(s) + 1
      BY <1>1
    <3> QED
      BY <3>1, BeginAppended
  <2>2. b \in 1 .. Len(s) + 1
    <3>1. n + 1 \in 1 .. Len(s) + 1
      BY <1>1
    <3> QED
      BY <2>1, <3>1, BeginIs
  <2>3. Place(t, b) = Place(s, b)
    <3>1. Count(t, OBRACE, b) = Count(s, OBRACE, b) /\ Count(t, EBRACE, b) = Count(s, EBRACE, b)
      BY <2>2, CountAppended
    <3> QED
      BY <3>1 DEF Place
  <2>4. Here(s) = Place(s, b) /\ SubSeq(t, b, n + 1) = Append(Rest(s), w)
    BY <2>1, RestAppended DEF Here
  <2> QED
    BY <2>1, <2>3, <2>4
<1> HIDE DEF Fine, t, n
<1>6. (\A i \in Ends(t) : Fine(t, i)) <=>
        (\A i \in Ends(s) : Fine(s, i)) /\ (w \in Delimiters => Fine(t, n + 1))
  BY <1>1, <1>3, <1>4
<1> QED
  BY <1>2, <1>5, <1>6 DEF t

--------------------------------------------------------------------------------
(* What the states say of the words behind them. *)

(* How many words a state has behind it since the last delimiter (17 and   *)
(* 56 come after a whole statement), and in what part of the file it is.   *)
Size ==
  <<0, 1, 0, 0, 0, 0, 0, 0, 1, 0, 0, 1, 1, 1, 1, 1, 1, 0, 2, 2, 2, 2, 2, 2, 2,
    2, 2, 2, 2, 0, 0, 0, 3, 3, 3, 3, 3, 3, 3, 3, 3, 3, 3, 0, 4, 4, 4, 4, 4, 0,
    5, 0, 0, 1, 1, 1, 0, 2, 2, 2, 0, 3, 3, 3, 3, 4, 4, 4>>
InBegin == {0, 1}
InOptions ==
  {4, 7, 11, 12, 13, 14, 15, 16, 17, 20, 21, 22, 23, 24, 25, 26, 27, 28, 29,
   32, 33, 34, 35, 36, 37, 38, 39, 40, 41, 42, 44, 45, 46, 47, 48, 50}
InBetween == {2, 3, 5, 6, 8, 9, 10, 18, 19, 30, 51}
InProfile ==
  {31, 43, 49, 52, 53, 54, 55, 56, 57, 58, 59, 60, 61, 62, 63, 64, 65, 66, 67}
PlaceOf(s) ==
  IF s \in InBegin THEN "begin" ELSE IF s \in InOptions THEN "options"
  ELSE IF s \in InBetween THEN "between" ELSE "profile"

(* The states at the end of a statement. *)
OptionEnds == {32, 33, 37, 38, 39, 40, 44, 45, 46, 47, 50}
ParamEnds == {58, 59, 61, 62, 63, 65, 66, 67}

(* The states behind which one word of a statement has just been read. *)
Plain(s) == WordOf[s + 1] \notin Delimiters \cup {YYEMPTY}

(* r is what was read since the last delimiter. *)
Spells(s, r) ==
  /\ r \in Seq(Word) /\ Len(r) = Size[s + 1]
  /\ \A k \in 0 .. 5 : k < Len(r) => r[Len(r) - k] = WordOf[Back(s, k) + 1]

LEMMA BackIs ==
  \A s : /\ Back(s, 0) = s /\ Back(s, 1) = Below[s + 1]
         /\ Back(s, 2) = Below[Below[s + 1] + 1]
         /\ Back(s, 3) = Below[Below[Below[s + 1] + 1] + 1]
         /\ Back(s, 4) = Below[Below[Below[Below[s + 1] + 1] + 1] + 1]
BY DEF Back

LEMMA BackBack ==
  ASSUME NEW s, NEW j \in 0 .. 6, NEW k \in 0 .. 6, j + k \in 0 .. 6
  PROVE  Back(Back(s, j), k) = Back(s, j + k)
<1>1. /\ Back(s, 0) = s /\ Back(s, 1) = Below[s + 1]
      /\ Back(s, 2) = Below[Back(s, 1) + 1] /\ Back(s, 3) = Below[Back(s, 2) + 1]
      /\ Back(s, 4) = Below[Back(s, 3) + 1] /\ Back(s, 5) = Below[Back(s, 4) + 1]
      /\ Back(s, 6) = Below[Back(s, 5) + 1]
  BY DEF Back
<1>2. \A t : /\ Back(t, 0) = t /\ Back(t, 1) = Below[t + 1]
             /\ Back(t, 2) = Below[Back(t, 1) + 1] /\ Back(t, 3) = Below[Back(t, 2) + 1]
             /\ Back(t, 4) = Below[Back(t, 3) + 1] /\ Back(t, 5) = Below[Back(t, 4) + 1]
             /\ Back(t, 6) = Below[Back(t, 5) + 1]
  BY DEF Back
<1>3. k = 0 \/ k = 1 \/ k = 2 \/ k = 3 \/ k = 4 \/ k = 5 \/ k = 6
  OBVIOUS
<1>4. j = 0 \/ j = 1 \/ j = 2 \/ j = 3 \/ j = 4 \/ j = 5 \/ j = 6
  OBVIOUS
<1>5. CASE j = 0
  BY <1>1, <1>5
<1>6. CASE j = 1
  BY <1>1, <1>2, <1>3, <1>6
<1>7. CASE j = 2
  BY <1>1, <1>2, <1>3, <1>7
<1>8. CASE j = 3
  BY <1>1, <1>2, <1>3, <1>8
<1>9. CASE j = 4
  BY <1>1, <1>2, <1>3, <1>9
<1>10. CASE j = 5
  BY <1>1, <1>2, <1>3, <1>10
<1>11. CASE j = 6
  BY <1>1, <1>2, <1>3, <1>11
<1> QED
  BY <1>4, <1>5, <1>6, <1>7, <1>8, <1>9, <1>10, <1>11

(* A state behind a word is entered with it from the state below. *)
LEMMA PlainTable ==
  \A t \in States : Plain(t) =>
    /\ Size[t + 1] = Size[Below[t + 1] + 1] + 1 /\ Size[t + 1] \in 1 .. 5
    /\ Below[t + 1] \in States /\ Below[t + 1] \notin {17, 56}
    /\ PlaceOf(t) = PlaceOf(Below[t + 1])
    /\ yypact[Below[t + 1] + 1] # YYPACT_NINF
    /\ WordOf[t + 1] \in Word
<1>1. \A t \in States : Plain(t) =>
        /\ Size[t + 1] = Size[Below[t + 1] + 1] + 1 /\ Size[t + 1] \in 1 .. 5
        /\ Below[t + 1] \notin {17, 56}
        /\ WordOf[t + 1] \in Word
  BY DEF States, Size, Below, WordOf, Plain, Delimiters, Word, EOF, OBRACE, EBRACE, SEMICOLON, YYEMPTY
<1>2. \A t \in States : Plain(t) => yypact[Below[t + 1] + 1] # YYPACT_NINF
  BY DEF States, Below, WordOf, Plain, Delimiters, EOF, OBRACE, EBRACE, SEMICOLON, YYEMPTY,
         yypact, YYPACT_NINF
<1>3. \A t \in States : Plain(t) =>
        /\ t \in InBegin <=> Below[t + 1] \in InBegin
        /\ t \in InOptions <=> Below[t + 1] \in InOptions
        /\ t \in InBetween <=> Below[t + 1] \in InBetween
  BY DEF States, Below, WordOf, Plain, Delimiters, EOF, OBRACE, EBRACE, SEMICOLON, YYEMPTY,
         InBegin, InOptions, InBetween
<1> QED
  BY <1>1, <1>2, <1>3, BelowTable DEF PlaceOf

LEMMA EntryTable ==
  \A t \in States : Plain(t) => Entry(Below[t + 1], WordOf[t + 1]) = t
<1> DEFINE At(t) == yypact[Below[t + 1] + 1] + WordOf[t + 1]
<1>1. \A t \in States : Plain(t) =>
        At(t) \in 0 .. 60 /\ yycheck[At(t) + 1] = WordOf[t + 1] /\ yytable[At(t) + 1] = t
  BY DEF States, Below, WordOf, Plain, Delimiters, EOF, OBRACE, EBRACE, SEMICOLON, YYEMPTY,
         yypact, yycheck, yytable
<1> QED
  BY <1>1 DEF Entry, YYLAST

(* A state with words behind it was entered with one; the states behind    *)
(* fewer words are on its way.                                             *)
LEMMA SizeTable ==
  \A s \in States :
    /\ Size[s + 1] \in 0 .. 5
    /\ Size[s + 1] > 0 <=> Plain(s)
BY DEF States, Size, WordOf, Plain, Delimiters, EOF, OBRACE, EBRACE, SEMICOLON, YYEMPTY

(* On the way back to the first word of a statement. *)
LEMMA BackPlain ==
  ASSUME NEW s \in States, NEW k \in 0 .. 5, k < Size[s + 1]
  PROVE  /\ Back(s, k) \in States /\ Plain(Back(s, k))
         /\ Size[Back(s, k) + 1] = Size[s + 1] - k
         /\ PlaceOf(Back(s, k)) = PlaceOf(s)
         /\ Back(s, k + 1) = Below[Back(s, k) + 1]
<1> DEFINE m == Size[s + 1]
           P(j) == j < m =>
                     /\ Back(s, j) \in States /\ Plain(Back(s, j))
                     /\ Size[Back(s, j) + 1] = m - j
                     /\ PlaceOf(Back(s, j)) = PlaceOf(s)
<1>1. \A j \in 0 .. 5 : Back(s, j + 1) = Below[Back(s, j) + 1]
  <2> TAKE j \in 0 .. 5
  <2>1. Back(Back(s, j), 1) = Back(s, j + 1)
    BY BackBack
  <2>2. Back(Back(s, j), 1) = Below[Back(s, j) + 1]
    BY BackIs
  <2> QED
    BY <2>1, <2>2
<1>2. m \in 0 .. 5
  BY SizeTable
<1>3. P(0)
  BY SizeTable DEF Back
<1>4. ASSUME NEW j \in 0 .. 4, P(j) PROVE P(j + 1)
  <2> SUFFICES ASSUME j + 1 < m
               PROVE  /\ Back(s, j + 1) \in States /\ Plain(Back(s, j + 1))
                      /\ Size[Back(s, j + 1) + 1] = m - (j + 1)
                      /\ PlaceOf(Back(s, j + 1)) = PlaceOf(s)
    OBVIOUS
  <2>1. PICK t : t = Back(s, j)
    OBVIOUS
  <2>2. t \in States /\ Plain(t) /\ Size[t + 1] = m - j /\ PlaceOf(t) = PlaceOf(s)
    BY <1>2, <1>4, <2>1
  <2>3. /\ Below[t + 1] \in States /\ Size[Below[t + 1] + 1] + 1 = Size[t + 1]
        /\ PlaceOf(Below[t + 1]) = PlaceOf(t)
    BY <2>2, PlainTable
  <2>4. Size[Below[t + 1] + 1] = m - (j + 1) /\ Size[Below[t + 1] + 1] > 0
    <3>1. Size[Below[t + 1] + 1] \in 0 .. 5
      BY <2>3, SizeTable
    <3> QED
      BY <1>2, <2>2, <2>3, <3>1
  <2>5. Plain(Below[t + 1])
    BY <2>3, <2>4, SizeTable
  <2>6. Back(s, j + 1) = Below[t + 1]
    BY <1>1, <2>1
  <2> QED
    BY <2>2, <2>3, <2>4, <2>5, <2>6
<1> HIDE DEF P
<1>5. P(1) /\ P(2) /\ P(3) /\ P(4) /\ P(5)
  <2>1. P(1)
    BY <1>3, <1>4
  <2>2. P(2)
    BY <1>4, <2>1
  <2>3. P(3)
    BY <1>4, <2>2
  <2>4. P(4)
    BY <1>4, <2>3
  <2> QED
    BY <1>4, <2>1, <2>2, <2>3, <2>4
<1>6. P(k)
  BY <1>3, <1>5
<1> QED
  BY <1>1, <1>6 DEF P

(* Where the words of a statement begin. *)
Origin(s) == Back(s, Size[s + 1])

LEMMA OriginIs ==
  ASSUME NEW s \in States, Size[s + 1] > 0
  PROVE  /\ PlaceOf(s) = "options" => Origin(s) = 7
         /\ PlaceOf(s) = "profile" => Origin(s) = 52
         /\ PlaceOf(s) = "between" => Origin(s) = 6
         /\ PlaceOf(s) = "begin" => Origin(s) = 0
<1>1. PICK m : m = Size[s + 1] /\ m \in 1 .. 5
  BY SizeTable
<1>2. m - 1 \in 0 .. 5 /\ m - 1 < m /\ m - (m - 1) = 1 /\ (m - 1) + 1 = m
  BY <1>1
<1>3. PICK t : t = Back(s, m - 1)
  OBVIOUS
<1>4. /\ t \in States /\ Plain(t) /\ Size[t + 1] = 1
      /\ PlaceOf(t) = PlaceOf(s) /\ Back(s, m) = Below[t + 1]
  BY <1>1, <1>2, <1>3, BackPlain
<1>5. \A u \in States : Size[u + 1] = 1 =>
         /\ u \in InOptions => Below[u + 1] = 7
         /\ u \notin InBegin \cup InOptions \cup InBetween => Below[u + 1] = 52
         /\ u \in InBetween => Below[u + 1] = 6
         /\ u \in InBegin => Below[u + 1] = 0
  BY DEF States, Size, Below, InOptions, InBegin, InBetween
<1>6. /\ PlaceOf(t) = "options" => Below[t + 1] = 7
      /\ PlaceOf(t) = "profile" => Below[t + 1] = 52
      /\ PlaceOf(t) = "between" => Below[t + 1] = 6
      /\ PlaceOf(t) = "begin" => Below[t + 1] = 0
  BY <1>4, <1>5 DEF PlaceOf
<1> QED
  BY <1>1, <1>4, <1>6 DEF Origin

(* One more word. *)
LEMMA SpellsNext ==
  ASSUME NEW t \in States, Plain(t), NEW r, Spells(Below[t + 1], r)
  PROVE  Spells(t, Append(r, WordOf[t + 1]))
<1> DEFINE s == Below[t + 1]
           w == WordOf[t + 1]
<1>1. /\ w \in Word /\ Size[t + 1] = Size[s + 1] + 1 /\ Size[t + 1] \in 1 .. 5
  BY PlainTable
<1>2. /\ r \in Seq(Word) /\ Len(r) = Size[s + 1] /\ Len(r) \in Nat
      /\ \A k \in 0 .. 5 : k < Len(r) => r[Len(r) - k] = WordOf[Back(s, k) + 1]
  BY DEF Spells
<1>3. /\ Append(r, w) \in Seq(Word) /\ Len(Append(r, w)) = Len(r) + 1
      /\ Append(r, w)[Len(r) + 1] = w
      /\ \A i \in 1 .. Len(r) : Append(r, w)[i] = r[i]
  BY <1>1, <1>2, AppendProperties
<1>4. \A k \in 0 .. 5 : k < Len(r) + 1 =>
        Append(r, w)[Len(r) + 1 - k] = WordOf[Back(t, k) + 1]
  <2> SUFFICES ASSUME NEW k \in 0 .. 5, k < Len(r) + 1
               PROVE  Append(r, w)[Len(r) + 1 - k] = WordOf[Back(t, k) + 1]
    OBVIOUS
  <2>1. CASE k = 0
    <3>1. Back(t, 0) = t
      BY DEF Back
    <3> QED
      BY <1>2, <1>3, <2>1, <3>1
  <2>2. CASE k > 0
    <3>1. k - 1 \in 0 .. 5 /\ k - 1 < Len(r) /\ 1 + (k - 1) = k /\ k \in 0 .. 6
          /\ Len(r) + 1 - k = Len(r) - (k - 1) /\ Len(r) + 1 - k \in 1 .. Len(r)
      BY <1>2, <2>2
    <3>2. Back(Back(t, 1), k - 1) = Back(t, k)
      BY <3>1, BackBack
    <3>3. Back(t, 1) = s
      BY DEF Back
    <3>4. r[Len(r) - (k - 1)] = WordOf[Back(s, k - 1) + 1]
      BY <1>2, <3>1
    <3> QED
      BY <1>3, <3>1, <3>2, <3>3, <3>4
  <2> QED
    BY <2>1, <2>2
<1>5. PICK q : q = Append(r, w)
  OBVIOUS
<1>6. q \in Seq(Word) /\ Len(q) = Size[t + 1] /\ Len(q) = Len(r) + 1
  BY <1>1, <1>2, <1>3, <1>5
<1>7. \A k \in 0 .. 5 : k < Len(q) => q[Len(q) - k] = WordOf[Back(t, k) + 1]
  BY <1>4, <1>5, <1>6
<1>8. Spells(t, q)
  BY <1>6, <1>7 DEF Spells
<1> QED
  BY <1>5, <1>8

(* The first words of a statement. *)
LEMMA Within ==
  \A n, d, k, i \in 0 .. 5 : d + k = n /\ i < k =>
    /\ d + i \in 0 .. 5 /\ d + i \in 0 .. 6 /\ d + i < n /\ k - i \in 1 .. k
    /\ n - (d + i) = k - i
OBVIOUS

LEMMA SpellsFirst ==
  ASSUME NEW e \in States, NEW f, Spells(e, f), NEW k \in 0 .. Len(f)
  PROVE  /\ Len(f) \in 0 .. 5 /\ Len(f) = Size[e + 1] /\ Len(f) - k \in 0 .. 5
         /\ k > 0 => Spells(Back(e, Len(f) - k), SubSeq(f, 1, k))
<1>1. /\ f \in Seq(Word) /\ Len(f) = Size[e + 1] /\ Len(f) \in 0 .. 5
      /\ \A i \in 0 .. 5 : i < Len(f) => f[Len(f) - i] = WordOf[Back(e, i) + 1]
  BY SizeTable DEF Spells
<1>2. PICK d : d = Len(f) - k
  OBVIOUS
<1>3. d \in 0 .. 5 /\ k \in 0 .. 5 /\ d + k = Len(f)
  <2>1. PICK n : n = Len(f) /\ n \in 0 .. 5
    BY <1>1
  <2>2. k \in 0 .. n
    BY <2>1
  <2>3. n - k \in 0 .. 5 /\ k \in 0 .. 5 /\ (n - k) + k = n
    BY <2>1, <2>2
  <2> QED
    BY <1>2, <2>1, <2>3
<1>4. ASSUME k > 0 PROVE Spells(Back(e, d), SubSeq(f, 1, k))
  <2>1. Size[Back(e, d) + 1] = k
    <3>1. d < Size[e + 1] /\ Size[e + 1] - d = k
      BY <1>1, <1>3, <1>4
    <3> QED
      BY <1>3, <3>1, BackPlain
  <2>2. /\ SubSeq(f, 1, k) \in Seq(Word) /\ Len(SubSeq(f, 1, k)) = k
        /\ \A i \in 1 .. k : SubSeq(f, 1, k)[i] = f[i]
    BY <1>1, PrefixOf
  <2>3. \A i \in 0 .. 5 : i < k => SubSeq(f, 1, k)[k - i] = WordOf[Back(Back(e, d), i) + 1]
    <3> SUFFICES ASSUME NEW i \in 0 .. 5, i < k
                 PROVE  SubSeq(f, 1, k)[k - i] = WordOf[Back(Back(e, d), i) + 1]
      OBVIOUS
    <3>1. /\ d + i \in 0 .. 5 /\ d + i \in 0 .. 6 /\ d + i < Len(f) /\ k - i \in 1 .. k
          /\ Len(f) - (d + i) = k - i
      <4>1. PICK n : n = Len(f) /\ n \in 0 .. 5
        BY <1>1
      <4>2. k \in 0 .. 5 /\ d \in 0 .. 5 /\ d + k = n /\ i \in 0 .. 5 /\ i < k
        BY <1>3, <4>1
      <4>3. /\ d + i \in 0 .. 5 /\ d + i \in 0 .. 6 /\ d + i < n /\ k - i \in 1 .. k
            /\ n - (d + i) = k - i
        BY <4>1, <4>2, Within
      <4> QED
        BY <4>1, <4>3
    <3>2. Back(Back(e, d), i) = Back(e, d + i)
      BY <1>3, <3>1, BackBack
    <3>3. f[Len(f) - (d + i)] = WordOf[Back(e, d + i) + 1]
      BY <1>1, <3>1
    <3> QED
      BY <2>2, <3>1, <3>2, <3>3
  <2> QED
    BY <2>1, <2>2, <2>3 DEF Spells
<1> QED
  BY <1>1, <1>2, <1>3, <1>4

(* The same words from the same beginning lead to one state. *)
LEMMA SpellsOne ==
  ASSUME NEW s \in States, NEW t \in States, NEW r, Spells(s, r), Spells(t, r),
         Origin(s) = Origin(t)
  PROVE  s = t
<1>1. PICK m : m = Size[s + 1] /\ m = Size[t + 1] /\ m = Len(r) /\ m \in 0 .. 5
  BY SizeTable DEF Spells
<1> DEFINE P(j) == j <= m => Back(s, j) = Back(t, j)
<1>2. P(m)
  BY <1>1 DEF Origin
<1>3. ASSUME NEW j \in 0 .. 4, P(j + 1) PROVE P(j)
  <2>1. CASE j < m
    <3>1. PICK u, v : u = Back(s, j) /\ v = Back(t, j)
      OBVIOUS
    <3>2. /\ u \in States /\ Plain(u) /\ Back(s, j + 1) = Below[u + 1]
          /\ v \in States /\ Plain(v) /\ Back(t, j + 1) = Below[v + 1]
      <4>1. j \in 0 .. 5 /\ j < Size[s + 1] /\ j < Size[t + 1]
        BY <1>1, <2>1
      <4>2. /\ u \in States /\ Plain(u) /\ Back(s, j + 1) = Below[u + 1]
        BY <3>1, <4>1, BackPlain
      <4>3. /\ v \in States /\ Plain(v) /\ Back(t, j + 1) = Below[v + 1]
        BY <3>1, <4>1, BackPlain
      <4> QED
        BY <4>2, <4>3
    <3>3. Below[u + 1] = Below[v + 1]
      BY <1>1, <1>3, <2>1, <3>2
    <3>4. r[Len(r) - j] = WordOf[u + 1] /\ r[Len(r) - j] = WordOf[v + 1]
      BY <1>1, <2>1, <3>1 DEF Spells
    <3>5. Entry(Below[u + 1], WordOf[u + 1]) = u /\ Entry(Below[v + 1], WordOf[v + 1]) = v
      BY <3>2, EntryTable
    <3>6. u = v
      BY <3>3, <3>4, <3>5
    <3> QED
      BY <3>1, <3>6
  <2>2. CASE j = m
    BY <1>2, <2>2
  <2>3. CASE j > m
    BY <1>1, <2>3
  <2> QED
    BY <1>1, <2>1, <2>2, <2>3
<1>4. P(5)
  <2>1. CASE m = 5
    BY <1>2, <2>1
  <2>2. CASE m < 5
    BY <1>1, <2>2
  <2> QED
    BY <1>1, <2>1, <2>2
<1> HIDE DEF P
<1>5. P(4)
  BY <1>3, <1>4
<1>6. P(3)
  BY <1>3, <1>5
<1>7. P(2)
  BY <1>3, <1>6
<1>8. P(1)
  BY <1>3, <1>7
<1>9. P(0)
  BY <1>3, <1>8
<1>10. Back(s, 0) = s /\ Back(t, 0) = t
  BY DEF Back
<1> QED
  BY <1>1, <1>9, <1>10 DEF P

--------------------------------------------------------------------------------
(* The statements, by the states at their ends. *)

FinalOf == [
  debug |-> 32, pid_file |-> 33, window_size |-> 37, shm |-> 39, filter |-> 38,
  db_connstr |-> 40, export_interval |-> 47, export_min_pps |-> 50,
  exec_start |-> 44, exec_stop |-> 45, stop_delay |-> 46]

(* The words shifted on the way to a state. *)
Trail2(s, u, v) == Size[s + 1] = 2 /\ WordOf[s + 1] = v /\ WordOf[Below[s + 1] + 1] = u
Trail3(s, u, v, w) ==
  /\ Size[s + 1] = 3 /\ WordOf[s + 1] = w /\ WordOf[Below[s + 1] + 1] = v
  /\ WordOf[Below[Below[s + 1] + 1] + 1] = u
Trail4(s, u, v, w, x) ==
  /\ Size[s + 1] = 4 /\ WordOf[s + 1] = x /\ WordOf[Below[s + 1] + 1] = w
  /\ WordOf[Below[Below[s + 1] + 1] + 1] = v
  /\ WordOf[Below[Below[Below[s + 1] + 1] + 1] + 1] = u
Trail5(s, t, u, v, w, x) ==
  /\ Size[s + 1] = 5 /\ WordOf[s + 1] = x /\ Size[Below[s + 1] + 1] = 4
  /\ Trail4(Below[s + 1], t, u, v, w)

LEMMA Spells2 ==
  ASSUME NEW s, NEW u \in Word, NEW v \in Word, Trail2(s, u, v)
  PROVE  Spells(s, <<u, v>>)
<1> DEFINE r == <<u, v>>
<1>1. r \in Seq(Word) /\ Len(r) = 2 /\ r[1] = u /\ r[2] = v
  OBVIOUS
<1>2. Size[s + 1] = 2 /\ WordOf[Back(s, 0) + 1] = v /\ WordOf[Back(s, 1) + 1] = u
  BY BackIs DEF Trail2
<1> HIDE DEF r
<1>3. \A k \in 0 .. 5 : k < Len(r) => r[Len(r) - k] = WordOf[Back(s, k) + 1]
  <2>1. \A k \in 0 .. 5 : k < 2 => k = 0 \/ k = 1
    OBVIOUS
  <2> QED
    BY <1>1, <1>2, <2>1
<1>4. Spells(s, r)
  BY <1>1, <1>2, <1>3 DEF Spells
<1> QED
  BY <1>4 DEF r

LEMMA Spells3 ==
  ASSUME NEW s, NEW u \in Word, NEW v \in Word, NEW w \in Word, Trail3(s, u, v, w)
  PROVE  Spells(s, <<u, v, w>>)
<1> DEFINE r == <<u, v, w>>
<1>1. r \in Seq(Word) /\ Len(r) = 3 /\ r[1] = u /\ r[2] = v /\ r[3] = w
  OBVIOUS
<1>2. /\ Size[s + 1] = 3 /\ WordOf[Back(s, 0) + 1] = w /\ WordOf[Back(s, 1) + 1] = v
      /\ WordOf[Back(s, 2) + 1] = u
  BY BackIs DEF Trail3
<1> HIDE DEF r
<1>3. \A k \in 0 .. 5 : k < Len(r) => r[Len(r) - k] = WordOf[Back(s, k) + 1]
  <2>1. \A k \in 0 .. 5 : k < 3 => k = 0 \/ k = 1 \/ k = 2
    OBVIOUS
  <2> QED
    BY <1>1, <1>2, <2>1
<1>4. Spells(s, r)
  BY <1>1, <1>2, <1>3 DEF Spells
<1> QED
  BY <1>4 DEF r

LEMMA Spells4 ==
  ASSUME NEW s, NEW u \in Word, NEW v \in Word, NEW w \in Word, NEW x \in Word,
         Trail4(s, u, v, w, x)
  PROVE  Spells(s, <<u, v, w, x>>)
<1> DEFINE r == <<u, v, w, x>>
<1>1. r \in Seq(Word) /\ Len(r) = 4 /\ r[1] = u /\ r[2] = v /\ r[3] = w /\ r[4] = x
  OBVIOUS
<1>2. /\ Size[s + 1] = 4 /\ WordOf[Back(s, 0) + 1] = x /\ WordOf[Back(s, 1) + 1] = w
      /\ WordOf[Back(s, 2) + 1] = v /\ WordOf[Back(s, 3) + 1] = u
  BY BackIs DEF Trail4
<1> HIDE DEF r
<1>3. \A k \in 0 .. 5 : k < Len(r) => r[Len(r) - k] = WordOf[Back(s, k) + 1]
  <2>1. \A k \in 0 .. 5 : k < 4 => k = 0 \/ k = 1 \/ k = 2 \/ k = 3
    OBVIOUS
  <2> QED
    BY <1>1, <1>2, <2>1
<1>4. Spells(s, r)
  BY <1>1, <1>2, <1>3 DEF Spells
<1> QED
  BY <1>4 DEF r

LEMMA Spells5 ==
  ASSUME NEW s, NEW t \in Word, NEW u \in Word, NEW v \in Word, NEW w \in Word,
         NEW x \in Word, Trail5(s, t, u, v, w, x)
  PROVE  Spells(s, <<t, u, v, w, x>>)
<1> DEFINE r == <<t, u, v, w, x>>
<1>1. /\ r \in Seq(Word) /\ Len(r) = 5
      /\ r[1] = t /\ r[2] = u /\ r[3] = v /\ r[4] = w /\ r[5] = x
  OBVIOUS
<1>2. /\ Size[s + 1] = 5 /\ WordOf[Back(s, 0) + 1] = x /\ WordOf[Back(s, 1) + 1] = w
      /\ WordOf[Back(s, 2) + 1] = v /\ WordOf[Back(s, 3) + 1] = u
      /\ WordOf[Back(s, 4) + 1] = t
  BY BackIs DEF Trail5, Trail4
<1> HIDE DEF r
<1>3. \A k \in 0 .. 5 : k < Len(r) => r[Len(r) - k] = WordOf[Back(s, k) + 1]
  <2>1. \A k \in 0 .. 5 : k < 5 => k = 0 \/ k = 1 \/ k = 2 \/ k = 3 \/ k = 4
    OBVIOUS
  <2> QED
    BY <1>1, <1>2, <2>1
<1>4. Spells(s, r)
  BY <1>1, <1>2, <1>3 DEF Spells
<1> QED
  BY <1>4 DEF r

LEMMA TrailTable ==
  /\ Trail3(32, DEBUGTOK, LEVELTOK, NUMBER) /\ Trail3(33, PIDTOK, FILETOK, STRINGTOK)
  /\ Trail3(37, WINDOWTOK, SIZETOK, NUMBER) /\ Trail3(39, INPUTTOK, SHMTOK, STRINGTOK)
  /\ Trail3(38, INPUTTOK, FILTERTOK, STRINGTOK) /\ Trail3(40, DBTOK, CONNECTTOK, STRINGTOK)
  /\ Trail4(47, DBTOK, EXPORTTOK, INTERVALTOK, NUMBER)
  /\ Trail5(50, DBTOK, EXPORTTOK, MINTOK, PPSTOK, NUMBER)
  /\ Trail4(44, ACTIONTOK, STARTTOK, COMMANDTOK, STRINGTOK)
  /\ Trail4(45, ACTIONTOK, STOPTOK, COMMANDTOK, STRINGTOK)
  /\ Trail4(46, ACTIONTOK, STOPTOK, DELAYTOK, NUMBER)
  /\ Trail2(58, FILTERTOK, STRINGTOK) /\ Trail2(59, DYNAMICTOK, STRINGTOK)
  /\ Trail3(61, LIMITTOK, NUMBER, BITPSTOK) /\ Trail3(62, LIMITTOK, NUMBER, PPSTOK)
  /\ Trail3(63, LIMITTOK, NUMBER, FPSTOK)
  /\ Trail4(65, LIMITTOK, NUMBER, FACTOR, BITPSTOK)
  /\ Trail4(66, LIMITTOK, NUMBER, FACTOR, PPSTOK)
  /\ Trail4(67, LIMITTOK, NUMBER, FACTOR, FPSTOK)
BY DEF Trail2, Trail3, Trail4, Trail5, Size, Below, WordOf,
       BITPSTOK, PPSTOK, FPSTOK, FILTERTOK, LIMITTOK, NUMBER, FACTOR, STRINGTOK, DYNAMICTOK,
       DEBUGTOK, LEVELTOK, PIDTOK, FILETOK, WINDOWTOK, SIZETOK, INPUTTOK, SHMTOK, DBTOK,
       CONNECTTOK, EXPORTTOK, INTERVALTOK, MINTOK, ACTIONTOK, STARTTOK, STOPTOK, COMMANDTOK,
       DELAYTOK

LEMMA WordsAre ==
  /\ {DEBUGTOK, LEVELTOK, NUMBER, PIDTOK, FILETOK, STRINGTOK, WINDOWTOK, SIZETOK, INPUTTOK,
      SHMTOK, FILTERTOK, DBTOK, CONNECTTOK, EXPORTTOK, INTERVALTOK, MINTOK, PPSTOK,
      ACTIONTOK, STARTTOK, STOPTOK, COMMANDTOK, DELAYTOK, LIMITTOK, BITPSTOK, FPSTOK,
      FACTOR, DYNAMICTOK, PROFILETOK, OPTIONSTOK} \subseteq Word \ Delimiters
  /\ Delimiters \subseteq Word
BY DEF Word, Delimiters, EOF, OBRACE, EBRACE, SEMICOLON,
       BITPSTOK, PPSTOK, FPSTOK, FILTERTOK, LIMITTOK, NUMBER, FACTOR, STRINGTOK, DYNAMICTOK,
       DEBUGTOK, LEVELTOK, PIDTOK, FILETOK, WINDOWTOK, SIZETOK, INPUTTOK, SHMTOK, DBTOK,
       CONNECTTOK, EXPORTTOK, INTERVALTOK, MINTOK, ACTIONTOK, STARTTOK, STOPTOK, COMMANDTOK,
       DELAYTOK, PROFILETOK, OPTIONSTOK

(* Each statement about an option is what its last state has behind it. *)
LEMMA OptionsSpelled ==
  /\ \A o \in DOMAIN OptionForm :
       FinalOf[o] \in OptionEnds /\ Spells(FinalOf[o], OptionForm[o])
  /\ \A e \in OptionEnds : \E o \in DOMAIN OptionForm : e = FinalOf[o]
<1> DEFINE Options == {"debug", "pid_file", "window_size", "shm", "filter", "db_connstr",
                       "export_interval", "export_min_pps", "exec_start", "exec_stop",
                       "stop_delay"}
<1>1. DOMAIN OptionForm = Options /\ DOMAIN FinalOf = Options
  BY DEF OptionForm, FinalOf
<1>2. /\ Spells(32, OptionForm.debug) /\ Spells(33, OptionForm.pid_file)
      /\ Spells(37, OptionForm.window_size) /\ Spells(39, OptionForm.shm)
      /\ Spells(38, OptionForm.filter) /\ Spells(40, OptionForm.db_connstr)
  BY TrailTable, WordsAre, Spells3 DEF OptionForm
<1>3. /\ Spells(47, OptionForm.export_interval) /\ Spells(44, OptionForm.exec_start)
      /\ Spells(45, OptionForm.exec_stop) /\ Spells(46, OptionForm.stop_delay)
  BY TrailTable, WordsAre, Spells4 DEF OptionForm
<1>4. Spells(50, OptionForm.export_min_pps)
  BY TrailTable, WordsAre, Spells5 DEF OptionForm
<1>5. \A o \in Options : FinalOf[o] \in OptionEnds
  BY DEF FinalOf, OptionEnds
<1>6. /\ FinalOf.debug = 32 /\ FinalOf.pid_file = 33 /\ FinalOf.window_size = 37
      /\ FinalOf.shm = 39 /\ FinalOf.filter = 38 /\ FinalOf.db_connstr = 40
      /\ FinalOf.export_interval = 47 /\ FinalOf.export_min_pps = 50
      /\ FinalOf.exec_start = 44 /\ FinalOf.exec_stop = 45 /\ FinalOf.stop_delay = 46
  BY DEF FinalOf
<1>7. \A o \in Options : Spells(FinalOf[o], OptionForm[o])
  BY <1>2, <1>3, <1>4, <1>6, Zenon
<1>8. \A e \in OptionEnds : \E o \in Options : e = FinalOf[o]
  BY <1>6 DEF OptionEnds
<1> QED
  BY <1>1, <1>5, <1>7, <1>8

(* So is each statement about a parameter of a profile. *)
Params == UNION {ParamForms[p] : p \in DOMAIN ParamForms}

LEMMA ParamsAre ==
  Params = {<<FILTERTOK, STRINGTOK>>, <<DYNAMICTOK, STRINGTOK>>,
            <<LIMITTOK, NUMBER, BITPSTOK>>, <<LIMITTOK, NUMBER, FACTOR, BITPSTOK>>,
            <<LIMITTOK, NUMBER, PPSTOK>>, <<LIMITTOK, NUMBER, FACTOR, PPSTOK>>,
            <<LIMITTOK, NUMBER, FPSTOK>>, <<LIMITTOK, NUMBER, FACTOR, FPSTOK>>}
<1>1. /\ DOMAIN ParamForms = {"filter", "dynamic", "bytes", "pkts", "flows"}
      /\ ParamForms["filter"] = {<<FILTERTOK, STRINGTOK>>}
      /\ ParamForms["dynamic"] = {<<DYNAMICTOK, STRINGTOK>>}
      /\ ParamForms["bytes"] = LimitForms(BITPSTOK)
      /\ ParamForms["pkts"] = LimitForms(PPSTOK)
      /\ ParamForms["flows"] = LimitForms(FPSTOK)
  BY DEF ParamForms
<1>2. Params = ParamForms["filter"] \cup ParamForms["dynamic"] \cup ParamForms["bytes"]
               \cup ParamForms["pkts"] \cup ParamForms["flows"]
  BY <1>1, Zenon DEF Params
<1> QED
  BY <1>1, <1>2, Zenon DEF LimitForms

LEMMA ParamsSpelled ==
  /\ \A f \in Params : \E e \in ParamEnds : Spells(e, f)
  /\ \A e \in ParamEnds : \E f \in Params : Spells(e, f)
<1>1. /\ Spells(58, <<FILTERTOK, STRINGTOK>>) /\ Spells(59, <<DYNAMICTOK, STRINGTOK>>)
  BY TrailTable, WordsAre, Spells2
<1>2. /\ Spells(61, <<LIMITTOK, NUMBER, BITPSTOK>>) /\ Spells(62, <<LIMITTOK, NUMBER, PPSTOK>>)
      /\ Spells(63, <<LIMITTOK, NUMBER, FPSTOK>>)
  BY TrailTable, WordsAre, Spells3
<1>3. /\ Spells(65, <<LIMITTOK, NUMBER, FACTOR, BITPSTOK>>)
      /\ Spells(66, <<LIMITTOK, NUMBER, FACTOR, PPSTOK>>)
      /\ Spells(67, <<LIMITTOK, NUMBER, FACTOR, FPSTOK>>)
  BY TrailTable, WordsAre, Spells4
<1>4. 58 \in ParamEnds /\ 59 \in ParamEnds /\ 61 \in ParamEnds /\ 62 \in ParamEnds
      /\ 63 \in ParamEnds /\ 65 \in ParamEnds /\ 66 \in ParamEnds /\ 67 \in ParamEnds
  BY DEF ParamEnds
<1>5. \A f \in Params : \E e \in ParamEnds : Spells(e, f)
  BY <1>1, <1>2, <1>3, <1>4, ParamsAre, Zenon
<1> DEFINE Said(e) == \E f \in Params : Spells(e, f)
<1>6. \A e \in ParamEnds : Said(e)
  <2>1. Said(58) /\ Said(59)
    BY <1>1, ParamsAre, Zenon
  <2>2. Said(61) /\ Said(62) /\ Said(63)
    BY <1>2, ParamsAre, Zenon
  <2>3. Said(65) /\ Said(66) /\ Said(67)
    BY <1>3, ParamsAre, Zenon
  <2> HIDE DEF Said
  <2> QED
    BY <2>1, <2>2, <2>3 DEF ParamEnds
<1> QED
  BY <1>5, <1>6

--------------------------------------------------------------------------------
(* What has been read by the state the parser is in.                       *)

Braces(s, w) ==
  LET opened == Total(w, OBRACE)
      closed == Total(w, EBRACE)
  IN /\ s \in InBegin => opened = 0 /\ closed = 0
     /\ s \in InOptions => opened = 1 /\ closed = 0
     /\ s \in InBetween => opened >= 1 /\ closed = opened
     /\ s \in InProfile => opened >= 2 /\ closed = opened - 1

(* w is behind the state s; y is the lookahead.  The states 17 and 56 come *)
(* after a statement, which is empty if the lookahead begins none.         *)
Fits(s, w, y) ==
  /\ Braces(s, w)
  /\ s \notin {17, 56} => Spells(s, Rest(w))
  /\ s = 17 =>
       \/ \E e \in OptionEnds : Spells(e, Rest(w))
       \/ Rest(w) = <<>> /\ y # YYEMPTY /\ Entry(7, y) = 0
  /\ s = 56 =>
       \/ \E e \in ParamEnds : Spells(e, Rest(w))
       \/ Rest(w) = <<>> /\ y # YYEMPTY /\ Entry(49, y) = 0 /\ Entry(52, y) = 0
  /\ s = 2 => y # YYEMPTY /\ Entry(6, y) = 0
  /\ s = 52 => y # YYEMPTY /\ Entry(49, y) = 0
  /\ s = 5 => y = YYEMPTY

LanguageInv ==
  /\ pc \in {"open", "parse"} =>
       cause = "none" /\ WellFormed(Eaten) /\ Fits(State, Eaten, yychar)
  /\ AcceptsTheLanguage

(* Every statement is what leads to a state at its end, and a delimiter    *)
(* after it, or a delimiter alone.                                         *)
StatementEnds == OptionEnds \cup ParamEnds \cup {1, 18, 19}
Closer(e) == IF e \in {1, 19} THEN OBRACE ELSE SEMICOLON
Bare(p) ==
  IF p \in {"options", "profile"} THEN {SEMICOLON, EBRACE}
  ELSE IF p = "between" THEN {EOF} ELSE {}

Built(p, f) ==
  \/ \E e \in StatementEnds, g \in Seq(Word) :
       Spells(e, g) /\ PlaceOf(e) = p /\ f = Append(g, Closer(e))
  \/ \E d \in Bare(p) : f = <<d>>

LEMMA SpelledOnce ==
  ASSUME NEW s, NEW r, NEW q, Spells(s, r), Spells(s, q), Size[s + 1] \in 0 .. 5
  PROVE  r = q
<1>1. /\ r \in Seq(Word) /\ Len(r) = Size[s + 1] /\ q \in Seq(Word) /\ Len(q) = Size[s + 1]
      /\ \A k \in 0 .. 5 : k < Size[s + 1] => r[Len(r) - k] = q[Len(q) - k]
  BY DEF Spells
<1>2. PICK n : n = Size[s + 1] /\ n \in 0 .. 5
  OBVIOUS
<1>3. ASSUME NEW i \in 1 .. n PROVE r[i] = q[i]
  <2>1. n - i \in 0 .. 5 /\ n - i < n /\ n - (n - i) = i
    BY <1>2
  <2> QED
    BY <1>1, <1>2, <2>1
<1> QED
  BY <1>1, <1>2, <1>3, SeqEqual

LEMMA Closed ==
  ASSUME NEW p \in {"options", "profile"}, NEW forms, NEW ends \in SUBSET StatementEnds,
         Statements[p] = Closing(forms),
         \A f \in forms : \E e \in ends : Spells(e, f),
         \A e \in ends : PlaceOf(e) = p /\ Closer(e) = SEMICOLON /\ \E f \in forms : Spells(e, f),
         \A e \in StatementEnds : PlaceOf(e) = p => e \in ends,
         \A e \in StatementEnds : Size[e + 1] \in 0 .. 5,
         NEW f
  PROVE  f \in Statements[p] <=> Built(p, f)
<1>1. Bare(p) = {SEMICOLON, EBRACE}
  BY DEF Bare
<1>2. ASSUME f \in Statements[p] PROVE Built(p, f)
  <2>1. CASE f \in {<<SEMICOLON>>, <<EBRACE>>}
    BY <1>1, <2>1 DEF Built
  <2>2. CASE \E g \in forms : f = Append(g, SEMICOLON)
    <3>1. PICK g \in forms : f = Append(g, SEMICOLON)
      BY <2>2
    <3>2. PICK e \in ends : Spells(e, g)
      OBVIOUS
    <3>3. g \in Seq(Word)
      BY <3>2 DEF Spells
    <3>4. e \in StatementEnds /\ PlaceOf(e) = p /\ f = Append(g, Closer(e))
      BY <3>1
    <3> QED
      BY <3>2, <3>3, <3>4 DEF Built
  <2> QED
    BY <1>2, <2>1, <2>2 DEF Closing
<1>3. ASSUME Built(p, f) PROVE f \in Statements[p]
  <2>1. CASE \E d \in Bare(p) : f = <<d>>
    BY <1>1, <2>1 DEF Closing
  <2>2. CASE \E e \in StatementEnds, g \in Seq(Word) :
               Spells(e, g) /\ PlaceOf(e) = p /\ f = Append(g, Closer(e))
    <3>1. PICK e \in StatementEnds, g \in Seq(Word) :
            Spells(e, g) /\ PlaceOf(e) = p /\ f = Append(g, Closer(e))
      BY <2>2
    <3>2. e \in ends /\ Closer(e) = SEMICOLON
      BY <3>1
    <3>3. PICK h \in forms : Spells(e, h)
      BY <3>2
    <3>4. g = h
      BY <3>1, <3>3, SpelledOnce
    <3> QED
      BY <3>1, <3>2, <3>4 DEF Closing
  <2> QED
    BY <1>3, <2>1, <2>2 DEF Built
<1> QED
  BY <1>2, <1>3

LEMMA EndTable ==
  /\ \A e \in OptionEnds : PlaceOf(e) = "options" /\ Closer(e) = SEMICOLON
  /\ \A e \in ParamEnds : PlaceOf(e) = "profile" /\ Closer(e) = SEMICOLON
  /\ PlaceOf(1) = "begin" /\ PlaceOf(18) = "between" /\ PlaceOf(19) = "between"
  /\ Closer(1) = OBRACE /\ Closer(18) = SEMICOLON /\ Closer(19) = OBRACE
  /\ StatementEnds \subseteq States
  /\ \A e \in StatementEnds : Size[e + 1] \in 1 .. 5
<1>1. \A e \in OptionEnds : e \in InOptions /\ e \notin InBegin /\ e \notin {1, 19}
  BY DEF OptionEnds, InOptions, InBegin
<1>2. \A e \in ParamEnds : e \notin InOptions /\ e \notin InBegin /\ e \notin InBetween /\ e \notin {1, 19}
  BY DEF ParamEnds, InOptions, InBegin, InBetween
<1>3. /\ 1 \in InBegin /\ 18 \notin InBegin /\ 18 \notin InOptions /\ 18 \in InBetween
      /\ 19 \notin InBegin /\ 19 \notin InOptions /\ 19 \in InBetween
  BY DEF InOptions, InBegin, InBetween
<1>4. /\ StatementEnds \subseteq States
      /\ \A e \in StatementEnds : Size[e + 1] \in 1 .. 5
  BY DEF StatementEnds, OptionEnds, ParamEnds, States, Size
<1> QED
  BY <1>1, <1>2, <1>3, <1>4 DEF PlaceOf, Closer

LEMMA StatementsAre ==
  ASSUME NEW p \in {"begin", "options", "between", "profile"}, NEW f
  PROVE  f \in Statements[p] <=> Built(p, f)
<1>0. /\ \A e \in StatementEnds : e \in OptionEnds \/ e \in ParamEnds \/ e = 1 \/ e = 18 \/ e = 19
      /\ OptionEnds \subseteq StatementEnds /\ ParamEnds \subseteq StatementEnds
      /\ 1 \in StatementEnds /\ 18 \in StatementEnds /\ 19 \in StatementEnds
  BY DEF StatementEnds
<1>1. \A e \in StatementEnds : Size[e + 1] \in 0 .. 5
  BY EndTable
<1>2. CASE p = "options"
  <2> DEFINE forms == {OptionForm[o] : o \in DOMAIN OptionForm}
  <2>1. Statements[p] = Closing(forms)
    BY <1>2 DEF Statements
  <2>2. \A g \in forms : \E e \in OptionEnds : Spells(e, g)
    BY OptionsSpelled
  <2>3. \A e \in OptionEnds : \E g \in forms : Spells(e, g)
    <3> TAKE e \in OptionEnds
    <3>1. PICK o \in DOMAIN OptionForm : e = FinalOf[o]
      BY OptionsSpelled
    <3> QED
      BY <3>1, OptionsSpelled
  <2> HIDE DEF forms
  <2>4. \A e \in StatementEnds : PlaceOf(e) = p => e \in OptionEnds
    BY <1>0, <1>2, EndTable
  <2> QED
    BY <1>0, <1>1, <1>2, <2>1, <2>2, <2>3, <2>4, EndTable, Closed
<1>3. CASE p = "profile"
  <2>1. Statements[p] = Closing(Params)
    BY <1>3 DEF Statements, Params
  <2>4. \A e \in StatementEnds : PlaceOf(e) = p => e \in ParamEnds
    BY <1>0, <1>3, EndTable
  <2> QED
    BY <1>0, <1>1, <1>3, <2>1, <2>4, ParamsSpelled, EndTable, Closed
<1>4. CASE p = "between"
  <2> DEFINE g == <<PROFILETOK, STRINGTOK>>
             h == <<PROFILETOK, DBTOK>>
  <2>1. Statements[p] = {Header, DbHeader, <<EOF>>} /\ Bare(p) = {EOF}
    BY <1>4 DEF Statements, Bare
  <2>2. Spells(19, g) /\ Spells(18, h)
    <3>1. Trail2(19, PROFILETOK, STRINGTOK) /\ Trail2(18, PROFILETOK, DBTOK)
      BY DEF Trail2, Size, WordOf, Below, PROFILETOK, STRINGTOK, DBTOK
    <3> QED
      BY <3>1, WordsAre, Spells2
  <2>3. Header = Append(g, OBRACE) /\ DbHeader = Append(h, SEMICOLON)
    BY DEF Header, DbHeader
  <2>4. g \in Seq(Word) /\ h \in Seq(Word)
    BY <2>2 DEF Spells
  <2> HIDE DEF g, h
  <2>5. \A e \in StatementEnds : PlaceOf(e) = p <=> e = 18 \/ e = 19
    BY <1>0, <1>4, EndTable
  <2>6. Built(p, f) => f \in Statements[p]
    <3> SUFFICES ASSUME NEW e \in StatementEnds, NEW k \in Seq(Word),
                        Spells(e, k), PlaceOf(e) = p, f = Append(k, Closer(e))
                 PROVE  f \in Statements[p]
      BY <2>1 DEF Built
    <3>1. CASE e = 18
      <4>1. k = h
        BY <1>1, <2>2, <3>1, SpelledOnce
      <4> QED
        BY <2>1, <2>3, <3>1, <4>1, EndTable
    <3>2. CASE e = 19
      <4>1. k = g
        BY <1>1, <2>2, <3>2, SpelledOnce
      <4> QED
        BY <2>1, <2>3, <3>2, <4>1, EndTable
    <3> QED
      BY <2>5, <3>1, <3>2
  <2>7. f \in Statements[p] => Built(p, f)
    <3>1. Closer(18) = SEMICOLON /\ Closer(19) = OBRACE
      BY EndTable
    <3>2. f = Header => Built(p, f)
      BY <1>0, <2>2, <2>3, <2>4, <2>5, <3>1 DEF Built
    <3>3. f = DbHeader => Built(p, f)
      BY <1>0, <2>2, <2>3, <2>4, <2>5, <3>1 DEF Built
    <3>4. f = <<EOF>> => Built(p, f)
      BY <2>1 DEF Built
    <3> QED
      BY <2>1, <3>2, <3>3, <3>4
  <2> QED
    BY <2>6, <2>7
<1>5. CASE p = "begin"
  <2> DEFINE g == <<OPTIONSTOK>>
  <2>1. Statements[p] = {<<OPTIONSTOK, OBRACE>>} /\ Bare(p) = {}
    BY <1>5 DEF Statements, Bare
  <2>2. g \in Seq(Word) /\ Len(g) = 1 /\ g[1] = OPTIONSTOK
    BY WordsAre
  <2>3. <<OPTIONSTOK, OBRACE>> = Append(g, OBRACE)
    OBVIOUS
  <2> HIDE DEF g
  <2>4. Spells(1, g)
    <3>1. Size[1 + 1] = 1 /\ WordOf[1 + 1] = OPTIONSTOK
      BY DEF Size, WordOf, OPTIONSTOK
    <3>2. \A k \in 0 .. 5 : k < 1 => k = 0
      OBVIOUS
    <3>3. Back(1, 0) = 1
      BY BackIs
    <3> QED
      BY <2>2, <3>1, <3>2, <3>3 DEF Spells
  <2>5. \A e \in StatementEnds : PlaceOf(e) = p <=> e = 1
    BY <1>0, <1>5, EndTable
  <2>6. Closer(1) = OBRACE
    BY EndTable
  <2>7. Built(p, f) => f \in Statements[p]
    <3> SUFFICES ASSUME NEW e \in StatementEnds, NEW k \in Seq(Word),
                        Spells(e, k), PlaceOf(e) = p, f = Append(k, Closer(e))
                 PROVE  f \in Statements[p]
      BY <2>1 DEF Built
    <3>1. e = 1
      BY <2>5
    <3>2. k = g
      BY <1>1, <2>4, <3>1, SpelledOnce
    <3> QED
      BY <2>1, <2>3, <2>6, <3>1, <3>2
  <2>8. f \in Statements[p] => Built(p, f)
    BY <1>0, <2>1, <2>2, <2>3, <2>4, <2>5, <2>6 DEF Built
  <2> QED
    BY <2>7, <2>8
<1> QED
  BY <1>2, <1>3, <1>4, <1>5

(* What leads to a state can be written down. *)
LEMMA SpellingExists ==
  ASSUME NEW s \in States
  PROVE  \E r \in Seq(Word) : Spells(s, r)
<1>1. PICK m : m = Size[s + 1] /\ m \in 0 .. 5
  BY SizeTable
<1> DEFINE r == [i \in 1 .. m |-> WordOf[Back(s, m - i) + 1]]
<1>2. ASSUME NEW i \in 1 .. m PROVE WordOf[Back(s, m - i) + 1] \in Word
  <2>1. m - i \in 0 .. 5 /\ m - i < m
    BY <1>1
  <2>2. Back(s, m - i) \in States /\ Plain(Back(s, m - i))
    BY <1>1, <2>1, BackPlain
  <2> QED
    BY <2>2, PlainTable
<1>3. r \in [1 .. m -> Word] /\ m \in Nat
  BY <1>1, <1>2
<1>4. r \in Seq(Word) /\ Len(r) = m
  <2>1. r \in Seq(Word)
    BY <1>3, SeqDef
  <2>2. DOMAIN r = 1 .. m
    OBVIOUS
  <2> HIDE DEF r
  <2> QED
    BY <1>3, <2>1, <2>2, LenProperties
<1>5. \A k \in 0 .. 5 : k < m => r[m - k] = WordOf[Back(s, k) + 1]
  <2> SUFFICES ASSUME NEW k \in 0 .. 5, k < m PROVE r[m - k] = WordOf[Back(s, k) + 1]
    OBVIOUS
  <2>1. m - k \in 1 .. m /\ m - (m - k) = k
    BY <1>1
  <2> QED
    BY <2>1
<1> HIDE DEF r
<1> QED
  BY <1>1, <1>4, <1>5 DEF Spells

(* In the middle of a statement the parser has an entry for the word that  *)
(* comes next in it.                                                       *)
LEMMA FormGoesOn ==
  ASSUME NEW s \in States, NEW e \in States, NEW f, Spells(e, f),
         NEW k \in 0 .. Len(f), k < Len(f),
         k = 0 => s = Origin(e),
         k > 0 => Spells(s, SubSeq(f, 1, k)) /\ Origin(s) = Origin(e)
  PROVE  Entry(s, f[k + 1]) # 0 /\ yypact[s + 1] # YYPACT_NINF
<1>1. PICK m : m = Len(f) /\ m = Size[e + 1] /\ m \in 0 .. 5
  BY SpellsFirst
<1>2. PICK j, d : j = m - (k + 1) /\ d = m - k
  OBVIOUS
<1>3. /\ j \in 0 .. 5 /\ j < m /\ d \in 0 .. 5 /\ j + 1 = d /\ m - j = k + 1 /\ d + k = m
      /\ k \in 0 .. 5 /\ (k > 0 => d < m) /\ (k = 0 => d = m) /\ m - d = k
  BY <1>1, <1>2
<1>4. PICK t : t = Back(e, j)
  OBVIOUS
<1>5. t \in States /\ Plain(t) /\ Back(e, d) = Below[t + 1]
  BY <1>1, <1>3, <1>4, BackPlain
<1>6. f[k + 1] = WordOf[t + 1]
  BY <1>1, <1>3, <1>4 DEF Spells
<1>7. Back(e, d) = s
  <2>1. CASE k = 0
    BY <1>1, <1>3, <2>1 DEF Origin
  <2>2. CASE k > 0
    <3>1. PICK u : u = Back(e, d)
      OBVIOUS
    <3>2. u \in States /\ Size[u + 1] = k
      BY <1>1, <1>3, <2>2, <3>1, BackPlain
    <3>3. Spells(u, SubSeq(f, 1, k))
      BY <1>1, <1>2, <2>2, <3>1, SpellsFirst
    <3>4. Origin(u) = Origin(e)
      <4>1. Back(Back(e, d), k) = Back(e, d + k)
        BY <1>1, <1>3, BackBack
      <4> QED
        BY <1>1, <1>3, <3>1, <3>2, <4>1 DEF Origin
    <3> QED
      BY <2>2, <3>1, <3>2, <3>3, <3>4, SpellsOne
  <2> QED
    BY <1>3, <2>1, <2>2
<1>8. Entry(s, f[k + 1]) = t /\ yypact[s + 1] # YYPACT_NINF
  BY <1>5, <1>6, <1>7, EntryTable, PlainTable
<1>9. t # 0
  <2>1. ~Plain(0)
    BY DEF Plain, WordOf, YYEMPTY
  <2> QED
    BY <1>5, <2>1
<1> QED
  BY <1>8, <1>9

LEMMA PrefixOfAppended ==
  ASSUME NEW r \in Seq(Word), NEW y \in Word, NEW g \in Seq(Word), NEW d \in Word,
         IsPrefix(Append(r, y), Append(g, d))
  PROVE  /\ Len(r) \in Nat /\ Len(g) \in Nat /\ Len(r) <= Len(g)
         /\ r = SubSeq(g, 1, Len(r))
         /\ Len(r) < Len(g) => y = g[Len(r) + 1]
         /\ Len(r) = Len(g) => y = d /\ r = g
<1> DEFINE a == Append(r, y)
           b == Append(g, d)
           n == Len(r)
           m == Len(g)
<1>1. /\ a \in Seq(Word) /\ Len(a) = n + 1 /\ a[n + 1] = y /\ n \in Nat
      /\ \A i \in 1 .. n : a[i] = r[i]
  BY Appended
<1>2. /\ b \in Seq(Word) /\ Len(b) = m + 1 /\ b[m + 1] = d /\ m \in Nat
      /\ \A i \in 1 .. m : b[i] = g[i]
  BY Appended
<1>3. Len(a) <= Len(b) /\ SubSeq(a, 1, Len(a)) = SubSeq(b, 1, Len(a))
  BY DEF IsPrefix
<1> HIDE DEF a, b
<1>4. \A i \in 1 .. n + 1 : a[i] = b[i]
  <2>1. n + 1 \in 0 .. Len(a) /\ n + 1 \in 0 .. Len(b)
    BY <1>1, <1>2, <1>3
  <2>2. \A i \in 1 .. n + 1 : SubSeq(a, 1, n + 1)[i] = a[i]
    BY <1>1, <2>1, PrefixOf
  <2>3. \A i \in 1 .. n + 1 : SubSeq(b, 1, n + 1)[i] = b[i]
    BY <1>2, <2>1, PrefixOf
  <2> QED
    BY <1>1, <1>3, <2>2, <2>3
<1>5. n <= m /\ \A i \in 1 .. n : r[i] = g[i]
  BY <1>1, <1>2, <1>3, <1>4
<1>6. r = SubSeq(g, 1, n)
  <2>1. n \in 0 .. Len(g)
    BY <1>1, <1>2, <1>5
  <2>2. /\ SubSeq(g, 1, n) \in Seq(Word) /\ Len(SubSeq(g, 1, n)) = n
        /\ \A i \in 1 .. n : SubSeq(g, 1, n)[i] = g[i]
    BY <2>1, PrefixOf
  <2> QED
    BY <1>5, <2>2, SeqEqual
<1>7. n < m => y = g[n + 1]
  <2>1. n < m => n + 1 \in 1 .. m
    BY <1>1, <1>2
  <2> QED
    BY <1>1, <1>2, <1>4, <2>1
<1>8. n = m => y = d
  BY <1>1, <1>2, <1>4
<1>9. n = m => r = g
  BY <1>2, <1>5, SeqEqual
<1> QED
  BY <1>1, <1>2, <1>5, <1>6, <1>7, <1>8, <1>9

(* Where the first words of statements are read. *)
OriginOf(p) ==
  IF p = "options" THEN 7 ELSE IF p = "profile" THEN 52
  ELSE IF p = "between" THEN 6 ELSE 0

(* A word that goes on with a statement has an entry in the tables.        *)
LEMMA EntryForNext ==
  ASSUME NEW s \in States, NEW r, Spells(s, r), NEW y \in Word,
         NEW p, p = PlaceOf(s), NEW f \in Statements[p], IsPrefix(Append(r, y), f)
  PROVE  /\ Size[s + 1] > 0 =>
              \/ s \in StatementEnds /\ y = Closer(s)
              \/ Entry(s, y) # 0 /\ yypact[s + 1] # YYPACT_NINF
         /\ Size[s + 1] = 0 => y \in Bare(p) \/ Entry(OriginOf(p), y) # 0
<1>0. r \in Seq(Word) /\ Len(r) = Size[s + 1] /\ Len(r) \in 0 .. 5
  BY SizeTable DEF Spells
<1>1. p \in {"begin", "options", "between", "profile"}
  BY DEF PlaceOf
<1>2. Built(p, f)
  BY <1>1, StatementsAre
<1>3. ASSUME NEW d \in Bare(p), f = <<d>>
      PROVE  Len(r) = 0 /\ y = d
  <2>1. d \in Word
    BY WordsAre DEF Bare, Delimiters
  <2>2. PICK g : g = <<>> /\ g \in Seq(Word) /\ Len(g) = 0
    BY EmptySeq
  <2>3. f = Append(g, d)
    BY <1>3, <2>2
  <2>4. IsPrefix(Append(r, y), Append(g, d))
    BY <2>3
  <2>5. Len(r) \in Nat /\ Len(r) <= Len(g) /\ (Len(r) = Len(g) => y = d)
    <3>1. g \in Seq(Word)
      BY <2>2
    <3> QED
      BY <1>0, <2>1, <2>4, <3>1, PrefixOfAppended
  <2> QED
    BY <2>2, <2>5
<1>4. ASSUME NEW e \in StatementEnds, NEW g \in Seq(Word),
             Spells(e, g), PlaceOf(e) = p, f = Append(g, Closer(e))
      PROVE  /\ Len(r) > 0 =>
                  \/ s \in StatementEnds /\ y = Closer(s)
                  \/ Entry(s, y) # 0 /\ yypact[s + 1] # YYPACT_NINF
             /\ Len(r) = 0 => Entry(OriginOf(p), y) # 0
  <2>1. Closer(e) \in Word
    BY WordsAre DEF Closer, Delimiters
  <2>2. /\ Len(r) <= Len(g) /\ r = SubSeq(g, 1, Len(r))
        /\ Len(r) < Len(g) => y = g[Len(r) + 1]
        /\ Len(r) = Len(g) => y = Closer(e) /\ r = g
        /\ Len(g) \in Nat
    BY <1>0, <1>4, <2>1, PrefixOfAppended
  <2>3. e \in States /\ Size[e + 1] \in 1 .. 5 /\ Len(g) = Size[e + 1]
    BY <1>4, EndTable DEF Spells
  <2>4. Origin(e) = OriginOf(p)
    <3>1. Size[e + 1] > 0
      BY <2>3
    <3> QED
      BY <1>1, <1>4, <2>3, <3>1, OriginIs DEF OriginOf
  <2>5. CASE Len(r) = 0
    <3>1. OriginOf(p) \in States
      BY DEF OriginOf, States
    <3>2. 0 \in 0 .. Len(g) /\ 0 < Len(g)
      BY <2>3
    <3>3. Entry(OriginOf(p), g[0 + 1]) # 0
      BY <1>4, <2>3, <2>4, <3>1, <3>2, FormGoesOn
    <3> QED
      BY <2>2, <2>5, <3>2, <3>3
  <2>6. CASE Len(r) > 0
    <3>1. Origin(s) = Origin(e)
      <4>1. Size[s + 1] > 0
        BY <1>0, <2>6
      <4> QED
        BY <1>1, <2>4, <4>1, OriginIs DEF OriginOf
    <3>2. CASE Len(r) = Len(g)
      <4>1. s = e
        BY <1>4, <2>2, <2>3, <3>1, <3>2, SpellsOne
      <4> QED
        BY <2>2, <2>6, <3>2, <4>1
    <3>3. CASE Len(r) < Len(g)
      <4>1. PICK k : k = Len(r)
        OBVIOUS
      <4>2. k \in 0 .. Len(g) /\ k < Len(g) /\ k > 0 /\ k # 0
        BY <1>0, <2>2, <2>6, <3>3, <4>1
      <4>3. Spells(s, SubSeq(g, 1, k))
        BY <2>2, <4>1
      <4>4. Entry(s, g[k + 1]) # 0 /\ yypact[s + 1] # YYPACT_NINF
        BY <1>4, <2>3, <3>1, <4>2, <4>3, FormGoesOn
      <4> QED
        BY <2>2, <2>6, <3>3, <4>1, <4>4
    <3> QED
      BY <1>0, <2>2, <3>2, <3>3
  <2> QED
    BY <1>0, <2>5, <2>6
<1> QED
  BY <1>0, <1>2, <1>3, <1>4 DEF Built

(* What was read up to any state can be gone on with. *)
Goal ==
  <<0, 1, 0, 0, 0, 0, 0, 0, 18, 0, 0, 32, 33, 44, 37, 38, 40, 0, 18, 19, 32, 33,
    44, 45, 37, 38, 39, 40, 47, 0, 0, 0, 32, 33, 44, 45, 46, 37, 38, 39, 40, 47,
    50, 0, 44, 45, 46, 47, 50, 0, 50, 0, 0, 65, 58, 59, 0, 65, 58, 59, 0, 61,
    62, 63, 65, 65, 66, 67>>

LEMMA GoalTable ==
  \A s \in States : Size[s + 1] > 0 =>
    /\ Goal[s + 1] \in StatementEnds /\ Size[s + 1] <= Size[Goal[s + 1] + 1]
    /\ Back(Goal[s + 1], Size[Goal[s + 1] + 1] - Size[s + 1]) = s
<1> DEFINE Ahead(s) == Size[Goal[s + 1] + 1] - Size[s + 1]
<1>1. \A s \in States : Size[s + 1] > 0 =>
        /\ Goal[s + 1] \in {1, 18, 19, 32, 33, 37, 38, 39, 40, 44, 45, 46, 47, 50, 58, 59, 61, 62,
                            63, 65, 66, 67}
        /\ Ahead(s) \in 0 .. 3
        /\ Ahead(s) = 0 => Goal[s + 1] = s
        /\ Ahead(s) = 1 => Below[Goal[s + 1] + 1] = s
  BY DEF States, Size, Goal, Below
<1>2. \A s \in States : Size[s + 1] > 0 /\ Ahead(s) = 2 =>
        Below[Below[Goal[s + 1] + 1] + 1] = s
  BY DEF States, Size, Goal, Below
<1>3. \A s \in States : Size[s + 1] > 0 /\ Ahead(s) >= 3 =>
        s \in {11, 12, 13, 14, 15, 16, 28, 53}
  BY DEF States, Size, Goal
<1>4. \A s \in {11, 12, 13, 14, 15, 16, 28, 53} : Ahead(s) = 3 =>
        Below[Below[Below[Goal[s + 1] + 1] + 1] + 1] = s
  BY DEF Size, Goal, Below
<1>5. \A s \in States : Size[s + 1] \in 0 .. 5
  BY SizeTable
<1> QED
  <2> SUFFICES ASSUME NEW s \in States, Size[s + 1] > 0
               PROVE  /\ Goal[s + 1] \in StatementEnds
                      /\ Size[s + 1] <= Size[Goal[s + 1] + 1]
                      /\ Back(Goal[s + 1], Ahead(s)) = s
    OBVIOUS
  <2> HIDE DEF Ahead
  <2>1. Ahead(s) = 0 \/ Ahead(s) = 1 \/ Ahead(s) = 2 \/ Ahead(s) = 3
    BY <1>1
  <2>2. Back(Goal[s + 1], Ahead(s)) = s
    BY <1>1, <1>2, <1>3, <1>4, <2>1, BackIs
  <2>3. Goal[s + 1] \in StatementEnds
    BY <1>1 DEF StatementEnds, OptionEnds, ParamEnds
  <2>4. Size[s + 1] <= Size[Goal[s + 1] + 1]
    <3>1. Size[Goal[s + 1] + 1] \in 1 .. 5
      BY <2>3, EndTable
    <3> QED
      BY <1>1, <1>5, <3>1 DEF Ahead
  <2> QED
    BY <2>2, <2>3, <2>4

LEMMA CanGoOn ==
  ASSUME NEW s \in States, NEW r, Spells(s, r)
  PROVE  \E f \in Statements[PlaceOf(s)] : IsPrefix(r, f)
<1>0. r \in Seq(Word) /\ Len(r) = Size[s + 1] /\ Len(r) \in 0 .. 5
  BY SizeTable DEF Spells
<1>1. PICK p : p = PlaceOf(s) /\ p \in {"begin", "options", "between", "profile"}
  BY DEF PlaceOf
<1>2. ASSUME NEW e \in StatementEnds, PlaceOf(e) = p, NEW d \in 0 .. 5, d + Len(r) = Size[e + 1],
             Len(r) > 0 => Back(e, d) = s
      PROVE  \E f \in Statements[p] : IsPrefix(r, f)
  <2>1. e \in States /\ Size[e + 1] \in 1 .. 5
    BY EndTable
  <2>2. PICK g \in Seq(Word) : Spells(e, g)
    BY <2>1, SpellingExists
  <2>3. Len(g) = Size[e + 1] /\ Len(r) \in 0 .. Len(g) /\ Len(g) - Len(r) = d /\ Len(g) \in 0 .. 5
    <3>1. Len(g) = Size[e + 1]
      BY <2>2 DEF Spells
    <3>2. PICK n, m : n = Len(r) /\ m = Size[e + 1]
      OBVIOUS
    <3>3. n \in 0 .. 5 /\ m \in 1 .. 5 /\ d + n = m
      BY <1>0, <1>2, <2>1, <3>2
    <3>4. n \in 0 .. m /\ m - n = d /\ m \in 0 .. 5
      BY <3>3
    <3> QED
      BY <3>1, <3>2, <3>4
  <2>4. PICK f : f = Append(g, Closer(e))
    OBVIOUS
  <2>5. f \in Statements[p]
    BY <1>1, <1>2, <2>2, <2>4, StatementsAre DEF Built
  <2>6. r = SubSeq(g, 1, Len(r))
    <3>1. CASE Len(r) > 0
      <4>1. PICK k : k = Len(r) /\ k \in 0 .. Len(g) /\ k > 0
        BY <2>3, <3>1
      <4>2. Spells(Back(e, Len(g) - k), SubSeq(g, 1, k))
        BY <2>1, <2>2, <4>1, SpellsFirst
      <4>3. Spells(s, SubSeq(g, 1, k))
        BY <1>2, <2>3, <3>1, <4>1, <4>2
      <4> QED
        BY <1>0, <4>1, <4>3, SpelledOnce
    <3>2. CASE Len(r) = 0
      <4>1. SubSeq(g, 1, 0) = <<>> /\ r = <<>>
        BY <1>0, <3>2, EmptySeq, SubSeqEmpty
      <4> QED
        BY <3>2, <4>1
    <3> QED
      BY <1>0, <3>1, <3>2
  <2>7. IsPrefix(r, f)
    <3>1. Closer(e) \in Word
      BY WordsAre DEF Closer, Delimiters
    <3>2. /\ f \in Seq(Word) /\ Len(f) = Len(g) + 1
          /\ \A i \in 1 .. Len(g) : f[i] = g[i]
      BY <2>2, <2>4, <3>1, Appended
    <3>3. PICK k : k = Len(r) /\ k \in 0 .. Len(g) /\ k \in 0 .. Len(f)
      BY <2>3, <3>2
    <3>4. /\ SubSeq(f, 1, k) \in Seq(Word) /\ Len(SubSeq(f, 1, k)) = k
          /\ \A i \in 1 .. k : SubSeq(f, 1, k)[i] = f[i]
      BY <3>2, <3>3, PrefixOf
    <3>5. /\ SubSeq(g, 1, k) \in Seq(Word) /\ Len(SubSeq(g, 1, k)) = k
          /\ \A i \in 1 .. k : SubSeq(g, 1, k)[i] = g[i]
      BY <2>2, <3>3, PrefixOf
    <3>6. \A i \in 1 .. k : i \in 1 .. Len(g)
      BY <2>3, <3>3
    <3>7. SubSeq(f, 1, k) = SubSeq(g, 1, k)
      BY <3>2, <3>4, <3>5, <3>6, SeqEqual
    <3>8. SubSeq(r, 1, Len(r)) = r
      BY <1>0, SubSeqFull
    <3> QED
      BY <2>3, <2>6, <3>2, <3>3, <3>7, <3>8 DEF IsPrefix
  <2> QED
    BY <2>5, <2>7
<1>3. CASE Size[s + 1] > 0
  <2>1. PICK e : e = Goal[s + 1] /\ e \in StatementEnds /\ Size[s + 1] <= Size[e + 1]
    BY <1>3, GoalTable
  <2>2. PICK d : d = Size[e + 1] - Size[s + 1] /\ Back(e, d) = s
    BY <1>3, <2>1, GoalTable
  <2>3. e \in States /\ Size[e + 1] \in 1 .. 5
    BY <2>1, EndTable
  <2>4. d \in 0 .. 5 /\ d < Size[e + 1] /\ d + Len(r) = Size[e + 1]
    BY <1>0, <1>3, <2>1, <2>2, <2>3
  <2>5. PlaceOf(e) = p
    BY <1>1, <2>2, <2>3, <2>4, BackPlain
  <2> QED
    BY <1>1, <1>2, <2>1, <2>2, <2>4, <2>5
<1>4. CASE Size[s + 1] = 0
  <2>1. \E e \in StatementEnds : PlaceOf(e) = p
    <3>1. 1 \in StatementEnds /\ 18 \in StatementEnds /\ 32 \in StatementEnds /\ 58 \in StatementEnds
          /\ 32 \in OptionEnds /\ 58 \in ParamEnds
      BY DEF StatementEnds, OptionEnds, ParamEnds
    <3> QED
      BY <1>1, <3>1, EndTable
  <2>2. PICK e \in StatementEnds : PlaceOf(e) = p
    BY <2>1
  <2>3. Size[e + 1] \in 0 .. 5 /\ Len(r) = 0 /\ Size[e + 1] + Len(r) = Size[e + 1]
    <3>1. Size[e + 1] \in 1 .. 5
      BY EndTable
    <3> QED
      BY <1>0, <1>4, <3>1
  <2>4. PICK d : d = Size[e + 1] /\ d \in 0 .. 5 /\ d + Len(r) = Size[e + 1]
    BY <2>3
  <2> QED
    BY <1>1, <1>2, <2>2, <2>3, <2>4
<1> QED
  BY <1>0, <1>3, <1>4

LEMMA PlaceIs ==
  ASSUME NEW s \in States
  PROVE  /\ PlaceOf(s) = "begin" <=> s \in InBegin
         /\ PlaceOf(s) = "options" <=> s \in InOptions
         /\ PlaceOf(s) = "between" <=> s \in InBetween
         /\ PlaceOf(s) = "profile" <=> s \in InProfile
         /\ PlaceOf(s) \in {"begin", "options", "between", "profile"}
<1>1. \A u \in States :
        /\ u \in InBegin => u \notin InOptions /\ u \notin InBetween /\ u \notin InProfile
        /\ u \in InOptions => u \notin InBetween /\ u \notin InProfile
        /\ u \in InBetween => u \notin InProfile
        /\ u \in InBegin \/ u \in InOptions \/ u \in InBetween \/ u \in InProfile
  BY DEF States, InBegin, InOptions, InBetween, InProfile
<1> QED
  BY <1>1, Zenon DEF PlaceOf

(* The braces read say in what part of the file the parser is. *)
LEMMA FitsHere ==
  ASSUME NEW s \in States, NEW w \in Seq(Word), Braces(s, w)
  PROVE  Here(w) = PlaceOf(s)
<1>1. PICK o, c : o = Total(w, OBRACE) /\ c = Total(w, EBRACE)
  OBVIOUS
<1>2. o \in Nat /\ c \in Nat
  BY <1>1, WordsAre, CountAppended
<1>3. Here(w) = IF o = 0 THEN "begin" ELSE IF o <= c THEN "between"
                ELSE IF o = 1 THEN "options" ELSE "profile"
  BY <1>1, HereIs
<1>4. /\ s \in InBegin => o = 0 /\ c = 0
      /\ s \in InOptions => o = 1 /\ c = 0
      /\ s \in InBetween => o >= 1 /\ c = o
      /\ s \in InProfile => o >= 2 /\ c = o - 1
  BY <1>1 DEF Braces
<1>5. CASE s \in InBegin
  BY <1>3, <1>4, <1>5, PlaceIs
<1>6. CASE s \in InOptions
  BY <1>3, <1>4, <1>6, PlaceIs
<1>7. CASE s \in InBetween
  BY <1>2, <1>3, <1>4, <1>7, PlaceIs
<1>8. CASE s \in InProfile
  BY <1>2, <1>3, <1>4, <1>8, PlaceIs
<1> QED
  BY <1>5, <1>6, <1>7, <1>8, PlaceIs

LEMMA ViableIs ==
  ASSUME NEW w, WellFormed(w), NEW f \in Statements[Here(w)], IsPrefix(Rest(w), f)
  PROVE  Viable(w)
BY DEF Viable, Here, Rest

LEMMA FitsViable ==
  ASSUME NEW s \in States, NEW w \in Seq(Word), WellFormed(w), Fits(s, w, YYEMPTY)
  PROVE  Viable(w)
<1>1. Here(w) = PlaceOf(s)
  BY FitsHere DEF Fits
<1>2. ASSUME NEW e \in States, PlaceOf(e) = PlaceOf(s), Spells(e, Rest(w))
      PROVE  Viable(w)
  <2>1. PICK f \in Statements[PlaceOf(e)] : IsPrefix(Rest(w), f)
    BY <1>2, CanGoOn
  <2> QED
    BY <1>1, <1>2, <2>1, ViableIs
<1>3. 17 \in InOptions /\ 56 \in InProfile
  BY DEF InOptions, InProfile
<1>4. CASE s = 17
  <2>1. PICK e \in OptionEnds : Spells(e, Rest(w))
    BY <1>4 DEF Fits
  <2>2. e \in States /\ PlaceOf(e) = PlaceOf(s)
    BY <1>3, <1>4, EndTable, PlaceIs DEF StatementEnds
  <2> QED
    BY <1>2, <2>1, <2>2
<1>5. CASE s = 56
  <2>1. PICK e \in ParamEnds : Spells(e, Rest(w))
    BY <1>5 DEF Fits
  <2>2. e \in States /\ PlaceOf(e) = PlaceOf(s)
    BY <1>3, <1>5, EndTable, PlaceIs DEF StatementEnds
  <2> QED
    BY <1>2, <2>1, <2>2
<1> QED
  BY <1>2, <1>4, <1>5 DEF Fits

--------------------------------------------------------------------------------
(* One step of the parser. *)

LEMMA SpellsNone ==
  ASSUME NEW s, Size[s + 1] = 0, NEW r
  PROVE  Spells(s, r) <=> r = <<>>
<1>1. <<>> \in Seq(Word) /\ Len(<<>>) = 0
  BY EmptySeq
<1>2. r \in Seq(Word) /\ Len(r) = 0 => r = <<>>
  BY EmptySeq
<1>3. Spells(s, r) => r = <<>>
  BY <1>2 DEF Spells
<1>4. r = <<>> => Spells(s, r)
  <2> SUFFICES ASSUME r = <<>> PROVE Spells(s, r)
    OBVIOUS
  <2>1. r \in Seq(Word) /\ Len(r) = 0
    BY <1>1
  <2>2. \A k \in 0 .. 5 : ~(k < 0)
    OBVIOUS
  <2> QED
    BY <2>1, <2>2 DEF Spells
<1> QED
  BY <1>3, <1>4

(* A reduction stays in its part of the file; it forgets a statement, or   *)
(* there was none.                                                         *)
LEMMA ReductionTable ==
  ASSUME NEW s \in States, s # YYFINAL, NEW rule, rule = yydefact[s + 1], rule # 0,
         NEW t, t = Entered[rule + 1]
  PROVE  /\ t \in States /\ PlaceOf(t) = PlaceOf(s)
         /\ \/ s \in OptionEnds /\ t = 17
            \/ s \in ParamEnds /\ t = 56
            \/ s = 6 /\ t = 2
            \/ s = 7 /\ t = 17
            \/ s = 49 /\ t = 52
            \/ s = 52 /\ t = 56
            \/ Size[s + 1] = 0 /\ s \notin {17, 56} /\ Size[t + 1] = 0 /\ t \notin {2, 5, 17, 52, 56}
<1>1. t \in States
  BY ReduceTable
<1>2. \A u \in States : u # YYFINAL /\ yydefact[u + 1] # 0 =>
        /\ u \in InOptions <=> Entered[yydefact[u + 1] + 1] \in InOptions
        /\ u \in InBetween <=> Entered[yydefact[u + 1] + 1] \in InBetween
        /\ u \notin InBegin /\ Entered[yydefact[u + 1] + 1] \notin InBegin
  BY DEF States, YYFINAL, yydefact, Entered, InOptions, InBetween, InBegin
<1>3. PlaceOf(t) = PlaceOf(s)
  BY <1>2 DEF PlaceOf
<1>4. \A u \in States : u # YYFINAL /\ yydefact[u + 1] # 0 =>
        \/ u \in OptionEnds /\ Entered[yydefact[u + 1] + 1] = 17
        \/ u \in ParamEnds /\ Entered[yydefact[u + 1] + 1] = 56
        \/ u = 6 /\ Entered[yydefact[u + 1] + 1] = 2
        \/ u = 7 /\ Entered[yydefact[u + 1] + 1] = 17
        \/ u = 49 /\ Entered[yydefact[u + 1] + 1] = 52
        \/ u = 52 /\ Entered[yydefact[u + 1] + 1] = 56
        \/ /\ u \in {3, 4, 9, 10, 29, 30, 31, 43, 51, 60}
           /\ Entered[yydefact[u + 1] + 1] \in {3, 6, 7, 9, 43, 49}
  BY DEF States, YYFINAL, yydefact, Entered, OptionEnds, ParamEnds
<1>5. /\ \A u \in {3, 4, 9, 10, 29, 30, 31, 43, 51, 60} : Size[u + 1] = 0 /\ u \notin {17, 56}
      /\ \A u \in {3, 6, 7, 9, 43, 49} : Size[u + 1] = 0 /\ u \notin {2, 5, 17, 52, 56}
  BY DEF Size
<1>6. \/ s \in OptionEnds /\ t = 17
      \/ s \in ParamEnds /\ t = 56
      \/ s = 6 /\ t = 2
      \/ s = 7 /\ t = 17
      \/ s = 49 /\ t = 52
      \/ s = 52 /\ t = 56
      \/ /\ s \in {3, 4, 9, 10, 29, 30, 31, 43, 51, 60} /\ t \in {3, 6, 7, 9, 43, 49}
  BY <1>4
<1> QED
  BY <1>1, <1>3, <1>5, <1>6

LEMMA ReduceKeeps ==
  ASSUME NEW s \in States, s # YYFINAL, yydefact[s + 1] # 0,
         NEW t, t = Entered[yydefact[s + 1] + 1],
         NEW w \in Seq(Word), NEW y,
         yypact[s + 1] # YYPACT_NINF => y # YYEMPTY /\ Entry(s, y) = 0,
         Fits(s, w, y)
  PROVE  t \in States /\ Fits(t, w, y)
<1>1. /\ t \in States /\ PlaceOf(t) = PlaceOf(s)
      /\ \/ s \in OptionEnds /\ t = 17
         \/ s \in ParamEnds /\ t = 56
         \/ s = 6 /\ t = 2
         \/ s = 7 /\ t = 17
         \/ s = 49 /\ t = 52
         \/ s = 52 /\ t = 56
         \/ Size[s + 1] = 0 /\ s \notin {17, 56} /\ Size[t + 1] = 0 /\ t \notin {2, 5, 17, 52, 56}
  BY ReductionTable
<1>2. Braces(t, w)
  <2>1. /\ s \in InBegin <=> t \in InBegin
        /\ s \in InOptions <=> t \in InOptions
        /\ s \in InBetween <=> t \in InBetween
        /\ s \in InProfile <=> t \in InProfile
    BY <1>1, PlaceIs
  <2> QED
    BY <2>1 DEF Fits, Braces
<1>3. /\ \A u \in {2, 6, 7, 49, 52} : Size[u + 1] = 0 /\ u \notin {17, 56}
      /\ yypact[6 + 1] # YYPACT_NINF /\ yypact[7 + 1] # YYPACT_NINF
      /\ yypact[49 + 1] # YYPACT_NINF /\ yypact[52 + 1] # YYPACT_NINF
      /\ \A e \in OptionEnds \cup ParamEnds : e \notin {17, 56}
  BY DEF Size, yypact, YYPACT_NINF, OptionEnds, ParamEnds
<1>4. s \notin {17, 56} => Spells(s, Rest(w))
  BY DEF Fits
<1>5. ASSUME s \in OptionEnds /\ t = 17
      PROVE  Fits(t, w, y)
  BY <1>2, <1>3, <1>4, <1>5 DEF Fits
<1>6. ASSUME s \in ParamEnds /\ t = 56
      PROVE  Fits(t, w, y)
  BY <1>2, <1>3, <1>4, <1>6 DEF Fits
<1>7. ASSUME s = 6 /\ t = 2
      PROVE  Fits(t, w, y)
  <2>1. Rest(w) = <<>> /\ y # YYEMPTY /\ Entry(6, y) = 0
    BY <1>3, <1>4, <1>7, SpellsNone
  <2>2. Spells(2, Rest(w))
    BY <1>3, <2>1, SpellsNone
  <2> QED
    BY <1>2, <1>7, <2>1, <2>2 DEF Fits
<1>8. ASSUME s = 7 /\ t = 17
      PROVE  Fits(t, w, y)
  <2>1. Rest(w) = <<>> /\ y # YYEMPTY /\ Entry(7, y) = 0
    BY <1>3, <1>4, <1>8, SpellsNone
  <2> QED
    BY <1>2, <1>8, <2>1 DEF Fits
<1>9. ASSUME s = 49 /\ t = 52
      PROVE  Fits(t, w, y)
  <2>1. Rest(w) = <<>> /\ y # YYEMPTY /\ Entry(49, y) = 0
    BY <1>3, <1>4, <1>9, SpellsNone
  <2>2. Spells(52, Rest(w))
    BY <1>3, <2>1, SpellsNone
  <2> QED
    BY <1>2, <1>9, <2>1, <2>2 DEF Fits
<1>10. ASSUME s = 52 /\ t = 56
      PROVE  Fits(t, w, y)
  <2>1. Rest(w) = <<>> /\ y # YYEMPTY /\ Entry(52, y) = 0 /\ Entry(49, y) = 0
    BY <1>3, <1>4, <1>10, SpellsNone DEF Fits
  <2> QED
    BY <1>2, <1>10, <2>1 DEF Fits
<1>11. ASSUME Size[s + 1] = 0 /\ s \notin {17, 56} /\ Size[t + 1] = 0 /\ t \notin {2, 5, 17, 52, 56}
      PROVE  Fits(t, w, y)
  BY <1>2, <1>4, <1>11, SpellsNone DEF Fits
<1> QED
  BY <1>1, <1>5, <1>6, <1>7, <1>8, <1>9, <1>10, <1>11

LEMMA NoneBehind ==
  \A u \in {2, 5, 7, 17, 49, 52, 56} : Size[u + 1] = 0
BY DEF Size

(* A delimiter is shifted where it ends a statement well. *)
LEMMA DelimiterTable ==
  \A t \in States : WordOf[t + 1] \in Delimiters =>
    /\ Size[t + 1] = 0 /\ t \notin {2, 17, 52, 56}
    /\ \/ t = 4 /\ Below[t + 1] = 1 /\ WordOf[t + 1] = OBRACE
       \/ t = 31 /\ Below[t + 1] = 19 /\ WordOf[t + 1] = OBRACE
       \/ t = 30 /\ Below[t + 1] = 18 /\ WordOf[t + 1] = SEMICOLON
       \/ t = 29 /\ Below[t + 1] = 17 /\ WordOf[t + 1] = SEMICOLON
       \/ t = 60 /\ Below[t + 1] = 56 /\ WordOf[t + 1] = SEMICOLON
       \/ t = 10 /\ Below[t + 1] = 7 /\ WordOf[t + 1] = EBRACE
       \/ t = 51 /\ Below[t + 1] = 49 /\ WordOf[t + 1] = EBRACE
       \/ t = 5 /\ Below[t + 1] = 2 /\ WordOf[t + 1] = EOF
<1>1. \A t \in States : WordOf[t + 1] \in Delimiters => t \in {4, 5, 10, 29, 30, 31, 51, 60}
  BY DEF States, WordOf, Delimiters, EOF, OBRACE, EBRACE, SEMICOLON
<1>2. \A t \in {4, 5, 10, 29, 30, 31, 51, 60} :
    /\ Size[t + 1] = 0 /\ t \notin {2, 17, 52, 56}
    /\ \/ t = 4 /\ Below[t + 1] = 1 /\ WordOf[t + 1] = OBRACE
       \/ t = 31 /\ Below[t + 1] = 19 /\ WordOf[t + 1] = OBRACE
       \/ t = 30 /\ Below[t + 1] = 18 /\ WordOf[t + 1] = SEMICOLON
       \/ t = 29 /\ Below[t + 1] = 17 /\ WordOf[t + 1] = SEMICOLON
       \/ t = 60 /\ Below[t + 1] = 56 /\ WordOf[t + 1] = SEMICOLON
       \/ t = 10 /\ Below[t + 1] = 7 /\ WordOf[t + 1] = EBRACE
       \/ t = 51 /\ Below[t + 1] = 49 /\ WordOf[t + 1] = EBRACE
       \/ t = 5 /\ Below[t + 1] = 2 /\ WordOf[t + 1] = EOF
  BY DEF Size, Below, WordOf, EOF, OBRACE, EBRACE, SEMICOLON
<1> QED
  BY <1>1, <1>2

LEMMA DelimiterEnds ==
  ASSUME NEW t \in States, NEW s, s = Below[t + 1], NEW y, y = WordOf[t + 1],
         y \in Delimiters, NEW w \in Seq(Word), Fits(s, w, y)
  PROVE  Append(Rest(w), y) \in Statements[PlaceOf(s)]
<1>1. /\ 1 \in InBegin /\ 19 \in InBetween /\ 18 \in InBetween /\ 17 \in InOptions
      /\ 56 \in InProfile /\ 7 \in InOptions /\ 49 \in InProfile /\ 2 \in InBetween
      /\ {1, 2, 7, 17, 18, 19, 49, 56} \subseteq States
  BY DEF InBegin, InOptions, InBetween, InProfile, States
<1>0. \/ t = 4 /\ s = 1 /\ y = OBRACE
      \/ t = 31 /\ s = 19 /\ y = OBRACE
      \/ t = 30 /\ s = 18 /\ y = SEMICOLON
      \/ t = 29 /\ s = 17 /\ y = SEMICOLON
      \/ t = 60 /\ s = 56 /\ y = SEMICOLON
      \/ t = 10 /\ s = 7 /\ y = EBRACE
      \/ t = 51 /\ s = 49 /\ y = EBRACE
      \/ t = 5 /\ s = 2 /\ y = EOF
  BY DelimiterTable
<1>2. s \in {1, 2, 7, 17, 18, 19, 49, 56}
  BY <1>0
<1>3. PICK p : p = PlaceOf(s) /\ p \in {"begin", "options", "between", "profile"}
  BY <1>1, <1>2, PlaceIs
<1>4. Rest(w) \in Seq(Word)
  <2>1. EOF \in Word
    BY DEF Word
  <2> QED
    BY <2>1, RestAppended
<1>5. ASSUME NEW e \in StatementEnds, Spells(e, Rest(w)), PlaceOf(e) = p, y = Closer(e)
      PROVE  Append(Rest(w), y) \in Statements[p]
  BY <1>3, <1>4, <1>5, StatementsAre DEF Built
<1>6. ASSUME Rest(w) = <<>>, y \in Bare(p)
      PROVE  Append(Rest(w), y) \in Statements[p]
  <2>1. Append(Rest(w), y) = <<y>>
    BY <1>6
  <2> QED
    BY <1>3, <1>6, <2>1, StatementsAre DEF Built
<1>7. s \notin {17, 56} => Spells(s, Rest(w))
  BY DEF Fits
<1>8. CASE s \in {1, 18, 19}
  <2>1. s \in StatementEnds
    BY <1>8 DEF StatementEnds
  <2>2. Spells(s, Rest(w))
    BY <1>7, <1>8
  <2>3. y = Closer(s)
    BY <1>0, <1>8, EndTable
  <2> QED
    BY <1>3, <1>5, <2>1, <2>2, <2>3
<1>9. CASE s \in {2, 7, 49}
  <2>1. Size[s + 1] = 0 /\ s \notin {17, 56}
    BY <1>9, NoneBehind
  <2>2. Rest(w) = <<>>
    BY <1>7, <2>1, SpellsNone
  <2>3. y \in Bare(p)
    <3>1. /\ s = 2 => p = "between" /\ y = EOF
          /\ s = 7 => p = "options" /\ y = EBRACE
          /\ s = 49 => p = "profile" /\ y = EBRACE
      BY <1>0, <1>1, <1>3, <1>9, PlaceIs
    <3> QED
      BY <1>9, <3>1 DEF Bare
  <2> QED
    BY <1>3, <1>6, <2>2, <2>3
<1>10. CASE s = 17
  <2>1. p = "options" /\ y = SEMICOLON /\ y \in Bare(p)
    <3>1. p = "options"
      BY <1>1, <1>3, <1>10, PlaceIs
    <3>2. y = SEMICOLON
      BY <1>0, <1>10
    <3> QED
      BY <3>1, <3>2 DEF Bare
  <2>2. CASE Rest(w) = <<>>
    BY <1>3, <1>6, <2>1, <2>2
  <2>3. CASE \E e \in OptionEnds : Spells(e, Rest(w))
    <3>1. PICK e \in OptionEnds : Spells(e, Rest(w))
      BY <2>3
    <3>2. e \in StatementEnds /\ PlaceOf(e) = p /\ y = Closer(e)
      BY <2>1, EndTable DEF StatementEnds
    <3> QED
      BY <1>3, <1>5, <3>1, <3>2
  <2> QED
    BY <1>10, <2>2, <2>3 DEF Fits
<1>11. CASE s = 56
  <2>1. p = "profile" /\ y = SEMICOLON /\ y \in Bare(p)
    <3>1. p = "profile"
      BY <1>1, <1>3, <1>11, PlaceIs
    <3>2. y = SEMICOLON
      BY <1>0, <1>11
    <3> QED
      BY <3>1, <3>2 DEF Bare
  <2>2. CASE Rest(w) = <<>>
    BY <1>3, <1>6, <2>1, <2>2
  <2>3. CASE \E e \in ParamEnds : Spells(e, Rest(w))
    <3>1. PICK e \in ParamEnds : Spells(e, Rest(w))
      BY <2>3
    <3>2. e \in StatementEnds /\ PlaceOf(e) = p /\ y = Closer(e)
      BY <2>1, EndTable DEF StatementEnds
    <3> QED
      BY <1>3, <1>5, <3>1, <3>2
  <2> QED
    BY <1>11, <2>2, <2>3 DEF Fits
<1> QED
  BY <1>2, <1>8, <1>9, <1>10, <1>11

LEMMA ShiftKeeps ==
  ASSUME NEW t \in States, NEW s \in States, s = Below[t + 1],
         NEW y, y = WordOf[t + 1], y # YYEMPTY,
         NEW w \in Seq(Word), WellFormed(w), Fits(s, w, y)
  PROVE  WellFormed(Append(w, y)) /\ Fits(t, Append(w, y), YYEMPTY)
<1> DEFINE v == Append(w, y)
<1>1. y \in Word
  BY PlainTable, WordsAre DEF Plain
<1>2. PICK o, c, oo, cc : o = Total(w, OBRACE) /\ c = Total(w, EBRACE)
         /\ oo = Total(v, OBRACE) /\ cc = Total(v, EBRACE)
  OBVIOUS
<1>3. /\ o \in Nat /\ c \in Nat
      /\ oo = o + IF y = OBRACE THEN 1 ELSE 0
      /\ cc = c + IF y = EBRACE THEN 1 ELSE 0
  BY <1>1, <1>2, CountAppended
<1>4. Rest(v) = IF y \in Delimiters THEN <<>> ELSE Append(Rest(w), y)
  BY <1>1, RestAppended
<1>5. Here(w) = PlaceOf(s)
  BY FitsHere DEF Fits
<1>6. WellFormed(v)
  BY <1>1, <1>5, DelimiterEnds, WellFormedAppended
<1> HIDE DEF v
<1>7. CASE y \notin Delimiters
  <2>1. Plain(t)
    BY <1>7 DEF Plain
  <2>2. PlaceOf(t) = PlaceOf(s) /\ s \notin {17, 56} /\ Size[t + 1] \in 1 .. 5
    BY <2>1, PlainTable
  <2>3. Spells(t, Rest(v))
    BY <1>4, <1>7, <2>1, <2>2, SpellsNext DEF Fits
  <2>4. Braces(t, v)
    <3>1. oo = o /\ cc = c
      BY <1>3, <1>7 DEF Delimiters
    <3>2. /\ s \in InBegin <=> t \in InBegin
          /\ s \in InOptions <=> t \in InOptions
          /\ s \in InBetween <=> t \in InBetween
          /\ s \in InProfile <=> t \in InProfile
      BY <2>2, PlaceIs
    <3> QED
      BY <1>2, <3>1, <3>2 DEF Fits, Braces
  <2>5. t \notin {2, 5, 17, 52, 56}
    BY <2>2, NoneBehind
  <2>6. Fits(t, v, YYEMPTY)
    BY <2>3, <2>4, <2>5 DEF Fits
  <2> QED
    BY <1>6, <2>6 DEF v
<1>8. CASE y \in Delimiters
  <2>1. Size[t + 1] = 0 /\ t \notin {2, 17, 52, 56}
    BY <1>8, DelimiterTable
  <2>2. Spells(t, Rest(v))
    BY <1>4, <1>8, <2>1, SpellsNone
  <2>3. Braces(t, v)
    <3>1. /\ s \in InBegin => o = 0 /\ c = 0
          /\ s \in InOptions => o = 1 /\ c = 0
          /\ s \in InBetween => o >= 1 /\ c = o
          /\ s \in InProfile => o >= 2 /\ c = o - 1
      BY <1>2 DEF Fits, Braces
    <3>2. /\ 1 \in InBegin /\ 19 \in InBetween /\ 18 \in InBetween /\ 17 \in InOptions
          /\ 56 \in InProfile /\ 7 \in InOptions /\ 49 \in InProfile /\ 2 \in InBetween
      BY DEF InBegin, InOptions, InBetween, InProfile
    <3>3. /\ 4 \in InOptions /\ 31 \in InProfile /\ 30 \in InBetween /\ 29 \in InOptions
          /\ 60 \in InProfile /\ 10 \in InBetween /\ 51 \in InBetween /\ 5 \in InBetween
      BY DEF InBegin, InOptions, InBetween, InProfile
    <3>4. OBRACE # EBRACE /\ SEMICOLON \notin {OBRACE, EBRACE} /\ EOF \notin {OBRACE, EBRACE}
      BY DEF OBRACE, EBRACE, SEMICOLON, EOF
    <3>5. \/ t = 4 /\ s = 1 /\ y = OBRACE
          \/ t = 31 /\ s = 19 /\ y = OBRACE
          \/ t = 30 /\ s = 18 /\ y = SEMICOLON
          \/ t = 29 /\ s = 17 /\ y = SEMICOLON
          \/ t = 60 /\ s = 56 /\ y = SEMICOLON
          \/ t = 10 /\ s = 7 /\ y = EBRACE
          \/ t = 51 /\ s = 49 /\ y = EBRACE
          \/ t = 5 /\ s = 2 /\ y = EOF
      BY <1>8, DelimiterTable
    <3>6. ASSUME NEW p, p = PlaceOf(t),
                 /\ p = "begin" => oo = 0 /\ cc = 0
                 /\ p = "options" => oo = 1 /\ cc = 0
                 /\ p = "between" => oo >= 1 /\ cc = oo
                 /\ p = "profile" => oo >= 2 /\ cc = oo - 1
          PROVE  Braces(t, v)
      BY <1>2, <3>6, PlaceIs DEF Braces
    <3>7. CASE t = 4 /\ s = 1 /\ y = OBRACE
      BY <1>3, <3>1, <3>2, <3>3, <3>4, <3>6, <3>7, PlaceIs
    <3>8. CASE t = 31 /\ s = 19 /\ y = OBRACE
      BY <1>3, <3>1, <3>2, <3>3, <3>4, <3>6, <3>8, PlaceIs
    <3>9. CASE t = 30 /\ s = 18 /\ y = SEMICOLON
      BY <1>3, <3>1, <3>2, <3>3, <3>4, <3>6, <3>9, PlaceIs
    <3>10. CASE t = 29 /\ s = 17 /\ y = SEMICOLON
      BY <1>3, <3>1, <3>2, <3>3, <3>4, <3>6, <3>10, PlaceIs
    <3>11. CASE t = 60 /\ s = 56 /\ y = SEMICOLON
      BY <1>3, <3>1, <3>2, <3>3, <3>4, <3>6, <3>11, PlaceIs
    <3>12. CASE t = 10 /\ s = 7 /\ y = EBRACE
      BY <1>3, <3>1, <3>2, <3>3, <3>4, <3>6, <3>12, PlaceIs
    <3>13. CASE t = 51 /\ s = 49 /\ y = EBRACE
      BY <1>3, <3>1, <3>2, <3>3, <3>4, <3>6, <3>13, PlaceIs
    <3>14. CASE t = 5 /\ s = 2 /\ y = EOF
      BY <1>3, <3>1, <3>2, <3>3, <3>4, <3>6, <3>14, PlaceIs
    <3> QED
      BY <3>5, <3>7, <3>8, <3>9, <3>10, <3>11, <3>12, <3>13, <3>14
  <2>4. Fits(t, v, YYEMPTY)
    BY <2>1, <2>2, <2>3 DEF Fits
  <2> QED
    BY <1>6, <2>4 DEF v
<1> QED
  BY <1>7, <1>8

(* A word without an entry goes on with no file of the language. *)
LEMMA DirectEntries ==
  /\ Entry(1, OBRACE) # 0 /\ Entry(18, SEMICOLON) # 0 /\ Entry(19, OBRACE) # 0
  /\ Entry(17, SEMICOLON) # 0 /\ Entry(56, SEMICOLON) # 0
  /\ Entry(7, EBRACE) # 0 /\ Entry(49, EBRACE) # 0 /\ Entry(2, EOF) # 0
BY DEF Entry, YYLAST, yypact, yycheck, yytable, EOF, OBRACE, EBRACE, SEMICOLON

LEMMA ErrorTable ==
  \A s \in States : yydefact[s + 1] = 0 =>
    /\ yypact[s + 1] # YYPACT_NINF
    /\ s \in {0, 2, 17, 56} \/ (Size[s + 1] > 0 /\ s \notin OptionEnds /\ s \notin ParamEnds)
<1>1. \A s \in States : yydefact[s + 1] = 0 => yypact[s + 1] # YYPACT_NINF
  BY DEF States, yydefact, yypact, YYPACT_NINF
<1>2. \A s \in States : yydefact[s + 1] = 0 => s \in {0, 2, 17, 56} \/ Size[s + 1] > 0
  BY DEF States, yydefact, Size
<1>3. \A s \in OptionEnds \cup ParamEnds : yydefact[s + 1] # 0
  BY DEF yydefact, OptionEnds, ParamEnds
<1> QED
  BY <1>1, <1>2, <1>3

LEMMA NothingToLookUp ==
  \A e \in OptionEnds \cup ParamEnds : yypact[e + 1] = YYPACT_NINF
BY DEF OptionEnds, ParamEnds, yypact, YYPACT_NINF

LEMMA NothingGoesOn ==
  ASSUME NEW s \in States, yydefact[s + 1] = 0, NEW y \in Word, Entry(s, y) = 0,
         NEW w \in Seq(Word), Fits(s, w, y),
         NEW f \in Statements[PlaceOf(s)], IsPrefix(Append(Rest(w), y), f)
  PROVE  FALSE
<1>1. /\ 2 \in InBetween /\ 6 \in InBetween /\ 7 \in InOptions /\ 17 \in InOptions
      /\ 52 \in InProfile /\ 56 \in InProfile /\ 0 \in InBegin
      /\ {0, 2, 6, 7, 17, 52, 56} \subseteq States
  BY DEF InBegin, InOptions, InBetween, InProfile, States
<1>2. /\ Bare("options") = {SEMICOLON, EBRACE} /\ Bare("profile") = {SEMICOLON, EBRACE}
      /\ Bare("between") = {EOF} /\ Bare("begin") = {}
      /\ OriginOf("options") = 7 /\ OriginOf("profile") = 52
      /\ OriginOf("between") = 6 /\ OriginOf("begin") = 0
  BY DEF Bare, OriginOf
<1>3. ASSUME NEW e \in OptionEnds \cup ParamEnds, PlaceOf(e) = PlaceOf(s), Spells(e, Rest(w))
      PROVE  y = SEMICOLON
  <2>1. e \in StatementEnds /\ e \in States /\ Size[e + 1] > 0 /\ Closer(e) = SEMICOLON
    <3>1. e \in StatementEnds /\ Closer(e) = SEMICOLON
      BY EndTable DEF StatementEnds
    <3>2. e \in States /\ Size[e + 1] \in 1 .. 5
      BY <3>1, EndTable
    <3> QED
      BY <3>1, <3>2
  <2>2. yypact[e + 1] = YYPACT_NINF
    BY NothingToLookUp
  <2>3. f \in Statements[PlaceOf(e)]
    BY <1>3
  <2>4. \/ e \in StatementEnds /\ y = Closer(e)
        \/ Entry(e, y) # 0 /\ yypact[e + 1] # YYPACT_NINF
    BY <1>3, <2>1, <2>3, EntryForNext
  <2> QED
    BY <2>1, <2>2, <2>4
<1>4. ASSUME NEW u \in States, PlaceOf(u) = PlaceOf(s), Size[u + 1] = 0, Rest(w) = <<>>
      PROVE  y \in Bare(PlaceOf(s)) \/ Entry(OriginOf(PlaceOf(s)), y) # 0
  <2>1. Spells(u, Rest(w))
    BY <1>4, SpellsNone
  <2>2. f \in Statements[PlaceOf(u)]
    BY <1>4
  <2>3. y \in Bare(PlaceOf(u)) \/ Entry(OriginOf(PlaceOf(u)), y) # 0
    BY <1>4, <2>1, <2>2, EntryForNext
  <2> QED
    BY <1>4, <2>3
<1>5. CASE s = 0
  <2>1. Size[0 + 1] = 0 /\ s \notin {17, 56}
    BY <1>5 DEF Size
  <2>2. Rest(w) = <<>>
    BY <1>5, <2>1, SpellsNone DEF Fits
  <2>3. PlaceOf(s) = "begin"
    BY <1>1, <1>5, PlaceIs
  <2> QED
    BY <1>2, <1>4, <1>5, <2>1, <2>2, <2>3
<1>6. CASE s = 2
  <2>1. Size[s + 1] = 0 /\ s \notin {17, 56}
    BY <1>6, NoneBehind
  <2>2. Rest(w) = <<>> /\ Entry(6, y) = 0
    BY <1>6, <2>1, SpellsNone DEF Fits
  <2>3. PlaceOf(s) = "between"
    BY <1>1, <1>6, PlaceIs
  <2> QED
    BY <1>2, <1>4, <1>6, <2>1, <2>2, <2>3, DirectEntries
<1>7. CASE s = 17
  <2>1. PlaceOf(s) = "options" /\ PlaceOf(7) = PlaceOf(s)
    BY <1>1, <1>7, PlaceIs
  <2>2. CASE \E e \in OptionEnds : Spells(e, Rest(w))
    <3>1. PICK e \in OptionEnds : Spells(e, Rest(w))
      BY <2>2
    <3>2. y = SEMICOLON
      BY <1>3, <2>1, <3>1, EndTable
    <3> QED
      BY <1>7, <3>2, DirectEntries
  <2>3. CASE Rest(w) = <<>> /\ Entry(7, y) = 0
    <3>1. Size[7 + 1] = 0 /\ 7 \in States
      BY <1>1, NoneBehind
    <3>2. y \in {SEMICOLON, EBRACE} \/ Entry(7, y) # 0
      BY <1>2, <1>4, <2>1, <2>3, <3>1
    <3> QED
      BY <1>7, <2>3, <3>2, DirectEntries
  <2> QED
    BY <1>7, <2>2, <2>3 DEF Fits
<1>8. CASE s = 56
  <2>1. PlaceOf(s) = "profile" /\ PlaceOf(52) = PlaceOf(s)
    BY <1>1, <1>8, PlaceIs
  <2>2. CASE \E e \in ParamEnds : Spells(e, Rest(w))
    <3>1. PICK e \in ParamEnds : Spells(e, Rest(w))
      BY <2>2
    <3>2. y = SEMICOLON
      BY <1>3, <2>1, <3>1, EndTable
    <3> QED
      BY <1>8, <3>2, DirectEntries
  <2>3. CASE Rest(w) = <<>> /\ Entry(49, y) = 0 /\ Entry(52, y) = 0
    <3>1. Size[52 + 1] = 0 /\ 52 \in States
      BY <1>1, NoneBehind
    <3>2. y \in {SEMICOLON, EBRACE} \/ Entry(52, y) # 0
      BY <1>2, <1>4, <2>1, <2>3, <3>1
    <3> QED
      BY <1>8, <2>3, <3>2, DirectEntries
  <2> QED
    BY <1>8, <2>2, <2>3 DEF Fits
<1>9. CASE Size[s + 1] > 0 /\ s \notin {17, 56} /\ s \notin OptionEnds /\ s \notin ParamEnds
  <2>1. Spells(s, Rest(w))
    BY <1>9 DEF Fits
  <2>2. s \in StatementEnds /\ y = Closer(s)
    BY <1>9, <2>1, EntryForNext
  <2>3. s \in {1, 18, 19}
    BY <1>9, <2>2 DEF StatementEnds
  <2> QED
    BY <2>2, <2>3, EndTable, DirectEntries
<1> QED
  BY <1>5, <1>6, <1>7, <1>8, <1>9, ErrorTable

LEMMA Refused ==
  ASSUME NEW s \in States, yydefact[s + 1] = 0, NEW y \in Word, Entry(s, y) = 0,
         NEW w \in Seq(Word), Fits(s, w, y), Viable(Append(w, y))
  PROVE  FALSE
<1> DEFINE v == Append(w, y)
<1>1. /\ WellFormed(v) /\ \E f \in Statements[Here(v)] : IsPrefix(Rest(v), f)
  BY DEF Viable, Here, Rest
<1>2. Here(w) = PlaceOf(s)
  BY FitsHere DEF Fits
<1>3. CASE y \in Delimiters
  <2>1. Append(Rest(w), y) \in Statements[Here(w)]
    BY <1>1, <1>3, WellFormedAppended
  <2>2. IsPrefix(Append(Rest(w), y), Append(Rest(w), y))
    <3>1. Rest(w) \in Seq(Word)
      BY RestAppended
    <3>2. PICK q : q = Append(Rest(w), y) /\ q \in Seq(Word) /\ Len(q) \in Nat
      BY <3>1, Appended
    <3>3. Len(q) <= Len(q)
      BY <3>2
    <3> QED
      BY <3>2, <3>3 DEF IsPrefix
  <2> QED
    BY <1>2, <2>1, <2>2, NothingGoesOn
<1>4. CASE y \notin Delimiters
  <2>1. Rest(v) = Append(Rest(w), y)
    BY <1>4, RestAppended
  <2>2. Here(v) = Here(w)
    <3>1. y # OBRACE /\ y # EBRACE
      BY <1>4 DEF Delimiters
    <3>2. /\ Total(v, OBRACE) = Total(w, OBRACE) + 0 /\ Total(w, OBRACE) \in Nat
          /\ Total(v, EBRACE) = Total(w, EBRACE) + 0 /\ Total(w, EBRACE) \in Nat
      BY <3>1, CountAppended
    <3>3. Total(v, OBRACE) = Total(w, OBRACE) /\ Total(v, EBRACE) = Total(w, EBRACE)
      BY <3>2
    <3>4. v \in Seq(Word)
      BY Appended
    <3> HIDE DEF v
    <3>5. Here(v) = IF Total(v, OBRACE) = 0 THEN "begin"
                    ELSE IF Total(v, OBRACE) <= Total(v, EBRACE) THEN "between"
                    ELSE IF Total(v, OBRACE) = 1 THEN "options" ELSE "profile"
      BY <3>4, HereIs
    <3> QED
      BY <3>3, <3>5, HereIs
  <2> QED
    BY <1>1, <1>2, <2>1, <2>2, NothingGoesOn
<1> QED
  BY <1>3, <1>4

--------------------------------------------------------------------------------
(* The parser accepts the language. *)

LEMMA NoWords ==
  WellFormed(<<>>) /\ Fits(0, <<>>, YYEMPTY)
<1>1. PICK w : w = <<>> /\ w \in Seq(Word) /\ Len(w) = 0 /\ DOMAIN w = {}
  <2>1. <<>> \in Seq(Word) /\ Len(<<>>) = 0
    BY EmptySeq
  <2>2. DOMAIN <<>> = {}
    OBVIOUS
  <2> QED
    BY <2>1, <2>2
<1>2. WellFormed(w)
  BY <1>1 DEF WellFormed, Ends
<1>3. \A x, i : Count(w, x, i) = 0
  <2>1. \A x, i : {j \in DOMAIN w : j < i /\ w[j] = x} = {}
    BY <1>1
  <2> QED
    BY <2>1, FS_EmptySet, Zenon DEF Count
<1>4. Braces(0, w)
  <2>1. Total(w, OBRACE) = 0 /\ Total(w, EBRACE) = 0
    BY <1>3 DEF Total
  <2>2. 0 \notin InOptions /\ 0 \notin InBetween /\ 0 \notin InProfile
    BY DEF InOptions, InBetween, InProfile
  <2> QED
    BY <2>1, <2>2 DEF Braces
<1>5. Rest(w) = <<>>
  <2>1. 1 \in 1 .. Len(w) + 1 /\ Len(w) + 1 = 1
    BY <1>1
  <2>2. Begin(w, 1) \in 1 .. 1
    BY <1>1, <2>1, BeginIs
  <2>3. Begin(w, 1) = 1
    BY <2>2
  <2>4. Rest(w) = SubSeq(w, 1, 0)
    BY <1>1, <2>1, <2>3 DEF Rest
  <2> QED
    BY <1>1, <2>4, SubSeqEmpty
<1>6. Size[0 + 1] = 0
  BY DEF Size
<1>7. Spells(0, Rest(w))
  BY <1>5, <1>6, SpellsNone
<1>8. Fits(0, w, YYEMPTY)
  BY <1>4, <1>7 DEF Fits
<1> QED
  BY <1>1, <1>2, <1>8

(* In the parse. *)
LEMMA LanguageKept ==
  ASSUME pc' \in {"open", "parse"}, cause' = "none", State' \in States,
         Eaten' \in Seq(Word), WellFormed(Eaten'), Fits(State', Eaten', yychar')
  PROVE  LanguageInv'
<1>1. yychar' = YYEMPTY => Eaten' = read'
  BY DEF Eaten
<1>2. yychar' = YYEMPTY => Viable(read')
  BY <1>1, FitsViable
<1> QED
  BY <1>2 DEF LanguageInv, AcceptsTheLanguage

LEMMA LanguageReduce ==
  ASSUME ParserInv, LanguageInv, AtDefault, DefaultRule(State) # 0,
         NEW v \in Values, stack' = Reduced(v), UNCHANGED <<pc, cause, yychar, read>>
  PROVE  LanguageInv'
<1>1. /\ Parsing /\ pc = "parse" /\ Path(stack)
      /\ NeedsWord => yychar # YYEMPTY /\ Entry(State, yychar) = 0
  BY DEF AtDefault, Parsing, ParserInv
<1>2. /\ State \in States /\ State # YYFINAL /\ DefaultRule(State) = yydefact[State + 1]
  BY <1>1, Typed0
<1>3. /\ cause = "none" /\ WellFormed(Eaten) /\ Fits(State, Eaten, yychar)
      /\ Eaten \in Seq(Word) /\ Eaten' = Eaten
  BY <1>1, EatenIs DEF LanguageInv, ParserInv, Eaten
<1>4. State' = Entered[DefaultRule(State) + 1]
  <2>1. Last(Reduced(v)).state = Entered[DefaultRule(State) + 1]
    BY <1>1, ReducedStack
  <2> QED
    BY <2>1 DEF State
<1>5. State' \in States /\ Fits(State', Eaten, yychar)
  BY <1>1, <1>2, <1>3, <1>4, ReduceKeeps DEF NeedsWord
<1> QED
  BY <1>1, <1>3, <1>5, LanguageKept

LEMMA LanguageAction ==
  ASSUME ParserInv, LanguageInv, AtDefault, DefaultRule(State) # 0,
         Continue \/ Abort, UNCHANGED <<yychar, read>>
  PROVE  LanguageInv'
<1>1. CASE Continue
  <2>1. Parsing /\ DefaultVal \in Values
    BY DefaultValue DEF AtDefault, ParserInv
  <2> QED
    BY <1>1, <2>1, LanguageReduce DEF Continue
<1>2. CASE Abort
  BY <1>2 DEF Abort, LanguageInv, AcceptsTheLanguage
<1> QED
  BY <1>1, <1>2

LEMMA LanguageShift ==
  ASSUME ParserInv, LanguageInv, Shift
  PROVE  LanguageInv'
<1>1. /\ pc = "parse" /\ Parsing /\ NeedsWord /\ yychar # YYEMPTY
      /\ Entry(State, yychar) # 0 /\ yychar' = YYEMPTY /\ pc' = pc /\ cause' = cause
  BY DEF Shift, Parsing
<1>2. /\ Eaten' = Append(Eaten, yychar) /\ State' = Entry(State, yychar)
      /\ WordOf[State' + 1] = yychar
  BY StepShift
<1>3. /\ cause = "none" /\ WellFormed(Eaten) /\ Fits(State, Eaten, yychar)
      /\ Eaten \in Seq(Word) /\ yychar \in Word
  BY <1>1, EatenIs DEF LanguageInv, ParserInv
<1>4. State \in States
  BY <1>1, Typed0
<1>5. State' \in States /\ Below[State' + 1] = State
  <2>1. yychar \in 0 .. 44
    BY <1>3 DEF Word, EOF
  <2> QED
    BY <1>1, <1>2, <1>4, <2>1, ShiftTable DEF NeedsWord
<1>6. PICK t : t = State'
  OBVIOUS
<1>7. /\ WellFormed(Append(Eaten, yychar)) /\ Append(Eaten, yychar) \in Seq(Word)
      /\ Fits(t, Append(Eaten, yychar), YYEMPTY)
  BY <1>1, <1>2, <1>3, <1>4, <1>5, <1>6, ShiftKeeps, Appended
<1> QED
  BY <1>1, <1>2, <1>3, <1>5, <1>6, <1>7, LanguageKept

LEMMA LanguageRead ==
  ASSUME ParserInv, LanguageInv, ReadWord
  PROVE  LanguageInv'
<1>1. /\ pc = "parse" /\ State # YYFINAL /\ yychar = YYEMPTY
      /\ UNCHANGED <<pc, stack, cause>>
  BY DEF ReadWord, Parsing
<1>2. Eaten' = Eaten /\ yychar' # YYEMPTY /\ State' = State
  BY <1>1, StepReadWord DEF State
<1>3. /\ cause = "none" /\ WellFormed(Eaten) /\ Fits(State, Eaten, YYEMPTY)
      /\ State \in States /\ Eaten \in Seq(Word)
  BY <1>1, EatenIs, TopOfPath DEF LanguageInv, ParserInv, State
<1>4. Fits(State, Eaten, yychar')
  BY <1>1, <1>3 DEF Fits, YYFINAL
<1> QED
  BY <1>1, <1>2, <1>3, <1>4, LanguageKept

LEMMA LanguageError ==
  ASSUME ParserInv, LanguageInv, SyntaxError
  PROVE  LanguageInv'
<1>1. /\ AtDefault /\ Parsing /\ DefaultRule(State) = 0 /\ pc = "parse"
      /\ pc' = "failed" /\ cause' = "syntax" /\ read' = read
  BY DEF SyntaxError, Reduces, AtDefault, Parsing
<1>2. State \in States /\ yydefact[State + 1] = 0
  BY <1>1, Typed0
<1>3. yychar # YYEMPTY /\ Entry(State, yychar) = 0
  BY <1>1, <1>2, ErrorTable DEF AtDefault, NeedsWord
<1>4. /\ Eaten \in Seq(Word) /\ yychar \in Word /\ read = Append(Eaten, yychar)
  BY <1>3, EatenIs DEF ParserInv
<1>5. Fits(State, Eaten, yychar)
  BY <1>1 DEF LanguageInv
<1>6. ~Viable(read)
  BY <1>2, <1>3, <1>4, <1>5, Refused
<1> QED
  BY <1>1, <1>6 DEF LanguageInv, AcceptsTheLanguage

LEMMA LanguageAccept ==
  ASSUME ParserInv, LanguageInv, Accept
  PROVE  LanguageInv'
<1>1. /\ pc = "parse" /\ State = 5 /\ pc' = "ok" /\ cause' = cause /\ read' = read
  BY DEF Accept, YYFINAL
<1>2. cause = "none" /\ WellFormed(Eaten) /\ yychar = YYEMPTY
  BY <1>1 DEF LanguageInv, Fits
<1>3. Eaten = read /\ read \in Seq(Word)
  BY <1>2, EatenIs DEF ParserInv
<1>4. Len(stack) \in Nat /\ Len(stack) > 0
  <2>1. Len(stack) \in 1 .. 13
    BY TopOfPath DEF ParserInv
  <2>2. \A n \in 1 .. 13 : n \in Nat /\ n > 0
    OBVIOUS
  <2> QED
    BY <2>1, <2>2
<1>5. WordOf[Back(State, 0) + 1] = EOF /\ EOF # YYEMPTY
  BY <1>1, BackIs DEF WordOf, EOF, YYEMPTY
<1>6. /\ stack[Len(stack) - 0].val \in 1 .. Len(read)
      /\ read[stack[Len(stack) - 0].val] = EOF
      /\ stack[Len(stack)].val = Len(read)
  <2>1. 0 \in 0 .. 6
    OBVIOUS
  <2> QED
    BY <1>3, <1>4, <1>5, <2>1, WordValue
<1>7. read # <<>> /\ Last(read) = EOF
  <2>1. Len(stack) - 0 = Len(stack)
    BY <1>4
  <2>2. Len(read) \in 1 .. Len(read) /\ read[Len(read)] = EOF
    BY <1>6, <2>1
  <2> QED
    BY <1>3, <2>2, EmptySeq DEF Last
<1> QED
  BY <1>1, <1>2, <1>3, <1>7 DEF LanguageInv, AcceptsTheLanguage, Sentence

LEMMA LanguageStep ==
  ParserInv /\ LanguageInv /\ [Next]_vars => LanguageInv'
<1> SUFFICES ASSUME ParserInv, LanguageInv, [Next]_vars
             PROVE  LanguageInv'
  OBVIOUS
<1>1. CASE UNCHANGED vars
  <2>1. UNCHANGED <<pc, cause, yychar, read>> /\ Eaten' = Eaten /\ State' = State
    BY <1>1 DEF vars, Eaten, State
  <2> QED
    BY <2>1 DEF LanguageInv, AcceptsTheLanguage
<1>2. CASE Open
  <2>1. /\ pc = "open" /\ UNCHANGED <<stack, yychar, read>> /\ Eaten' = Eaten /\ State' = State
        /\ (pc' = "parse" /\ cause' = cause) \/ (pc' = "failed" /\ cause' = "file")
    BY <1>2 DEF Open, Eaten, State
  <2>2. CASE pc' = "parse" /\ cause' = cause
    <3>1. State \in States /\ Eaten \in Seq(Word)
      BY EatenIs, TopOfPath DEF ParserInv, State
    <3> QED
      BY <2>1, <2>2, <3>1, LanguageKept DEF LanguageInv
  <2>3. CASE pc' = "failed" /\ cause' = "file"
    BY <2>3 DEF LanguageInv, AcceptsTheLanguage
  <2> QED
    BY <2>1, <2>2, <2>3
<1>3. CASE ReducePlain \/ SetOption \/ SetInputFilter \/ SetDbProfiles \/ SetParam \/ SetLimit
  <2>1. /\ AtDefault /\ DefaultRule(State) # 0 /\ UNCHANGED <<yychar, read>>
        /\ Continue \/ Abort
    <3>1. CASE ReducePlain
      BY <3>1 DEF ReducePlain, Reduces
    <3>2. CASE SetOption
      BY <3>2 DEF SetOption, Reduces
    <3>3. CASE SetInputFilter
      BY <3>3 DEF SetInputFilter, Reduces
    <3>4. CASE SetDbProfiles
      BY <3>4 DEF SetDbProfiles, Reduces
    <3>5. CASE SetParam
      BY <3>5 DEF SetParam, Reduces
    <3>6. CASE SetLimit
      BY <3>6 DEF SetLimit, Reduces
    <3> QED
      BY <1>3, <3>1, <3>2, <3>3, <3>4, <3>5, <3>6
  <2> QED
    BY <2>1, LanguageAction
<1>4. CASE AddProfile
  <2>1. /\ AtDefault /\ DefaultRule(State) # 0 /\ UNCHANGED <<yychar, read>>
        /\ \/ stack' = Reduced(Len(profiles')) /\ UNCHANGED <<pc, cause>>
           \/ Abort
    BY <1>4 DEF AddProfile, Reduces
  <2>2. CASE stack' = Reduced(Len(profiles')) /\ UNCHANGED <<pc, cause>>
    <3>1. Len(profiles') \in Values
      <4>1. ParserInv'
        BY <1>4, StepAddProfile
      <4> QED
        BY <4>1 DEF ParserInv, TypeOK, Values
    <3> QED
      BY <2>1, <2>2, <3>1, LanguageReduce
  <2> QED
    BY <2>1, <2>2, LanguageAction
<1>5. CASE PassProfile
  <2>1. /\ AtDefault /\ DefaultRule(State) # 0 /\ UNCHANGED <<yychar, read, pc, cause>>
        /\ stack' = Reduced(Val(0, 1)) /\ Parsing /\ DefaultRule(State) = 25
    BY <1>5 DEF PassProfile, Reduces, AtDefault
  <2>2. Val(0, 1) \in Values
    BY <1>5, PassedValue
  <2> QED
    BY <2>1, <2>2, LanguageReduce
<1> QED
  BY <1>1, <1>2, <1>3, <1>4, <1>5, LanguageShift, LanguageRead, LanguageError, LanguageAccept
     DEF Next, Step, Returned

LEMMA InitLanguage == Init => LanguageInv
<1> SUFFICES ASSUME Init PROVE LanguageInv
  OBVIOUS
<1>1. pc = "open" /\ cause = "none" /\ Eaten = <<>> /\ yychar = YYEMPTY /\ State = 0
  BY BottomAlone, EmptySeq DEF Init, Eaten, State
<1> QED
  BY <1>1, NoWords DEF LanguageInv, AcceptsTheLanguage

(* However long a file is and whatever words it has: the parser accepts it *)
(* only if it is a file of the language, refuses it only at a word with    *)
(* which no file of the language goes on, and shifts no word after which   *)
(* there is no way left to end the file (the tables of config.tab.c:505-   *)
(* 620, compressed, with default reductions).                              *)
THEOREM ParserAcceptsLanguage == Spec => []AcceptsTheLanguage
<1>1. LanguageInv => AcceptsTheLanguage
  BY DEF LanguageInv
<1> QED
  BY InitParser, ParserStep, InitLanguage, LanguageStep, <1>1, PTL DEF Spec
--------------------------------------------------------------------------------
(* Where a statement is written in a file. *)

(* The file ends with the words f. *)
EndsWith(w, f) ==
  Len(f) <= Len(w) /\ \A k \in 0 .. 5 : k < Len(f) => w[Len(w) - k] = f[Len(f) - k]

LEMMA OccursAt ==
  ASSUME NEW s \in Seq(Word), NEW f \in Seq(Word), NEW i \in 1 .. Len(s)
  PROVE  IsPrefix(f, SubSeq(s, i, Len(s))) <=>
           i + Len(f) <= Len(s) + 1 /\ \A j \in 1 .. Len(f) : s[i + j - 1] = f[j]
<1> DEFINE n == Len(s)
           u == SubSeq(s, i, n)
<1>1. n \in Nat /\ Len(f) \in Nat /\ i \in 1 .. n
  BY LenProperties
<1>2. /\ u \in Seq(Word) /\ Len(u) = n - i + 1
      /\ \A j \in 1 .. n - i + 1 : u[j] = s[i + j - 1]
  <2>1. \A j \in i .. n : s[j] \in Word
    BY <1>1, ElementOfSeq
  <2>2. i \in Nat /\ n \in Nat /\ i <= n + 1 /\ s \in Seq(Word)
    BY <1>1
  <2> QED
    BY <2>1, <2>2, SubSeqProperties
<1> HIDE DEF u, n
<1>3. CASE Len(f) <= Len(u)
  <2>1. Len(f) \in 0 .. Len(u)
    BY <1>1, <1>2, <1>3
  <2>2. /\ SubSeq(u, 1, Len(f)) \in Seq(Word) /\ Len(SubSeq(u, 1, Len(f))) = Len(f)
        /\ \A j \in 1 .. Len(f) : SubSeq(u, 1, Len(f))[j] = u[j]
    BY <1>2, <2>1, PrefixOf
  <2>3. /\ SubSeq(f, 1, Len(f)) \in Seq(Word) /\ Len(SubSeq(f, 1, Len(f))) = Len(f)
        /\ \A j \in 1 .. Len(f) : SubSeq(f, 1, Len(f))[j] = f[j]
    <3>1. Len(f) \in 0 .. Len(f)
      BY <1>1
    <3> QED
      BY <3>1, PrefixOf
  <2>4. (\A j \in 1 .. Len(f) : u[j] = f[j]) <=> SubSeq(f, 1, Len(f)) = SubSeq(u, 1, Len(f))
    <3>1. ASSUME \A j \in 1 .. Len(f) : u[j] = f[j]
          PROVE  SubSeq(f, 1, Len(f)) = SubSeq(u, 1, Len(f))
      <4>1. \A j \in 1 .. Len(f) : SubSeq(f, 1, Len(f))[j] = SubSeq(u, 1, Len(f))[j]
        BY <2>2, <2>3, <3>1
      <4> QED
        BY <2>2, <2>3, <4>1, SeqEqual
    <3>2. ASSUME SubSeq(f, 1, Len(f)) = SubSeq(u, 1, Len(f)), NEW j \in 1 .. Len(f)
          PROVE  u[j] = f[j]
      BY <2>2, <2>3, <3>2
    <3> QED
      BY <3>1, <3>2
  <2>5. \A j \in 1 .. Len(f) : u[j] = s[i + j - 1]
    <3>1. \A j \in 1 .. Len(f) : j \in 1 .. n - i + 1
      BY <1>1, <1>2, <1>3
    <3> QED
      BY <1>2, <3>1
  <2>6. i + Len(f) <= n + 1
    BY <1>1, <1>2, <1>3
  <2> QED
    BY <1>3, <2>4, <2>5, <2>6 DEF IsPrefix, u, n
<1>4. CASE ~(Len(f) <= Len(u))
  <2>1. ~(i + Len(f) <= n + 1)
    BY <1>1, <1>2, <1>4
  <2> QED
    BY <1>4, <2>1 DEF IsPrefix, u, n
<1> QED
  BY <1>3, <1>4

(* One more word ends a statement, or none. *)
LEMMA OccurrencesAppended ==
  ASSUME NEW s \in Seq(Word), NEW w \in Word, NEW f \in Seq(Word), Len(f) \in 1 .. 5
  PROVE  /\ Occurrences(Append(s, w), f) =
              Occurrences(s, f) \cup {i \in {Len(s) + 2 - Len(f)} : EndsWith(Append(s, w), f)}
         /\ Occurrences(s, f) \subseteq 1 .. Len(s) + 1 - Len(f)
<1> DEFINE t == Append(s, w)
           n == Len(s)
           m == Len(f)
<1>1. /\ t \in Seq(Word) /\ Len(t) = n + 1 /\ n \in Nat /\ t[n + 1] = w
      /\ \A i \in 1 .. n : t[i] = s[i]
      /\ DOMAIN t = 1 .. n + 1 /\ DOMAIN s = 1 .. n
  BY Appended
<1>0. m \in 1 .. 5
  OBVIOUS
<1> HIDE DEF t, n, m
<1>2. \A i : i \in Occurrences(s, f) <=>
        i \in 1 .. n /\ i + m <= n + 1 /\ \A j \in 1 .. m : s[i + j - 1] = f[j]
  BY <1>1, OccursAt DEF Occurrences, n, m
<1>3. \A i : i \in Occurrences(t, f) <=>
        i \in 1 .. n + 1 /\ i + m <= n + 2 /\ \A j \in 1 .. m : t[i + j - 1] = f[j]
  <2>1. Len(t) + 1 = n + 2
    BY <1>1
  <2> QED
    BY <1>1, <2>1, OccursAt DEF Occurrences, m
<1>4. EndsWith(t, f) <=> m <= n + 1 /\ \A j \in 1 .. m : t[n + 2 - m + j - 1] = f[j]
  <2>1. ASSUME EndsWith(t, f), NEW j \in 1 .. m
        PROVE  m <= n + 1 /\ t[n + 2 - m + j - 1] = f[j]
    <3>1. m - j \in 0 .. 5 /\ m - j < m
      BY <1>0
    <3>2. t[n + 1 - (m - j)] = f[m - (m - j)] /\ m <= n + 1
      <4>1. m <= n + 1 /\ \A k \in 0 .. 5 : k < m => t[n + 1 - k] = f[m - k]
        BY <1>1, <2>1 DEF EndsWith, m
      <4> QED
        BY <3>1, <4>1
    <3>3. n + 1 - (m - j) = n + 2 - m + j - 1 /\ m - (m - j) = j
      BY <1>0, <1>1
    <3> QED
      BY <3>2, <3>3
  <2>2. ASSUME m <= n + 1, \A j \in 1 .. m : t[n + 2 - m + j - 1] = f[j]
        PROVE  EndsWith(t, f)
    <3>1. ASSUME NEW k \in 0 .. 5, k < m PROVE t[n + 1 - k] = f[m - k]
      <4>1. m - k \in 1 .. m
        BY <1>0, <3>1
      <4>2. t[n + 2 - m + (m - k) - 1] = f[m - k]
        BY <2>2, <4>1
      <4>3. n + 2 - m + (m - k) - 1 = n + 1 - k
        BY <1>0, <1>1
      <4> QED
        BY <4>2, <4>3
    <3> QED
      BY <1>1, <2>2, <3>1 DEF EndsWith, m
  <2>3. 1 \in 1 .. m
    BY <1>0
  <2> QED
    BY <2>1, <2>2, <2>3
<1>5. ASSUME NEW i PROVE i \in Occurrences(t, f) <=>
        i \in Occurrences(s, f) \/ (i = n + 2 - m /\ EndsWith(t, f))
  <2>1. CASE i = n + 2 - m
    <3>1. ~(i + m <= n + 1) /\ i + m <= n + 2 /\ (m <= n + 1 <=> i \in 1 .. n + 1)
      BY <1>0, <1>1, <2>1
    <3> QED
      BY <1>2, <1>3, <1>4, <2>1, <3>1
  <2>2. CASE i # n + 2 - m
    <3>1. i \in 1 .. n + 1 /\ i + m <= n + 2 <=> i \in 1 .. n /\ i + m <= n + 1
      BY <1>0, <1>1, <2>2
    <3>2. ASSUME i \in 1 .. n, i + m <= n + 1, NEW j \in 1 .. m PROVE t[i + j - 1] = s[i + j - 1]
      <4>1. i + j - 1 \in 1 .. n
        BY <1>0, <1>1, <3>2
      <4> QED
        BY <1>1, <4>1
    <3> QED
      BY <1>2, <1>3, <2>2, <3>1, <3>2
  <2> QED
    BY <2>1, <2>2
<1>6. Occurrences(t, f) = Occurrences(s, f) \cup {i \in {n + 2 - m} : EndsWith(t, f)}
  BY <1>5
<1>7. Occurrences(s, f) \subseteq 1 .. n + 1 - m
  <2>1. \A i \in 1 .. n : i + m <= n + 1 => i \in 1 .. n + 1 - m
    BY <1>0, <1>1
  <2> QED
    BY <1>2, <2>1
<1> QED
  BY <1>6, <1>7 DEF t, n, m

LEMMA LastValueAppended ==
  ASSUME NEW s \in Seq(Word), NEW w \in Word, NEW f \in Seq(Word), Len(f) \in 1 .. 5
  PROVE  LastValue(Append(s, w), f) =
           IF EndsWith(Append(s, w), f) THEN Len(s) + 1 ELSE LastValue(s, f)
<1> DEFINE t == Append(s, w)
           n == Len(s)
           m == Len(f)
<1>1. n \in Nat /\ m \in 1 .. 5
  BY LenProperties
<1>2. /\ Occurrences(t, f) = Occurrences(s, f) \cup {i \in {n + 2 - m} : EndsWith(t, f)}
      /\ Occurrences(s, f) \subseteq 1 .. n + 1 - m
  BY OccurrencesAppended
<1> HIDE DEF t, n, m
<1>3. CASE EndsWith(t, f)
  <2> DEFINE S == Occurrences(t, f)
  <2>1. S = Occurrences(s, f) \cup {n + 2 - m}
    BY <1>2, <1>3
  <2>2. \A i \in S : i <= n + 2 - m /\ i \in Int
    BY <1>1, <1>2, <2>1
  <2>3. n + 2 - m \in S
    BY <2>1
  <2> HIDE DEF S
  <2>4. Max(S) \in S /\ \A i \in S : Max(S) >= i
    BY <2>2, <2>3 DEF Max
  <2>5. Max(S) = n + 2 - m
    BY <1>1, <2>2, <2>3, <2>4
  <2>6. LastValue(t, f) = Max(S) + m - 1
    BY <2>3 DEF LastValue, S, m
  <2>7. LastValue(t, f) = n + 1
    BY <1>1, <2>5, <2>6
  <2> QED
    BY <1>3, <2>7 DEF t, n
<1>4. CASE ~EndsWith(t, f)
  <2>1. Occurrences(t, f) = Occurrences(s, f)
    BY <1>2, <1>4
  <2> QED
    BY <1>4, <2>1 DEF LastValue, t
<1> QED
  BY <1>3, <1>4 DEF t

LEMMA NothingWritten ==
  ASSUME NEW f
  PROVE  Occurrences(<<>>, f) = {} /\ LastValue(<<>>, f) = 0
BY DEF Occurrences, LastValue

(* A statement without delimiters at the end of the file is at the end of  *)
(* what was read since the last delimiter.                                 *)
LEMMA EndsInRest ==
  ASSUME NEW v \in Seq(Word), NEW f, Len(f) \in 1 .. 5,
         \A k \in 0 .. 5 : k < Len(f) => f[Len(f) - k] \notin Delimiters
  PROVE  /\ EndsWith(v, f) <=> EndsWith(Rest(v), f)
         /\ Rest(v) \in Seq(Word) /\ Len(Rest(v)) \in Nat
<1> DEFINE n == Len(v)
           m == Len(f)
           b == Begin(v, n + 1)
           r == Rest(v)
<1>1. n \in Nat /\ m \in 1 .. 5 /\ n + 1 \in 1 .. Len(v) + 1
  BY LenProperties
<1>0. \A k \in 0 .. 5 : k < m => f[m - k] \notin Delimiters
  OBVIOUS
<1>2. /\ b \in 1 .. n + 1
      /\ \A j \in b .. (n + 1) - 1 : v[j] \notin Delimiters
      /\ b = 1 \/ v[b - 1] \in Delimiters
  BY <1>1, BeginIs
<1>3. r = SubSeq(v, b, n)
  BY DEF Rest
<1> HIDE DEF n, m, b, r
<1>4. /\ r \in Seq(Word) /\ Len(r) = n - b + 1
      /\ \A i \in 1 .. n - b + 1 : r[i] = v[b + i - 1]
  <2>1. \A i \in b .. n : v[i] \in Word
    BY <1>2, ElementOfSeq DEF n
  <2>2. b \in Nat /\ n \in Nat /\ b <= n + 1 /\ v \in Seq(Word)
    BY <1>1, <1>2
  <2> QED
    BY <1>3, <2>1, <2>2, SubSeqProperties
<1>5. Len(r) \in Nat /\ Len(r) <= n
  BY <1>1, <1>2, <1>4
<1>6. ASSUME NEW k \in 0 .. 5, k < Len(r) PROVE r[Len(r) - k] = v[n - k]
  <2>1. Len(r) - k \in 1 .. n - b + 1 /\ b + (Len(r) - k) - 1 = n - k
    BY <1>1, <1>2, <1>4, <1>6
  <2> QED
    BY <1>4, <2>1
<1>7. ASSUME m <= n, \A k \in 0 .. 5 : k < m => v[n - k] = f[m - k]
      PROVE  m <= Len(r)
  <2>0. m <= n
    BY <1>7
  <2>1. ASSUME m > Len(r) PROVE FALSE
    <3>1. Len(r) \in 0 .. 5 /\ b > 1
      BY <1>1, <1>2, <1>4, <1>5, <2>0, <2>1
    <3>2. Len(r) < m
      BY <1>1, <1>5, <2>1
    <3>4. v[n - Len(r)] = f[m - Len(r)] /\ f[m - Len(r)] \notin Delimiters
      BY <1>0, <1>7, <3>1, <3>2
    <3>3. n - Len(r) = b - 1
      BY <1>1, <1>2, <1>4
    <3> QED
      BY <1>2, <3>1, <3>3, <3>4
  <2> QED
    BY <1>1, <1>5, <2>1
<1>8. ASSUME EndsWith(v, f) PROVE EndsWith(r, f)
  <2>1. m <= n /\ \A k \in 0 .. 5 : k < m => v[n - k] = f[m - k]
    BY <1>8 DEF EndsWith, n, m
  <2>2. m <= Len(r)
    BY <1>7, <2>1
  <2>3. ASSUME NEW k \in 0 .. 5, k < m PROVE r[Len(r) - k] = f[m - k]
    <3>1. k < Len(r)
      BY <1>1, <1>5, <2>2, <2>3
    <3> QED
      BY <1>6, <2>1, <2>3, <3>1
  <2> QED
    BY <2>2, <2>3 DEF EndsWith, m
<1>9. ASSUME EndsWith(r, f) PROVE EndsWith(v, f)
  <2>1. m <= Len(r) /\ \A k \in 0 .. 5 : k < m => r[Len(r) - k] = f[m - k]
    BY <1>9 DEF EndsWith, m
  <2>2. m <= n
    BY <1>1, <1>5, <2>1
  <2>3. ASSUME NEW k \in 0 .. 5, k < m PROVE v[n - k] = f[m - k]
    <3>1. k < Len(r)
      BY <1>1, <1>5, <2>1, <2>3
    <3> QED
      BY <1>6, <2>1, <2>3, <3>1
  <2> QED
    BY <2>2, <2>3 DEF EndsWith, m, n
<1> QED
  BY <1>4, <1>5, <1>8, <1>9 DEF r

(* The last two and three words before a state, and the states they end a  *)
(* statement in.                                                           *)
Ends2(s, u, v) == WordOf[s + 1] = v /\ WordOf[Below[s + 1] + 1] = u
Ends3(s, u, v, w) == Ends2(s, v, w) /\ WordOf[Below[Below[s + 1] + 1] + 1] = u

LEMMA LastThree ==
  ASSUME NEW s \in States, NEW r, Spells(s, r), NEW f, Len(f) \in 2 .. 5, EndsWith(r, f)
  PROVE  /\ Ends2(s, f[Len(f) - 1], f[Len(f)])
         /\ Len(f) > 2 => Ends3(s, f[Len(f) - 2], f[Len(f) - 1], f[Len(f)])
<1> DEFINE m == Len(f)
           n == Len(r)
<1>1. m \in 2 .. 5 /\ n \in Nat /\ m <= n
  BY LenProperties DEF Spells, EndsWith
<1>2. /\ \A k \in 0 .. 5 : k < n => r[n - k] = WordOf[Back(s, k) + 1]
      /\ \A k \in 0 .. 5 : k < m => r[n - k] = f[m - k]
  BY DEF Spells, EndsWith
<1> HIDE DEF m, n
<1>3. \A k \in 0 .. 5 : k < m => f[m - k] = WordOf[Back(s, k) + 1]
  BY <1>1, <1>2
<1>4. /\ f[m - 0] = WordOf[Back(s, 0) + 1] /\ f[m - 1] = WordOf[Back(s, 1) + 1]
      /\ m > 2 => f[m - 2] = WordOf[Back(s, 2) + 1]
  BY <1>1, <1>3
<1>5. m - 0 = m
  BY <1>1
<1> QED
  BY <1>4, <1>5, BackIs DEF Ends2, Ends3, m

LEMMA EndsTable ==
  \A s \in States :
    /\ Ends2(s, LEVELTOK, NUMBER) => s = 32
    /\ Ends2(s, FILETOK, STRINGTOK) => s = 33
    /\ Ends2(s, SIZETOK, NUMBER) => s = 37
    /\ Ends2(s, SHMTOK, STRINGTOK) => s = 39
    /\ Ends3(s, INPUTTOK, FILTERTOK, STRINGTOK) => s = 38
    /\ Ends2(s, CONNECTTOK, STRINGTOK) => s = 40
    /\ Ends2(s, INTERVALTOK, NUMBER) => s = 47
    /\ Ends2(s, PPSTOK, NUMBER) => s = 50
    /\ Ends3(s, STARTTOK, COMMANDTOK, STRINGTOK) => s = 44
    /\ Ends3(s, STOPTOK, COMMANDTOK, STRINGTOK) => s = 45
    /\ Ends2(s, DELAYTOK, NUMBER) => s = 46
    /\ Ends2(s, PROFILETOK, DBTOK) => s = 18
<1>1. /\ DOMAIN WordOf = 1 .. 68 /\ DOMAIN Below = 1 .. 68
  BY DEF WordOf, Below
<1>2. \A s \in States : Below[s + 1] \in States
  BY BelowTable
<1>3. \A s \in States : WordOf[s + 1] = NUMBER => s \in {32, 37, 46, 47, 50, 57}
  BY DEF States, WordOf, NUMBER
<1>4. \A s \in States : WordOf[s + 1] = STRINGTOK =>
        s \in {19, 33, 38, 39, 40, 44, 45, 58, 59}
  BY DEF States, WordOf, STRINGTOK
<1>5. \A s \in States : WordOf[s + 1] = DBTOK => s \in {16, 18}
  BY DEF States, WordOf, DBTOK
<1> QED
  BY <1>3, <1>4, <1>5
     DEF Ends2, Ends3, Below, WordOf, LEVELTOK, NUMBER, FILETOK, STRINGTOK, SIZETOK, SHMTOK,
         INPUTTOK, FILTERTOK, CONNECTTOK, INTERVALTOK, PPSTOK, STARTTOK, COMMANDTOK, STOPTOK,
         DELAYTOK, PROFILETOK, DBTOK

(* The state at the end of a statement of the options, and no other state, *)
(* is entered when the file ends with that statement.                      *)
LEMMA OptionForms ==
  /\ DOMAIN OptionForm = {"debug", "pid_file", "window_size", "shm", "filter", "db_connstr",
       "export_interval", "export_min_pps", "exec_start", "exec_stop", "stop_delay"}
  /\ OptionForm.debug = <<DEBUGTOK, LEVELTOK, NUMBER>>
  /\ OptionForm.pid_file = <<PIDTOK, FILETOK, STRINGTOK>>
  /\ OptionForm.window_size = <<WINDOWTOK, SIZETOK, NUMBER>>
  /\ OptionForm.shm = <<INPUTTOK, SHMTOK, STRINGTOK>>
  /\ OptionForm.filter = <<INPUTTOK, FILTERTOK, STRINGTOK>>
  /\ OptionForm.db_connstr = <<DBTOK, CONNECTTOK, STRINGTOK>>
  /\ OptionForm.export_interval = <<DBTOK, EXPORTTOK, INTERVALTOK, NUMBER>>
  /\ OptionForm.export_min_pps = <<DBTOK, EXPORTTOK, MINTOK, PPSTOK, NUMBER>>
  /\ OptionForm.exec_start = <<ACTIONTOK, STARTTOK, COMMANDTOK, STRINGTOK>>
  /\ OptionForm.exec_stop = <<ACTIONTOK, STOPTOK, COMMANDTOK, STRINGTOK>>
  /\ OptionForm.stop_delay = <<ACTIONTOK, STOPTOK, DELAYTOK, NUMBER>>
BY DEF OptionForm

LEMMA FinalStates ==
  /\ FinalOf.debug = 32 /\ FinalOf.pid_file = 33 /\ FinalOf.window_size = 37
  /\ FinalOf.shm = 39 /\ FinalOf.filter = 38 /\ FinalOf.db_connstr = 40
  /\ FinalOf.export_interval = 47 /\ FinalOf.export_min_pps = 50
  /\ FinalOf.exec_start = 44 /\ FinalOf.exec_stop = 45 /\ FinalOf.stop_delay = 46
BY DEF FinalOf

LEMMA LastOfOption ==
  ASSUME NEW t \in States, NEW o \in DOMAIN OptionForm,
         NEW f, f = OptionForm[o], NEW m, m = Len(f),
         Ends2(t, f[m - 1], f[m]), Ends3(t, f[m - 2], f[m - 1], f[m])
  PROVE  t = FinalOf[o]
<1>1. CASE o = "debug"
  <2>1. f = <<DEBUGTOK, LEVELTOK, NUMBER>>
    BY <1>1, OptionForms
  <2>2. m = 3
    BY <2>1
  <2>3. f[m - 1] = LEVELTOK /\ f[m] = NUMBER
    BY <2>1, <2>2
  <2> QED
    BY <1>1, <2>3, EndsTable, FinalStates
<1>2. CASE o = "pid_file"
  <2>1. f = <<PIDTOK, FILETOK, STRINGTOK>>
    BY <1>2, OptionForms
  <2>2. m = 3
    BY <2>1
  <2>3. f[m - 1] = FILETOK /\ f[m] = STRINGTOK
    BY <2>1, <2>2
  <2> QED
    BY <1>2, <2>3, EndsTable, FinalStates
<1>3. CASE o = "window_size"
  <2>1. f = <<WINDOWTOK, SIZETOK, NUMBER>>
    BY <1>3, OptionForms
  <2>2. m = 3
    BY <2>1
  <2>3. f[m - 1] = SIZETOK /\ f[m] = NUMBER
    BY <2>1, <2>2
  <2> QED
    BY <1>3, <2>3, EndsTable, FinalStates
<1>4. CASE o = "shm"
  <2>1. f = <<INPUTTOK, SHMTOK, STRINGTOK>>
    BY <1>4, OptionForms
  <2>2. m = 3
    BY <2>1
  <2>3. f[m - 1] = SHMTOK /\ f[m] = STRINGTOK
    BY <2>1, <2>2
  <2> QED
    BY <1>4, <2>3, EndsTable, FinalStates
<1>5. CASE o = "filter"
  <2>1. f = <<INPUTTOK, FILTERTOK, STRINGTOK>>
    BY <1>5, OptionForms
  <2>2. m = 3
    BY <2>1
  <2>3. f[m - 2] = INPUTTOK /\ f[m - 1] = FILTERTOK /\ f[m] = STRINGTOK
    BY <2>1, <2>2
  <2> QED
    BY <1>5, <2>3, EndsTable, FinalStates
<1>6. CASE o = "db_connstr"
  <2>1. f = <<DBTOK, CONNECTTOK, STRINGTOK>>
    BY <1>6, OptionForms
  <2>2. m = 3
    BY <2>1
  <2>3. f[m - 1] = CONNECTTOK /\ f[m] = STRINGTOK
    BY <2>1, <2>2
  <2> QED
    BY <1>6, <2>3, EndsTable, FinalStates
<1>7. CASE o = "export_interval"
  <2>1. f = <<DBTOK, EXPORTTOK, INTERVALTOK, NUMBER>>
    BY <1>7, OptionForms
  <2>2. m = 4
    BY <2>1
  <2>3. f[m - 1] = INTERVALTOK /\ f[m] = NUMBER
    BY <2>1, <2>2
  <2> QED
    BY <1>7, <2>3, EndsTable, FinalStates
<1>8. CASE o = "export_min_pps"
  <2>1. f = <<DBTOK, EXPORTTOK, MINTOK, PPSTOK, NUMBER>>
    BY <1>8, OptionForms
  <2>2. m = 5
    BY <2>1
  <2>3. f[m - 1] = PPSTOK /\ f[m] = NUMBER
    BY <2>1, <2>2
  <2> QED
    BY <1>8, <2>3, EndsTable, FinalStates
<1>9. CASE o = "exec_start"
  <2>1. f = <<ACTIONTOK, STARTTOK, COMMANDTOK, STRINGTOK>>
    BY <1>9, OptionForms
  <2>2. m = 4
    BY <2>1
  <2>3. f[m - 2] = STARTTOK /\ f[m - 1] = COMMANDTOK /\ f[m] = STRINGTOK
    BY <2>1, <2>2
  <2> QED
    BY <1>9, <2>3, EndsTable, FinalStates
<1>10. CASE o = "exec_stop"
  <2>1. f = <<ACTIONTOK, STOPTOK, COMMANDTOK, STRINGTOK>>
    BY <1>10, OptionForms
  <2>2. m = 4
    BY <2>1
  <2>3. f[m - 2] = STOPTOK /\ f[m - 1] = COMMANDTOK /\ f[m] = STRINGTOK
    BY <2>1, <2>2
  <2> QED
    BY <1>10, <2>3, EndsTable, FinalStates
<1>11. CASE o = "stop_delay"
  <2>1. f = <<ACTIONTOK, STOPTOK, DELAYTOK, NUMBER>>
    BY <1>11, OptionForms
  <2>2. m = 4
    BY <2>1
  <2>3. f[m - 1] = DELAYTOK /\ f[m] = NUMBER
    BY <2>1, <2>2
  <2> QED
    BY <1>11, <2>3, EndsTable, FinalStates
<1> QED
  BY <1>1, <1>2, <1>3, <1>4, <1>5, <1>6, <1>7, <1>8, <1>9, <1>10, <1>11, OptionForms

(* Statements that are spelled hold no delimiters. *)
LEMMA SpelledPlain ==
  ASSUME NEW e \in States, NEW f, Spells(e, f)
  PROVE  /\ f \in Seq(Word) /\ Len(f) = Size[e + 1] /\ Len(f) \in 0 .. 5
         /\ \A k \in 0 .. 5 : k < Len(f) => f[Len(f) - k] \notin Delimiters
<1>1. f \in Seq(Word) /\ Len(f) = Size[e + 1] /\ Len(f) \in 0 .. 5
  BY SizeTable DEF Spells
<1>2. ASSUME NEW k \in 0 .. 5, k < Len(f) PROVE f[Len(f) - k] \notin Delimiters
  <2>1. Plain(Back(e, k))
    BY <1>1, <1>2, BackPlain
  <2>2. f[Len(f) - k] = WordOf[Back(e, k) + 1]
    BY <1>2 DEF Spells
  <2> QED
    BY <2>1, <2>2 DEF Plain
<1> QED
  BY <1>1, <1>2

LEMMA EndsOfOptions ==
  /\ \A e \in OptionEnds : Size[e + 1] \in 3 .. 5
  /\ WordOf[17 + 1] = YYEMPTY /\ WordOf[56 + 1] = YYEMPTY
BY DEF OptionEnds, Size, WordOf, YYEMPTY

LEMMA OptionAt ==
  ASSUME NEW t \in States, NEW w \in Seq(Word), Fits(t, w, YYEMPTY),
         WordOf[t + 1] # YYEMPTY, NEW o \in DOMAIN OptionForm
  PROVE  /\ EndsWith(w, OptionForm[o]) <=> t = FinalOf[o]
         /\ OptionForm[o] \in Seq(Word) /\ Len(OptionForm[o]) \in 1 .. 5
<1> DEFINE f == OptionForm[o]
           e == FinalOf[o]
<1>1. e \in OptionEnds /\ Spells(e, f)
  BY OptionsSpelled
<1>2. e \in States /\ Size[e + 1] \in 1 .. 5
  BY <1>1, EndTable DEF StatementEnds
<1> HIDE DEF e, f
<1>3. /\ f \in Seq(Word) /\ Len(f) = Size[e + 1]
      /\ \A k \in 0 .. 5 : k < Len(f) => f[Len(f) - k] \notin Delimiters
  BY <1>1, <1>2, SpelledPlain
<1>4. Len(f) \in 3 .. 5
  BY <1>1, <1>3, EndsOfOptions
<1>5. Spells(t, Rest(w))
  <2>1. t \notin {17, 56}
    BY EndsOfOptions
  <2> QED
    BY <2>1 DEF Fits
<1>6. EndsWith(w, f) <=> EndsWith(Rest(w), f)
  <2>1. Len(f) \in 1 .. 5
    BY <1>4
  <2> QED
    BY <1>3, <2>1, EndsInRest
<1>7. ASSUME t = e PROVE EndsWith(Rest(w), f)
  <2>0. Spells(e, Rest(w)) /\ Size[e + 1] \in 0 .. 5
    BY <1>2, <1>5, <1>7
  <2>1. Rest(w) = f
    BY <1>1, <2>0, SpelledOnce
  <2> QED
    BY <1>4, <2>1 DEF EndsWith
<1>8. ASSUME EndsWith(Rest(w), f) PROVE t = e
  <2>1. /\ Ends2(t, f[Len(f) - 1], f[Len(f)])
        /\ Ends3(t, f[Len(f) - 2], f[Len(f) - 1], f[Len(f)])
    <3>1. Len(f) \in 2 .. 5 /\ Len(f) > 2
      <4>1. \A n \in 3 .. 5 : n \in 2 .. 5 /\ n > 2
        OBVIOUS
      <4> QED
        BY <1>4, <4>1
    <3> QED
      BY <1>5, <1>8, <3>1, LastThree, Zenon
  <2> QED
    BY <2>1, LastOfOption DEF f, e
<1> QED
  BY <1>3, <1>4, <1>6, <1>7, <1>8 DEF f, e

(* So is the state behind "profile database ;". *)
LEMMA DbHeaderAt ==
  ASSUME NEW t \in States, NEW s, s = Below[t + 1], NEW y, y = WordOf[t + 1], y # YYEMPTY,
         NEW w \in Seq(Word), Fits(s, w, y)
  PROVE  EndsWith(Append(w, y), DbHeader) <=> t = 30
<1> DEFINE f == <<PROFILETOK, DBTOK>>
           v == Append(w, y)
<1>1. y \in Word /\ s \in States
  BY PlainTable, WordsAre, BelowTable DEF Plain
<1>2. /\ v \in Seq(Word) /\ Len(v) = Len(w) + 1 /\ v[Len(w) + 1] = y /\ Len(w) \in Nat
      /\ \A i \in 1 .. Len(w) : v[i] = w[i]
  BY <1>1, Appended
<1> HIDE DEF v
<1>3. /\ Len(DbHeader) = 3 /\ DbHeader[3] = SEMICOLON /\ DbHeader[2] = DBTOK
      /\ DbHeader[1] = PROFILETOK
  BY DEF DbHeader
<1>4. f \in Seq(Word) /\ Len(f) = 2 /\ f[1] = PROFILETOK /\ f[2] = DBTOK
  BY WordsAre
<1> HIDE DEF f
<1>5. EndsWith(w, f) <=> Len(w) >= 2 /\ w[Len(w)] = DBTOK /\ w[Len(w) - 1] = PROFILETOK
  <2>1. \A k \in 0 .. 5 : k < 2 <=> k = 0 \/ k = 1
    OBVIOUS
  <2>2. Len(w) - 0 = Len(w)
    BY <1>2
  <2> QED
    BY <1>4, <2>1, <2>2 DEF EndsWith
<1>6. EndsWith(v, DbHeader) <=> y = SEMICOLON /\ EndsWith(w, f)
  <2>1. \A k \in 0 .. 5 : k < 3 <=> k = 0 \/ k = 1 \/ k = 2
    OBVIOUS
  <2>2. Len(v) - 0 = Len(w) + 1 /\ Len(v) - 1 = Len(w) /\ Len(v) - 2 = Len(w) - 1
    BY <1>2
  <2>3. EndsWith(v, DbHeader) <=>
          /\ 3 <= Len(v)
          /\ v[Len(w) + 1] = SEMICOLON /\ v[Len(w)] = DBTOK /\ v[Len(w) - 1] = PROFILETOK
    BY <1>3, <2>1, <2>2 DEF EndsWith
  <2>4. Len(w) >= 2 => v[Len(w)] = w[Len(w)] /\ v[Len(w) - 1] = w[Len(w) - 1]
    BY <1>2
  <2> QED
    BY <1>2, <1>5, <2>3, <2>4
<1>7. EndsWith(w, f) <=> EndsWith(Rest(w), f)
  <2>1. \A k \in 0 .. 5 : k < 2 <=> k = 0 \/ k = 1
    OBVIOUS
  <2>2. \A k \in 0 .. 5 : k < Len(f) => f[Len(f) - k] \notin Delimiters
    BY <1>4, <2>1 DEF Delimiters, DBTOK, PROFILETOK, EOF, OBRACE, EBRACE, SEMICOLON
  <2>3. Len(f) \in 1 .. 5
    BY <1>4
  <2> QED
    BY <2>2, <2>3, EndsInRest
<1>8. ASSUME t = 30 PROVE y = SEMICOLON /\ EndsWith(Rest(w), f)
  <2>1. s = 18 /\ y = SEMICOLON
    BY <1>8 DEF Below, WordOf, SEMICOLON
  <2>2. Spells(18, Rest(w))
    BY <2>1 DEF Fits
  <2>3. Spells(18, f)
    <3>1. Trail2(18, PROFILETOK, DBTOK)
      BY DEF Trail2, Size, WordOf, Below, PROFILETOK, DBTOK
    <3> QED
      BY <3>1, WordsAre, Spells2 DEF f
  <2>4. Size[18 + 1] \in 0 .. 5
    BY DEF Size
  <2>5. Rest(w) = f
    BY <2>2, <2>3, <2>4, SpelledOnce
  <2>6. EndsWith(f, f)
    BY <1>4 DEF EndsWith
  <2> QED
    BY <2>1, <2>5, <2>6
<1>9. ASSUME y = SEMICOLON, EndsWith(Rest(w), f) PROVE t = 30
  <2>1. \/ t = 30 \/ s = 17 \/ s = 56
    <3>1. WordOf[t + 1] = SEMICOLON /\ SEMICOLON \in Delimiters
      BY <1>9 DEF Delimiters
    <3>2. SEMICOLON # OBRACE /\ SEMICOLON # EBRACE /\ SEMICOLON # EOF
      BY DEF SEMICOLON, OBRACE, EBRACE, EOF
    <3> QED
      BY <3>1, <3>2, DelimiterTable
  <2>2. Rest(w) # <<>>
    <3>1. Len(Rest(w)) >= 2
      BY <1>4, <1>9 DEF EndsWith
    <3> QED
      BY <3>1, EmptySeq
  <2>3. ASSUME NEW e \in OptionEnds \cup ParamEnds, Spells(e, Rest(w)) PROVE FALSE
    <3>1. e \in States
      BY EndTable DEF StatementEnds
    <3>2. Ends2(e, PROFILETOK, DBTOK)
      <4>1. Len(f) \in 2 .. 5 /\ Len(f) - 1 = 1
        BY <1>4
      <4> QED
        BY <1>4, <1>9, <2>3, <3>1, <4>1, LastThree
    <3>3. e = 18
      BY <3>1, <3>2, EndsTable
    <3> QED
      BY <3>3 DEF OptionEnds, ParamEnds
  <2> QED
    BY <2>1, <2>2, <2>3 DEF Fits
<1> QED
  BY <1>6, <1>7, <1>8, <1>9 DEF v

(* While the parser runs, each option has the value of the last statement  *)
(* about it in what was read, unless the parser is at the end of one and   *)
(* has still to reduce it.                                                 *)
Told == DOMAIN OptionForm \ {"exec_start", "exec_stop"}
CommandForms == {OptionForm.exec_start, OptionForm.exec_stop}
CommandEnds == {FinalOf.exec_start, FinalOf.exec_stop}

OptionsInv ==
  /\ pc \in {"open", "parse"} =>
       /\ \A o \in Told :
            /\ o \in fromarg => opt[o] = 0
            /\ State = FinalOf[o] => LastValue(Eaten, OptionForm[o]) = Len(Eaten)
            /\ State # FinalOf[o] /\ o \notin fromarg =>
                 opt[o] = LastValue(Eaten, OptionForm[o])
       /\ opt.exec_stop = 0
       /\ \A f \in CommandForms : LastValue(Eaten, f) \in 0 .. Len(Eaten)
       /\ State \in CommandEnds => LastCommand(Eaten) = Len(Eaten)
       /\ State \notin CommandEnds => opt.exec_start = LastCommand(Eaten)
       /\ State = 30 => Occurrences(Eaten, DbHeader) # {}
       /\ State # 30 => (opt.db_profiles = 1 <=> Occurrences(Eaten, DbHeader) # {})
  /\ SettingsAsWritten

(* The rule by which a statement about an option is reduced. *)
LEMMA RuleOfOption ==
  \A t \in States, o \in Told :
    t = FinalOf[o] <=>
      /\ yydefact[t + 1] \in 7 .. 17
      /\ o = IF yydefact[t + 1] = 11 THEN "filter" ELSE Assigned(yydefact[t + 1])
<1> DEFINE by == [t \in OptionEnds |-> yydefact[t + 1]]
<1>1. \A t \in States : yydefact[t + 1] \in 7 .. 17 => t \in OptionEnds
  BY DEF States, yydefact, OptionEnds
<1>2. /\ yydefact[32 + 1] = 7 /\ yydefact[33 + 1] = 8 /\ yydefact[37 + 1] = 9
      /\ yydefact[39 + 1] = 10 /\ yydefact[38 + 1] = 11 /\ yydefact[40 + 1] = 12
      /\ yydefact[47 + 1] = 13 /\ yydefact[50 + 1] = 14 /\ yydefact[44 + 1] = 15
      /\ yydefact[45 + 1] = 16 /\ yydefact[46 + 1] = 17
  BY DEF yydefact
<1>3. /\ Assigned(7) = "debug" /\ Assigned(8) = "pid_file" /\ Assigned(9) = "window_size"
      /\ Assigned(10) = "shm" /\ Assigned(12) = "db_connstr"
      /\ Assigned(13) = "export_interval" /\ Assigned(14) = "export_min_pps"
      /\ Assigned(15) = "exec_start" /\ Assigned(16) = "exec_start"
      /\ Assigned(17) = "stop_delay"
  BY DEF Assigned
<1>4. Told = {"debug", "pid_file", "window_size", "shm", "filter", "db_connstr",
              "export_interval", "export_min_pps", "stop_delay"}
  BY OptionForms DEF Told
<1>5. ASSUME NEW t \in OptionEnds, NEW o \in Told
      PROVE  /\ yydefact[t + 1] \in 7 .. 17
             /\ t = FinalOf[o] <=>
                  o = IF yydefact[t + 1] = 11 THEN "filter" ELSE Assigned(yydefact[t + 1])
  BY <1>2, <1>3, <1>4, FinalStates DEF OptionEnds
<1>6. \A o \in Told : FinalOf[o] \in OptionEnds
  BY OptionsSpelled DEF Told
<1> QED
  BY <1>1, <1>5, <1>6

(* Neither at the end of a statement nor behind "profile database ;" is a  *)
(* word shifted, and no reduction enters these states.                     *)
LEMMA PassingStates ==
  \A t \in States :
    /\ yypact[t + 1] # YYPACT_NINF => t # 30 /\ t \notin OptionEnds
    /\ WordOf[t + 1] = YYEMPTY => t # 30 /\ t \notin OptionEnds
    /\ t = 30 <=> yydefact[t + 1] = 23
<1>1. /\ yypact[30 + 1] = YYPACT_NINF /\ WordOf[30 + 1] # YYEMPTY
      /\ \A e \in OptionEnds : WordOf[e + 1] # YYEMPTY
  BY DEF yypact, YYPACT_NINF, WordOf, YYEMPTY, OptionEnds
<1>2. \A t \in States : t = 30 <=> yydefact[t + 1] = 23
  BY DEF States, yydefact
<1> QED
  BY <1>1, <1>2, NothingToLookUp

(* Rules 15 and 16, and no others, store a command. *)
LEMMA RuleOfCommand ==
  /\ CommandEnds \subseteq OptionEnds
  /\ \A t \in States : t \in CommandEnds <=> yydefact[t + 1] \in {15, 16}
  /\ \A rule \in {7, 8, 9, 10, 12, 13, 14, 15, 16, 17} :
       /\ Assigned(rule) = "exec_start" <=> rule \in {15, 16}
       /\ Assigned(rule) # "exec_stop"
<1>1. CommandEnds = {44, 45}
  BY FinalStates DEF CommandEnds
<1>2. \A t \in States : t \in {44, 45} <=> yydefact[t + 1] \in {15, 16}
  BY DEF States, yydefact
<1>3. \A rule \in {7, 8, 9, 10, 12, 13, 14, 15, 16, 17} :
        /\ Assigned(rule) = "exec_start" <=> rule \in {15, 16}
        /\ Assigned(rule) # "exec_stop"
  <2>1. /\ Assigned(7) = "debug" /\ Assigned(8) = "pid_file" /\ Assigned(9) = "window_size"
        /\ Assigned(10) = "shm" /\ Assigned(12) = "db_connstr"
        /\ Assigned(13) = "export_interval" /\ Assigned(14) = "export_min_pps"
        /\ Assigned(15) = "exec_start" /\ Assigned(16) = "exec_start"
        /\ Assigned(17) = "stop_delay"
    BY DEF Assigned
  <2> QED
    BY <2>1
<1> QED
  BY <1>1, <1>2, <1>3 DEF OptionEnds

LEMMA OptionsReduce ==
  ASSUME ParserInv, OptionsInv, AtDefault, DefaultRule(State) # 0,
         NEW v \in Values, stack' = Reduced(v), UNCHANGED <<pc, yychar, read, fromarg>>,
         \A o \in Told :
           /\ o \in fromarg => opt'[o] = opt[o]
           /\ State = FinalOf[o] /\ o \notin fromarg => opt'[o] = Len(Eaten)
           /\ State # FinalOf[o] => opt'[o] = opt[o],
         opt'.exec_stop = opt.exec_stop,
         State \in CommandEnds => opt'.exec_start = Len(Eaten),
         State \notin CommandEnds => opt'.exec_start = opt.exec_start,
         opt'.db_profiles = 1 <=> State = 30 \/ opt.db_profiles = 1
  PROVE  OptionsInv'
<1>1. Parsing /\ pc = "parse" /\ Path(stack)
  BY DEF AtDefault, Parsing, ParserInv
<1>2. State \in States
  BY <1>1, Typed0
<1>3. State' \in States /\ WordOf[State' + 1] = YYEMPTY
  <2>1. /\ Last(Reduced(v)).state = Entered[DefaultRule(State) + 1]
        /\ Entered[DefaultRule(State) + 1] \in States
        /\ WordOf[Entered[DefaultRule(State) + 1] + 1] = YYEMPTY
    BY <1>1, ReducedStack
  <2> QED
    BY <2>1 DEF State
<1>4. State' # 30 /\ State' \notin CommandEnds /\ \A o \in Told : State' # FinalOf[o]
  BY <1>3, PassingStates, OptionsSpelled, RuleOfCommand DEF Told
<1>5. Eaten' = Eaten
  BY DEF Eaten
<1>6. ASSUME NEW o \in Told
      PROVE  /\ o \in fromarg => opt'[o] = 0
             /\ o \notin fromarg => opt'[o] = LastValue(Eaten, OptionForm[o])
  BY <1>1 DEF OptionsInv
<1>7. opt'.db_profiles = 1 <=> Occurrences(Eaten, DbHeader) # {}
  BY <1>1 DEF OptionsInv
<1>8. /\ opt'.exec_stop = 0 /\ opt'.exec_start = LastCommand(Eaten)
      /\ \A f \in CommandForms : LastValue(Eaten, f) \in 0 .. Len(Eaten)
  BY <1>1 DEF OptionsInv
<1> QED
  BY <1>1, <1>4, <1>5, <1>6, <1>7, <1>8 DEF OptionsInv, SettingsAsWritten

LEMMA OptionsAborted ==
  ASSUME Abort
  PROVE  OptionsInv'
BY DEF Abort, OptionsInv, SettingsAsWritten

(* A reduction that sets no option. *)
LEMMA OptionsPassed ==
  ASSUME ParserInv, OptionsInv, AtDefault, DefaultRule(State) \notin {0, 23} \cup (7 .. 17),
         NEW v \in Values, stack' = Reduced(v), UNCHANGED <<pc, yychar, read, fromarg, opt>>
  PROVE  OptionsInv'
<1>1. Parsing
  BY DEF AtDefault
<1>2. State \in States /\ DefaultRule(State) = yydefact[State + 1]
  BY <1>1, Typed0
<1>3. State # 30 /\ State \notin CommandEnds /\ \A o \in Told : State # FinalOf[o]
  <2>1. yydefact[State + 1] \notin 7 .. 17 /\ yydefact[State + 1] \notin {15, 16}
    BY <1>2
  <2> QED
    BY <1>2, <2>1, PassingStates, RuleOfOption, RuleOfCommand
<1> QED
  BY <1>3, OptionsReduce

LEMMA OptionsSet ==
  ASSUME ParserInv, OptionsInv, SetOption
  PROVE  OptionsInv'
<1> DEFINE rule == DefaultRule(State)
           len == yyr2[rule + 1]
<1>1. /\ AtDefault /\ Parsing /\ rule \in (7 .. 10) \cup (12 .. 17) /\ Continue
      /\ opt' = IF Assigned(rule) \in fromarg THEN opt
                ELSE [opt EXCEPT ![Assigned(rule)] = Val(len, len)]
      /\ UNCHANGED <<yychar, read, fromarg>>
  BY DEF SetOption, Reduces, AtDefault
<1>2. State \in States /\ rule = yydefact[State + 1]
  BY <1>1, Typed0
<1>3. DefaultVal \in Values /\ stack' = Reduced(DefaultVal) /\ UNCHANGED pc
  BY <1>1, DefaultValue DEF Continue, ParserInv
<1>4. rule \in 7 .. 17 /\ rule \notin {0, 11, 23} /\ len \in Nat
  <2>1. rule \in 7 .. 17 /\ rule \notin {0, 11, 23}
    BY <1>1
  <2>2. len \in 0 .. 6
    BY <1>2, RuleTable
  <2> QED
    BY <2>1, <2>2
<1>5. Val(len, len) = Len(Eaten)
  <2>1. WordOf[State + 1] # YYEMPTY
    BY <1>2, <1>4, LastWords
  <2> QED
    BY <1>1, <1>4, <2>1, TopValue
<1>6. opt \in [Settings -> Nat] /\ Told \subseteq Settings /\ "db_profiles" \in Settings
      /\ "db_profiles" \notin Told /\ {"exec_start", "exec_stop"} \subseteq Settings
  BY SettingsAre, OptionForms DEF Told, ParserInv, TypeOK
<1>7. State # 30 /\ \A o \in Told : State = FinalOf[o] <=> o = Assigned(rule)
  BY <1>2, <1>4, PassingStates, RuleOfOption
<1>8. Assigned(rule) # "db_profiles"
  <2>1. \A r \in {7, 8, 9, 10, 12, 13, 14, 15, 16, 17} : Assigned(r) # "db_profiles"
    BY DEF Assigned
  <2>2. rule \in {7, 8, 9, 10, 12, 13, 14, 15, 16, 17}
    BY <1>1
  <2> QED
    BY <2>1, <2>2
<1>11. /\ State \in CommandEnds <=> Assigned(rule) = "exec_start"
       /\ Assigned(rule) # "exec_stop"
  <2>1. rule \in {7, 8, 9, 10, 12, 13, 14, 15, 16, 17}
    BY <1>1
  <2> QED
    BY <1>2, <2>1, RuleOfCommand
<1>12. "exec_start" \notin fromarg
  BY ConfigParserAssumption DEF ConfigParserAssumption, ParserInv, TypeOK
<1> HIDE DEF rule, len
<1>9. ASSUME NEW o \in Told
      PROVE  /\ o \in fromarg => opt'[o] = opt[o]
             /\ State = FinalOf[o] /\ o \notin fromarg => opt'[o] = Len(Eaten)
             /\ State # FinalOf[o] => opt'[o] = opt[o]
  BY <1>1, <1>5, <1>6, <1>7
<1>10. opt'.db_profiles = opt.db_profiles
  BY <1>1, <1>6, <1>8
<1>13. /\ opt'.exec_stop = opt.exec_stop
       /\ State \in CommandEnds => opt'.exec_start = Len(Eaten)
       /\ State \notin CommandEnds => opt'.exec_start = opt.exec_start
  BY <1>1, <1>5, <1>6, <1>11, <1>12
<1> QED
  BY <1>1, <1>3, <1>4, <1>7, <1>9, <1>10, <1>13, OptionsReduce DEF rule

LEMMA OptionsFilter ==
  ASSUME ParserInv, OptionsInv, SetInputFilter
  PROVE  OptionsInv'
<1>1. /\ AtDefault /\ Parsing /\ DefaultRule(State) = 11
      /\ UNCHANGED <<yychar, read, fromarg>>
      /\ \/ opt' = [opt EXCEPT !.filter = Val(3, 3)] /\ Continue
         \/ Abort
  BY DEF SetInputFilter, Reduces, AtDefault
<1>2. CASE opt' = [opt EXCEPT !.filter = Val(3, 3)] /\ Continue
  <2>1. State \in States /\ yydefact[State + 1] = 11
    BY <1>1, Typed0
  <2>2. DefaultVal \in Values /\ stack' = Reduced(DefaultVal) /\ UNCHANGED pc
    BY <1>1, <1>2, DefaultValue DEF Continue, ParserInv
  <2>3. Val(3, 3) = Len(Eaten)
    BY <1>1, <2>1, LastWords, TopValue
  <2>4. /\ opt \in [Settings -> Nat] /\ Told \subseteq Settings
        /\ {"db_profiles", "exec_start", "exec_stop"} \subseteq Settings
    BY SettingsAre, OptionForms DEF Told, ParserInv, TypeOK
  <2>5. State # 30 /\ \A o \in Told : State = FinalOf[o] <=> o = "filter"
    BY <2>1, PassingStates, RuleOfOption
  <2>6. "filter" \notin fromarg
    BY ConfigParserAssumption DEF ConfigParserAssumption, ParserInv, TypeOK
  <2>7. ASSUME NEW o \in Told
        PROVE  /\ o \in fromarg => opt'[o] = opt[o]
               /\ State = FinalOf[o] /\ o \notin fromarg => opt'[o] = Len(Eaten)
               /\ State # FinalOf[o] => opt'[o] = opt[o]
    BY <1>2, <2>3, <2>4, <2>5, <2>6
  <2>8. /\ opt'.db_profiles = opt.db_profiles
        /\ opt'.exec_start = opt.exec_start /\ opt'.exec_stop = opt.exec_stop
    BY <1>2, <2>4
  <2>9. DefaultRule(State) # 0
    BY <1>1
  <2>10. State \notin CommandEnds
    BY <2>1, RuleOfCommand
  <2> QED
    BY <1>1, <2>2, <2>5, <2>7, <2>8, <2>9, <2>10, OptionsReduce
<1> QED
  BY <1>1, <1>2, OptionsAborted

LEMMA OptionsDb ==
  ASSUME ParserInv, OptionsInv, SetDbProfiles
  PROVE  OptionsInv'
<1>1. /\ AtDefault /\ Parsing /\ DefaultRule(State) = 23 /\ Continue
      /\ UNCHANGED <<yychar, read, fromarg>>
      /\ opt' = [opt EXCEPT !.db_profiles = 1]
  BY DEF SetDbProfiles, Reduces, AtDefault
<1>2. State \in States /\ yydefact[State + 1] = 23
  BY <1>1, Typed0
<1>3. DefaultVal \in Values /\ stack' = Reduced(DefaultVal) /\ UNCHANGED pc
  BY <1>1, DefaultValue DEF Continue, ParserInv
<1>4. /\ opt \in [Settings -> Nat] /\ "db_profiles" \in Settings /\ "db_profiles" \notin Told
      /\ Told \subseteq Settings /\ {"exec_start", "exec_stop"} \subseteq Settings
  BY SettingsAre, OptionForms DEF Told, ParserInv, TypeOK
<1>5. State = 30 /\ State \notin CommandEnds /\ \A o \in Told : State # FinalOf[o]
  BY <1>2, PassingStates, RuleOfOption, RuleOfCommand
<1>6. /\ opt'.db_profiles = 1 /\ \A o \in Told : opt'[o] = opt[o]
      /\ opt'.exec_start = opt.exec_start /\ opt'.exec_stop = opt.exec_stop
  BY <1>1, <1>4
<1>7. DefaultRule(State) # 0
  BY <1>1
<1> QED
  BY <1>1, <1>3, <1>5, <1>6, <1>7, OptionsReduce

LEMMA OptionsShift ==
  ASSUME ParserInv, LanguageInv, OptionsInv, Shift
  PROVE  OptionsInv'
<1>1. /\ pc = "parse" /\ Parsing /\ NeedsWord /\ yychar # YYEMPTY
      /\ Entry(State, yychar) # 0 /\ UNCHANGED <<pc, fromarg, opt>> /\ yychar' = YYEMPTY
  BY DEF Shift, Parsing
<1>2. /\ Eaten' = Append(Eaten, yychar) /\ State' = Entry(State, yychar)
      /\ WordOf[State' + 1] = yychar
  BY StepShift
<1>3. /\ Eaten \in Seq(Word) /\ yychar \in Word /\ Fits(State, Eaten, yychar)
      /\ Len(Eaten) \in Nat
  BY <1>1, EatenIs DEF LanguageInv, ParserInv
<1>4. /\ State \in States /\ State # 30 /\ State \notin CommandEnds
      /\ \A o \in Told : State # FinalOf[o]
  BY <1>1, Typed0, PassingStates, OptionsSpelled, RuleOfCommand DEF NeedsWord, Told
<1>5. State' \in States /\ Below[State' + 1] = State
  <2>1. yychar \in 0 .. 44
    BY <1>3 DEF Word, EOF
  <2> QED
    BY <1>1, <1>2, <1>4, <2>1, ShiftTable DEF NeedsWord
<1>6. Fits(State', Eaten', YYEMPTY)
  BY <1>1, LanguageShift DEF LanguageInv
<1>7. PICK t, w : t = State' /\ w = Eaten'
  OBVIOUS
<1>8. w = Append(Eaten, yychar) /\ w \in Seq(Word) /\ Len(w) = Len(Eaten) + 1
  BY <1>2, <1>3, <1>7, Appended
<1>9. ASSUME NEW o \in Told
      PROVE  /\ t = FinalOf[o] => LastValue(w, OptionForm[o]) = Len(w)
             /\ t # FinalOf[o] /\ o \notin fromarg => opt[o] = LastValue(w, OptionForm[o])
             /\ o \in fromarg => opt[o] = 0
  <2>1. o \in DOMAIN OptionForm
    BY DEF Told
  <2>2. /\ EndsWith(w, OptionForm[o]) <=> t = FinalOf[o]
        /\ OptionForm[o] \in Seq(Word) /\ Len(OptionForm[o]) \in 1 .. 5
    BY <1>1, <1>2, <1>5, <1>6, <1>7, <1>8, <2>1, OptionAt
  <2>3. LastValue(w, OptionForm[o]) =
          IF t = FinalOf[o] THEN Len(w) ELSE LastValue(Eaten, OptionForm[o])
    BY <1>3, <1>8, <2>2, LastValueAppended
  <2>4. /\ o \notin fromarg => opt[o] = LastValue(Eaten, OptionForm[o])
        /\ o \in fromarg => opt[o] = 0
    BY <1>1, <1>4 DEF OptionsInv
  <2> QED
    BY <2>3, <2>4
<1>10. /\ t = 30 => Occurrences(w, DbHeader) # {}
       /\ t # 30 => (opt.db_profiles = 1 <=> Occurrences(w, DbHeader) # {})
  <2>1. EndsWith(w, DbHeader) <=> t = 30
    BY <1>1, <1>2, <1>3, <1>5, <1>7, <1>8, DbHeaderAt
  <2>2. DbHeader \in Seq(Word) /\ Len(DbHeader) = 3 /\ Len(DbHeader) \in 1 .. 5
    BY WordsAre DEF DbHeader, Delimiters
  <2>3. Occurrences(w, DbHeader) = Occurrences(Eaten, DbHeader) \cup
          {i \in {Len(Eaten) + 2 - Len(DbHeader)} : EndsWith(w, DbHeader)}
    <3>1. Occurrences(Append(Eaten, yychar), DbHeader) = Occurrences(Eaten, DbHeader) \cup
            {i \in {Len(Eaten) + 2 - Len(DbHeader)} : EndsWith(Append(Eaten, yychar), DbHeader)}
      BY <1>3, <2>2, OccurrencesAppended, Zenon
    <3> QED
      BY <1>8, <3>1
  <2>4. opt.db_profiles = 1 <=> Occurrences(Eaten, DbHeader) # {}
    BY <1>1, <1>4 DEF OptionsInv
  <2>5. /\ t = 30 => Occurrences(w, DbHeader) # {}
        /\ t # 30 => Occurrences(w, DbHeader) = Occurrences(Eaten, DbHeader)
    BY <2>1, <2>3
  <2> QED
    BY <2>4, <2>5
<1>11. /\ \A f \in CommandForms : LastValue(w, f) \in 0 .. Len(w)
       /\ t \in CommandEnds => LastCommand(w) = Len(w)
       /\ t \notin CommandEnds => opt.exec_start = LastCommand(w)
  <2>1. {"exec_start", "exec_stop"} \subseteq DOMAIN OptionForm
    BY OptionForms
  <2>2. \A o \in {"exec_start", "exec_stop"} :
          /\ EndsWith(w, OptionForm[o]) <=> t = FinalOf[o]
          /\ OptionForm[o] \in Seq(Word) /\ Len(OptionForm[o]) \in 1 .. 5
    BY <1>1, <1>2, <1>5, <1>6, <1>7, <1>8, <2>1, OptionAt
  <2>3. \A o \in {"exec_start", "exec_stop"} :
          LastValue(w, OptionForm[o]) =
            IF t = FinalOf[o] THEN Len(w) ELSE LastValue(Eaten, OptionForm[o])
    BY <1>3, <1>8, <2>2, LastValueAppended
  <2>4. /\ LastValue(Eaten, OptionForm.exec_start) \in 0 .. Len(Eaten)
        /\ LastValue(Eaten, OptionForm.exec_stop) \in 0 .. Len(Eaten)
        /\ opt.exec_start = LastCommand(Eaten)
    BY <1>1, <1>4 DEF OptionsInv, CommandForms
  <2>5. /\ LastValue(w, OptionForm.exec_start) =
             IF t = FinalOf.exec_start THEN Len(w) ELSE LastValue(Eaten, OptionForm.exec_start)
        /\ LastValue(w, OptionForm.exec_stop) =
             IF t = FinalOf.exec_stop THEN Len(w) ELSE LastValue(Eaten, OptionForm.exec_stop)
    BY <2>3
  <2> QED
    BY <1>3, <1>8, <2>4, <2>5 DEF LastCommand, CommandForms, CommandEnds
<1>12. opt.exec_stop = 0
  BY <1>1 DEF OptionsInv
<1> QED
  BY <1>1, <1>7, <1>9, <1>10, <1>11, <1>12 DEF OptionsInv, SettingsAsWritten

LEMMA OptionsAccept ==
  ASSUME ParserInv, LanguageInv, OptionsInv, Accept
  PROVE  OptionsInv'
<1>1. /\ pc = "parse" /\ State = 5 /\ pc' = "ok" /\ UNCHANGED <<read, fromarg, opt>>
  BY DEF Accept, YYFINAL
<1>2. Eaten = read
  BY <1>1 DEF LanguageInv, Fits, Eaten
<1>3. State # 30 /\ State \notin CommandEnds /\ \A o \in Told : State # FinalOf[o]
  <2>1. 5 \notin OptionEnds
    BY DEF OptionEnds
  <2> QED
    BY <1>1, <2>1, OptionsSpelled, RuleOfCommand DEF Told
<1>4. ASSUME NEW o \in Told
      PROVE  opt[o] = IF o \in fromarg THEN 0 ELSE LastValue(read, OptionForm[o])
  BY <1>1, <1>2, <1>3 DEF OptionsInv
<1>5. opt.db_profiles = 1 <=> Occurrences(read, DbHeader) # {}
  BY <1>1, <1>2, <1>3 DEF OptionsInv
<1>6. opt.exec_start = LastCommand(read) /\ opt.exec_stop = 0
  BY <1>1, <1>2, <1>3 DEF OptionsInv
<1> QED
  BY <1>1, <1>4, <1>5, <1>6 DEF OptionsInv, SettingsAsWritten, Told

LEMMA OptionsStep ==
  ParserInv /\ LanguageInv /\ OptionsInv /\ [Next]_vars => OptionsInv'
<1> SUFFICES ASSUME ParserInv, LanguageInv, OptionsInv, [Next]_vars
             PROVE  OptionsInv'
  OBVIOUS
<1>1. CASE UNCHANGED vars
  <2>1. UNCHANGED <<pc, read, fromarg, opt>> /\ Eaten' = Eaten /\ State' = State
    BY <1>1 DEF vars, Eaten, State
  <2> QED
    BY <2>1 DEF OptionsInv, SettingsAsWritten
<1>2. CASE Open \/ ReadWord
  <2>1. /\ pc \in {"open", "parse"} /\ UNCHANGED <<stack, fromarg, opt>>
        /\ pc' \in {"parse", "failed"} /\ Eaten' = Eaten /\ State' = State
    <3>1. CASE Open
      BY <3>1 DEF Open, Eaten, State
    <3>2. CASE ReadWord
      BY <3>2, StepReadWord DEF ReadWord, Parsing, State
    <3> QED
      BY <1>2, <3>1, <3>2
  <2> QED
    BY <2>1 DEF OptionsInv, SettingsAsWritten
<1>3. CASE ReducePlain \/ SetParam \/ SetLimit
  <2>1. /\ AtDefault /\ DefaultRule(State) \notin {0, 23} \cup (7 .. 17)
        /\ UNCHANGED <<yychar, read, fromarg, opt>>
        /\ Continue \/ Abort
    <3>1. CASE ReducePlain
      BY <3>1 DEF ReducePlain, Reduces
    <3>2. CASE SetParam
      BY <3>2 DEF SetParam, Reduces
    <3>3. CASE SetLimit
      BY <3>3 DEF SetLimit, Reduces
    <3> QED
      BY <1>3, <3>1, <3>2, <3>3
  <2>2. CASE Continue
    <3>1. DefaultVal \in Values
      BY <2>1, DefaultValue DEF AtDefault, ParserInv
    <3> QED
      BY <2>1, <2>2, <3>1, OptionsPassed DEF Continue
  <2> QED
    BY <2>1, <2>2, OptionsAborted
<1>4. CASE AddProfile
  <2>1. /\ AtDefault /\ DefaultRule(State) = 21 /\ UNCHANGED <<yychar, read, fromarg, opt>>
        /\ \/ stack' = Reduced(Len(profiles')) /\ UNCHANGED <<pc, cause>>
           \/ Abort
    BY <1>4 DEF AddProfile, Reduces
  <2>2. CASE stack' = Reduced(Len(profiles')) /\ UNCHANGED <<pc, cause>>
    <3>1. Len(profiles') \in Values
      <4>1. ParserInv'
        BY <1>4, StepAddProfile
      <4> QED
        BY <4>1 DEF ParserInv, TypeOK, Values
    <3>2. DefaultRule(State) \notin {0, 23} \cup (7 .. 17)
      BY <2>1
    <3> QED
      BY <2>1, <2>2, <3>1, <3>2, OptionsPassed
  <2> QED
    BY <2>1, <2>2, OptionsAborted
<1>5. CASE PassProfile
  <2>1. /\ AtDefault /\ DefaultRule(State) = 25 /\ UNCHANGED <<yychar, read, pc, fromarg, opt>>
        /\ stack' = Reduced(Val(0, 1))
    BY <1>5 DEF PassProfile, Reduces, AtDefault
  <2>2. Val(0, 1) \in Values
    BY <1>5, PassedValue
  <2>3. DefaultRule(State) \notin {0, 23} \cup (7 .. 17)
    BY <2>1
  <2> QED
    BY <2>1, <2>2, <2>3, OptionsPassed
<1>6. CASE SyntaxError
  BY <1>6 DEF SyntaxError, OptionsInv, SettingsAsWritten
<1> QED
  BY <1>1, <1>2, <1>3, <1>4, <1>5, <1>6, OptionsShift, OptionsSet, OptionsFilter, OptionsDb,
     OptionsAccept
     DEF Next, Step, Returned, vars

(* However long a file is that is accepted: every option, but for the two  *)
(* commands, has the value of the last statement about it, those given on  *)
(* the command line the value given there; the start command is the last   *)
(* one under either name, and the stop command is never set                *)
(* (config.tab.c:1496-1560).                                               *)
THEOREM OptionsHaveLastValues == Spec => []SettingsAsWritten
<1>1. Init => OptionsInv
  <2> SUFFICES ASSUME Init PROVE OptionsInv
    OBVIOUS
  <2>1. /\ pc = "open" /\ Eaten = <<>> /\ State = 0
        /\ opt = [s \in Settings |-> 0]
    BY BottomAlone, EmptySeq DEF Init, Eaten, State
  <2>2. opt.db_profiles = 0 /\ \A o \in Told : opt[o] = 0 /\ State # FinalOf[o]
    <3>1. Told \subseteq Settings /\ "db_profiles" \in Settings
      BY SettingsAre, OptionForms DEF Told
    <3>2. 0 \notin OptionEnds /\ \A o \in Told : FinalOf[o] \in OptionEnds
      BY OptionsSpelled DEF OptionEnds, Told
    <3> QED
      BY <2>1, <3>1, <3>2
  <2>3. /\ opt.exec_stop = 0 /\ opt.exec_start = 0 /\ State \notin CommandEnds
        /\ LastCommand(Eaten) = 0
        /\ \A f \in CommandForms : LastValue(Eaten, f) \in 0 .. Len(Eaten)
    <3>1. {"exec_start", "exec_stop"} \subseteq Settings
      BY SettingsAre
    <3>2. 0 \notin CommandEnds
      BY FinalStates DEF CommandEnds
    <3>3. \A f : LastValue(Eaten, f) = 0
      BY <2>1, NothingWritten
    <3>4. Len(Eaten) = 0
      BY <2>1
    <3> QED
      BY <2>1, <3>1, <3>2, <3>3, <3>4 DEF LastCommand
  <2> QED
    BY <2>1, <2>2, <2>3, NothingWritten DEF OptionsInv, SettingsAsWritten
<1>2. OptionsInv => SettingsAsWritten
  BY DEF OptionsInv
<1> QED
  BY InitParser, ParserStep, InitLanguage, LanguageStep, <1>1, OptionsStep, <1>2,
     PTL DEF Spec

--------------------------------------------------------------------------------
(* Which profile a statement belongs to. *)

Ordinal(w, i) == Cardinality({j \in Headers(w) : j <= i})
Numbered(w) ==
  \A k \in 1 .. Cardinality(Headers(w)) : \E i \in Headers(w) : Ordinal(w, i) = k

(* Where headers are: each has two more words.                             *)
LEMMA HeadersAre ==
  ASSUME NEW w \in Seq(Word)
  PROVE  /\ \A i \in Headers(w) : i \in 1 .. Len(w) /\ i <= Len(w) - 2 /\ w[i] = PROFILETOK
         /\ IsFiniteSet(Headers(w)) /\ Cardinality(Headers(w)) \in Nat
<1>1. /\ Header \in Seq(Word) /\ Len(Header) = 3 /\ Len(Header) \in 1 .. 5
      /\ Header[1] = PROFILETOK
  BY WordsAre DEF Header, Delimiters
<1>2. DOMAIN w = 1 .. Len(w) /\ Len(w) \in Nat
  BY LenProperties
<1>3. \A i \in Headers(w) : i \in 1 .. Len(w) /\ i <= Len(w) - 2 /\ w[i] = PROFILETOK
  <2> TAKE i \in Headers(w)
  <2>1. i \in 1 .. Len(w) /\ IsPrefix(Header, SubSeq(w, i, Len(w)))
    BY <1>2 DEF Headers, Occurrences
  <2>2. i + Len(Header) <= Len(w) + 1 /\ \A j \in 1 .. Len(Header) : w[i + j - 1] = Header[j]
    BY <1>1, <2>1, OccursAt
  <2>3. w[i + 1 - 1] = Header[1]
    BY <1>1, <2>2
  <2>4. i + 1 - 1 = i /\ i <= Len(w) - 2
    BY <1>1, <1>2, <2>1, <2>2
  <2> QED
    BY <1>1, <2>1, <2>3, <2>4
<1>4. Headers(w) \subseteq 1 .. Len(w)
  BY <1>3
<1>5. IsFiniteSet(1 .. Len(w))
  BY <1>2, FS_Interval
<1>6. IsFiniteSet(Headers(w))
  BY <1>4, <1>5, FS_Subset
<1> QED
  BY <1>3, <1>6, FS_CardinalityType

(* What HeaderOf chooses.                                                  *)
LEMMA HeaderIs ==
  ASSUME NEW w \in Seq(Word), NEW i \in Headers(w), NEW k, Ordinal(w, i) = k
  PROVE  HeaderOf(w, k) = i
<1> DEFINE H == Headers(w)
           To(j) == {h \in H : h <= j}
<1>1. H \subseteq Int /\ IsFiniteSet(H)
  BY HeadersAre
<1>3. Cardinality(To(i)) = k
  BY DEF Ordinal
<1>9. HeaderOf(w, k) \in H /\ Cardinality(To(HeaderOf(w, k))) = k
  BY <1>3, Zenon DEF HeaderOf
<1>2. PICK h : h = HeaderOf(w, k) /\ h \in H /\ Cardinality(To(h)) = k
  BY <1>9
<1> HIDE DEF H
<1>4. \A j \in H : IsFiniteSet(To(j)) /\ j \in To(j)
  BY <1>1, FS_Subset
<1>5. i \in H
  BY DEF H
<1>6. To(h) \subseteq To(i) \/ To(i) \subseteq To(h)
  <2>0. h \in Int /\ i \in Int /\ \A x \in H : x \in Int
    BY <1>1, <1>2, <1>5
  <2>1. ASSUME h <= i, NEW x \in To(h) PROVE x \in To(i)
    BY <2>0, <2>1
  <2>2. ASSUME i <= h, NEW x \in To(i) PROVE x \in To(h)
    BY <2>0, <2>2
  <2>3. h <= i \/ i <= h
    BY <2>0
  <2> QED
    BY <2>1, <2>2, <2>3
<1>7. To(h) = To(i)
  <2>1. IsFiniteSet(To(h)) /\ IsFiniteSet(To(i)) /\ Cardinality(To(h)) = Cardinality(To(i))
    BY <1>2, <1>3, <1>4, <1>5
  <2> HIDE DEF To
  <2> QED
    BY <1>6, <2>1, FS_Subset
<1>8. h <= i /\ i <= h
  BY <1>2, <1>4, <1>5, <1>7
<1> QED
  BY <1>1, <1>2, <1>5, <1>8

(* Every header has a number, and the last one is behind the others.       *)
LEMMA HeaderNumbered ==
  ASSUME NEW w \in Seq(Word), Numbered(w), NEW k \in 1 .. Cardinality(Headers(w))
  PROVE  /\ HeaderOf(w, k) \in Headers(w) /\ Ordinal(w, HeaderOf(w, k)) = k
         /\ k = Cardinality(Headers(w)) <=> \A j \in Headers(w) : ~(HeaderOf(w, k) < j)
<1> DEFINE H == Headers(w)
<1>1. PICK i \in H : Ordinal(w, i) = k
  BY DEF Numbered
<1>2. HeaderOf(w, k) = i
  BY <1>1, HeaderIs
<1>3. H \subseteq Int /\ IsFiniteSet(H)
  BY HeadersAre
<1> DEFINE T == {h \in H : h <= i}
<1>4. Cardinality(T) = k
  BY <1>1 DEF Ordinal
<1>5. k = Cardinality(H) <=> T = H
  <2>1. T \subseteq H
    OBVIOUS
  <2> QED
    BY <1>3, <1>4, <2>1, FS_Subset
<1>6. T = H <=> \A j \in H : ~(i < j)
  BY <1>3
<1> QED
  BY <1>1, <1>2, <1>5, <1>6

(* A header that ends the file is the last; the others keep their numbers. *)
LEMMA HeadersAppended ==
  ASSUME NEW w \in Seq(Word), NEW y \in Word, Numbered(w)
  PROVE  LET v == Append(w, y)
             n == Cardinality(Headers(w))
         IN /\ v \in Seq(Word) /\ Numbered(v)
            /\ \A k \in 1 .. n : HeaderOf(v, k) = HeaderOf(w, k)
            /\ ~EndsWith(v, Header) => Headers(v) = Headers(w)
            /\ EndsWith(v, Header) =>
                 /\ Headers(v) = Headers(w) \cup {Len(w) - 1}
                 /\ Cardinality(Headers(v)) = n + 1 /\ HeaderOf(v, n + 1) = Len(w) - 1
<1> DEFINE v == Append(w, y)
           H == Headers(w)
           n == Cardinality(H)
           m == Len(w) - 1
<1>1. v \in Seq(Word) /\ Len(v) = Len(w) + 1 /\ Len(w) \in Nat
  BY Appended
<1>2. /\ \A i \in H : i \in Int /\ i < m
      /\ IsFiniteSet(H) /\ n \in Nat
  BY <1>1, HeadersAre
<1>3. Headers(v) = H \cup {i \in {m} : EndsWith(v, Header)}
  <2>1. Header \in Seq(Word) /\ Len(Header) = 3 /\ Len(Header) \in 1 .. 5
    BY WordsAre DEF Header, Delimiters
  <2>2. Headers(v) = H \cup {i \in {Len(w) + 2 - Len(Header)} : EndsWith(v, Header)}
    BY <2>1, OccurrencesAppended, Zenon DEF Headers
  <2>3. Len(w) + 2 - Len(Header) = m
    BY <1>1, <2>1
  <2> QED
    BY <2>2, <2>3
<1>4. \A k \in 1 .. n : /\ HeaderOf(w, k) \in H /\ Ordinal(w, HeaderOf(w, k)) = k
  BY HeaderNumbered
<1> HIDE DEF v, n, m
<1>5. ASSUME NEW i \in H PROVE Ordinal(v, i) = Ordinal(w, i) /\ i \in Headers(v)
  <2>1. {j \in Headers(v) : j <= i} = {j \in H : j <= i}
    BY <1>1, <1>2, <1>3 DEF m
  <2> QED
    BY <1>3, <2>1 DEF Ordinal
<1>6. \A k \in 1 .. n : HeaderOf(v, k) = HeaderOf(w, k)
  <2> TAKE k \in 1 .. n
  <2>1. PICK i : i = HeaderOf(w, k) /\ i \in H /\ Ordinal(w, i) = k
    BY <1>4
  <2>2. i \in Headers(v) /\ Ordinal(v, i) = k
    BY <1>5, <2>1
  <2> QED
    BY <1>1, <2>1, <2>2, HeaderIs
<1>7. CASE ~EndsWith(v, Header)
  <2>1. Headers(v) = H
    BY <1>3, <1>7
  <2>2. Numbered(v)
    BY <1>5, <2>1 DEF Numbered
  <2> QED
    BY <1>1, <1>6, <1>7, <2>1, <2>2 DEF v, n
<1>8. CASE EndsWith(v, Header)
  <2>1. Headers(v) = H \cup {m} /\ m \notin H
    BY <1>2, <1>3, <1>8
  <2>2. Cardinality(Headers(v)) = n + 1
    BY <1>2, <2>1, FS_AddElement DEF n
  <2>3. Ordinal(v, m) = n + 1
    <3>1. {j \in Headers(v) : j <= m} = Headers(v)
      BY <1>1, <1>2, <2>1 DEF m
    <3> QED
      BY <2>2, <3>1 DEF Ordinal
  <2>4. HeaderOf(v, n + 1) = m
    BY <1>1, <2>1, <2>3, HeaderIs
  <2>5. Numbered(v)
    <3>1. ASSUME NEW k \in 1 .. n + 1 PROVE \E i \in Headers(v) : Ordinal(v, i) = k
      <4>1. CASE k = n + 1
        BY <2>1, <2>3, <4>1
      <4>2. CASE k # n + 1
        <5>1. k \in 1 .. n
          BY <1>2, <4>2
        <5>2. PICK i : i \in H /\ Ordinal(w, i) = k
          BY <1>4, <5>1
        <5> QED
          BY <1>5, <5>2
      <4> QED
        BY <4>1, <4>2
    <3> QED
      BY <2>2, <3>1 DEF Numbered
  <2> QED
    BY <1>1, <1>6, <1>8, <2>1, <2>2, <2>4, <2>5 DEF v, n, m
<1> QED
  BY <1>7, <1>8

(* What a state at the end of a statement of a profile sets.               *)
ParamOf(t) ==
  CASE t = 58 -> "filter" [] t = 59 -> "dynamic" [] t \in {61, 65} -> "bytes"
    [] t \in {62, 66} -> "pkts" [] t \in {63, 67} -> "flows"
ParamValue(t, n) ==
  IF t \in {58, 59} THEN n
  ELSE IF t \in {61, 62, 63} THEN <<n - 1, 0>> ELSE <<n - 2, n - 1>>

(* The statements about a parameter that are in a file. *)
Said(w, p) == UNION {Occurrences(w, f) : f \in ParamForms[p]}

LEMMA ParamNames ==
  /\ DOMAIN ParamForms = {"filter", "dynamic", "bytes", "pkts", "flows"}
  /\ ParamForms["filter"] = {<<FILTERTOK, STRINGTOK>>}
  /\ ParamForms["dynamic"] = {<<DYNAMICTOK, STRINGTOK>>}
  /\ ParamForms["bytes"] = {<<LIMITTOK, NUMBER, BITPSTOK>>, <<LIMITTOK, NUMBER, FACTOR, BITPSTOK>>}
  /\ ParamForms["pkts"] = {<<LIMITTOK, NUMBER, PPSTOK>>, <<LIMITTOK, NUMBER, FACTOR, PPSTOK>>}
  /\ ParamForms["flows"] = {<<LIMITTOK, NUMBER, FPSTOK>>, <<LIMITTOK, NUMBER, FACTOR, FPSTOK>>}
BY DEF ParamForms, LimitForms

(* Which of them ends a file, by the state it leads to. *)
FormOf(t) ==
  CASE t = 58 -> <<FILTERTOK, STRINGTOK>> [] t = 59 -> <<DYNAMICTOK, STRINGTOK>>
    [] t = 61 -> <<LIMITTOK, NUMBER, BITPSTOK>> [] t = 62 -> <<LIMITTOK, NUMBER, PPSTOK>>
    [] t = 63 -> <<LIMITTOK, NUMBER, FPSTOK>>
    [] t = 65 -> <<LIMITTOK, NUMBER, FACTOR, BITPSTOK>>
    [] t = 66 -> <<LIMITTOK, NUMBER, FACTOR, PPSTOK>>
    [] t = 67 -> <<LIMITTOK, NUMBER, FACTOR, FPSTOK>>

LEMMA FormsAre ==
  /\ FormOf(58) = <<FILTERTOK, STRINGTOK>> /\ FormOf(59) = <<DYNAMICTOK, STRINGTOK>>
  /\ FormOf(61) = <<LIMITTOK, NUMBER, BITPSTOK>> /\ FormOf(62) = <<LIMITTOK, NUMBER, PPSTOK>>
  /\ FormOf(63) = <<LIMITTOK, NUMBER, FPSTOK>>
  /\ FormOf(65) = <<LIMITTOK, NUMBER, FACTOR, BITPSTOK>>
  /\ FormOf(66) = <<LIMITTOK, NUMBER, FACTOR, PPSTOK>>
  /\ FormOf(67) = <<LIMITTOK, NUMBER, FACTOR, FPSTOK>>
BY DEF FormOf

LEMMA ParamOfs ==
  /\ ParamOf(58) = "filter" /\ ParamOf(59) = "dynamic"
  /\ ParamOf(61) = "bytes" /\ ParamOf(62) = "pkts" /\ ParamOf(63) = "flows"
  /\ ParamOf(65) = "bytes" /\ ParamOf(66) = "pkts" /\ ParamOf(67) = "flows"
BY DEF ParamOf

(* Each leads to its state and stands in the language.                     *)
LEMMA FormSpelled ==
  \A t \in ParamEnds :
    /\ Spells(t, FormOf(t)) /\ Len(FormOf(t)) = Size[t + 1] /\ Size[t + 1] \in 2 .. 4
    /\ ParamOf(t) \in DOMAIN ParamForms /\ FormOf(t) \in ParamForms[ParamOf(t)]
    /\ FormOf(t) \in Seq(Word) /\ FormOf(t)[1] \in {FILTERTOK, DYNAMICTOK, LIMITTOK}
<1>1. /\ Spells(58, FormOf(58)) /\ Spells(59, FormOf(59))
  BY TrailTable, WordsAre, Spells2, FormsAre
<1>2. Spells(61, FormOf(61)) /\ Spells(62, FormOf(62)) /\ Spells(63, FormOf(63))
  BY TrailTable, WordsAre, Spells3, FormsAre
<1>3. Spells(65, FormOf(65)) /\ Spells(66, FormOf(66)) /\ Spells(67, FormOf(67))
  BY TrailTable, WordsAre, Spells4, FormsAre
<1>4. \A t \in ParamEnds : Spells(t, FormOf(t))
  BY <1>1, <1>2, <1>3 DEF ParamEnds
<1>5. \A t \in ParamEnds : Size[t + 1] \in 2 .. 4
  BY DEF ParamEnds, Size
<1>6. \A t \in ParamEnds :
        ParamOf(t) \in DOMAIN ParamForms /\ FormOf(t) \in ParamForms[ParamOf(t)]
  BY FormsAre, ParamOfs, ParamNames DEF ParamEnds
<1>7. \A t \in ParamEnds : FormOf(t)[1] \in {FILTERTOK, DYNAMICTOK, LIMITTOK}
  BY FormsAre DEF ParamEnds
<1> QED
  BY <1>4, <1>5, <1>6, <1>7 DEF Spells

LEMMA FormOfEach ==
  \A p \in DOMAIN ParamForms : \A f \in ParamForms[p] :
    \E t \in ParamEnds : f = FormOf(t) /\ p = ParamOf(t)
BY FormsAre, ParamOfs, ParamNames DEF ParamEnds

LEMMA ParamEndsTable ==
  \A s \in States :
    /\ Ends2(s, FILTERTOK, STRINGTOK) => s \in {38, 58}
    /\ Ends2(s, DYNAMICTOK, STRINGTOK) => s = 59
    /\ Ends3(s, LIMITTOK, NUMBER, BITPSTOK) => s = 61
    /\ Ends3(s, LIMITTOK, NUMBER, PPSTOK) => s = 62
    /\ Ends3(s, LIMITTOK, NUMBER, FPSTOK) => s = 63
    /\ Ends3(s, NUMBER, FACTOR, BITPSTOK) => s = 65
    /\ Ends3(s, NUMBER, FACTOR, PPSTOK) => s = 66
    /\ Ends3(s, NUMBER, FACTOR, FPSTOK) => s = 67
    /\ Ends2(s, PROFILETOK, STRINGTOK) => s = 19
<1>1. \A s \in States : WordOf[s + 1] = STRINGTOK =>
        s \in {19, 33, 38, 39, 40, 44, 45, 58, 59}
  BY DEF States, WordOf, STRINGTOK
<1>2. \A s \in States : WordOf[s + 1] = BITPSTOK => s \in {61, 65}
  BY DEF States, WordOf, BITPSTOK
<1>3. \A s \in States : WordOf[s + 1] = PPSTOK => s \in {48, 62, 66}
  BY DEF States, WordOf, PPSTOK
<1>4. \A s \in States : WordOf[s + 1] = FPSTOK => s \in {63, 67}
  BY DEF States, WordOf, FPSTOK
<1> QED
  BY <1>1, <1>2, <1>3, <1>4
     DEF Ends2, Ends3, Below, WordOf, FILTERTOK, STRINGTOK, DYNAMICTOK, LIMITTOK, NUMBER,
         BITPSTOK, PPSTOK, FPSTOK, FACTOR, PROFILETOK

(* By its last words a statement is told from all others.                  *)
LEMMA LastOfParam ==
  ASSUME NEW s \in States, NEW t \in ParamEnds, NEW f, f = FormOf(t), NEW m, m = Len(f),
         Ends2(s, f[m - 1], f[m]), m > 2 => Ends3(s, f[m - 2], f[m - 1], f[m])
  PROVE  s = t \/ s = 38
<1>1. CASE t = 58
  <2>1. f = <<FILTERTOK, STRINGTOK>>
    BY <1>1, FormsAre
  <2>2. m = 2
    BY <2>1
  <2>3. f[m - 1] = FILTERTOK /\ f[m] = STRINGTOK
    BY <2>1, <2>2
  <2> QED
    BY <1>1, <2>3, ParamEndsTable
<1>2. CASE t = 59
  <2>1. f = <<DYNAMICTOK, STRINGTOK>>
    BY <1>2, FormsAre
  <2>2. m = 2
    BY <2>1
  <2>3. f[m - 1] = DYNAMICTOK /\ f[m] = STRINGTOK
    BY <2>1, <2>2
  <2> QED
    BY <1>2, <2>3, ParamEndsTable
<1>3. ASSUME NEW u, t \in {61, 62, 63}, f = <<LIMITTOK, NUMBER, u>>
      PROVE  Ends3(s, LIMITTOK, NUMBER, u)
  <2>1. m = 3
    BY <1>3
  <2>2. f[m - 2] = LIMITTOK /\ f[m - 1] = NUMBER /\ f[m] = u /\ m > 2
    BY <1>3, <2>1
  <2> QED
    BY <2>2
<1>4. ASSUME NEW u, t \in {65, 66, 67}, f = <<LIMITTOK, NUMBER, FACTOR, u>>
      PROVE  Ends3(s, NUMBER, FACTOR, u)
  <2>1. m = 4
    BY <1>4
  <2>2. f[m - 2] = NUMBER /\ f[m - 1] = FACTOR /\ f[m] = u /\ m > 2
    BY <1>4, <2>1
  <2> QED
    BY <2>2
<1>5. CASE t \in {61, 62, 63}
  <2>1. /\ t = 61 => f = <<LIMITTOK, NUMBER, BITPSTOK>>
        /\ t = 62 => f = <<LIMITTOK, NUMBER, PPSTOK>>
        /\ t = 63 => f = <<LIMITTOK, NUMBER, FPSTOK>>
    BY FormsAre
  <2>2. /\ t = 61 => Ends3(s, LIMITTOK, NUMBER, BITPSTOK)
        /\ t = 62 => Ends3(s, LIMITTOK, NUMBER, PPSTOK)
        /\ t = 63 => Ends3(s, LIMITTOK, NUMBER, FPSTOK)
    BY <1>3, <1>5, <2>1
  <2> QED
    BY <1>5, <2>2, ParamEndsTable
<1>6. CASE t \in {65, 66, 67}
  <2>1. /\ t = 65 => f = <<LIMITTOK, NUMBER, FACTOR, BITPSTOK>>
        /\ t = 66 => f = <<LIMITTOK, NUMBER, FACTOR, PPSTOK>>
        /\ t = 67 => f = <<LIMITTOK, NUMBER, FACTOR, FPSTOK>>
    BY FormsAre
  <2>2. /\ t = 65 => Ends3(s, NUMBER, FACTOR, BITPSTOK)
        /\ t = 66 => Ends3(s, NUMBER, FACTOR, PPSTOK)
        /\ t = 67 => Ends3(s, NUMBER, FACTOR, FPSTOK)
    BY <1>4, <1>6, <2>1
  <2> QED
    BY <1>6, <2>2, ParamEndsTable
<1> QED
  BY <1>1, <1>2, <1>5, <1>6 DEF ParamEnds

(* The state behind the header of a profile is entered at its end.         *)
LEMMA HeaderAt ==
  ASSUME NEW t \in States, NEW s, s = Below[t + 1], NEW y, y = WordOf[t + 1], y # YYEMPTY,
         NEW w \in Seq(Word), Fits(s, w, y)
  PROVE  EndsWith(Append(w, y), Header) <=> t = 31
<1> DEFINE f == <<PROFILETOK, STRINGTOK>>
           v == Append(w, y)
<1>1. y \in Word /\ s \in States
  BY PlainTable, WordsAre, BelowTable DEF Plain
<1>2. /\ v \in Seq(Word) /\ Len(v) = Len(w) + 1 /\ v[Len(w) + 1] = y /\ Len(w) \in Nat
      /\ \A i \in 1 .. Len(w) : v[i] = w[i]
  BY <1>1, Appended
<1> HIDE DEF v
<1>3. /\ Len(Header) = 3 /\ Header[3] = OBRACE /\ Header[2] = STRINGTOK
      /\ Header[1] = PROFILETOK
  BY DEF Header
<1>4. f \in Seq(Word) /\ Len(f) = 2 /\ f[1] = PROFILETOK /\ f[2] = STRINGTOK
  BY WordsAre
<1> HIDE DEF f
<1>5. EndsWith(w, f) <=> Len(w) >= 2 /\ w[Len(w)] = STRINGTOK /\ w[Len(w) - 1] = PROFILETOK
  <2>1. \A k \in 0 .. 5 : k < 2 <=> k = 0 \/ k = 1
    OBVIOUS
  <2>2. Len(w) - 0 = Len(w)
    BY <1>2
  <2> QED
    BY <1>4, <2>1, <2>2 DEF EndsWith
<1>6. EndsWith(v, Header) <=> y = OBRACE /\ EndsWith(w, f)
  <2>1. \A k \in 0 .. 5 : k < 3 <=> k = 0 \/ k = 1 \/ k = 2
    OBVIOUS
  <2>2. Len(v) - 0 = Len(w) + 1 /\ Len(v) - 1 = Len(w) /\ Len(v) - 2 = Len(w) - 1
    BY <1>2
  <2>3. EndsWith(v, Header) <=>
          /\ 3 <= Len(v)
          /\ v[Len(w) + 1] = OBRACE /\ v[Len(w)] = STRINGTOK /\ v[Len(w) - 1] = PROFILETOK
    BY <1>3, <2>1, <2>2 DEF EndsWith
  <2>4. Len(w) >= 2 => v[Len(w)] = w[Len(w)] /\ v[Len(w) - 1] = w[Len(w) - 1]
    BY <1>2
  <2> QED
    BY <1>2, <1>5, <2>3, <2>4
<1>7. EndsWith(w, f) <=> EndsWith(Rest(w), f)
  <2>1. \A k \in 0 .. 5 : k < 2 <=> k = 0 \/ k = 1
    OBVIOUS
  <2>2. \A k \in 0 .. 5 : k < Len(f) => f[Len(f) - k] \notin Delimiters
    BY <1>4, <2>1 DEF Delimiters, STRINGTOK, PROFILETOK, EOF, OBRACE, EBRACE, SEMICOLON
  <2>3. Len(f) \in 1 .. 5
    BY <1>4
  <2> QED
    BY <2>2, <2>3, EndsInRest
<1>8. ASSUME t = 31 PROVE y = OBRACE /\ EndsWith(Rest(w), f)
  <2>1. s = 19 /\ y = OBRACE
    BY <1>8 DEF Below, WordOf, OBRACE
  <2>2. Spells(19, Rest(w))
    BY <2>1 DEF Fits
  <2>3. Spells(19, f)
    <3>1. Trail2(19, PROFILETOK, STRINGTOK)
      BY DEF Trail2, Size, WordOf, Below, PROFILETOK, STRINGTOK
    <3> QED
      BY <3>1, WordsAre, Spells2 DEF f
  <2>4. Size[19 + 1] \in 0 .. 5
    BY DEF Size
  <2>5. Rest(w) = f
    BY <2>2, <2>3, <2>4, SpelledOnce
  <2>6. EndsWith(f, f)
    BY <1>4 DEF EndsWith
  <2> QED
    BY <2>1, <2>5, <2>6
<1>9. ASSUME y = OBRACE, EndsWith(Rest(w), f) PROVE t = 31
  <2>1. t = 31 \/ s = 1
    <3>1. WordOf[t + 1] = OBRACE /\ OBRACE \in Delimiters
      BY <1>9 DEF Delimiters
    <3>2. OBRACE # SEMICOLON /\ OBRACE # EBRACE /\ OBRACE # EOF
      BY DEF SEMICOLON, OBRACE, EBRACE, EOF
    <3> QED
      BY <3>1, <3>2, DelimiterTable
  <2>2. ASSUME s = 1 PROVE FALSE
    <3>1. Spells(1, Rest(w))
      BY <2>2 DEF Fits
    <3>2. Ends2(1, PROFILETOK, STRINGTOK)
      <4>1. Len(f) \in 2 .. 5 /\ Len(f) - 1 = 1
        BY <1>4
      <4> QED
        BY <1>1, <1>4, <1>9, <2>2, <3>1, <4>1, LastThree
    <3> QED
      BY <1>1, <2>2, <3>2, ParamEndsTable
  <2> QED
    BY <2>1, <2>2
<1> QED
  BY <1>6, <1>7, <1>8, <1>9 DEF v

(* So is the state at the end of a statement of a profile.  (State 38 is   *)
(* the end of "input filter": it stands where there are no profiles.)      *)
LEMMA ParamAt ==
  ASSUME NEW t \in States, t # 38, NEW v \in Seq(Word), Fits(t, v, YYEMPTY),
         WordOf[t + 1] # YYEMPTY, NEW u \in ParamEnds
  PROVE  EndsWith(v, FormOf(u)) <=> t = u
<1> DEFINE f == FormOf(u)
<1>1. Spells(u, f) /\ Len(f) \in 2 .. 4 /\ u \in States /\ Size[u + 1] \in 0 .. 5
  <2>1. Spells(u, f) /\ Len(f) = Size[u + 1] /\ Size[u + 1] \in 2 .. 4
    BY FormSpelled
  <2>2. u \in States
    BY DEF ParamEnds, States
  <2>3. \A n \in 2 .. 4 : n \in 0 .. 5
    OBVIOUS
  <2> HIDE DEF f
  <2> QED
    BY <2>1, <2>2, <2>3
<1> HIDE DEF f
<1>2. \A k \in 0 .. 5 : k < Len(f) => f[Len(f) - k] \notin Delimiters
  BY <1>1, SpelledPlain
<1>3. Len(f) \in 2 .. 5 /\ Len(f) \in 1 .. 5
  BY <1>1
<1>4. EndsWith(v, f) <=> EndsWith(Rest(v), f)
  BY <1>2, <1>3, EndsInRest
<1>5. Spells(t, Rest(v))
  <2>1. t \notin {17, 56}
    BY EndsOfOptions
  <2> QED
    BY <2>1 DEF Fits
<1>6. ASSUME t = u PROVE EndsWith(Rest(v), f)
  <2>1. Rest(v) = f
    BY <1>1, <1>5, <1>6, SpelledOnce
  <2> QED
    BY <1>3, <2>1 DEF EndsWith
<1>7. ASSUME EndsWith(Rest(v), f) PROVE t = u
  <2>1. /\ Ends2(t, f[Len(f) - 1], f[Len(f)])
        /\ Len(f) > 2 => Ends3(t, f[Len(f) - 2], f[Len(f) - 1], f[Len(f)])
    BY <1>3, <1>5, <1>7, LastThree, Zenon
  <2>2. t = u \/ t = 38
    BY <2>1, LastOfParam DEF f
  <2> QED
    BY <2>2
<1> QED
  BY <1>4, <1>6, <1>7 DEF f

(* What one more word adds to the statements about a parameter.            *)
LEMMA SaidAppended ==
  ASSUME NEW t \in States, t # 38, NEW w \in Seq(Word), NEW y \in Word,
         Fits(t, Append(w, y), YYEMPTY), WordOf[t + 1] # YYEMPTY,
         NEW p \in DOMAIN ParamForms
  PROVE  Said(Append(w, y), p) =
           Said(w, p) \cup {i \in {Len(w) + 2 - Size[t + 1]} : t \in ParamEnds /\ ParamOf(t) = p}
<1> DEFINE v == Append(w, y)
           b == Len(w) + 2 - Size[t + 1]
<1>1. v \in Seq(Word) /\ Len(w) \in Nat
  BY Appended
<1>2. ASSUME NEW u \in ParamEnds
      PROVE  Occurrences(v, FormOf(u)) = Occurrences(w, FormOf(u)) \cup {i \in {b} : t = u}
  <2>1. FormOf(u) \in Seq(Word) /\ Len(FormOf(u)) = Size[u + 1] /\ Len(FormOf(u)) \in 1 .. 5
    <3>1. /\ FormOf(u) \in Seq(Word) /\ Len(FormOf(u)) = Size[u + 1]
          /\ Size[u + 1] \in 2 .. 4
      BY FormSpelled
    <3>2. \A n \in 2 .. 4 : n \in 1 .. 5
      OBVIOUS
    <3> QED
      BY <3>1, <3>2
  <2>2. Occurrences(v, FormOf(u)) = Occurrences(w, FormOf(u)) \cup
          {i \in {Len(w) + 2 - Len(FormOf(u))} : EndsWith(v, FormOf(u))}
    BY <2>1, OccurrencesAppended, Zenon
  <2>3. EndsWith(v, FormOf(u)) <=> t = u
    BY <1>1, ParamAt
  <2> QED
    BY <2>1, <2>2, <2>3
<1> HIDE DEF v, b
<1>3. ASSUME NEW x
      PROVE  x \in Said(v, p) <=>
               x \in Said(w, p) \/ (x = b /\ t \in ParamEnds /\ ParamOf(t) = p)
  <2>1. ASSUME x \in Said(v, p)
        PROVE  x \in Said(w, p) \/ (x = b /\ t \in ParamEnds /\ ParamOf(t) = p)
    <3>1. PICK f \in ParamForms[p] : x \in Occurrences(v, f)
      BY <2>1 DEF Said
    <3>2. PICK u \in ParamEnds : f = FormOf(u) /\ p = ParamOf(u)
      BY FormOfEach
    <3>3. x \in Occurrences(w, f) \/ (x = b /\ t = u)
      BY <1>2, <3>1, <3>2
    <3> QED
      BY <3>2, <3>3 DEF Said
  <2>2. ASSUME x \in Said(w, p) PROVE x \in Said(v, p)
    <3>1. PICK f \in ParamForms[p] : x \in Occurrences(w, f)
      BY <2>2 DEF Said
    <3>2. PICK u \in ParamEnds : f = FormOf(u) /\ p = ParamOf(u)
      BY FormOfEach
    <3>3. x \in Occurrences(v, f)
      BY <1>2, <3>1, <3>2
    <3> QED
      BY <3>3 DEF Said
  <2>3. ASSUME x = b, t \in ParamEnds, ParamOf(t) = p PROVE x \in Said(v, p)
    <3>1. FormOf(t) \in ParamForms[p]
      BY <2>3, FormSpelled
    <3>2. x \in Occurrences(v, FormOf(t))
      BY <1>2, <2>3
    <3> QED
      BY <3>1, <3>2 DEF Said
  <2> QED
    BY <2>1, <2>2, <2>3
<1>4. Said(v, p) = Said(w, p) \cup {i \in {b} : t \in ParamEnds /\ ParamOf(t) = p}
  BY <1>3
<1> QED
  BY <1>4 DEF v, b

(* Where statements and headers are in a file: none is at the place of a   *)
(* header, and limits have two more words.                                 *)
LEMMA SaidWithin ==
  ASSUME NEW w \in Seq(Word), NEW p \in DOMAIN ParamForms, NEW i \in Said(w, p)
  PROVE  /\ i \in 1 .. Len(w) - 1 /\ w[i] \in {FILTERTOK, DYNAMICTOK, LIMITTOK}
         /\ p \in {"bytes", "pkts", "flows"} => i <= Len(w) - 2
         /\ i \notin Headers(w)
<1>1. PICK f \in ParamForms[p] : i \in Occurrences(w, f)
  BY DEF Said
<1>2. PICK u \in ParamEnds : f = FormOf(u) /\ p = ParamOf(u)
  BY FormOfEach
<1>3. f \in Seq(Word) /\ Len(f) = Size[u + 1] /\ Len(f) \in 2 .. 4
      /\ f[1] \in {FILTERTOK, DYNAMICTOK, LIMITTOK}
  BY <1>2, FormSpelled
<1>4. DOMAIN w = 1 .. Len(w) /\ Len(w) \in Nat
  BY LenProperties
<1>5. i \in 1 .. Len(w) /\ IsPrefix(f, SubSeq(w, i, Len(w)))
  BY <1>1, <1>4 DEF Occurrences
<1>6. i + Len(f) <= Len(w) + 1 /\ \A j \in 1 .. Len(f) : w[i + j - 1] = f[j]
  BY <1>3, <1>5, OccursAt
<1>7. w[i] = f[1]
  <2>1. 1 \in 1 .. Len(f) /\ i + 1 - 1 = i
    BY <1>3, <1>5
  <2> QED
    BY <1>6, <2>1
<1>8. p \in {"bytes", "pkts", "flows"} => Len(f) \in 3 .. 4
  <2>1. u \in {58, 59} => p \notin {"bytes", "pkts", "flows"}
    BY <1>2, ParamOfs
  <2>2. u \notin {58, 59} => Size[u + 1] \in 3 .. 4
    <3>1. /\ Size[61 + 1] = 3 /\ Size[62 + 1] = 3 /\ Size[63 + 1] = 3
          /\ Size[65 + 1] = 4 /\ Size[66 + 1] = 4 /\ Size[67 + 1] = 4
      BY DEF Size
    <3> QED
      BY <3>1 DEF ParamEnds
  <2> QED
    BY <1>3, <2>1, <2>2
<1>9. i \notin Headers(w)
  <2>1. i \in Headers(w) => w[i] = PROFILETOK
    BY HeadersAre
  <2>2. PROFILETOK \notin {FILTERTOK, DYNAMICTOK, LIMITTOK}
    BY DEF PROFILETOK, FILTERTOK, DYNAMICTOK, LIMITTOK
  <2> QED
    BY <1>3, <1>7, <2>1, <2>2
<1> QED
  BY <1>3, <1>4, <1>5, <1>6, <1>7, <1>8, <1>9

(* The word that leads to state t makes v of w. *)
LeadsTo(t, w, v) ==
  /\ t \in States /\ WordOf[t + 1] # YYEMPTY
  /\ w \in Seq(Word) /\ v = Append(w, WordOf[t + 1])
  /\ Fits(Below[t + 1], w, WordOf[t + 1]) /\ Fits(t, v, YYEMPTY)

(* What one more word changes of what a file says about a profile: at the  *)
(* end of a statement, the last profile has one statement more.            *)
LEMMA AboutAppended ==
  ASSUME NEW t, NEW w, NEW v, LeadsTo(t, w, v), t # 38, Numbered(w),
         NEW p \in DOMAIN ParamForms, NEW n, n = Cardinality(Headers(w)),
         NEW b, b = Len(w) + 2 - Size[t + 1]
  PROVE  /\ \A k \in 1 .. n :
              About(v, k, ParamForms[p]) = About(w, k, ParamForms[p]) \cup
                {i \in {b} : t \in ParamEnds /\ ParamOf(t) = p /\ k = n}
         /\ t = 31 => About(v, n + 1, ParamForms[p]) = {}
<1> DEFINE H == Headers(w)
           ends == t \in ParamEnds /\ ParamOf(t) = p
<1>0. PICK s, y : /\ t \in States /\ t # 38 /\ s = Below[t + 1] /\ y = WordOf[t + 1]
                  /\ y # YYEMPTY /\ w \in Seq(Word) /\ Fits(s, w, y)
                  /\ v = Append(w, y) /\ Fits(t, v, YYEMPTY)
  BY DEF LeadsTo
<1>1. /\ y \in Word /\ v \in Seq(Word) /\ Len(v) = Len(w) + 1 /\ Len(w) \in Nat
  <2>1. y \in Word
    BY <1>0, PlainTable, WordsAre DEF Plain
  <2> QED
    BY <1>0, <2>1, Appended
<1>2. EndsWith(v, Header) <=> t = 31
  BY <1>0, HeaderAt
<1>3. Said(v, p) = Said(w, p) \cup {i \in {b} : ends}
  BY <1>0, <1>1, SaidAppended
<1>4. /\ \A k \in 1 .. n : HeaderOf(v, k) = HeaderOf(w, k)
      /\ t # 31 => Headers(v) = H
      /\ t = 31 => Headers(v) = H \cup {Len(w) - 1} /\ HeaderOf(v, n + 1) = Len(w) - 1
  BY <1>0, <1>1, <1>2, HeadersAppended
<1>5. \A i \in Said(w, p) : i \in Int /\ i <= Len(w) - 1
  BY <1>0, <1>1, SaidWithin
<1>6. \A i \in H : i \in Int /\ i <= Len(w) - 2
  BY <1>0, HeadersAre
<1>7. \A k \in 1 .. n : HeaderOf(w, k) \in H /\ (k = n <=> \A j \in H : ~(HeaderOf(w, k) < j))
  BY <1>0, HeaderNumbered
<1>8. /\ \A x, k : About(x, k, ParamForms[p]) =
           {i \in Said(x, p) : i > HeaderOf(x, k) /\
                               ~\E j \in Headers(x) : HeaderOf(x, k) < j /\ j < i}
  BY DEF About, Said
<1>9. ends => b \in Said(v, p) /\ b \in Int /\ b \notin Headers(v) /\ t # 31 /\ b >= Len(w) - 2
  <2> SUFFICES ASSUME ends
               PROVE  /\ b \in Said(v, p) /\ b \in Int
                      /\ b \notin Headers(v) /\ t # 31 /\ b >= Len(w) - 2
    OBVIOUS
  <2>1. b \in Said(v, p)
    BY <1>3
  <2>2. b \notin Headers(v)
    BY <1>1, <2>1, SaidWithin
  <2>3. Size[t + 1] \in 2 .. 4
    BY FormSpelled
  <2> HIDE DEF ends
  <2>5. t # 31
    BY DEF ends, ParamEnds
  <2> QED
    BY <1>1, <2>1, <2>2, <2>3, <2>5
<1> HIDE DEF H, ends
<1>10. ASSUME t = 31 PROVE About(v, n + 1, ParamForms[p]) = {}
  <2>1. ASSUME NEW i \in Said(v, p), i > Len(w) - 1 PROVE FALSE
    <3>1. i \in Said(w, p)
      BY <1>3, <1>9, <1>10
    <3> QED
      BY <1>1, <1>5, <2>1, <3>1
  <2> QED
    BY <1>4, <1>8, <1>10, <2>1
<1>11. ASSUME NEW k \in 1 .. n
       PROVE  About(v, k, ParamForms[p]) =
                About(w, k, ParamForms[p]) \cup {i \in {b} : ends /\ k = n}
  <2> DEFINE h == HeaderOf(w, k)
             Of(i, x) == i > h /\ ~\E j \in Headers(x) : h < j /\ j < i
  <2>1. h \in H /\ h \in Int /\ h = HeaderOf(v, k)
    BY <1>4, <1>6, <1>7
  <2>2. About(w, k, ParamForms[p]) = {i \in Said(w, p) : Of(i, w)}
    BY <1>8
  <2>3. About(v, k, ParamForms[p]) = {i \in Said(v, p) : Of(i, v)}
    BY <1>8, <2>1
  <2>4. ASSUME NEW i \in Said(w, p) PROVE Of(i, v) <=> Of(i, w)
    <3>1. CASE t # 31
      BY <1>4, <3>1 DEF H
    <3>2. CASE t = 31
      <4>1. ~(Len(w) - 1 < i)
        BY <1>1, <1>5
      <4> QED
        BY <1>4, <3>2, <4>1 DEF H
    <3> QED
      BY <3>1, <3>2
  <2>5. ASSUME ends PROVE Of(b, v) <=> k = n
    <3>1. Headers(v) = H
      BY <1>4, <1>9, <2>5
    <3>2. \A j \in H : j < b
      <4> TAKE j \in H
      <4>1. j # b /\ b \in Int /\ b >= Len(w) - 2
        BY <1>9, <2>5, <3>1
      <4> QED
        BY <1>1, <1>6, <4>1
    <3>3. h < b
      BY <2>1, <3>2
    <3>4. Of(b, v) <=> ~\E j \in H : h < j
      BY <1>9, <2>1, <2>5, <3>1, <3>2, <3>3
    <3> QED
      BY <1>7, <3>4
  <2> HIDE DEF Of, h
  <2>6. ASSUME NEW i PROVE i \in About(v, k, ParamForms[p]) <=>
                             i \in About(w, k, ParamForms[p]) \/ (i = b /\ ends /\ k = n)
    <3>1. i \in About(v, k, ParamForms[p]) <=>
            \/ i \in Said(w, p) /\ Of(i, v)
            \/ i = b /\ ends /\ Of(b, v)
      BY <1>3, <2>3 DEF ends
    <3> QED
      BY <2>2, <2>4, <2>5, <3>1
  <2> QED
    BY <2>6
<1> QED
  BY <1>10, <1>11 DEF ends

(* The last of the statements about something in a profile.                *)
Value(w, k, p) ==
  IF p \in {"filter", "dynamic"} THEN StringOf(w, k, p) ELSE LimitOf(w, k, p)
NoValue(p) == IF p \in {"filter", "dynamic"} THEN 0 ELSE <<0, 0>>

(* The words of the statement at the end of which a state stands.          *)
LEMMA LastStatement ==
  ASSUME NEW t \in ParamEnds, NEW v \in Seq(Word), Fits(t, v, YYEMPTY)
  PROVE  /\ t \in {61, 62, 63} => v[Len(v)] # FACTOR
         /\ t \in {65, 66, 67} => v[Len(v) - 1] = FACTOR
<1>1. t \in States /\ t # 38 /\ WordOf[t + 1] # YYEMPTY
  <2>1. \A u \in ParamEnds : u \in States /\ u # 38
    BY DEF ParamEnds, States
  <2>2. /\ WordOf[58 + 1] = 44 /\ WordOf[59 + 1] = 44 /\ WordOf[61 + 1] = 9
        /\ WordOf[62 + 1] = 10 /\ WordOf[63 + 1] = 11 /\ WordOf[65 + 1] = 9
        /\ WordOf[66 + 1] = 10 /\ WordOf[67 + 1] = 11
    BY DEF WordOf
  <2>3. \A u \in ParamEnds : WordOf[u + 1] # YYEMPTY
    BY <2>2 DEF ParamEnds, YYEMPTY
  <2> QED
    BY <2>1, <2>3
<1>2. EndsWith(v, FormOf(t))
  BY <1>1, ParamAt
<1>3. ASSUME t \in {61, 62, 63} PROVE v[Len(v)] # FACTOR
  <2>1. PICK u \in {BITPSTOK, PPSTOK, FPSTOK} : FormOf(t) = <<LIMITTOK, NUMBER, u>>
    BY <1>3, FormsAre
  <2>2. Len(FormOf(t)) = 3 /\ FormOf(t)[3 - 0] = u /\ Len(v) - 0 = Len(v)
    BY <2>1, LenProperties
  <2>3. v[Len(v)] = u
    BY <1>2, <2>2 DEF EndsWith
  <2> QED
    BY <2>3 DEF BITPSTOK, PPSTOK, FPSTOK, FACTOR
<1>4. ASSUME t \in {65, 66, 67} PROVE v[Len(v) - 1] = FACTOR
  <2>1. PICK u \in {BITPSTOK, PPSTOK, FPSTOK} : FormOf(t) = <<LIMITTOK, NUMBER, FACTOR, u>>
    BY <1>4, FormsAre
  <2>2. Len(FormOf(t)) = 4 /\ FormOf(t)[4 - 1] = FACTOR
    BY <2>1
  <2> QED
    BY <1>2, <2>2 DEF EndsWith
<1> QED
  BY <1>3, <1>4

(* At the end of a statement the last profile has its value.               *)
LEMMA ValueAppended ==
  ASSUME NEW t, NEW w, NEW v, LeadsTo(t, w, v), t # 38, Numbered(w),
         NEW p \in DOMAIN ParamForms, NEW n, n = Cardinality(Headers(w))
  PROVE  /\ \A k \in 1 .. n :
              Value(v, k, p) = IF t \in ParamEnds /\ ParamOf(t) = p /\ k = n
                               THEN ParamValue(t, Len(v)) ELSE Value(w, k, p)
         /\ t = 31 => Value(v, n + 1, p) = NoValue(p)
<1>0. PICK y, b :
        /\ t \in States /\ y = WordOf[t + 1] /\ y # YYEMPTY /\ w \in Seq(Word)
        /\ v = Append(w, y) /\ Fits(t, v, YYEMPTY) /\ b = Len(w) + 2 - Size[t + 1]
  BY DEF LeadsTo
<1> DEFINE ends == t \in ParamEnds /\ ParamOf(t) = p
           F == ParamForms[p]
<1>1. /\ v \in Seq(Word) /\ Len(v) = Len(w) + 1 /\ Len(w) \in Nat
      /\ \A i \in 1 .. Len(w) : v[i] = w[i]
  <2>1. y \in Word
    BY <1>0, PlainTable, WordsAre DEF Plain
  <2> QED
    BY <1>0, <2>1, Appended
<1>2. /\ \A k \in 1 .. n : About(v, k, F) = About(w, k, F) \cup {i \in {b} : ends /\ k = n}
      /\ t = 31 => About(v, n + 1, F) = {}
  BY <1>0, AboutAppended
<1>3. /\ p \in {"filter", "dynamic", "bytes", "pkts", "flows"}
      /\ \A i \in Said(w, p) : /\ i \in 1 .. Len(w) - 1
                               /\ p \notin {"filter", "dynamic"} => i <= Len(w) - 2
  <2>1. p \in {"filter", "dynamic", "bytes", "pkts", "flows"}
    BY ParamNames
  <2> QED
    BY <1>0, <2>1, SaidWithin
<1>4. \A k : About(w, k, F) \subseteq Said(w, p)
  BY DEF About, Said
<1> HIDE DEF F
<1>5. ASSUME NEW S, S \subseteq Said(w, p), S # {}
      PROVE  Max(S) \in Said(w, p)
  <2>1. S \in SUBSET (0 .. Len(w))
    BY <1>1, <1>3, <1>5
  <2> QED
    BY <1>1, <1>5, <2>1, GreatestIs
<1>6. ASSUME NEW k \in 1 .. n, ~(ends /\ k = n) PROVE Value(v, k, p) = Value(w, k, p)
  <2> DEFINE at == About(w, k, F)
  <2>1. About(v, k, F) = at
    BY <1>2, <1>6
  <2>2. /\ Value(w, k, p) =
             IF at = {} THEN NoValue(p)
             ELSE IF p \in {"filter", "dynamic"} THEN Max(at) + 1
             ELSE <<Max(at) + 1, IF w[Max(at) + 2] = FACTOR THEN Max(at) + 2 ELSE 0>>
        /\ Value(v, k, p) =
             IF at = {} THEN NoValue(p)
             ELSE IF p \in {"filter", "dynamic"} THEN Max(at) + 1
             ELSE <<Max(at) + 1, IF v[Max(at) + 2] = FACTOR THEN Max(at) + 2 ELSE 0>>
    BY <2>1 DEF Value, NoValue, StringOf, LimitOf, F
  <2>3. at # {} /\ p \notin {"filter", "dynamic"} => v[Max(at) + 2] = w[Max(at) + 2]
    <3> SUFFICES ASSUME at # {}, p \notin {"filter", "dynamic"}
                 PROVE  v[Max(at) + 2] = w[Max(at) + 2]
      OBVIOUS
    <3>1. Max(at) \in 1 .. Len(w) - 1 /\ Max(at) <= Len(w) - 2
      BY <1>3, <1>4, <1>5
    <3>2. Max(at) + 2 \in 1 .. Len(w)
      BY <1>1, <3>1
    <3> QED
      BY <1>1, <3>2
  <2> HIDE DEF at
  <2> QED
    BY <2>2, <2>3
<1>7. ASSUME ends, 1 <= n, n \in Nat PROVE Value(v, n, p) = ParamValue(t, Len(v))
  <2> DEFINE at == About(v, n, F)
             old == About(w, n, F)
  <2>1. at = old \cup {b}
    BY <1>2, <1>7
  <2>2. /\ t \in {58, 59} <=> p \in {"filter", "dynamic"}
        /\ t \in {58, 59} => Size[t + 1] = 2
        /\ t \in {61, 62, 63} => Size[t + 1] = 3
        /\ t \in {65, 66, 67} => Size[t + 1] = 4
        /\ t \in {58, 59, 61, 62, 63, 65, 66, 67}
    <3>1. /\ Size[58 + 1] = 2 /\ Size[59 + 1] = 2
          /\ Size[61 + 1] = 3 /\ Size[62 + 1] = 3 /\ Size[63 + 1] = 3
          /\ Size[65 + 1] = 4 /\ Size[66 + 1] = 4 /\ Size[67 + 1] = 4
      BY DEF Size
    <3> QED
      <4>1. ParamOf(t) = p /\ t \in {58, 59, 61, 62, 63, 65, 66, 67}
        BY <1>7 DEF ParamEnds
      <4>2. /\ \A u \in {58, 59} : Size[u + 1] = 2 /\ ParamOf(u) \in {"filter", "dynamic"}
            /\ \A u \in {61, 62, 63} : Size[u + 1] = 3 /\ ParamOf(u) \notin {"filter", "dynamic"}
            /\ \A u \in {65, 66, 67} : Size[u + 1] = 4 /\ ParamOf(u) \notin {"filter", "dynamic"}
        BY <3>1, ParamOfs
      <4> QED
        BY <4>1, <4>2
  <2>3. \A i \in old : i \in 1 .. Len(w) /\ i <= b
    <3> TAKE i \in old
    <3>1. i \in 1 .. Len(w) - 1 /\ (p \notin {"filter", "dynamic"} => i <= Len(w) - 2)
      BY <1>3, <1>4
    <3> HIDE DEF old
    <3> QED
      BY <1>1, <1>0, <2>2, <3>1
  <2>4. b \in 1 .. Len(w)
    <3>1. b \in Said(v, p)
      <4>1. b \in at /\ at \subseteq Said(v, p)
        BY <2>1 DEF About, Said, F
      <4> QED
        BY <4>1
    <3>2. b \in 1 .. Len(v) - 1
      BY <1>1, <3>1, SaidWithin
    <3> QED
      BY <1>1, <3>2
  <2>5. Max(at) = b
    <3> HIDE DEF old, at
    <3>1. at \in SUBSET (0 .. Len(w)) /\ at # {} /\ b \in at
      BY <1>1, <2>1, <2>3, <2>4
    <3>2. Max(at) \in at /\ b <= Max(at)
      BY <1>1, <3>1, GreatestIs
    <3> QED
      BY <2>1, <2>3, <2>4, <3>2
  <2>6. Value(v, n, p) =
          IF p \in {"filter", "dynamic"} THEN b + 1
          ELSE <<b + 1, IF v[b + 2] = FACTOR THEN b + 2 ELSE 0>>
    <3>1. at # {}
      BY <2>1
    <3> QED
      BY <2>5, <3>1 DEF Value, NoValue, StringOf, LimitOf, F
  <2>7. CASE t \in {58, 59}
    <3>1. b + 1 = Len(v)
      BY <1>1, <1>0, <2>2, <2>7
    <3>2. ParamValue(t, Len(v)) = Len(v)
      BY <2>7 DEF ParamValue
    <3> QED
      BY <2>2, <2>6, <2>7, <3>1, <3>2
  <2>8. CASE t \in {61, 62, 63}
    <3>1. b + 1 = Len(v) - 1 /\ b + 2 = Len(v)
      BY <1>1, <1>0, <2>2, <2>8
    <3>2. v[Len(v)] # FACTOR
      <4>1. t \in ParamEnds /\ v \in Seq(Word)
        BY <1>1, <1>7
      <4> QED
        BY <1>0, <2>8, <4>1, LastStatement
    <3>3. ParamValue(t, Len(v)) = <<Len(v) - 1, 0>>
      BY <2>8 DEF ParamValue
    <3>4. p \notin {"filter", "dynamic"}
      BY <2>2, <2>8
    <3> QED
      BY <2>6, <3>1, <3>2, <3>3, <3>4
  <2>9. CASE t \in {65, 66, 67}
    <3>1. b + 1 = Len(v) - 2 /\ b + 2 = Len(v) - 1
      BY <1>1, <1>0, <2>2, <2>9
    <3>2. v[Len(v) - 1] = FACTOR
      <4>1. t \in ParamEnds /\ v \in Seq(Word)
        BY <1>1, <1>7
      <4> QED
        BY <1>0, <2>9, <4>1, LastStatement
    <3>3. ParamValue(t, Len(v)) = <<Len(v) - 2, Len(v) - 1>>
      BY <2>9 DEF ParamValue
    <3>4. p \notin {"filter", "dynamic"}
      BY <2>2, <2>9
    <3> QED
      BY <2>6, <3>1, <3>2, <3>3, <3>4
  <2> QED
    BY <2>2, <2>7, <2>8, <2>9
<1>8. ASSUME t = 31 PROVE Value(v, n + 1, p) = NoValue(p)
  BY <1>2, <1>8 DEF Value, NoValue, StringOf, LimitOf, F
<1>9. n \in Nat
  BY <1>0, HeadersAre
<1> QED
  BY <1>6, <1>7, <1>8, <1>9

(* What a file says about its profiles, as the list that is made of it.    *)
Written(w, k) ==
  [name    |-> HeaderOf(w, k) + 1,
   filter  |-> Value(w, k, "filter"), dynamic |-> Value(w, k, "dynamic"),
   bytes   |-> Value(w, k, "bytes"), pkts |-> Value(w, k, "pkts"),
   flows   |-> Value(w, k, "flows")]
Book(w) == [k \in 1 .. Cardinality(Headers(w)) |-> Written(w, k)]

(* The list is a sequence with an entry for each header.                   *)
LEMMA BookIs ==
  ASSUME NEW w \in Seq(Word), NEW n, n = Cardinality(Headers(w))
  PROVE  /\ n \in Nat /\ DOMAIN Book(w) = 1 .. n /\ Len(Book(w)) = n
         /\ \A k \in 1 .. n : Book(w)[k] = Written(w, k)
         /\ \E R : Book(w) \in Seq(R)
         /\ Headers(w) = {} <=> n = 0
<1>1. n \in Nat /\ IsFiniteSet(Headers(w))
  BY HeadersAre
<1>2. Book(w) \in [1 .. n -> {Written(w, k) : k \in 1 .. n}]
  BY DEF Book
<1>3. Book(w) \in Seq({Written(w, k) : k \in 1 .. n})
  BY <1>1, <1>2, SeqDef
<1>4. Len(Book(w)) = n
  BY <1>1, <1>2, <1>3, LenProperties
<1>5. Headers(w) = {} <=> n = 0
  BY <1>1, FS_EmptySet
<1> QED
  BY <1>1, <1>3, <1>4, <1>5 DEF Book

(* What one more word changes of an entry.                                 *)
LEMMA WrittenAppended ==
  ASSUME NEW t, NEW w, NEW v, LeadsTo(t, w, v), Numbered(w),
         NEW n, n = Cardinality(Headers(w)), t = 38 => n = 0
  PROVE  /\ \A k \in 1 .. n :
              Written(v, k) =
                IF t \in ParamEnds /\ k = n
                THEN [Written(w, k) EXCEPT ![ParamOf(t)] = ParamValue(t, Len(v))]
                ELSE Written(w, k)
         /\ t = 31 => Written(v, n + 1) = NewProfile(Len(v) - 1)
         /\ Numbered(v) /\ v \in Seq(Word)
         /\ Cardinality(Headers(v)) = IF t = 31 THEN n + 1 ELSE n
<1>1. PICK s, y : /\ t \in States /\ s = Below[t + 1] /\ y = WordOf[t + 1]
                  /\ y # YYEMPTY /\ w \in Seq(Word) /\ Fits(s, w, y)
                  /\ v = Append(w, y) /\ Fits(t, v, YYEMPTY)
  BY DEF LeadsTo
<1>2. /\ y \in Word /\ v \in Seq(Word) /\ Len(v) = Len(w) + 1 /\ Len(w) \in Nat
  <2>1. y \in Word
    BY <1>1, PlainTable, WordsAre DEF Plain
  <2> QED
    BY <1>1, <2>1, Appended
<1>3. EndsWith(v, Header) <=> t = 31
  BY <1>1, HeaderAt
<1>4. /\ v \in Seq(Word) /\ Numbered(v)
      /\ \A k \in 1 .. n : HeaderOf(v, k) = HeaderOf(w, k)
      /\ t # 31 => Headers(v) = Headers(w)
      /\ t = 31 => Cardinality(Headers(v)) = n + 1 /\ HeaderOf(v, n + 1) = Len(w) - 1
  BY <1>1, <1>2, <1>3, HeadersAppended
<1>5. DOMAIN ParamForms = {"filter", "dynamic", "bytes", "pkts", "flows"}
  BY ParamNames
<1>6. ASSUME t # 38, NEW p \in {"filter", "dynamic", "bytes", "pkts", "flows"}
      PROVE  /\ \A k \in 1 .. n :
                  Value(v, k, p) = IF t \in ParamEnds /\ ParamOf(t) = p /\ k = n
                                   THEN ParamValue(t, Len(v)) ELSE Value(w, k, p)
             /\ t = 31 => Value(v, n + 1, p) = NoValue(p)
  BY <1>5, <1>6, ValueAppended
<1>7. ASSUME NEW k \in 1 .. n, t \in ParamEnds, k = n
      PROVE  Written(v, k) = [Written(w, k) EXCEPT ![ParamOf(t)] = ParamValue(t, Len(v))]
  <2>1. t # 38
    BY <1>7 DEF ParamEnds
  <2>2. \A p \in {"filter", "dynamic", "bytes", "pkts", "flows"} :
          Value(v, k, p) = IF ParamOf(t) = p THEN ParamValue(t, Len(v)) ELSE Value(w, k, p)
    BY <1>6, <1>7, <2>1
  <2>3. HeaderOf(v, k) = HeaderOf(w, k)
    BY <1>4
  <2>4. CASE ParamOf(t) = "filter"
    BY <2>2, <2>3, <2>4 DEF Written
  <2>5. CASE ParamOf(t) = "dynamic"
    BY <2>2, <2>3, <2>5 DEF Written
  <2>6. CASE ParamOf(t) = "bytes"
    BY <2>2, <2>3, <2>6 DEF Written
  <2>7. CASE ParamOf(t) = "pkts"
    BY <2>2, <2>3, <2>7 DEF Written
  <2>8. CASE ParamOf(t) = "flows"
    BY <2>2, <2>3, <2>8 DEF Written
  <2> QED
    BY <1>5, <1>7, <2>4, <2>5, <2>6, <2>7, <2>8, FormSpelled
<1>8. ASSUME NEW k \in 1 .. n, ~(t \in ParamEnds /\ k = n)
      PROVE  Written(v, k) = Written(w, k)
  <2>1. t # 38
    <3>1. n # 0
      <4>1. n \in Nat
        BY <1>1, BookIs
      <4> QED
        BY <4>1
    <3> QED
      BY <3>1
  <2>2. \A p \in {"filter", "dynamic", "bytes", "pkts", "flows"} :
          Value(v, k, p) = Value(w, k, p)
    BY <1>6, <1>8, <2>1
  <2>3. HeaderOf(v, k) = HeaderOf(w, k)
    BY <1>4
  <2> QED
    BY <2>2, <2>3 DEF Written
<1>9. ASSUME t = 31 PROVE Written(v, n + 1) = NewProfile(Len(v) - 1)
  <2>1. \A p \in {"filter", "dynamic", "bytes", "pkts", "flows"} :
          Value(v, n + 1, p) = NoValue(p)
    BY <1>6, <1>9
  <2>2. HeaderOf(v, n + 1) + 1 = Len(v) - 1
    BY <1>2, <1>4, <1>9
  <2> QED
    BY <2>1, <2>2 DEF Written, NewProfile, NoValue
<1> QED
  BY <1>4, <1>7, <1>8, <1>9

(* The list once the parser in state s, after w, has done what it is about *)
(* to do with it: at the end of a header or of a statement it has not yet. *)
Due(s, w, list) ==
  IF s = 31 THEN Append(list, NewProfile(Len(w) - 1))
  ELSE IF s \in ParamEnds
  THEN [list EXCEPT ![Len(list)][ParamOf(s)] = ParamValue(s, Len(w))]
  ELSE list

(* One more word changes what the file says the way the parser is due to.  *)
LEMMA BookAppended ==
  ASSUME NEW t, NEW w, NEW v, LeadsTo(t, w, v), Numbered(w),
         t = 38 => Headers(w) = {}, t \in ParamEnds => Headers(w) # {}
  PROVE  /\ Book(v) = Due(t, v, Book(w))
         /\ Numbered(v) /\ v \in Seq(Word)
         /\ Headers(v) = {} <=> Headers(w) = {} /\ t # 31
<1> DEFINE n == Cardinality(Headers(w))
           m == Cardinality(Headers(v))
<1>1. w \in Seq(Word)
  BY DEF LeadsTo
<1>2. /\ n \in Nat /\ DOMAIN Book(w) = 1 .. n /\ Len(Book(w)) = n
      /\ \A k \in 1 .. n : Book(w)[k] = Written(w, k)
      /\ \E R : Book(w) \in Seq(R)
      /\ Headers(w) = {} <=> n = 0
  BY <1>1, BookIs
<1>3. /\ \A k \in 1 .. n :
           Written(v, k) =
             IF t \in ParamEnds /\ k = n
             THEN [Written(w, k) EXCEPT ![ParamOf(t)] = ParamValue(t, Len(v))]
             ELSE Written(w, k)
      /\ t = 31 => Written(v, n + 1) = NewProfile(Len(v) - 1)
      /\ Numbered(v) /\ v \in Seq(Word)
      /\ m = IF t = 31 THEN n + 1 ELSE n
  BY <1>2, WrittenAppended
<1>4. /\ m \in Nat /\ DOMAIN Book(v) = 1 .. m
      /\ Headers(v) = {} <=> m = 0
      /\ \A k \in 1 .. m : Book(v)[k] = Written(v, k)
      /\ Book(v) = [k \in 1 .. m |-> Written(v, k)]
  BY <1>3, BookIs DEF Book
<1>5. Book(w) = [k \in 1 .. n |-> Written(w, k)]
  BY DEF Book
<1> HIDE DEF n, m
<1>6. CASE t = 31
  <2> DEFINE new == NewProfile(Len(v) - 1)
             list == Append(Book(w), new)
  <2>1. PICK R : Book(w) \in Seq(R)
    BY <1>2
  <2>2. Book(w) \in Seq(R \cup {new}) /\ new \in R \cup {new}
    <3>1. Book(w) \in [1 .. n -> R]
      BY <1>2, <2>1
    <3>2. Book(w) \in [1 .. n -> R \cup {new}]
      BY <3>1
    <3> HIDE DEF new
    <3> QED
      BY <1>2, <3>2, SeqDef
  <2> HIDE DEF new
  <2>3. /\ DOMAIN list = 1 .. n + 1 /\ list[n + 1] = new
        /\ \A i \in 1 .. n : list[i] = Book(w)[i]
        /\ list \in Seq(R \cup {new}) /\ Len(list) = n + 1
    BY <1>2, <2>2, AppendProperties, LenProperties
  <2>4. \A k \in 1 .. n + 1 : list[k] = Written(v, k)
    <3> TAKE k \in 1 .. n + 1
    <3>1. CASE k = n + 1
      BY <1>3, <1>6, <2>3, <3>1 DEF new
    <3>2. CASE k # n + 1
      <4>1. k \in 1 .. n /\ t \notin ParamEnds
        BY <1>2, <1>6, <3>2 DEF ParamEnds
      <4> QED
        BY <1>2, <1>3, <2>3, <4>1
    <3> QED
      BY <3>1, <3>2
  <2>5. list = [k \in 1 .. n + 1 |-> Written(v, k)]
    <3>1. list = [k \in 1 .. n + 1 |-> list[k]]
      <4> HIDE DEF list
      <4>1. list \in [1 .. n + 1 -> R \cup {new}]
        BY <2>3
      <4> QED
        BY <4>1
    <3> HIDE DEF list
    <3> QED
      BY <2>4, <3>1
  <2>6. Book(v) = list
    BY <1>3, <1>4, <1>6, <2>5
  <2>7. Due(t, v, Book(w)) = list
    BY <1>6 DEF Due, new
  <2>8. Headers(v) # {}
    BY <1>2, <1>3, <1>4, <1>6
  <2> QED
    BY <1>3, <1>6, <2>6, <2>7, <2>8
<1>7. CASE t \in ParamEnds
  <2>1. t # 31 /\ m = n /\ n \in 1 .. n
    <3>1. t # 31
      BY <1>7 DEF ParamEnds
    <3> QED
      BY <1>2, <1>3, <1>7, <3>1
  <2>2. Due(t, v, Book(w)) =
          [Book(w) EXCEPT ![n][ParamOf(t)] = ParamValue(t, Len(v))]
    BY <1>2, <1>7, <2>1 DEF Due
  <2>3. Book(v) = [Book(w) EXCEPT ![n][ParamOf(t)] = ParamValue(t, Len(v))]
    <3>1. PICK param, x : param = ParamOf(t) /\ x = ParamValue(t, Len(v))
      OBVIOUS
    <3>2. [Book(w) EXCEPT ![n][param] = x] =
            [k \in 1 .. n |-> IF k = n THEN [Written(w, k) EXCEPT ![param] = x]
                             ELSE Written(w, k)]
      BY <1>5, <2>1
    <3>3. \A k \in 1 .. n :
            Written(v, k) = IF k = n THEN [Written(w, k) EXCEPT ![param] = x] ELSE Written(w, k)
      BY <1>3, <1>7, <3>1
    <3>4. Book(v) = [k \in 1 .. n |-> Written(v, k)]
      BY <1>4, <2>1
    <3> QED
      BY <3>1, <3>2, <3>3, <3>4
  <2> QED
    BY <1>2, <1>3, <1>4, <2>1, <2>2, <2>3
<1>8. CASE t # 31 /\ t \notin ParamEnds
  <2>1. m = n /\ Book(v) = Book(w)
    BY <1>3, <1>4, <1>5, <1>8
  <2> QED
    BY <1>2, <1>3, <1>4, <1>8, <2>1 DEF Due
<1> QED
  BY <1>6, <1>7, <1>8

(* Until the parser returns, its list is what the part of the file it has  *)
(* shifted says, but for what it is about to do; and the value of          *)
(* ruleparams, and of the rule before each statement, is the last profile. *)
ProfilesInv ==
  /\ pc \in {"open", "parse"} =>
       /\ Numbered(Eaten) /\ Due(State, Eaten, profiles) = Book(Eaten)
       /\ State \in InBegin \cup InOptions => Headers(Eaten) = {}
       /\ State \in InProfile => Headers(Eaten) # {}
       /\ \A i \in 1 .. Len(stack) :
            stack[i].state \in {43, 52} => stack[i].val = Len(profiles)
  /\ ProfilesAsWritten

LEMMA ProfileTable ==
  /\ \A t \in States :
       /\ yydefact[t + 1] = 21 <=> t = 31
       /\ yydefact[t + 1] = 25 <=> t = 49
       /\ yydefact[t + 1] \in 28 .. 35 <=> t \in ParamEnds
       /\ t # YYFINAL => yydefact[t + 1] \in Rules
  /\ yydefact[58 + 1] = 28 /\ yydefact[59 + 1] = 29
  /\ yydefact[61 + 1] = 30 /\ yydefact[62 + 1] = 31 /\ yydefact[63 + 1] = 32
  /\ yydefact[65 + 1] = 33 /\ yydefact[66 + 1] = 34 /\ yydefact[67 + 1] = 35
<1>1. \A t \in States : yydefact[t + 1] = 21 <=> t = 31
  BY DEF States, yydefact
<1>2. \A t \in States : yydefact[t + 1] = 25 <=> t = 49
  BY DEF States, yydefact
<1>3. \A t \in States : yydefact[t + 1] \in 28 .. 35 <=> t \in ParamEnds
  BY DEF States, yydefact, ParamEnds
<1>4. /\ yydefact[58 + 1] = 28 /\ yydefact[59 + 1] = 29
      /\ yydefact[61 + 1] = 30 /\ yydefact[62 + 1] = 31 /\ yydefact[63 + 1] = 32
      /\ yydefact[65 + 1] = 33 /\ yydefact[66 + 1] = 34 /\ yydefact[67 + 1] = 35
  BY DEF yydefact
<1>5. \A t \in States : t # YYFINAL => yydefact[t + 1] \in Rules
  BY DEF States, yydefact, Rules, YYFINAL
<1> QED
  BY <1>1, <1>2, <1>3, <1>4, <1>5

LEMMA EnteredTable ==
  \A rule \in Rules :
    /\ Entered[rule + 1] = 43 <=> rule = 21
    /\ Entered[rule + 1] = 52 <=> rule = 25
BY DEF Rules, Entered

(* The words on top of the stack at the end of a statement of a profile,   *)
(* and the value below them.                                               *)
LEMMA ParamBelow ==
  /\ \A t \in {31, 58, 59, 61, 62, 63, 65, 66, 67} :
       WordOf[t + 1] # YYEMPTY /\ WordOf[Below[t + 1] + 1] # YYEMPTY
  /\ \A t \in {65, 66, 67} : WordOf[Below[Below[t + 1] + 1] + 1] # YYEMPTY
  /\ \A t \in {58, 59} : Back(t, 2) = 52
  /\ \A t \in {61, 62, 63} : Back(t, 3) = 52
  /\ \A t \in {65, 66, 67} : Back(t, 4) = 52
  /\ Below[49 + 1] = 43
  /\ \A t \in {43, 52} : WordOf[t + 1] = YYEMPTY /\ Depth[t + 1] > 6
  /\ Depth[31 + 1] = 6 /\ Depth[49 + 1] > 1 /\ \A t \in ParamEnds : Depth[t + 1] > 5
<1>1. /\ Below[31 + 1] = 19 /\ Below[58 + 1] = 54 /\ Below[59 + 1] = 55 /\ Below[61 + 1] = 57
      /\ Below[62 + 1] = 57 /\ Below[63 + 1] = 57 /\ Below[65 + 1] = 64 /\ Below[66 + 1] = 64
      /\ Below[67 + 1] = 64 /\ Below[64 + 1] = 57 /\ Below[57 + 1] = 53 /\ Below[54 + 1] = 52
      /\ Below[53 + 1] = 52 /\ Below[55 + 1] = 52 /\ Below[49 + 1] = 43
  BY DEF Below
<1>2. /\ WordOf[31 + 1] = 3 /\ WordOf[58 + 1] = 44 /\ WordOf[59 + 1] = 44 /\ WordOf[61 + 1] = 9
      /\ WordOf[62 + 1] = 10 /\ WordOf[63 + 1] = 11 /\ WordOf[65 + 1] = 9
      /\ WordOf[66 + 1] = 10 /\ WordOf[67 + 1] = 11 /\ WordOf[19 + 1] = 44
      /\ WordOf[53 + 1] = 7 /\ WordOf[54 + 1] = 8 /\ WordOf[55 + 1] = 29 /\ WordOf[57 + 1] = 42
      /\ WordOf[64 + 1] = 43 /\ WordOf[43 + 1] = YYEMPTY /\ WordOf[52 + 1] = YYEMPTY
  BY DEF WordOf, YYEMPTY
<1>3. YYEMPTY \notin {3, 7, 8, 9, 10, 11, 29, 42, 43, 44}
  BY DEF YYEMPTY
<1>4. /\ Depth[43 + 1] > 6 /\ Depth[52 + 1] > 6 /\ Depth[31 + 1] = 6 /\ Depth[49 + 1] > 1
  BY DEF Depth
<1>5. \A t \in ParamEnds : Depth[t + 1] > 5
  BY DEF Depth, ParamEnds
<1>6. /\ \A t : Back(t, 2) = Below[Below[t + 1] + 1]
      /\ \A t : Back(t, 3) = Below[Below[Below[t + 1] + 1] + 1]
      /\ \A t : Back(t, 4) = Below[Below[Below[Below[t + 1] + 1] + 1] + 1]
  BY DEF Back
<1> QED
  BY <1>1, <1>2, <1>3, <1>4, <1>5, <1>6

LEMMA PlaceBelow ==
  \A t \in States :
    /\ t \in InBegin \cup InOptions => Below[t + 1] \in InBegin \cup InOptions
    /\ t \in InProfile \ {31} => Below[t + 1] \in InProfile
    /\ t \in ParamEnds => t \in InProfile \ {31}
    /\ t = 38 => t \in InOptions
<1>1. \A t \in InBegin \cup InOptions : Below[t + 1] \in InBegin \cup InOptions
  BY DEF InBegin, InOptions, Below
<1>2. \A t \in InProfile \ {31} : Below[t + 1] \in InProfile
  BY DEF InProfile, Below
<1>3. ParamEnds \subseteq InProfile \ {31} /\ 38 \in InOptions
  BY DEF ParamEnds, InProfile, InOptions
<1> QED
  BY <1>1, <1>2, <1>3

(* At the end of a header or a statement: the words read last are on top.  *)
LEMMA TopWords ==
  ASSUME ParserInv, Parsing, State \in {31} \cup ParamEnds
  PROVE  /\ Len(stack) \in 6 .. 13 /\ Len(Eaten) \in Nat
         /\ stack[Len(stack)].val = Len(Eaten)
         /\ stack[Len(stack) - 1].val = Len(Eaten) - 1
         /\ State \in {65, 66, 67} => stack[Len(stack) - 2].val = Len(Eaten) - 2
<1>0. PICK d : d = Len(stack)
  OBVIOUS
<1>1. d \in 6 .. 13
  <2>1. d \in 1 .. 13 /\ Depth[State + 1] = d
    BY <1>0, Typed0
  <2>2. Depth[State + 1] >= 6
    <3>1. State = 31 \/ State \in ParamEnds
      OBVIOUS
    <3>2. \A t \in ParamEnds : Depth[t + 1] > 5 /\ Depth[t + 1] \in Nat
      BY ParamBelow, BelowTable DEF ParamEnds, States
    <3> QED
      BY <3>1, <3>2, ParamBelow
  <2> QED
    BY <2>1, <2>2
<1>2. State \in {31, 58, 59, 61, 62, 63, 65, 66, 67}
  BY DEF ParamEnds
<1>3. Path(stack) /\ Places(stack, Eaten) /\ Len(Eaten) \in Nat
  BY EatenIs DEF ParserInv
<1>4. /\ stack[d].state = State
      /\ stack[d - 1].state = Below[State + 1]
      /\ stack[d - 2].state = Below[Below[State + 1] + 1]
  <2>1. \A i \in 2 .. d : stack[i - 1].state = Below[stack[i].state + 1]
    BY <1>0, <1>3 DEF Path
  <2>2. stack[d].state = State
    BY <1>0 DEF State, Last
  <2>3. d \in 2 .. d /\ d - 1 \in 2 .. d /\ d - 1 - 1 = d - 2
    BY <1>1
  <2> QED
    <3>1. stack[d - 1].state = Below[stack[d].state + 1]
      BY <2>1, <2>3
    <3>2. stack[d - 1 - 1].state = Below[stack[d - 1].state + 1]
      BY <2>1, <2>3
    <3> QED
      BY <2>2, <2>3, <3>1, <3>2
<1>5. /\ Shifted(stack, d) /\ Shifted(stack, d - 1)
      /\ State \in {65, 66, 67} => Shifted(stack, d - 2)
  BY <1>2, <1>4, ParamBelow DEF Shifted
<1>6. \A i \in 1 .. d : Shifted(stack, i) =>
        /\ stack[i].val \in 1 .. Len(Eaten)
        /\ i = d => stack[i].val = Len(Eaten)
        /\ i > 1 /\ Shifted(stack, i - 1) => stack[i].val = stack[i - 1].val + 1
  BY <1>0, <1>3 DEF Places
<1>7. /\ d \in 1 .. d /\ d - 1 \in 1 .. d /\ d - 2 \in 1 .. d
      /\ d > 1 /\ d - 1 > 1 /\ d - 1 - 1 = d - 2
  BY <1>1
<1>8. /\ stack[d].val = Len(Eaten) /\ stack[d].val = stack[d - 1].val + 1
      /\ stack[d - 1].val \in 1 .. Len(Eaten)
  BY <1>5, <1>6, <1>7
<1>9. State \in {65, 66, 67} =>
        stack[d - 1].val = stack[d - 2].val + 1 /\ stack[d - 2].val \in 1 .. Len(Eaten)
  BY <1>5, <1>6, <1>7
<1>10. stack[d - 1].val = Len(Eaten) - 1
  BY <1>3, <1>8
<1>11. State \in {65, 66, 67} => stack[d - 2].val = Len(Eaten) - 2
  <2> SUFFICES ASSUME State \in {65, 66, 67} PROVE stack[d - 2].val = Len(Eaten) - 2
    OBVIOUS
  <2>1. /\ stack[d - 1].val = stack[d - 2].val + 1
        /\ stack[d - 2].val \in 1 .. Len(Eaten)
    BY <1>9
  <2> QED
    BY <1>3, <1>10, <2>1
<1> QED
  BY <1>0, <1>1, <1>3, <1>8, <1>10, <1>11

(* A reduction does what was due.                                          *)
LEMMA ProfilesReduce ==
  ASSUME ParserInv, ProfilesInv, AtDefault, NEW rule, rule = DefaultRule(State), rule # 0,
         NEW v \in Values, stack' = Reduced(v), UNCHANGED <<pc, yychar, read>>,
         profiles' = Due(State, Eaten, profiles),
         rule \in {21, 25} => v = Len(profiles'),
         rule = 21 \/ Len(profiles') = Len(profiles)
  PROVE  ProfilesInv'
<1>1. Parsing /\ pc = "parse" /\ Path(stack) /\ Len(stack) \in Nat
  <2>1. Parsing /\ pc = "parse" /\ Path(stack)
    BY DEF AtDefault, Parsing, ParserInv
  <2> QED
    BY <2>1, Typed0
<1>2. State \in States /\ State # YYFINAL /\ rule = yydefact[State + 1] /\ rule \in Rules
  <2>1. State \in States /\ State # YYFINAL /\ rule = yydefact[State + 1]
    BY <1>1, Typed0
  <2> QED
    BY <2>1, ProfileTable
<1>3. PICK t, k : t = Entered[rule + 1] /\ k = Len(stack) - yyr2[rule + 1]
  OBVIOUS
<1>4. /\ Len(stack') = k + 1 /\ k \in Nat /\ k <= Len(stack)
      /\ \A i \in 1 .. k : stack'[i] = stack[i]
      /\ Last(stack').state = t /\ Last(stack').val = v
      /\ t \in States /\ WordOf[t + 1] = YYEMPTY
  <2>1. /\ yyr2[rule + 1] \in 0 .. 6 /\ yyr2[rule + 1] < Len(stack)
        /\ Len(Reduced(v)) = k + 1
        /\ \A i \in 1 .. k : Reduced(v)[i] = stack[i]
        /\ Last(Reduced(v)).state = t /\ Last(Reduced(v)).val = v
        /\ t \in States /\ WordOf[t + 1] = YYEMPTY
    BY <1>1, <1>3, ReducedStack
  <2> QED
    BY <1>1, <1>3, <2>1
<1>5. Eaten' = Eaten /\ State' = t
  BY <1>4 DEF Eaten, State
<1>6. t # 31 /\ t \notin ParamEnds
  <2>1. WordOf[31 + 1] # YYEMPTY /\ \A e \in ParamEnds : WordOf[e + 1] # YYEMPTY
    BY ParamBelow DEF ParamEnds
  <2> QED
    BY <1>4, <2>1
<1>7. Due(t, Eaten, profiles') = Book(Eaten) /\ Numbered(Eaten)
  <2>1. Due(State, Eaten, profiles) = Book(Eaten) /\ Numbered(Eaten)
    BY <1>1 DEF ProfilesInv
  <2> QED
    BY <1>6, <2>1 DEF Due
<1>8. /\ t \in InBegin \cup InOptions => Headers(Eaten) = {}
      /\ t \in InProfile => Headers(Eaten) # {}
  <2>1. PlaceOf(t) = PlaceOf(State)
    BY <1>2, <1>3, ReductionTable
  <2>2. /\ t \in InBegin \cup InOptions => State \in InBegin \cup InOptions
        /\ t \in InProfile => State \in InProfile
    BY <1>2, <1>4, <2>1, PlaceIs
  <2> QED
    BY <1>1, <2>2 DEF ProfilesInv
<1>9. ASSUME NEW i \in 1 .. Len(stack'), stack'[i].state \in {43, 52}
      PROVE  stack'[i].val = Len(profiles')
  <2>1. CASE i = k + 1
    <3>1. stack'[i].state = t /\ stack'[i].val = v
      BY <1>4, <2>1 DEF Last
    <3>2. rule \in {21, 25}
      BY <1>2, <1>3, <1>9, <3>1, EnteredTable
    <3> QED
      BY <3>1, <3>2
  <2>2. CASE i # k + 1
    <3>1. i \in 1 .. k /\ i \in 1 .. Len(stack)
      BY <1>1, <1>4, <2>2
    <3>2. stack'[i] = stack[i] /\ stack[i].state \in {43, 52}
      BY <1>4, <1>9, <3>1
    <3>3. stack[i].val = Len(profiles)
      BY <1>1, <3>1, <3>2 DEF ProfilesInv
    <3>4. rule # 21
      <4>1. ASSUME rule = 21 PROVE FALSE
        <5>1. Len(stack) = 6
          <6>1. State = 31
            BY <1>2, <4>1, ProfileTable
          <6> QED
            BY <1>1, <6>1, Typed0, ParamBelow
        <5>2. Depth[stack[i].state + 1] = i
          BY <1>1, <3>1 DEF Path
        <5>3. Depth[stack[i].state + 1] > 6
          BY <3>2, ParamBelow
        <5> QED
          BY <3>1, <5>1, <5>2, <5>3
      <4> QED
        BY <4>1
    <3> QED
      BY <3>2, <3>3, <3>4
  <2> QED
    BY <2>1, <2>2
<1>10. pc' = "parse"
  BY <1>1
<1> QED
  BY <1>5, <1>7, <1>8, <1>9, <1>10 DEF ProfilesInv, ProfilesAsWritten

LEMMA ProfilesAborted ==
  ASSUME Abort
  PROVE  ProfilesInv'
BY DEF Abort, ProfilesInv, ProfilesAsWritten

(* A reduction that leaves the list alone. *)
LEMMA ProfilesPassed ==
  ASSUME ParserInv, ProfilesInv, AtDefault,
         DefaultRule(State) \notin {0, 21, 25} \cup (28 .. 35),
         Continue, UNCHANGED <<yychar, read, profiles>>
  PROVE  ProfilesInv'
<1>1. DefaultVal \in Values /\ stack' = Reduced(DefaultVal) /\ UNCHANGED pc
  BY DefaultValue DEF Continue, AtDefault, ParserInv
<1>2. State \in States /\ DefaultRule(State) = yydefact[State + 1]
  BY Typed0 DEF AtDefault
<1>3. State # 31 /\ State \notin ParamEnds
  BY <1>2, ProfileTable
<1>4. profiles' = Due(State, Eaten, profiles) /\ Len(profiles') = Len(profiles)
  BY <1>3 DEF Due
<1>5. DefaultRule(State) # 0 /\ DefaultRule(State) \notin {21, 25}
  OBVIOUS
<1> QED
  BY <1>1, <1>4, <1>5, ProfilesReduce

LEMMA ProfilesAdd ==
  ASSUME ParserInv, ProfilesInv, AddProfile
  PROVE  ProfilesInv'
<1>1. /\ AtDefault /\ Parsing /\ DefaultRule(State) = 21 /\ UNCHANGED <<yychar, read>>
      /\ \/ /\ profiles' = Append(profiles, NewProfile(Val(2, 3)))
            /\ stack' = Reduced(Len(profiles')) /\ UNCHANGED pc
         \/ Abort
  BY DEF AddProfile, Reduces, AtDefault
<1>2. CASE /\ profiles' = Append(profiles, NewProfile(Val(2, 3)))
           /\ stack' = Reduced(Len(profiles')) /\ UNCHANGED pc
  <2>1. State = 31
    <3>1. State \in States /\ yydefact[State + 1] = 21
      BY <1>1, Typed0
    <3> QED
      BY <3>1, ProfileTable
  <2>2. Val(2, 3) = Len(Eaten) - 1
    <3>1. Len(stack) \in 6 .. 13 /\ stack[Len(stack) - 1].val = Len(Eaten) - 1
      BY <1>1, <2>1, TopWords
    <3>2. Len(stack) + 2 - 3 = Len(stack) - 1
      BY <3>1
    <3> QED
      BY <3>1, <3>2 DEF Val
  <2>3. profiles' = Due(State, Eaten, profiles)
    BY <1>2, <2>1, <2>2 DEF Due
  <2>4. Len(profiles') \in Values
    <3>1. ParserInv'
      BY StepAddProfile
    <3> QED
      BY <3>1 DEF ParserInv, TypeOK, Values
  <2>5. DefaultRule(State) # 0
    BY <1>1
  <2> QED
    BY <1>1, <1>2, <2>3, <2>4, <2>5, ProfilesReduce
<1> QED
  BY <1>1, <1>2, ProfilesAborted

LEMMA ProfilesPass ==
  ASSUME ParserInv, ProfilesInv, PassProfile
  PROVE  ProfilesInv'
<1>1. /\ AtDefault /\ Parsing /\ pc = "parse" /\ DefaultRule(State) = 25
      /\ stack' = Reduced(Val(0, 1)) /\ UNCHANGED <<pc, yychar, read, profiles>>
  BY DEF PassProfile, Reduces, AtDefault, Parsing
<1>2. State = 49
  <2>1. State \in States /\ yydefact[State + 1] = 25
    BY <1>1, Typed0
  <2> QED
    BY <2>1, ProfileTable
<1>3. PICK d : d = Len(stack)
  OBVIOUS
<1>4. d \in 2 .. 13
  <2>1. d \in 1 .. 13 /\ Depth[State + 1] = d
    BY <1>1, <1>3, Typed0
  <2> QED
    BY <1>2, <2>1, ParamBelow
<1>5. stack[d - 1].state = 43
  <2>1. \A i \in 2 .. d : stack[i - 1].state = Below[stack[i].state + 1]
    BY <1>3 DEF Path, ParserInv
  <2>2. stack[d - 1].state = Below[stack[d].state + 1]
    BY <1>4, <2>1
  <2>3. stack[d].state = 49
    BY <1>2, <1>3 DEF State, Last
  <2> QED
    BY <2>2, <2>3, ParamBelow
<1>6. Val(0, 1) = Len(profiles)
  <2>1. d - 1 \in 1 .. d /\ d + 0 - 1 = d - 1
    BY <1>4
  <2>2. stack[d - 1].val = Len(profiles)
    BY <1>1, <1>3, <1>5, <2>1 DEF ProfilesInv
  <2> QED
    BY <1>3, <2>1, <2>2 DEF Val
<1>7. profiles' = Due(State, Eaten, profiles)
  BY <1>1, <1>2 DEF Due, ParamEnds
<1>8. Val(0, 1) \in Values
  BY PassedValue
<1>9. DefaultRule(State) # 0 /\ Val(0, 1) = Len(profiles') /\ Len(profiles') = Len(profiles)
  BY <1>1, <1>6
<1> QED
  BY <1>1, <1>7, <1>8, <1>9, ProfilesReduce

(* The statement's profile is found below its words. *)
LEMMA ParamProfile ==
  ASSUME ParserInv, ProfilesInv, Parsing, State \in ParamEnds,
         NEW len, len = Size[State + 1]
  PROVE  Val(0, len) = Len(profiles)
<1>1. PICK d : d = Len(stack) /\ d \in 6 .. 13
  BY TopWords
<1>2. len \in 2 .. 4 /\ Back(State, len) = 52
  <2>1. /\ Size[58 + 1] = 2 /\ Size[59 + 1] = 2
        /\ Size[61 + 1] = 3 /\ Size[62 + 1] = 3 /\ Size[63 + 1] = 3
        /\ Size[65 + 1] = 4 /\ Size[66 + 1] = 4 /\ Size[67 + 1] = 4
    BY DEF Size
  <2> QED
    BY <2>1, ParamBelow DEF ParamEnds
<1>3. len \in 0 .. 6 /\ len < d /\ d + 0 - len = d - len /\ d - len \in 1 .. d
  <2>1. \A x \in 6 .. 13, y \in 2 .. 4 :
          y \in 0 .. 6 /\ y < x /\ x + 0 - y = x - y /\ x - y \in 1 .. x
    OBVIOUS
  <2> QED
    BY <1>1, <1>2, <2>1
<1>4. stack[d - len].state = 52
  BY <1>1, <1>2, <1>3, PathBack DEF ParserInv, State
<1>5. stack[d - len].val = Len(profiles)
  BY <1>1, <1>3, <1>4 DEF ProfilesInv, Parsing
<1> QED
  BY <1>1, <1>3, <1>5 DEF Val

(* A statement sets its parameter in the last profile.                     *)
LEMMA ProfilesSet ==
  ASSUME ParserInv, ProfilesInv, AtDefault, DefaultRule(State) \in 28 .. 35,
         Continue, UNCHANGED <<yychar, read>>, NEW value,
         profiles' = [profiles EXCEPT ![Val(0, Size[State + 1])][ParamOf(State)] = value],
         value = ParamValue(State, Len(Eaten))
  PROVE  ProfilesInv'
<1>1. DefaultVal \in Values /\ stack' = Reduced(DefaultVal) /\ UNCHANGED pc
  BY DefaultValue DEF Continue, AtDefault, ParserInv
<1>2. Parsing /\ State \in States /\ DefaultRule(State) = yydefact[State + 1]
  BY Typed0 DEF AtDefault
<1>3. State \in ParamEnds /\ State # 31
  <2>1. State \in ParamEnds
    BY <1>2, ProfileTable
  <2> QED
    BY <2>1 DEF ParamEnds
<1>4. Val(0, Size[State + 1]) = Len(profiles)
  BY <1>2, <1>3, ParamProfile
<1>5. profiles' = Due(State, Eaten, profiles)
  BY <1>3, <1>4 DEF Due
<1>6. Len(profiles') = Len(profiles)
  <2>1. profiles \in Seq(Profile)
    BY DEF ParserInv, TypeOK
  <2>2. DOMAIN profiles' = DOMAIN profiles /\ DOMAIN profiles = 1 .. Len(profiles)
        /\ Len(profiles) \in Nat
    BY <2>1, LenProperties
  <2>3. PICK R : profiles' \in [1 .. Len(profiles) -> R]
    <3>1. profiles' \in [1 .. Len(profiles) -> {profiles'[i] : i \in 1 .. Len(profiles)}]
      <4>1. profiles' = [i \in 1 .. Len(profiles) |-> profiles'[i]]
        BY <2>1, <2>2
      <4> QED
        BY <4>1
    <3> QED
      BY <3>1
  <2>4. profiles' \in Seq(R)
    BY <2>2, <2>3, SeqDef
  <2> QED
    BY <2>2, <2>4, LenProperties
<1>7. DefaultRule(State) # 0 /\ DefaultRule(State) \notin {21, 25}
  OBVIOUS
<1> QED
  BY <1>1, <1>5, <1>6, <1>7, ProfilesReduce

LEMMA ProfilesParam ==
  ASSUME ParserInv, ProfilesInv, SetParam
  PROVE  ProfilesInv'
<1> DEFINE param == IF DefaultRule(State) = 28 THEN "filter" ELSE "dynamic"
<1>1. /\ AtDefault /\ Parsing /\ DefaultRule(State) \in {28, 29} /\ UNCHANGED <<yychar, read>>
      /\ \/ profiles' = [profiles EXCEPT ![Val(0, 2)][param] = Val(2, 2)] /\ Continue
         \/ Abort
  BY DEF SetParam, Reduces, AtDefault
<1>2. CASE profiles' = [profiles EXCEPT ![Val(0, 2)][param] = Val(2, 2)] /\ Continue
  <2>1. State \in {58, 59} /\ (State = 58 <=> DefaultRule(State) = 28)
    <3>1. State \in States /\ yydefact[State + 1] = DefaultRule(State)
      BY <1>1, Typed0
    <3>2. State \in ParamEnds
      BY <1>1, <3>1, ProfileTable
    <3> QED
      BY <1>1, <3>1, <3>2, ProfileTable DEF ParamEnds
  <2>2. param = ParamOf(State) /\ State \in ParamEnds
    BY <2>1, ParamOfs DEF ParamEnds
  <2>3. Val(2, 2) = ParamValue(State, Len(Eaten))
    <3>1. Val(2, 2) = Len(Eaten)
      <4>1. WordOf[State + 1] # YYEMPTY
        BY <2>1, ParamBelow
      <4> QED
        BY <1>1, <4>1, TopValue
    <3> QED
      BY <2>1, <3>1 DEF ParamValue
  <2>4. Size[State + 1] = 2
    <3>1. Size[58 + 1] = 2 /\ Size[59 + 1] = 2
      BY DEF Size
    <3> QED
      BY <2>1, <3>1
  <2> HIDE DEF param
  <2>5. DefaultRule(State) \in 28 .. 35
    BY <1>1
  <2>6. profiles' = [profiles EXCEPT ![Val(0, Size[State + 1])][ParamOf(State)] = Val(2, 2)]
    BY <1>2, <2>2, <2>4
  <2> QED
    BY <1>1, <1>2, <2>3, <2>5, <2>6, ProfilesSet
<1> QED
  BY <1>1, <1>2, ProfilesAborted

LEMMA ProfilesLimit ==
  ASSUME ParserInv, ProfilesInv, SetLimit
  PROVE  ProfilesInv'
<1>1. PICK rule, len, limit :
        /\ rule = DefaultRule(State) /\ len = yyr2[rule + 1]
        /\ limit = <<Val(2, len), IF rule >= 33 THEN Val(3, len) ELSE 0>>
        /\ AtDefault /\ Parsing /\ rule \in 30 .. 35 /\ UNCHANGED <<yychar, read>> /\ Continue
        /\ profiles' = [profiles EXCEPT ![Val(0, len)][LimitSet(rule)] = limit]
  BY DEF SetLimit, Reduces, AtDefault
<1>2. State \in States /\ yydefact[State + 1] = rule
  BY <1>1, Typed0
<1>3. State \in ParamEnds
  BY <1>1, <1>2, ProfileTable
<1>4. /\ State \in {61, 62, 63, 65, 66, 67}
      /\ rule >= 33 <=> State \in {65, 66, 67}
  BY <1>1, <1>2, <1>3, ProfileTable DEF ParamEnds
<1>5. LimitSet(rule) = ParamOf(State)
  <2>1. /\ LimitSet(30) = "bytes" /\ LimitSet(31) = "pkts" /\ LimitSet(32) = "flows"
        /\ LimitSet(33) = "bytes" /\ LimitSet(34) = "pkts" /\ LimitSet(35) = "flows"
    BY DEF LimitSet
  <2> QED
    BY <1>2, <1>4, <2>1, ProfileTable, ParamOfs
<1>6. len = Size[State + 1] /\ len = IF rule >= 33 THEN 4 ELSE 3
  <2>1. /\ Size[61 + 1] = 3 /\ Size[62 + 1] = 3 /\ Size[63 + 1] = 3
        /\ Size[65 + 1] = 4 /\ Size[66 + 1] = 4 /\ Size[67 + 1] = 4
    BY DEF Size
  <2>2. /\ yyr2[30 + 1] = 3 /\ yyr2[31 + 1] = 3 /\ yyr2[32 + 1] = 3
        /\ yyr2[33 + 1] = 4 /\ yyr2[34 + 1] = 4 /\ yyr2[35 + 1] = 4
    BY DEF yyr2
  <2> QED
    BY <1>1, <1>2, <1>4, <2>1, <2>2, ProfileTable
<1>7. /\ Len(stack) \in 6 .. 13
      /\ stack[Len(stack) - 1].val = Len(Eaten) - 1
      /\ State \in {65, 66, 67} => stack[Len(stack) - 2].val = Len(Eaten) - 2
  BY <1>1, <1>3, TopWords
<1>8. /\ Len(stack) + 2 - 3 = Len(stack) - 1
      /\ Len(stack) + 2 - 4 = Len(stack) - 2
      /\ Len(stack) + 3 - 4 = Len(stack) - 1
  BY <1>7
<1>9. limit = ParamValue(State, Len(Eaten))
  <2>1. CASE State \in {61, 62, 63}
    <3>1. limit = <<Len(Eaten) - 1, 0>>
      <4>1. ~(rule >= 33) /\ len = 3
        BY <1>4, <1>6, <2>1
      <4>2. Val(2, 3) = Len(Eaten) - 1
        BY <1>7, <1>8 DEF Val
      <4> QED
        BY <1>1, <4>1, <4>2
    <3> QED
      BY <2>1, <3>1 DEF ParamValue
  <2>2. CASE State \in {65, 66, 67}
    <3>1. limit = <<Len(Eaten) - 2, Len(Eaten) - 1>>
      <4>1. rule >= 33 /\ len = 4
        BY <1>4, <1>6, <2>2
      <4>2. Val(2, 4) = Len(Eaten) - 2 /\ Val(3, 4) = Len(Eaten) - 1
        BY <1>7, <1>8, <2>2 DEF Val
      <4> QED
        BY <1>1, <4>1, <4>2
    <3> QED
      BY <2>2, <3>1 DEF ParamValue
  <2> QED
    BY <1>4, <2>1, <2>2
<1>10. profiles' = [profiles EXCEPT ![Val(0, Size[State + 1])][ParamOf(State)] = limit]
  BY <1>1, <1>5, <1>6
<1>11. DefaultRule(State) \in 28 .. 35
  BY <1>1
<1> QED
  BY <1>1, <1>9, <1>10, <1>11, ProfilesSet

LEMMA ProfilesShift ==
  ASSUME ParserInv, LanguageInv, ProfilesInv, Shift
  PROVE  ProfilesInv'
<1>1. /\ pc = "parse" /\ pc' = "parse" /\ Parsing /\ NeedsWord /\ yychar # YYEMPTY
      /\ Entry(State, yychar) # 0 /\ profiles' = profiles /\ yychar' = YYEMPTY
      /\ stack' = Append(stack, [state |-> Entry(State, yychar), val |-> Len(read)])
  BY DEF Shift, Parsing
<1>2. PICK t, w, v : t = State' /\ w = Eaten /\ v = Eaten'
  OBVIOUS
<1>3. v = Append(w, yychar) /\ t = Entry(State, yychar) /\ WordOf[t + 1] = yychar
  BY <1>2, StepShift
<1>4. w \in Seq(Word) /\ yychar \in Word /\ Fits(State, w, yychar)
  BY <1>1, <1>2, EatenIs DEF LanguageInv, ParserInv
<1>5. State \in States /\ State # 31 /\ State \notin ParamEnds
  <2>1. State \in States
    BY <1>1, Typed0
  <2>2. yypact[31 + 1] = YYPACT_NINF
    BY DEF yypact, YYPACT_NINF
  <2> QED
    BY <1>1, <2>1, <2>2, NothingToLookUp DEF NeedsWord
<1>6. t \in States /\ Below[t + 1] = State
  <2>1. yychar \in 0 .. 44
    BY <1>4 DEF Word, EOF
  <2> QED
    BY <1>1, <1>3, <1>5, <2>1, ShiftTable DEF NeedsWord
<1>7. Fits(t, v, YYEMPTY)
  BY <1>1, <1>2, LanguageShift DEF LanguageInv
<1>8. LeadsTo(t, w, v)
  BY <1>1, <1>3, <1>4, <1>6, <1>7 DEF LeadsTo
<1>9. /\ Numbered(w) /\ profiles = Book(w)
      /\ State \in InBegin \cup InOptions => Headers(w) = {}
      /\ State \in InProfile => Headers(w) # {}
  BY <1>1, <1>2, <1>5 DEF ProfilesInv, Due
<1>10. /\ t \in InBegin \cup InOptions => Headers(w) = {}
       /\ t \in InProfile \ {31} => Headers(w) # {}
       /\ t \in ParamEnds => t \in InProfile \ {31}
       /\ t = 38 => t \in InOptions
       /\ t \in InBegin \cup InOptions => t # 31
  <2>1. 31 \notin InBegin \cup InOptions
    BY DEF InBegin, InOptions
  <2> QED
    BY <1>6, <1>9, <2>1, PlaceBelow
<1>11. /\ Book(v) = Due(t, v, Book(w)) /\ Numbered(v)
       /\ Headers(v) = {} <=> Headers(w) = {} /\ t # 31
  BY <1>8, <1>9, <1>10, BookAppended
<1>12. ASSUME NEW i \in 1 .. Len(stack'), stack'[i].state \in {43, 52}
       PROVE  stack'[i].val = Len(profiles)
  <2>1. /\ stack \in Seq(Symbol) /\ Len(stack) \in Nat
        /\ [state |-> t, val |-> Len(read)] \in Symbol
    <3>1. Path(stack) /\ ParserInv'
      BY StepShift DEF ParserInv
    <3>2. Len(stack) \in Nat
      BY <1>1, Typed0
    <3>3. Len(read) \in Nat
      BY LenProperties DEF ParserInv, ReadInv
    <3> QED
      BY <1>6, <3>1, <3>2, <3>3, StatesAre DEF Path, Symbol, Values
  <2>2. /\ Len(stack') = Len(stack) + 1
        /\ \A j \in 1 .. Len(stack) : stack'[j] = stack[j]
        /\ stack'[Len(stack) + 1].state = t
    BY <1>1, <1>3, <2>1, AppendProperties
  <2>3. t \notin {43, 52}
    BY <1>1, <1>3, ParamBelow
  <2>4. i \in 1 .. Len(stack)
    BY <1>12, <2>1, <2>2, <2>3
  <2> QED
    BY <1>1, <1>12, <2>2, <2>4 DEF ProfilesInv
<1>13. /\ Numbered(v) /\ Due(t, v, profiles) = Book(v)
       /\ t \in InBegin \cup InOptions => Headers(v) = {}
       /\ t \in InProfile => Headers(v) # {}
  BY <1>9, <1>10, <1>11
<1> QED
  BY <1>1, <1>2, <1>12, <1>13 DEF ProfilesInv, ProfilesAsWritten

(* At the end of the file nothing is due.                                  *)
LEMMA ProfilesAccept ==
  ASSUME ParserInv, LanguageInv, ProfilesInv, Accept
  PROVE  ProfilesInv'
<1>1. pc = "parse" /\ State = 5 /\ pc' = "ok" /\ UNCHANGED <<read, profiles>>
  BY DEF Accept, YYFINAL
<1>2. Eaten = read
  BY <1>1 DEF LanguageInv, Fits, Eaten
<1>3. profiles = Book(read)
  BY <1>1, <1>2 DEF ProfilesInv, Due, ParamEnds
<1>4. read \in Seq(Word)
  BY DEF ParserInv, ReadInv
<1>5. /\ Len(profiles) = Cardinality(Headers(read))
      /\ \A k \in DOMAIN profiles : profiles[k] = Written(read, k)
  BY <1>3, <1>4, BookIs
<1> QED
  BY <1>1, <1>5 DEF ProfilesInv, ProfilesAsWritten, Written, Value

LEMMA ProfilesStep ==
  ParserInv /\ LanguageInv /\ ProfilesInv /\ [Next]_vars => ProfilesInv'
<1> SUFFICES ASSUME ParserInv, LanguageInv, ProfilesInv, [Next]_vars
             PROVE  ProfilesInv'
  OBVIOUS
<1>1. CASE UNCHANGED vars
  <2>1. UNCHANGED <<pc, read, stack, profiles>> /\ Eaten' = Eaten /\ State' = State
    BY <1>1 DEF vars, Eaten, State
  <2> QED
    BY <2>1 DEF ProfilesInv, ProfilesAsWritten
<1>2. CASE Open \/ ReadWord
  <2>1. /\ pc \in {"open", "parse"} /\ UNCHANGED <<stack, profiles>>
        /\ pc' \in {"parse", "failed"} /\ Eaten' = Eaten /\ State' = State
    <3>1. CASE Open
      BY <3>1 DEF Open, Eaten, State
    <3>2. CASE ReadWord
      BY <3>2, StepReadWord DEF ReadWord, Parsing, State
    <3> QED
      BY <1>2, <3>1, <3>2
  <2> QED
    BY <2>1 DEF ProfilesInv, ProfilesAsWritten
<1>3. CASE ReducePlain \/ SetOption \/ SetInputFilter \/ SetDbProfiles
  <2>1. /\ AtDefault /\ DefaultRule(State) \notin {0, 21, 25} \cup (28 .. 35)
        /\ UNCHANGED <<yychar, read, profiles>>
        /\ Continue \/ Abort
    <3>1. CASE ReducePlain
      BY <3>1 DEF ReducePlain, Reduces
    <3>2. CASE SetOption
      BY <3>2 DEF SetOption, Reduces
    <3>3. CASE SetInputFilter
      BY <3>3 DEF SetInputFilter, Reduces
    <3>4. CASE SetDbProfiles
      BY <3>4 DEF SetDbProfiles, Reduces
    <3> QED
      BY <1>3, <3>1, <3>2, <3>3, <3>4
  <2> QED
    BY <2>1, ProfilesPassed, ProfilesAborted
<1>4. CASE SyntaxError
  BY <1>4 DEF SyntaxError, ProfilesInv, ProfilesAsWritten
<1> QED
  BY <1>1, <1>2, <1>3, <1>4, ProfilesAdd, ProfilesPass, ProfilesParam, ProfilesLimit,
     ProfilesShift, ProfilesAccept
     DEF Next, Step, Returned, vars

(* However long a file is that is accepted: there is one profile for each  *)
(* header, in order, with its name and the last filter, field list and     *)
(* limits written between its braces (config.tab.c:1562-1632).             *)
THEOREM ProfilesAreAsWritten == Spec => []ProfilesAsWritten
<1>1. Init => ProfilesInv
  <2> SUFFICES ASSUME Init PROVE ProfilesInv
    OBVIOUS
  <2>1. /\ pc = "open" /\ Eaten = <<>> /\ State = 0 /\ profiles = <<>>
        /\ stack = <<Bottom>>
    BY BottomAlone, EmptySeq DEF Init, Eaten, State
  <2>2. Headers(<<>>) = {}
    BY NothingWritten DEF Headers
  <2>3. <<>> \in Seq(Word)
    OBVIOUS
  <2>4. Cardinality(Headers(<<>>)) = 0
    BY <2>2, <2>3, BookIs
  <2>5. Numbered(<<>>) /\ Book(<<>>) = <<>>
    BY <2>4 DEF Numbered, Book
  <2>6. Due(0, <<>>, <<>>) = <<>> /\ 0 \notin InProfile
    BY DEF Due, ParamEnds, InProfile
  <2>7. \A i \in 1 .. Len(stack) : stack[i].state \notin {43, 52}
    BY <2>1, BottomAlone DEF Bottom
  <2> QED
    BY <2>1, <2>2, <2>5, <2>6, <2>7 DEF ProfilesInv, ProfilesAsWritten
<1>2. ProfilesInv => ProfilesAsWritten
  BY DEF ProfilesInv
<1> QED
  BY InitParser, ParserStep, InitLanguage, LanguageStep, <1>1, ProfilesStep, <1>2,
     PTL DEF Spec
=================================================================================
