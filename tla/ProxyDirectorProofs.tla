------------------------ MODULE ProxyDirectorProofs ------------------------
(***************************************************************************)
(* TLAPS proofs about ProxyDirector, for every configuration, any number   *)
(* of calls and any requests.  Two lemmas translate between the loops and  *)
(* the configuration: a pattern that matches behind others that do not is  *)
(* the rule that decides (DecidesHere), and a loop that ran to its end     *)
(* means that no rule of the kind decides (NoneDecides).                   *)
(***************************************************************************)
EXTENDS ProxyDirector, TLAPS

(* What the configuration says changes only with the configuration. *)
LEMMA SameRules ==
    ASSUME rules' = rules
    PROVE  /\ \A n, q : Deciding(n, q)' = Deciding(n, q)
           /\ \A n, q : Passes(n, q)' = Passes(n, q)
           /\ \A q : Routes(q)' = Routes(q)
<1>1. \A n, q : Deciding(n, q)' = Deciding(n, q)
  BY Zenon DEF Deciding
<1>2. \A n, q : Passes(n, q)' = Passes(n, q)
  BY <1>1, Zenon DEF Passes
<1>3. \A q : Routes(q)' = Routes(q)
  <2> TAKE q
  <2>1. {m \in 1..3 : \A k \in 1..(m - 1) : Passes(k, q)'}
            = {m \in 1..3 : \A k \in 1..(m - 1) : Passes(k, q)}
    BY <1>2
  <2>2. \A n : UNION {Elements(rules'[i].dest) \ {Empty} : i \in Deciding(n, q)'}
               = UNION {Elements(rules[i].dest) \ {Empty} : i \in Deciding(n, q)}
    BY <1>1
  <2>3. QED
    BY <2>1, <2>2 DEF Routes, Elements
<1>4. QED
  BY <1>1, <1>2, <1>3

(* The types of a call's position in the patterns. *)
LEMMA Position ==
    ASSUME TypeOK, NEW c \in Calls
    PROVE  /\ kind[c] \in 1..3 /\ cursor[c] \in Nat \ {0}
           /\ \A n \in 1..3 : Len(patterns[n]) \in Nat
           /\ \A n \in 1..3 : \A p \in 1..Len(patterns[n]) :
                  patterns[n][p] \in 1..Len(rules)
           /\ DOMAIN rules = 1..Len(rules) /\ Len(rules) \in Nat
           /\ \A i \in 1..Len(rules) : rules[i].dest \in Texts
<1>1. rules \in Seq(Rule)
  BY ConfigAssumption DEF TypeOK
<1>2. DOMAIN rules = 1..Len(rules) /\ Len(rules) \in Nat
  BY <1>1
<1>3. \A i \in 1..Len(rules) : rules[i].dest \in Texts
  <2>1. \A i \in 1..Len(rules) : rules[i] \in Rule
    BY <1>1
  <2>2. \A r \in Rule : r.dest \in Texts
    BY Zenon DEF Rule
  <2>3. QED
    BY <2>1, <2>2
<1>4. \A n \in 1..3 : patterns[n] \in Seq(1..Len(rules))
  BY DEF TypeOK
<1>5. \A n \in 1..3 : Len(patterns[n]) \in Nat
  BY <1>4
<1>6. \A n \in 1..3 : \A p \in 1..Len(patterns[n]) : patterns[n][p] \in 1..Len(rules)
  BY <1>4, SMTT(30)
<1>7. kind[c] \in 1..3 /\ cursor[c] \in Nat \ {0}
  BY DEF TypeOK
<1>8. QED
  BY <1>2, <1>3, <1>5, <1>6, <1>7, Zenon

(* A registered pattern and its rule. *)
LEMMA PatternOf ==
    ASSUME PatternInv, NEW n \in 1..3
    PROVE  /\ \A p \in 1..Len(patterns[n]) : rules[patterns[n][p]].type = Kinds[n]
           /\ \A p \in 1..Len(patterns[n]) : \A o \in 1..(p - 1) :
                  patterns[n][o] < patterns[n][p]
           /\ \A i \in 1..(next - 1) : rules[i].type = Kinds[n] =>
                  \E p \in 1..Len(patterns[n]) : patterns[n][p] = i
BY Zenon DEF PatternInv

(* The patterns that a call in a loop has behind it. *)
LEMMA Behind ==
    ASSUME LoopInv, NEW c \in Calls, pc[c] \in {"match", "draw"}
    PROVE  \A p \in 1..(cursor[c] - 1) :
               ~Matches(kind[c], rules[patterns[kind[c]][p]], request[c])
BY Zenon DEF LoopInv

(* Where a call's loop stops at a match, that rule decides, alone. *)
LEMMA DecidesHere ==
    ASSUME TypeOK, PatternInv, StartInv, LoopInv, NEW c \in Calls,
           pc[c] \in {"match", "draw"},
           cursor[c] <= Len(patterns[kind[c]]), MatchesHere(c)
    PROVE  Deciding(kind[c], request[c]) = {Here(c)}
<1> DEFINE n == kind[c]
<1> DEFINE q == request[c]
<1> DEFINE h == Here(c)
<1>1. /\ n \in 1..3 /\ cursor[c] \in 1..Len(patterns[n])
      /\ Len(patterns[n]) \in Nat
      /\ h \in 1..Len(rules) /\ DOMAIN rules = 1..Len(rules)
      /\ Len(rules) \in Nat
  BY Position DEF Here
<1>2. next = Len(rules) + 1
  BY DEF StartInv
<1>3. rules[h].type = Kinds[n] /\ Matches(n, rules[h], q)
  BY <1>1, PatternOf, Zenon DEF MatchesHere, Here
<1>4. ASSUME NEW i \in 1..Len(rules), rules[i].type = Kinds[n], i < h
      PROVE  ~Matches(n, rules[i], q)
  <2>1. i \in 1..(next - 1)
    BY <1>1, <1>2
  <2>2. PICK p \in 1..Len(patterns[n]) : patterns[n][p] = i
    BY <1>1, <1>4, <2>1, PatternOf, Zenon
  <2>3. p < cursor[c]
    <3>1. ~(p > cursor[c])
      <4>1. SUFFICES ASSUME p > cursor[c] PROVE FALSE
        OBVIOUS
      <4>2. cursor[c] \in 1..(p - 1)
        BY <1>1, <4>1
      <4>3. h < i
        BY <1>1, <2>2, <4>2, PatternOf, Zenon DEF Here
      <4>4. QED
        BY <1>1, <1>4, <4>3
    <3>2. p # cursor[c]
      BY <1>1, <1>4, <2>2 DEF Here
    <3>3. QED
      BY <1>1, <3>1, <3>2
  <2>4. p \in 1..(cursor[c] - 1)
    BY <1>1, <2>3
  <2>5. QED
    BY <2>2, <2>4, Behind, Zenon
<1>5. h \in Deciding(n, q)
  <2>1. \A j \in 1..(h - 1) : j \in 1..Len(rules) /\ j < h
    BY <1>1
  <2>2. QED
    BY <1>1, <1>3, <1>4, <2>1, Zenon DEF Deciding
<1>6. ASSUME NEW i \in Deciding(n, q) PROVE i = h
  <2>1. /\ i \in 1..Len(rules) /\ rules[i].type = Kinds[n]
        /\ Matches(n, rules[i], q)
        /\ \A j \in 1..(i - 1) :
               rules[j].type = Kinds[n] => ~Matches(n, rules[j], q)
    BY <1>1, Zenon DEF Deciding
  <2>2. ~(i < h)
    BY <1>4, <2>1, Zenon
  <2>3. h \notin 1..(i - 1)
    BY <1>3, <2>1, Zenon
  <2>4. QED
    BY <1>1, <2>1, <2>2, <2>3
<1>7. QED
  BY <1>5, <1>6, Zenon

(* Where a call's loop ran to its end, no rule of that kind decides. *)
LEMMA NoneDecides ==
    ASSUME TypeOK, PatternInv, StartInv, LoopInv, NEW c \in Calls,
           pc[c] = "match", cursor[c] > Len(patterns[kind[c]])
    PROVE  Deciding(kind[c], request[c]) = {}
<1> DEFINE n == kind[c]
<1> DEFINE q == request[c]
<1>1. /\ n \in 1..3 /\ DOMAIN rules = 1..Len(rules) /\ Len(rules) \in Nat
      /\ cursor[c] \in Nat /\ Len(patterns[n]) \in Nat
  BY Position
<1>2. next = Len(rules) + 1
  BY DEF StartInv
<1>3. SUFFICES ASSUME NEW i \in Deciding(n, q) PROVE FALSE
  OBVIOUS
<1>4. i \in 1..Len(rules) /\ rules[i].type = Kinds[n] /\ Matches(n, rules[i], q)
  BY <1>1, Zenon DEF Deciding
<1>5. i \in 1..(next - 1)
  BY <1>1, <1>2, <1>4
<1>6. PICK p \in 1..Len(patterns[n]) : patterns[n][p] = i
  BY <1>1, <1>4, <1>5, PatternOf, Zenon
<1>7. p \in 1..(cursor[c] - 1)
  BY <1>1, <1>6
<1>8. pc[c] \in {"match", "draw"}
  OBVIOUS
<1>9. QED
  BY <1>4, <1>6, <1>7, <1>8, Behind, Zenon

-----------------------------------------------------------------------------
(* The invariant, call by call. *)

CallInv(c) ==
    /\ pc[c] # "new" => next = Len(rules) + 1
    /\ pc[c] = "new" => kind[c] = 1 /\ cursor[c] = 1
    /\ pc[c] \in {"match", "draw"} =>
           /\ \A n \in 1..(kind[c] - 1) : Passes(n, request[c])
           /\ \A p \in 1..(cursor[c] - 1) :
                  ~Matches(kind[c], rules[patterns[kind[c]][p]], request[c])
    /\ pc[c] = "draw" => cursor[c] <= Len(patterns[kind[c]]) /\ MatchesHere(c)
    /\ pc[c] \in {"dial", "accepted", "failed"} => dest[c] \in Routes(request[c])
    /\ pc[c] = "refused" => \A n \in 1..3 : Passes(n, request[c])
    /\ pc[c] = "panicked" =>
           \/ overlapped[c]
           \/ \E n \in 1..3 : \E i \in Deciding(n, request[c]) :
                  rules[i].dest = <<>>

LEMMA InvByCall == Inv <=> TypeOK /\ PatternInv /\ \A c \in Calls : CallInv(c)
BY Zenon DEF Inv, CallInv, StartInv, LoopInv, DrawInv, RoutedByRules,
    RefusedUnmatched, PanicNeedsCause

LEMMA InvByCallNext ==
    TypeOK' /\ PatternInv' /\ (\A c \in Calls : CallInv(c)') => Inv'
BY Zenon DEF Inv, CallInv, StartInv, LoopInv, DrawInv, RoutedByRules,
    RefusedUnmatched, PanicNeedsCause

Registered == <<rules, next, patterns, request>>

(* Once the rules are registered, a call keeps its part of the invariant   *)
(* whatever other calls do: they can only overlap its draw.                *)
LEMMA OthersKeep ==
    ASSUME NEW d \in Calls, CallInv(d), UNCHANGED Registered,
           pc'[d] = pc[d], kind'[d] = kind[d], cursor'[d] = cursor[d],
           dest'[d] = dest[d], overlapped[d] => overlapped'[d]
    PROVE  CallInv(d)'
BY SameRules, Zenon DEF CallInv, Registered, MatchesHere, Here

LEMMA PatternsKeep ==
    ASSUME PatternInv, UNCHANGED Registered
    PROVE  PatternInv'
BY Zenon DEF PatternInv, Registered

(* A step of one call keeps the invariant if it does so for that call. *)
LEMMA OneCall ==
    ASSUME Inv, TypeOK', NEW c \in Calls, UNCHANGED Registered, CallInv(c)',
           \A d \in Calls \ {c} :
               /\ pc'[d] = pc[d] /\ kind'[d] = kind[d]
               /\ cursor'[d] = cursor[d] /\ dest'[d] = dest[d]
               /\ overlapped[d] => overlapped'[d]
    PROVE  Inv'
<1>1. \A d \in Calls : CallInv(d)'
  BY InvByCall, OthersKeep, Zenon
<1>2. QED
  BY <1>1, InvByCall, InvByCallNext, PatternsKeep, Zenon

-----------------------------------------------------------------------------
LEMMA InitInv == Init => Inv
<1> SUFFICES ASSUME Init PROVE Inv
  OBVIOUS
<1>1. TypeOK
  <2>1. rules \in Seq(Rule) /\ Len(rules) \in Nat
    BY ConfigAssumption DEF Init
  <2>2. next \in 1..(Len(rules) + 1)
    BY <2>1 DEF Init
  <2>3. patterns \in [1..3 -> Seq(1..Len(rules))]
    BY DEF Init
  <2>4. cursor \in [Calls -> Nat \ {0}] /\ kind \in [Calls -> 1..3]
    BY DEF Init
  <2>5. \A c \in Calls : cursor[c] <= Len(patterns[kind[c]]) + 1
    <3> TAKE c \in Calls
    <3>1. cursor[c] = 1 /\ kind[c] = 1 /\ patterns[1] = <<>>
      BY DEF Init
    <3>2. QED
      BY <3>1
  <2>6. pc \in [Calls -> {"new", "match", "draw", "dial"} \cup Decided]
    BY DEF Init
  <2>7. overlapped \in [Calls -> BOOLEAN] /\ dest \in [Calls -> STRING]
    BY TextAssumption, Zenon DEF Init
  <2>8. rules \in Configs /\ request \in [Calls -> Requests]
    BY DEF Init
  <2>9. QED
    BY <2>2, <2>3, <2>4, <2>5, <2>6, <2>7, <2>8, Zenon DEF TypeOK
<1>2. PatternInv
  BY DEF Init, PatternInv
<1>3. \A c \in Calls : CallInv(c)
  BY DEF Init, CallInv
<1>4. QED
  BY <1>1, <1>2, <1>3, InvByCall

(* Registration: no call has begun, and the new rule is the last pattern   *)
(* of its kind.                                                            *)
LEMMA RegisterInv == Inv /\ Register => Inv'
<1> SUFFICES ASSUME Inv, Register PROVE Inv'
  OBVIOUS
<1>1. TypeOK /\ PatternInv /\ \A c \in Calls : CallInv(c)
  BY InvByCall, Zenon
<1>2. rules \in Seq(Rule) /\ Len(rules) \in Nat
  BY <1>1, ConfigAssumption DEF TypeOK
<1>3. next \in 1..Len(rules) /\ next # Len(rules) + 1
  BY <1>1, <1>2 DEF TypeOK, Register
<1>4. \A c \in Calls : pc[c] = "new"
  BY <1>1, <1>3, Zenon DEF CallInv
<1>5. \A n \in 1..3 :
          /\ patterns[n] \in Seq(1..Len(rules))
          /\ Len(patterns[n]) \in Nat
  BY <1>1 DEF TypeOK
<1>6. \A n \in 1..3 :
          \/ /\ rules[next].type = Kinds[n]
             /\ patterns'[n] = Append(patterns[n], next)
          \/ /\ rules[next].type # Kinds[n]
             /\ patterns'[n] = patterns[n]
  BY Zenon DEF Register
<1>7. ASSUME NEW n \in 1..3
      PROVE  /\ patterns'[n] \in Seq(1..Len(rules))
             /\ Len(patterns[n]) <= Len(patterns'[n])
  <2>1. CASE patterns'[n] = patterns[n]
    BY <1>5, <2>1
  <2>2. CASE patterns'[n] = Append(patterns[n], next)
    <3>1. Append(patterns[n], next) \in Seq(1..Len(rules))
      BY <1>3, <1>5
    <3>2. Len(Append(patterns[n], next)) = Len(patterns[n]) + 1
      BY <1>5
    <3>3. QED
      BY <1>5, <2>2, <3>1, <3>2
  <2>3. QED
    BY <1>6, <2>1, <2>2, Zenon
<1>8. \A n \in 1..3 : Len(patterns[n]) <= Len(patterns'[n])
  BY <1>7
<1>9. TypeOK'
  <2>1. patterns' \in [1..3 -> Seq(1..Len(rules))]
    <3>1. patterns' = [n \in 1..3 |-> patterns'[n]]
      BY Zenon DEF Register
    <3>2. QED
      BY <1>7, <3>1, Zenon
  <2>2. next' \in 1..(Len(rules) + 1)
    BY <1>2, <1>3 DEF Register
  <2>3. \A c \in Calls : cursor[c] <= Len(patterns'[kind[c]]) + 1
    <3> TAKE c \in Calls
    <3>1. kind[c] \in 1..3 /\ cursor[c] \in Nat
              /\ cursor[c] <= Len(patterns[kind[c]]) + 1
      BY <1>1 DEF TypeOK
    <3>2. Len(patterns'[kind[c]]) \in Nat /\ Len(patterns[kind[c]]) \in Nat
      BY <1>5, <1>7, <3>1, SMTT(30)
    <3>3. Len(patterns[kind[c]]) <= Len(patterns'[kind[c]])
      BY <1>8, <3>1, Zenon
    <3>4. QED
      BY <3>1, <3>2, <3>3
  <2>4. QED
    BY <1>1, <2>1, <2>2, <2>3, Zenon DEF TypeOK, Register, callVars
<1>10. PatternInv'
  <2> SUFFICES ASSUME NEW n \in 1..3
               PROVE  /\ \A p \in 1..Len(patterns'[n]) :
                             /\ patterns'[n][p] \in 1..(next' - 1)
                             /\ rules'[patterns'[n][p]].type = Kinds[n]
                             /\ \A o \in 1..(p - 1) :
                                    patterns'[n][o] < patterns'[n][p]
                      /\ \A i \in 1..(next' - 1) : rules'[i].type = Kinds[n] =>
                             \E p \in 1..Len(patterns'[n]) : patterns'[n][p] = i
    BY Zenon DEF PatternInv
  <2>1. rules' = rules /\ next' = next + 1
    BY DEF Register
  <2>2. next \in Nat /\ \A i : i \in 1..(next' - 1) <=> i \in 1..(next - 1) \/ i = next
    BY <1>3, <2>1
  <2>3. /\ \A p \in 1..Len(patterns[n]) :
               /\ patterns[n][p] \in 1..(next - 1)
               /\ rules[patterns[n][p]].type = Kinds[n]
               /\ \A o \in 1..(p - 1) : patterns[n][o] < patterns[n][p]
        /\ \A i \in 1..(next - 1) : rules[i].type = Kinds[n] =>
               \E p \in 1..Len(patterns[n]) : patterns[n][p] = i
    BY <1>1, Zenon DEF PatternInv
  <2>4. CASE rules[next].type # Kinds[n]
    <3>1. patterns'[n] = patterns[n]
      BY <1>6, <2>4, Zenon
    <3>2. \A i \in 1..(next - 1) : i \in 1..(next' - 1)
      BY <2>2
    <3>3. \A i \in 1..(next' - 1) : rules[i].type = Kinds[n] => i \in 1..(next - 1)
      BY <2>2, <2>4, Zenon
    <3>4. QED
      BY <2>1, <2>3, <3>1, <3>2, <3>3, Zenon
  <2>5. CASE rules[next].type = Kinds[n]
    <3> DEFINE l == Len(patterns[n])
    <3>1. patterns'[n] = Append(patterns[n], next)
      BY <1>6, <2>5, Zenon
    <3>2. /\ l \in Nat /\ Len(patterns'[n]) = l + 1
          /\ \A p \in 1..l : patterns'[n][p] = patterns[n][p]
          /\ patterns'[n][l + 1] = next
      BY <1>5, <3>1
    <3>3. \A p : p \in 1..Len(patterns'[n]) <=> p \in 1..l \/ p = l + 1
      BY <3>2
    <3>4. ASSUME NEW p \in 1..Len(patterns'[n])
          PROVE  /\ patterns'[n][p] \in 1..(next' - 1)
                 /\ rules'[patterns'[n][p]].type = Kinds[n]
                 /\ \A o \in 1..(p - 1) : patterns'[n][o] < patterns'[n][p]
      <4>1. CASE p \in 1..l
        <5>1. \A o \in 1..(p - 1) : o \in 1..l
          BY <3>2, <4>1
        <5>2. QED
          BY <2>1, <2>2, <2>3, <3>2, <4>1, <5>1, Zenon
      <4>2. CASE p = l + 1
        <5>1. \A o \in 1..(p - 1) : o \in 1..l
          BY <3>2, <4>2
        <5>2. \A o \in 1..l : patterns[n][o] \in 1..(next - 1)
          BY <2>3, Zenon
        <5>3. \A o \in 1..l : patterns'[n][o] < next
          BY <2>2, <3>2, <5>2, SMTT(30)
        <5>4. QED
          BY <2>1, <2>2, <2>5, <3>2, <4>2, <5>1, <5>3, Zenon
      <4>3. QED
        BY <3>3, <4>1, <4>2
    <3>5. ASSUME NEW i \in 1..(next' - 1), rules'[i].type = Kinds[n]
          PROVE  \E p \in 1..Len(patterns'[n]) : patterns'[n][p] = i
      <4>1. CASE i = next
        BY <3>2, <3>3, <4>1, Zenon
      <4>2. CASE i \in 1..(next - 1)
        BY <2>1, <2>3, <3>2, <3>3, <3>5, <4>2, Zenon
      <4>3. QED
        BY <2>2, <4>1, <4>2, Zenon
    <3>6. QED
      BY <3>4, <3>5, Zenon
  <2>6. QED
    BY <2>4, <2>5
<1>11. \A c \in Calls : CallInv(c)'
  <2>1. pc' = pc /\ kind' = kind /\ cursor' = cursor
    BY DEF Register, callVars
  <2>2. \A c \in Calls : kind[c] = 1 /\ cursor[c] = 1
    BY <1>1, <1>4, Zenon DEF CallInv
  <2>3. QED
    BY <1>4, <2>1, <2>2 DEF CallInv
<1>12. QED
  BY <1>9, <1>10, <1>11, InvByCallNext

-----------------------------------------------------------------------------
(* What every step of a call may use. *)
LEMMA AtCall ==
    ASSUME Inv, NEW c \in Calls
    PROVE  /\ TypeOK /\ PatternInv /\ StartInv /\ LoopInv /\ CallInv(c)
           /\ kind[c] \in 1..3 /\ cursor[c] \in Nat \ {0}
           /\ Len(patterns[kind[c]]) \in Nat
           /\ pc \in [Calls -> {"new", "match", "draw", "dial"} \cup Decided]
<1>1. TypeOK /\ PatternInv /\ StartInv /\ LoopInv /\ CallInv(c)
  BY InvByCall, Zenon DEF Inv
<1>2. QED
  BY <1>1, Position DEF TypeOK

(* A step that changes nothing but a call's position in the code keeps the *)
(* types.                                                                  *)
LEMMA StepType ==
    ASSUME TypeOK, NEW c \in Calls,
           NEW v \in {"new", "match", "draw", "dial"} \cup Decided,
           pc' = [pc EXCEPT ![c] = v], UNCHANGED Registered,
           kind' = kind, cursor' = cursor,
           overlapped' \in [Calls -> BOOLEAN], dest' \in [Calls -> STRING]
    PROVE  TypeOK'
<1>1. pc' \in [Calls -> {"new", "match", "draw", "dial"} \cup Decided]
  BY DEF TypeOK
<1>2. QED
  BY <1>1, Zenon DEF TypeOK, Registered

LEMMA ArriveInv == ASSUME Inv, NEW c \in Calls, Arrive(c) PROVE Inv'
<1>1. /\ pc[c] = "new" /\ next > Len(rules) /\ UNCHANGED Registered
      /\ pc' = [pc EXCEPT ![c] = "match"]
      /\ UNCHANGED <<kind, cursor, overlapped, dest>>
  BY DEF Arrive, Registered
<1>2. pc'[c] = "match" /\ \A d \in Calls \ {c} : pc'[d] = pc[d]
  BY <1>1, AtCall
<1>3. kind[c] = 1 /\ cursor[c] = 1
  BY <1>1, AtCall, Zenon DEF CallInv
<1>4. next = Len(rules) + 1
  <2>1. TypeOK
    BY AtCall
  <2>2. next \in 1..(Len(rules) + 1) /\ Len(rules) \in Nat
    BY <2>1, Position DEF TypeOK
  <2>3. QED
    BY <1>1, <2>2
<1>5. TypeOK'
  BY <1>1, AtCall, StepType, Zenon DEF TypeOK
<1>6. CallInv(c)'
  <2>1. 1..(kind[c] - 1) = {} /\ 1..(cursor[c] - 1) = {}
    BY <1>3
  <2>2. QED
    BY <1>1, <1>2, <1>4, <2>1 DEF CallInv, Registered
<1>7. QED
  BY <1>1, <1>2, <1>5, <1>6, OneCall, Zenon

LEMMA SkipInv == ASSUME Inv, NEW c \in Calls, Skip(c) PROVE Inv'
<1>1. /\ pc[c] = "match" /\ cursor[c] <= Len(patterns[kind[c]])
      /\ ~Matches(kind[c], rules[patterns[kind[c]][cursor[c]]], request[c])
  BY Zenon DEF Skip, AtPattern, MatchesHere, Here
<1>2. UNCHANGED Registered /\ pc' = pc /\ kind' = kind /\ dest' = dest
      /\ overlapped' = overlapped
  BY DEF Skip, Registered
<1>3. cursor' = [cursor EXCEPT ![c] = cursor[c] + 1]
  BY DEF Skip
<1>4. cursor \in [Calls -> Nat \ {0}]
  BY AtCall DEF TypeOK
<1>5. /\ cursor' \in [Calls -> Nat \ {0}]
      /\ cursor'[c] = cursor[c] + 1
      /\ \A d \in Calls \ {c} : cursor'[d] = cursor[d]
  BY <1>3, <1>4
<1>6. TypeOK'
  <2>1. \A d \in Calls : cursor'[d] <= Len(patterns[kind[d]]) + 1
    <3>1. cursor[c] + 1 <= Len(patterns[kind[c]]) + 1
      BY <1>1, AtCall
    <3>2. \A d \in Calls : cursor[d] <= Len(patterns[kind[d]]) + 1
      BY AtCall, Zenon DEF TypeOK
    <3>3. QED
      BY <1>5, <3>1, <3>2
  <2>2. QED
    BY <1>2, <1>5, <2>1, AtCall, Zenon DEF TypeOK, Registered
<1>7. CallInv(c)'
  <2>1. \A p \in 1..(cursor'[c] - 1) : p \in 1..(cursor[c] - 1) \/ p = cursor[c]
    BY <1>5, AtCall
  <2>2. \A p \in 1..(cursor[c] - 1) :
            ~Matches(kind[c], rules[patterns[kind[c]][p]], request[c])
    BY <1>1, AtCall, Zenon DEF CallInv
  <2>3. \A p \in 1..(cursor'[c] - 1) :
            ~Matches(kind[c], rules[patterns[kind[c]][p]], request[c])
    BY <1>1, <2>1, <2>2, Zenon
  <2>4. (\A n \in 1..(kind[c] - 1) : Passes(n, request[c]))
            /\ next = Len(rules) + 1
    BY <1>1, AtCall, Zenon DEF CallInv
  <2>5. \A n, q : Passes(n, q)' = Passes(n, q)
    BY <1>2, SameRules DEF Registered
  <2>6. pc'[c] = "match"
    BY <1>1, <1>2
  <2>7. QED
    BY <1>2, <2>3, <2>4, <2>5, <2>6 DEF CallInv, Registered
<1>8. QED
  BY <1>2, <1>5, <1>6, <1>7, OneCall, Zenon

(* Passing a call on to the next kind, or refusing it behind the last, is  *)
(* right when its own kind passes.                                         *)
LEMMA ToNextKindInv ==
    ASSUME Inv, NEW c \in Calls, pc[c] \in {"match", "draw"},
           Passes(kind[c], request[c]), ToNextKind(c), UNCHANGED Registered,
           UNCHANGED <<overlapped, dest>>
    PROVE  Inv'
<1>1. /\ TypeOK /\ kind[c] \in 1..3
      /\ \A n \in 1..(kind[c] - 1) : Passes(n, request[c])
      /\ next = Len(rules) + 1
  BY AtCall, Zenon DEF CallInv
<1>2. \A n, q : Passes(n, q)' = Passes(n, q)
  BY SameRules DEF Registered
<1>3. /\ pc \in [Calls -> {"new", "match", "draw", "dial"} \cup Decided]
      /\ kind \in [Calls -> 1..3] /\ cursor \in [Calls -> Nat \ {0}]
  BY <1>1 DEF TypeOK
<1>4. CASE /\ kind[c] < 3
           /\ kind' = [kind EXCEPT ![c] = @ + 1]
           /\ cursor' = [cursor EXCEPT ![c] = 1]
           /\ pc' = [pc EXCEPT ![c] = "match"]
  <2>1. /\ pc'[c] = "match" /\ kind'[c] = kind[c] + 1 /\ cursor'[c] = 1
        /\ pc' \in [Calls -> {"new", "match", "draw", "dial"} \cup Decided]
        /\ kind' \in [Calls -> 1..3] /\ cursor' \in [Calls -> Nat \ {0}]
        /\ \A d \in Calls \ {c} : /\ pc'[d] = pc[d] /\ kind'[d] = kind[d]
                                  /\ cursor'[d] = cursor[d]
    BY <1>1, <1>3, <1>4
  <2>2. TypeOK'
    <3>1. \A d \in Calls : cursor'[d] <= Len(patterns[kind'[d]]) + 1
      <4>1. cursor'[c] <= Len(patterns[kind'[c]]) + 1
        <5>1. kind'[c] \in 1..3
          BY <2>1
        <5>2. Len(patterns[kind'[c]]) \in Nat
          BY <1>1, <5>1, Position, Zenon
        <5>3. QED
          BY <2>1, <5>2
      <4>2. \A d \in Calls \ {c} : cursor'[d] <= Len(patterns[kind'[d]]) + 1
        BY <1>1, <2>1, Zenon DEF TypeOK
      <4>3. QED
        BY <4>1, <4>2
    <3>2. QED
      BY <1>1, <2>1, <3>1, Zenon DEF TypeOK, Registered
  <2>3. CallInv(c)'
    <3>1. \A n \in 1..(kind'[c] - 1) : n \in 1..(kind[c] - 1) \/ n = kind[c]
      BY <1>1, <2>1
    <3>2. \A n \in 1..(kind'[c] - 1) : Passes(n, request[c])
      BY <1>1, <3>1, Zenon
    <3>3. 1..(cursor'[c] - 1) = {}
      BY <2>1
    <3>4. QED
      BY <1>1, <1>2, <2>1, <3>2, <3>3 DEF CallInv, Registered
  <2>4. QED
    BY <2>1, <2>2, <2>3, OneCall, Zenon
<1>5. CASE /\ kind[c] = 3
           /\ pc' = [pc EXCEPT ![c] = "refused"]
           /\ UNCHANGED <<kind, cursor>>
  <2>1. pc'[c] = "refused" /\ \A d \in Calls \ {c} : pc'[d] = pc[d]
    BY <1>3, <1>5
  <2>2. TypeOK'
    BY <1>1, <1>5, StepType, Zenon DEF TypeOK, Decided
  <2>3. CallInv(c)'
    <3>1. \A n \in 1..3 : n \in 1..(kind[c] - 1) \/ n = kind[c]
      BY <1>5
    <3>2. \A n \in 1..3 : Passes(n, request[c])
      BY <1>1, <3>1, Zenon
    <3>3. QED
      BY <1>1, <1>2, <2>1, <3>2 DEF CallInv, Registered
  <2>4. QED
    BY <1>5, <2>1, <2>2, <2>3, OneCall, Zenon
<1>6. QED
  BY <1>4, <1>5, Zenon DEF ToNextKind

LEMMA KindIsOverInv == ASSUME Inv, NEW c \in Calls, KindIsOver(c) PROVE Inv'
<1>1. /\ pc[c] = "match" /\ cursor[c] > Len(patterns[kind[c]])
      /\ ToNextKind(c) /\ UNCHANGED Registered /\ UNCHANGED <<overlapped, dest>>
  BY DEF KindIsOver, Registered
<1>2. Deciding(kind[c], request[c]) = {}
  BY <1>1, AtCall, NoneDecides, Zenon
<1>3. Passes(kind[c], request[c])
  BY <1>2 DEF Passes
<1>4. QED
  BY <1>1, <1>3, ToNextKindInv

(* A rule without destinations: it is the one that decides. *)
LEMMA MatchNoDestInv == ASSUME Inv, NEW c \in Calls, MatchNoDest(c) PROVE Inv'
<1>1. /\ pc[c] = "match" /\ cursor[c] <= Len(patterns[kind[c]])
      /\ MatchesHere(c) /\ rules[Here(c)].dest = <<>>
      /\ pc' = [pc EXCEPT ![c] = "panicked"] /\ UNCHANGED Registered
      /\ UNCHANGED <<kind, cursor, overlapped, dest>>
  BY DEF MatchNoDest, AtPattern, Registered
<1>2. Deciding(kind[c], request[c]) = {Here(c)}
  BY <1>1, AtCall, DecidesHere
<1>3. pc'[c] = "panicked" /\ \A d \in Calls \ {c} : pc'[d] = pc[d]
  BY <1>1, AtCall
<1>4. TypeOK'
  BY <1>1, AtCall, StepType, Zenon DEF TypeOK, Decided
<1>5. CallInv(c)'
  <2>1. next = Len(rules) + 1
    BY <1>1, AtCall, Zenon DEF CallInv
  <2>2. \E n \in 1..3 : \E i \in Deciding(n, request[c]) : rules[i].dest = <<>>
    BY <1>1, <1>2, AtCall, Zenon
  <2>3. \A n, q : Deciding(n, q)' = Deciding(n, q)
    BY <1>1, SameRules DEF Registered
  <2>4. (\E n \in 1..3 : \E i \in Deciding(n, request[c]) : rules[i].dest = <<>>)'
    BY <1>1, <2>2, <2>3, Zenon DEF Registered
  <2>5. QED
    BY <1>1, <1>3, <2>1, <2>4, Zenon DEF CallInv, Registered
<1>6. QED
  BY <1>1, <1>3, <1>4, <1>5, OneCall, Zenon

(* A match before the draw: whoever draws already is overlapped. *)
LEMMA MatchInv == ASSUME Inv, NEW c \in Calls, Match(c) PROVE Inv'
<1>1. /\ pc[c] = "match" /\ cursor[c] <= Len(patterns[kind[c]])
      /\ MatchesHere(c)
      /\ pc' = [pc EXCEPT ![c] = "draw"] /\ UNCHANGED Registered
      /\ UNCHANGED <<kind, cursor, dest>>
  BY DEF Match, AtPattern, Registered
<1>2. pc'[c] = "draw" /\ \A d \in Calls \ {c} : pc'[d] = pc[d]
  BY <1>1, AtCall
<1>3. /\ overlapped' \in [Calls -> BOOLEAN]
      /\ \A d \in Calls \ {c} : overlapped[d] => overlapped'[d]
  <2>1. \A d \in Calls \ {c} : overlapped'[d] = (overlapped[d] \/ pc[d] = "draw")
    BY Zenon DEF Match
  <2>2. overlapped' \in [Calls -> BOOLEAN]
    BY DEF Match
  <2>3. QED
    BY <2>1, <2>2, Zenon
<1>4. TypeOK'
  BY <1>1, <1>3, AtCall, StepType, Zenon DEF TypeOK
<1>5. CallInv(c)'
  <2>1. /\ next = Len(rules) + 1
        /\ \A n \in 1..(kind[c] - 1) : Passes(n, request[c])
        /\ \A p \in 1..(cursor[c] - 1) :
               ~Matches(kind[c], rules[patterns[kind[c]][p]], request[c])
    BY <1>1, AtCall, Zenon DEF CallInv
  <2>2. MatchesHere(c)'
    BY <1>1, Zenon DEF MatchesHere, Here, Registered
  <2>3. \A n, q : Passes(n, q)' = Passes(n, q)
    BY <1>1, SameRules DEF Registered
  <2>4. QED
    BY <1>1, <1>2, <2>1, <2>2, <2>3 DEF CallInv, Registered
<1>6. QED
  BY <1>1, <1>2, <1>3, <1>4, <1>5, OneCall, Zenon

(* The draw: its pattern decides the call, so that what is drawn is one of *)
(* the call's routes, and an empty destination lets the kind pass.         *)
LEMMA DrawRight == ASSUME Inv, NEW c \in Calls, Draw(c) PROVE Inv'
<1>1. PICK d \in Elements(rules[Here(c)].dest) :
          \/ /\ d # Empty
             /\ dest' = [dest EXCEPT ![c] = d]
             /\ pc' = [pc EXCEPT ![c] = "dial"]
             /\ UNCHANGED <<kind, cursor>>
          \/ /\ d = Empty
             /\ ToNextKind(c)
             /\ UNCHANGED dest
  BY Zenon DEF Draw
<1>2. pc[c] = "draw" /\ UNCHANGED Registered /\ overlapped' = overlapped
  BY DEF Draw, Registered
<1>3. /\ cursor[c] <= Len(patterns[kind[c]]) /\ MatchesHere(c)
      /\ next = Len(rules) + 1
      /\ \A n \in 1..(kind[c] - 1) : Passes(n, request[c])
  BY <1>2, AtCall, Zenon DEF CallInv
<1>4. Deciding(kind[c], request[c]) = {Here(c)}
  BY <1>2, <1>3, AtCall, DecidesHere
<1>5. CASE d = Empty /\ ToNextKind(c) /\ UNCHANGED dest
  <2>1. Passes(kind[c], request[c])
    BY <1>1, <1>4, <1>5, Zenon DEF Passes
  <2>2. QED
    BY <1>2, <1>5, <2>1, ToNextKindInv
<1>6. CASE /\ d # Empty
           /\ dest' = [dest EXCEPT ![c] = d]
           /\ pc' = [pc EXCEPT ![c] = "dial"]
           /\ UNCHANGED <<kind, cursor>>
  <2>1. d \in STRING
    <3>1. cursor[c] \in 1..Len(patterns[kind[c]])
      BY <1>3, AtCall
    <3>2. Here(c) \in 1..Len(rules)
      BY <3>1, AtCall, Position, Zenon DEF Here
    <3>3. rules[Here(c)].dest \in Seq(STRING)
      BY <3>2, AtCall, Position, Zenon DEF Texts
    <3>4. QED
      BY <1>1, <3>3 DEF Elements
  <2>2. dest \in [Calls -> STRING]
    BY AtCall DEF TypeOK
  <2>3. /\ pc'[c] = "dial" /\ dest'[c] = d /\ dest' \in [Calls -> STRING]
        /\ \A e \in Calls \ {c} : pc'[e] = pc[e] /\ dest'[e] = dest[e]
    BY <1>6, <2>1, <2>2, AtCall
  <2>4. TypeOK'
    <3>1. overlapped' \in [Calls -> BOOLEAN]
      BY <1>2, AtCall, Zenon DEF TypeOK
    <3>2. QED
      BY <1>2, <1>6, <2>3, <3>1, AtCall, StepType, Zenon
  <2>5. d \in Routes(request[c])
    <3>1. d \in Elements(rules[Here(c)].dest) \ {Empty}
      BY <1>1, <1>6
    <3>2. d \in UNION {Elements(rules[i].dest) \ {Empty} : i \in Deciding(kind[c], request[c])}
      BY <1>4, <3>1, Zenon
    <3>3. kind[c] \in {m \in 1..3 : \A k \in 1..(m - 1) : Passes(k, request[c])}
      BY <1>3, AtCall, Zenon
    <3>4. QED
      BY <3>2, <3>3, Zenon DEF Routes
  <2>6. CallInv(c)'
    <3>1. \A q : Routes(q)' = Routes(q)
      BY <1>2, SameRules DEF Registered
    <3>2. (dest[c] \in Routes(request[c]))'
      BY <1>2, <2>3, <2>5, <3>1, Zenon DEF Registered
    <3>3. QED
      BY <1>2, <1>3, <2>3, <3>2 DEF CallInv, Registered
  <2>7. QED
    BY <1>2, <1>6, <2>3, <2>4, <2>6, OneCall, Zenon
<1>7. QED
  BY <1>1, <1>5, <1>6, Zenon

LEMMA DrawPanicInv == ASSUME Inv, NEW c \in Calls, DrawPanic(c) PROVE Inv'
<1>1. /\ pc[c] = "draw" /\ overlapped[c]
      /\ pc' = [pc EXCEPT ![c] = "panicked"] /\ UNCHANGED Registered
      /\ UNCHANGED <<kind, cursor, overlapped, dest>>
  BY DEF DrawPanic, Registered
<1>2. pc'[c] = "panicked" /\ \A d \in Calls \ {c} : pc'[d] = pc[d]
  BY <1>1, AtCall
<1>3. TypeOK'
  BY <1>1, AtCall, StepType, Zenon DEF TypeOK, Decided
<1>4. CallInv(c)'
  <2>1. next = Len(rules) + 1
    BY <1>1, AtCall, Zenon DEF CallInv
  <2>2. QED
    BY <1>1, <1>2, <2>1, Zenon DEF CallInv, Registered
<1>5. QED
  BY <1>1, <1>2, <1>3, <1>4, OneCall, Zenon

LEMMA DialInv == ASSUME Inv, NEW c \in Calls, Dial(c) PROVE Inv'
<1>1. PICK outcome \in {"accepted", "failed"} : pc' = [pc EXCEPT ![c] = outcome]
  BY DEF Dial
<1>2. /\ pc[c] = "dial" /\ UNCHANGED Registered
      /\ UNCHANGED <<kind, cursor, overlapped, dest>>
  BY DEF Dial, Registered
<1>3. pc'[c] = outcome /\ \A d \in Calls \ {c} : pc'[d] = pc[d]
  BY <1>1, AtCall
<1>4. TypeOK'
  <2>1. outcome \in {"new", "match", "draw", "dial"} \cup Decided
    BY DEF Decided
  <2>2. QED
    BY <1>1, <1>2, <2>1, AtCall, StepType, Zenon DEF TypeOK
<1>5. CallInv(c)'
  <2>1. next = Len(rules) + 1 /\ dest[c] \in Routes(request[c])
    BY <1>2, AtCall, Zenon DEF CallInv
  <2>2. \A q : Routes(q)' = Routes(q)
    BY <1>2, SameRules DEF Registered
  <2>3. (dest[c] \in Routes(request[c]))'
    BY <1>2, <2>1, <2>2, Zenon DEF Registered
  <2>4. QED
    BY <1>2, <1>3, <2>1, <2>3 DEF CallInv, Registered
<1>6. QED
  BY <1>2, <1>3, <1>4, <1>5, OneCall, Zenon

-----------------------------------------------------------------------------
LEMMA NextInv == Inv /\ [Next]_vars => Inv'
<1> SUFFICES ASSUME Inv, [Next]_vars PROVE Inv'
  OBVIOUS
<1>1. CASE Register
  BY <1>1, RegisterInv
<1>2. CASE \E c \in Calls : Arrive(c)
  BY <1>2, ArriveInv
<1>3. CASE \E c \in Calls : CallStep(c)
  BY <1>3, SkipInv, KindIsOverInv, MatchNoDestInv, MatchInv, DrawRight,
     DrawPanicInv, DialInv, Zenon DEF CallStep
<1>4. CASE UNCHANGED vars
  <2>1. UNCHANGED Registered /\ UNCHANGED callVars /\ TypeOK'
    BY <1>4, Zenon DEF vars, callVars, Registered, Inv, TypeOK
  <2>2. \A c \in Calls : CallInv(c)'
    BY <2>1, InvByCall, OthersKeep, Zenon DEF callVars
  <2>3. QED
    BY <2>1, <2>2, InvByCall, InvByCallNext, PatternsKeep, Zenon
<1>5. QED
  BY <1>1, <1>2, <1>3, <1>4 DEF Next

(* What each call does in the director agrees with the configuration at    *)
(* every step.                                                             *)
THEOREM InvHolds == Spec => []Inv
BY InitInv, NextInv, PTL DEF Spec

(* Types, for every configuration and any number of calls. *)
THEOREM TypeCorrect == Spec => []TypeOK
<1>1. Inv => TypeOK
  BY DEF Inv
<1>2. QED
  BY <1>1, InvHolds, PTL

(* A call goes to a destination of the rule that decides it (GetDirector). *)
THEOREM Routed == Spec => []RoutedByRules
<1>1. Inv => RoutedByRules
  BY DEF Inv
<1>2. QED
  BY <1>1, InvHolds, PTL

(* "Unknown method" only where no kind of rules decides the call.          *)
THEOREM RefusalRight == Spec => []RefusedUnmatched
<1>1. Inv => RefusedUnmatched
  BY DEF Inv
<1>2. QED
  BY <1>1, InvHolds, PTL

(* The director panics only for want of a destination or in a race.        *)
THEOREM PanicExplained == Spec => []PanicNeedsCause
<1>1. Inv => PanicNeedsCause
  BY DEF Inv
<1>2. QED
  BY <1>1, InvHolds, PTL
=============================================================================
