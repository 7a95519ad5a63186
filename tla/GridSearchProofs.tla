-------------------------- MODULE GridSearchProofs --------------------------
(***************************************************************************)
(* Proofs about GridSearch.  What a load finds is settled when it is sent: *)
(* the inductive invariant GInv relates the filter of the load under way   *)
(* to what the form, the dialog or the picked search asked for.  The first *)
(* parts prove what is needed for that of the operators: which rules a     *)
(* form makes, which rows they select, and what is put back into the form. *)
(***************************************************************************)
EXTENDS GridSearch, SumProofs, SequenceTheorems

-----------------------------------------------------------------------------
(* The constants and the columns *)

LEMMA ConstantFacts ==
  /\ {Empty, Blank, "+", Null, NoDate} \subseteq Texts
  /\ Table \in Seq([name : Texts, time : Nat, choice : Texts, number : Texts])
  /\ Default \subseteq Rows
  /\ Calendar \in Seq(Texts) /\ Today \in Range(Calendar)
  /\ Order \in Seq(Inputs) /\ Range(Order) = Inputs
  /\ Forms \subseteq [Inputs -> Texts] /\ FirstForm \in [Inputs -> Texts]
  /\ \A filter \in Dialogs : filter \in Filters /\ filter.op # "none"
  /\ PageSize \in Nat \ {0}
BY Zenon, GridSearchAssumption DEF Rows

\* Order lists the inputs.
LEMMA OrderFacts ==
  /\ Len(Order) \in Nat
  /\ \A j \in 1..Len(Order) : Order[j] \in Inputs
  /\ \A i \in Inputs : \E j \in 1..Len(Order) : Order[j] = i
<1>1. Order \in Seq(Inputs) /\ Range(Order) = Inputs
  BY Zenon, ConstantFacts
<1>2. DOMAIN Order = 1..Len(Order)
  BY <1>1
<1> QED BY <1>1, <1>2 DEF Range

LEMMA FieldOf ==
  /\ Field["text"] = "name" /\ Field["min"] = "time" /\ Field["max"] = "time"
  /\ Field["choice"] = "choice" /\ Field["unique"] = "number"
BY DEF Field

LEMMA OpOf ==
  /\ Op["text"] = "bw" /\ Op["min"] = "ge" /\ Op["max"] = "le"
  /\ Op["choice"] = "eq" /\ Op["unique"] = "eq"
BY DEF Op

LEMMA OperationsOf ==
  /\ DOMAIN Operations = {"name", "time", "choice", "number"}
  /\ Operations["name"] = {"bw", "eq", "ne"}
  /\ Operations["time"] = {"ge", "le", "ne"}
  /\ Operations["choice"] = {"eq"}
  /\ Operations["number"] = {"eq", "ne"}
BY DEF Operations

-----------------------------------------------------------------------------
(* The rules of a form *)

\* One step of the loop over the inputs.
RulesStep(f, g, n) ==
    IF n = 0 THEN <<>>
    ELSE IF f[Order[n]] = Empty THEN g[n - 1]
    ELSE Append(g[n - 1], Rule(Order[n], f[Order[n]]))

IsRules(g, f, m) == g = [n \in 0..m |-> RulesStep(f, g, n)]

\* The loop has a result after any number of inputs.
LEMMA RulesExist ==
  ASSUME NEW f, NEW m \in Nat
  PROVE  \E g : IsRules(g, f, m)
<1> DEFINE T == {n \in Nat : \E g : IsRules(g, f, n)}
<1>1. 0 \in T
  <2> DEFINE g == [n \in 0..0 |-> <<>>]
  <2>1. \A n \in 0..0 : RulesStep(f, g, n) = <<>>
    BY DEF RulesStep
  <2>2. IsRules(g, f, 0)
    BY <2>1 DEF IsRules
  <2> HIDE DEF g
  <2> QED BY <2>2
<1>2. ASSUME NEW n \in Nat, n \in T PROVE n + 1 \in T
  <2>1. PICK h : IsRules(h, f, n)
    BY <1>2
  <2> DEFINE g == [k \in 0..(n + 1) |-> RulesStep(f, h, k)]
  <2>2. \A k \in 0..n : g[k] = h[k]
    <3>1. \A k \in 0..n : h[k] = RulesStep(f, h, k)
      BY <2>1 DEF IsRules
    <3> QED BY <3>1
  <2>3. \A k \in 0..(n + 1) : RulesStep(f, g, k) = RulesStep(f, h, k)
    <3> SUFFICES ASSUME NEW k \in 0..(n + 1)
                 PROVE  RulesStep(f, g, k) = RulesStep(f, h, k)
      OBVIOUS
    <3> HIDE DEF g
    <3>1. k # 0 => g[k - 1] = h[k - 1]
      BY <2>2
    <3> QED BY <3>1 DEF RulesStep
  <2>4. IsRules(g, f, n + 1)
    BY <2>3 DEF IsRules
  <2> HIDE DEF g
  <2> QED BY <2>4
<1> HIDE DEF T
<1>3. Nat \subseteq T
  BY <1>1, <1>2, SetInduction
<1> QED BY <1>3 DEF T

\* The function RulesOf evaluates.
Loop(f) == CHOOSE g : IsRules(g, f, Len(Order))

LEMMA RulesOfLoop ==
  ASSUME NEW f
  PROVE  RulesOf(f) = Loop(f)[Len(Order)]
BY DEF RulesOf, Loop, IsRules, RulesStep

LEMMA LoopSteps ==
  ASSUME NEW f, NEW n \in 0..Len(Order)
  PROVE  Loop(f)[n] = RulesStep(f, Loop(f), n)
<1>1. Len(Order) \in Nat
  BY OrderFacts
<1>2. IsRules(Loop(f), f, Len(Order))
  BY <1>1, RulesExist DEF Loop
<1> QED BY <1>2 DEF IsRules

\* s is the rules of the first n inputs, in some order.
AreRules(s, f, n) ==
    /\ s \in Seq(Rules)
    /\ \A k \in 1..Len(s) : \E j \in 1..n :
         f[Order[j]] # Empty /\ s[k] = Rule(Order[j], f[Order[j]])
    /\ \A j \in 1..n : f[Order[j]] # Empty =>
         \E k \in 1..Len(s) : s[k] = Rule(Order[j], f[Order[j]])

\* An input's rule is of a column and an operation the server knows.
LEMMA RuleType ==
  ASSUME NEW i \in Inputs, NEW data \in Texts
  PROVE  Rule(i, data) \in Rules
<1>1. Field[i] \in DOMAIN Operations /\ Op[i] \in Operations[Field[i]] /\ Op[i] \in {"bw", "eq", "ne", "ge", "le"}
  BY FieldOf, OpOf, OperationsOf DEF Inputs
<1> QED BY <1>1 DEF Rule, Rules

LEMMA LoopRules ==
  ASSUME NEW f \in [Inputs -> Texts], NEW n \in 0..Len(Order)
  PROVE  AreRules(Loop(f)[n], f, n)
<1> DEFINE T == {m \in Nat : m <= Len(Order) => AreRules(Loop(f)[m], f, m)}
<1>0. Len(Order) \in Nat /\ \A j \in 1..Len(Order) : Order[j] \in Inputs
  BY OrderFacts
<1>1. 0 \in T
  <2>1. Loop(f)[0] = <<>>
    BY <1>0, LoopSteps DEF RulesStep
  <2>2. AreRules(<<>>, f, 0)
    BY DEF AreRules
  <2> QED BY <2>1, <2>2
<1>2. ASSUME NEW m \in Nat, m \in T PROVE m + 1 \in T
  <2> SUFFICES ASSUME m + 1 <= Len(Order)
               PROVE  AreRules(Loop(f)[m + 1], f, m + 1)
    OBVIOUS
  <2> DEFINE s == Loop(f)[m]
             i == Order[m + 1]
             rule == Rule(i, f[i])
  <2>1. AreRules(s, f, m)
    BY <1>0, <1>2
  <2>2. Loop(f)[m + 1] = IF f[i] = Empty THEN s ELSE Append(s, rule)
    BY <1>0, LoopSteps DEF RulesStep
  <2>3. i \in Inputs /\ f[i] \in Texts
    BY <1>0
  <2>4. rule \in Rules
    BY <2>3, RuleType
  <2>5. s \in Seq(Rules) /\ Len(s) \in Nat
    BY <2>1 DEF AreRules
  <2> HIDE DEF s, rule
  <2>6. CASE f[i] = Empty
    <3>1. \A k \in 1..Len(s) : \E j \in 1..(m + 1) :
            f[Order[j]] # Empty /\ s[k] = Rule(Order[j], f[Order[j]])
      BY <2>1 DEF AreRules
    <3>2. ASSUME NEW j \in 1..(m + 1), f[Order[j]] # Empty
          PROVE  \E k \in 1..Len(s) : s[k] = Rule(Order[j], f[Order[j]])
      <4>1. j \in 1..m
        BY <2>6, <3>2
      <4> QED BY <2>1, <3>2, <4>1 DEF AreRules
    <3>3. AreRules(s, f, m + 1)
      BY <2>5, <3>1, <3>2 DEF AreRules
    <3> QED BY <2>2, <2>6, <3>3
  <2>7. CASE f[i] # Empty
    <3> DEFINE t == Append(s, rule)
    <3>1. /\ t \in Seq(Rules) /\ Len(t) = Len(s) + 1 /\ t[Len(s) + 1] = rule
          /\ \A k \in 1..Len(s) : t[k] = s[k]
      BY <2>4, <2>5
    <3> HIDE DEF t
    <3>2. \A k \in 1..Len(t) : \E j \in 1..(m + 1) :
            f[Order[j]] # Empty /\ t[k] = Rule(Order[j], f[Order[j]])
      <4> SUFFICES ASSUME NEW k \in 1..Len(t)
                   PROVE  \E j \in 1..(m + 1) :
                            f[Order[j]] # Empty /\ t[k] = Rule(Order[j], f[Order[j]])
        OBVIOUS
      <4>1. CASE k = Len(s) + 1
        <5>1. m + 1 \in 1..(m + 1)
          OBVIOUS
        <5>2. f[Order[m + 1]] # Empty /\ t[k] = Rule(Order[m + 1], f[Order[m + 1]])
          BY <2>7, <3>1, <4>1 DEF rule
        <5> QED BY <5>1, <5>2
      <4>2. CASE k # Len(s) + 1
        <5>1. k \in 1..Len(s) /\ t[k] = s[k]
          BY <2>5, <3>1, <4>2
        <5> QED BY <2>1, <5>1 DEF AreRules
      <4> QED BY <4>1, <4>2
    <3>3. ASSUME NEW j \in 1..(m + 1), f[Order[j]] # Empty
          PROVE  \E k \in 1..Len(t) : t[k] = Rule(Order[j], f[Order[j]])
      <4>1. CASE j = m + 1
        BY <2>5, <3>1, <4>1 DEF rule
      <4>2. CASE j # m + 1
        <5>1. j \in 1..m
          BY <4>2
        <5>2. PICK k \in 1..Len(s) : s[k] = Rule(Order[j], f[Order[j]])
          BY <2>1, <3>3, <5>1 DEF AreRules
        <5> QED BY <2>5, <3>1, <5>2
      <4> QED BY <4>1, <4>2
    <3>4. AreRules(t, f, m + 1)
      BY <3>1, <3>2, <3>3 DEF AreRules
    <3> QED BY <2>2, <2>7, <3>4 DEF t
  <2> QED BY <2>6, <2>7
<1> HIDE DEF T
<1>3. Nat \subseteq T
  BY <1>1, <1>2, SetInduction
<1> QED BY <1>0, <1>3 DEF T

\* The rules of a form are those of the inputs that hold something.
LEMMA FormRules ==
  ASSUME NEW f \in [Inputs -> Texts]
  PROVE  /\ RulesOf(f) \in Seq(Rules)
         /\ \A k \in 1..Len(RulesOf(f)) : \E i \in Inputs :
              f[i] # Empty /\ RulesOf(f)[k] = Rule(i, f[i])
         /\ \A i \in Inputs : f[i] # Empty =>
              \E k \in 1..Len(RulesOf(f)) : RulesOf(f)[k] = Rule(i, f[i])
<1> DEFINE s == RulesOf(f)
<1>1. Len(Order) \in Nat /\ \A j \in 1..Len(Order) : Order[j] \in Inputs
  BY OrderFacts
<1>2. AreRules(s, f, Len(Order))
  BY <1>1, LoopRules, RulesOfLoop
<1> HIDE DEF s
<1>3. \A i \in Inputs : \E j \in 1..Len(Order) : Order[j] = i
  BY OrderFacts
<1>4. s \in Seq(Rules)
  BY <1>2 DEF AreRules
<1>5. \A k \in 1..Len(s) : \E i \in Inputs : f[i] # Empty /\ s[k] = Rule(i, f[i])
  BY <1>1, <1>2 DEF AreRules
<1>6. ASSUME NEW i \in Inputs, f[i] # Empty
      PROVE  \E k \in 1..Len(s) : s[k] = Rule(i, f[i])
  <2>1. PICK j \in 1..Len(Order) : Order[j] = i
    BY <1>3
  <2> QED BY <1>2, <1>6, <2>1 DEF AreRules
<1> QED BY <1>4, <1>5, <1>6 DEF s
-----------------------------------------------------------------------------
(* Rows that satisfy a rule *)

\* The days a row counts for in the database's eyes.
Days(r) == IF Table[r].time % 2 = 0 THEN {Day(r) - 1, Day(r)} ELSE {Day(r)}

LEMMA RowType ==
  ASSUME NEW r \in Rows
  PROVE  /\ Table[r].time \in Nat /\ Day(r) \in Nat
         /\ Table[r].time % 2 = 0 => Table[r].time = 2 * Day(r)
         /\ Table[r].time % 2 # 0 => Table[r].time = 2 * Day(r) + 1
<1> DEFINE Row == [name : Texts, time : Nat, choice : Texts, number : Texts]
<1>1. Table \in Seq(Row)
  BY Zenon, ConstantFacts
<1> HIDE DEF Row
<1>2. Table[r] \in Row
  BY <1>1 DEF Rows
<1>3. Table[r].time \in Nat
  BY <1>2 DEF Row
<1> QED BY <1>3 DEF Day

LEMMA DayNumberType ==
  ASSUME NEW data \in Range(Calendar)
  PROVE  DayNumber(data) \in Int
<1>1. Calendar \in Seq(Texts)
  BY Zenon, ConstantFacts
<1>2. DOMAIN Calendar \subseteq Int
  BY <1>1
<1>3. \E n \in DOMAIN Calendar : Calendar[n] = data
  BY DEF Range
<1> QED BY <1>2, <1>3 DEF DayNumber

LEMMA RuleCases ==
  ASSUME NEW rule \in Rules
  PROVE  \/ rule.field = "name" /\ rule.op \in {"bw", "eq", "ne"}
         \/ rule.field = "time" /\ rule.op \in {"ge", "le", "ne"}
         \/ rule.field = "choice" /\ rule.op = "eq"
         \/ rule.field = "number" /\ rule.op \in {"eq", "ne"}
BY OperationsOf DEF Rules

\* What the database selects is what meets the rule, if a midnight counts for
\* both its days.
LEMMA SatIsMeets ==
  ASSUME NEW r \in Rows, NEW rule \in Rules, Comparable(rule)
  PROVE  Sat(r, rule) <=> Meets(Table[r], Days(r), rule.field, rule.op, rule.data)
<1>1. CASE rule.field = "name" /\ rule.op = "bw"
  BY <1>1 DEF Sat, Meets
<1>2. CASE rule.field = "name" /\ rule.op = "eq"
  BY <1>2 DEF Sat, Meets
<1>3. CASE rule.field = "name" /\ rule.op = "ne"
  BY <1>3 DEF Sat, Meets
<1>4. CASE rule.field = "time" /\ rule.op = "ge"
  <2>1. Sat(r, rule) <=> Table[r].time >= 2 * DayNumber(rule.data)
    BY <1>4 DEF Sat
  <2>2. Meets(Table[r], Days(r), rule.field, rule.op, rule.data)
          <=> \E day \in Days(r) : day >= DayNumber(rule.data)
    BY <1>4 DEF Meets
  <2>3. DayNumber(rule.data) \in Int
    BY <1>4, DayNumberType DEF Comparable
  <2> QED BY <2>1, <2>2, <2>3, RowType DEF Days
<1>5. CASE rule.field = "time" /\ rule.op = "le"
  <2>1. Sat(r, rule) <=> Table[r].time <= 2 * (DayNumber(rule.data) + 1)
    BY <1>5 DEF Sat
  <2>2. Meets(Table[r], Days(r), rule.field, rule.op, rule.data)
          <=> \E day \in Days(r) : day <= DayNumber(rule.data)
    BY <1>5 DEF Meets
  <2>3. DayNumber(rule.data) \in Int
    BY <1>5, DayNumberType DEF Comparable
  <2> QED BY <2>1, <2>2, <2>3, RowType DEF Days
<1>6. CASE rule.field = "choice"
  BY <1>6 DEF Sat, Meets
<1>7. CASE rule.field = "number" /\ rule.op = "eq"
  BY <1>7 DEF Sat, Meets
<1> QED BY <1>1, <1>2, <1>3, <1>4, <1>5, <1>6, <1>7, RuleCases DEF Comparable

\* A row that meets a rule on its day meets it if it counts for more days.
LEMMA MeetsOnMore ==
  ASSUME NEW row, NEW days, NEW more, days \subseteq more, NEW rule \in Rules,
         Meets(row, days, rule.field, rule.op, rule.data)
  PROVE  Meets(row, more, rule.field, rule.op, rule.data)
<1>1. CASE rule.field = "name" /\ rule.op = "bw"
  BY <1>1 DEF Meets
<1>2. CASE rule.field = "name" /\ rule.op = "eq"
  BY <1>2 DEF Meets
<1>3. CASE rule.field = "name" /\ rule.op = "ne"
  BY <1>3 DEF Meets
<1>4. CASE rule.field = "time" /\ rule.op = "ge"
  BY <1>4 DEF Meets
<1>5. CASE rule.field = "time" /\ rule.op = "le"
  BY <1>5 DEF Meets
<1>6. CASE rule.field = "time" /\ rule.op = "ne"
  BY <1>6 DEF Meets
<1>7. CASE rule.field = "choice"
  BY <1>7 DEF Meets
<1>8. CASE rule.field = "number" /\ rule.op = "eq"
  BY <1>8 DEF Meets
<1>9. CASE rule.field = "number" /\ rule.op = "ne"
  BY <1>9 DEF Meets
<1> QED BY <1>1, <1>2, <1>3, <1>4, <1>5, <1>6, <1>7, <1>8, <1>9, RuleCases
-----------------------------------------------------------------------------
(* Rows a filter finds *)

LEMMA FilterType ==
  ASSUME NEW filter \in Filters
  PROVE  /\ filter.op \in {"none", "AND", "OR"}
         /\ filter.rules \in Seq(Rules)
         /\ \A g \in DOMAIN filter.groups :
              /\ filter.groups[g].op \in {"AND", "OR"}
              /\ filter.groups[g].rules \in Seq(Rules)
<1> DEFINE Lists == Seq(Rules)
           Group == [op : {"AND", "OR"}, rules : Lists]
           Groups == Seq(Group)
<1> HIDE DEF Lists
<1>1. \A group \in Group : group.op \in {"AND", "OR"} /\ group.rules \in Lists
  OBVIOUS
<1> HIDE DEF Group
<1>2. \A groups \in Groups : \A g \in DOMAIN groups : groups[g] \in Group
  OBVIOUS
<1> HIDE DEF Groups
<1>3. filter \in [op : {"none", "AND", "OR"}, rules : Lists, groups : Groups]
  BY Zenon DEF Filters, Groups, Group, Lists
<1> QED BY <1>1, <1>2, <1>3 DEF Lists

LEMMA NoFilterType ==
  NoFilter \in Filters /\ NoFilter.op = "none" /\ NoFilter.rules = <<>>
<1> DEFINE Lists == Seq(Rules)
           Groups == Seq([op : {"AND", "OR"}, rules : Lists])
<1>1. <<>> \in Lists /\ <<>> \in Groups
  OBVIOUS
<1> HIDE DEF Lists, Groups
<1>2. NoFilter \in [op : {"none", "AND", "OR"}, rules : Lists, groups : Groups]
  BY <1>1 DEF NoFilter
<1>3. NoFilter.op = "none" /\ NoFilter.rules = <<>>
  BY DEF NoFilter
<1> QED BY Zenon, <1>2, <1>3 DEF Filters, Groups, Lists

LEMMA GivenRules ==
  ASSUME NEW rules \in Seq(Rules)
  PROVE  /\ Given(rules) \subseteq DOMAIN rules
         /\ \A k \in Given(rules) : rules[k] \in Rules
BY DEF Given

LEMMA JoinedIsMeets ==
  ASSUME NEW rules \in Seq(Rules), NEW op \in {"AND", "OR"}, ~Malformed(rules),
         NEW r \in Rows
  PROVE  Joined(op, r, rules) <=> MeetsRules(Table[r], Days(r), op, rules)
<1> DEFINE met(k) == Meets(Table[r], Days(r), rules[k].field, rules[k].op, rules[k].data)
<1>1. \A k \in Given(rules) : Sat(r, rules[k]) <=> met(k)
  BY GivenRules, SatIsMeets DEF Malformed
<1> HIDE DEF met
<1>2. CASE op = "AND"
  <2>1. Joined(op, r, rules) <=> \A k \in Given(rules) : met(k)
    BY <1>1, <1>2 DEF Joined
  <2>2. MeetsRules(Table[r], Days(r), op, rules)
          <=> {k \in Given(rules) : met(k)} = Given(rules)
    BY <1>2 DEF MeetsRules, met
  <2> QED BY <2>1, <2>2
<1>3. CASE op = "OR"
  <2>1. Joined(op, r, rules) <=> Given(rules) = {} \/ \E k \in Given(rules) : met(k)
    BY <1>1, <1>3 DEF Joined
  <2>2. CASE Given(rules) = {}
    <3>1. MeetsRules(Table[r], Days(r), op, rules)
            <=> {k \in Given(rules) : met(k)} = Given(rules)
      BY <2>2 DEF MeetsRules, met
    <3> QED BY <2>1, <2>2, <3>1
  <2>3. CASE Given(rules) # {}
    <3>1. MeetsRules(Table[r], Days(r), op, rules)
            <=> {k \in Given(rules) : met(k)} # {}
      BY <1>3, <2>3 DEF MeetsRules, met
    <3> QED BY <2>1, <2>3, <3>1
  <2> QED BY <2>2, <2>3
<1> QED BY <1>2, <1>3

LEMMA RulesOnMore ==
  ASSUME NEW rules \in Seq(Rules), NEW op, NEW row, NEW days, NEW more,
         days \subseteq more, MeetsRules(row, days, op, rules)
  PROVE  MeetsRules(row, more, op, rules)
<1> DEFINE met(k) == Meets(row, days, rules[k].field, rules[k].op, rules[k].data)
           also(k) == Meets(row, more, rules[k].field, rules[k].op, rules[k].data)
<1>1. \A k \in Given(rules) : met(k) => also(k)
  BY GivenRules, MeetsOnMore
<1>2. IF op = "AND" \/ Given(rules) = {}
      THEN {k \in Given(rules) : met(k)} = Given(rules)
      ELSE {k \in Given(rules) : met(k)} # {}
  BY Zenon DEF MeetsRules
<1> HIDE DEF met
<1>3. IF op = "AND" \/ Given(rules) = {}
      THEN {k \in Given(rules) : also(k)} = Given(rules)
      ELSE {k \in Given(rules) : also(k)} # {}
  <2> HIDE DEF also
  <2>1. CASE op = "AND" \/ Given(rules) = {}
    <3>1. \A k \in Given(rules) : met(k)
      BY <1>2, <2>1
    <3> QED BY <1>1, <2>1, <3>1
  <2>2. CASE ~(op = "AND" \/ Given(rules) = {})
    <3>1. \E k \in Given(rules) : met(k)
      BY <1>2, <2>2
    <3> QED BY <1>1, <2>2, <3>1
  <2> QED BY <2>1, <2>2
<1> QED BY Zenon, <1>3 DEF MeetsRules

\* The dialog: what its filter selects is what meets it.
LEMMA DialogSelects ==
  ASSUME NEW filter \in Filters, filter.op # "none", ~OrGroups(filter),
         ~Refused(filter), NEW r \in Rows
  PROVE  Selects(filter, r) <=> MeetsDialog(Table[r], Days(r), filter)
<1>1. Joined(filter.op, r, filter.rules)
        <=> MeetsRules(Table[r], Days(r), filter.op, filter.rules)
  BY FilterType, JoinedIsMeets DEF Refused
<1>2. \A g \in DOMAIN filter.groups :
        Joined(filter.groups[g].op, r, filter.groups[g].rules)
          <=> MeetsRules(Table[r], Days(r), filter.groups[g].op, filter.groups[g].rules)
  BY FilterType, JoinedIsMeets DEF Refused
<1> DEFINE first == \E k, last \in Given(filter.rules) : k < last /\ Sat(r, filter.rules[k])
<1>3. ASSUME filter.op = "OR", first
      PROVE  /\ Joined(filter.op, r, filter.rules)
             /\ \A g \in DOMAIN filter.groups :
                  Joined(filter.groups[g].op, r, filter.groups[g].rules)
  <2>1. DOMAIN filter.groups = {}
    <3>1. filter.groups = <<>>
      BY <1>3 DEF OrGroups
    <3> QED BY <3>1
  <2>2. Joined(filter.op, r, filter.rules)
    BY <1>3 DEF Joined
  <2> QED BY <2>1, <2>2
<1>4. Selects(filter, r) <=>
        \/ /\ Joined(filter.op, r, filter.rules)
           /\ \A g \in DOMAIN filter.groups :
                Joined(filter.groups[g].op, r, filter.groups[g].rules)
        \/ filter.op = "OR" /\ first
  BY DEF Selects
<1> HIDE DEF first
<1> QED BY <1>1, <1>2, <1>3, <1>4 DEF MeetsDialog

LEMMA DialogOnMore ==
  ASSUME NEW filter \in Filters, NEW row, NEW days, NEW more, days \subseteq more,
         MeetsDialog(row, days, filter)
  PROVE  MeetsDialog(row, more, filter)
BY FilterType, RulesOnMore DEF MeetsDialog
-----------------------------------------------------------------------------
(* Rows a form finds *)

LEMMA RuleParts ==
  ASSUME NEW i, NEW data
  PROVE  Rule(i, data).field = Field[i] /\ Rule(i, data).op = Op[i]
         /\ Rule(i, data).data = data
BY DEF Rule

\* Only the cleared form has no rule.
LEMMA EmptyForm ==
  ASSUME NEW f \in [Inputs -> Texts]
  PROVE  RulesOf(f) = <<>> <=> f = Cleared
<1> DEFINE s == RulesOf(f)
<1>1. /\ s \in Seq(Rules)
      /\ \A k \in 1..Len(s) : \E i \in Inputs : f[i] # Empty /\ s[k] = Rule(i, f[i])
      /\ \A i \in Inputs : f[i] # Empty => \E k \in 1..Len(s) : s[k] = Rule(i, f[i])
  BY FormRules
<1> HIDE DEF s
<1>2. s = <<>> <=> \A i \in Inputs : f[i] = Empty
  <2>1. s = <<>> <=> Len(s) = 0
    BY <1>1
  <2>2. Len(s) \in Nat
    BY <1>1
  <2>3. ASSUME \A i \in Inputs : f[i] = Empty PROVE Len(s) = 0
    <3>1. 1 \notin 1..Len(s)
      BY <1>1, <2>3
    <3> QED BY <2>2, <3>1
  <2>4. ASSUME Len(s) = 0, NEW i \in Inputs PROVE f[i] = Empty
    <3>1. 1..Len(s) = {}
      BY <2>4
    <3> QED BY <1>1, <3>1
  <2> QED BY <2>1, <2>3, <2>4
<1>3. f = Cleared <=> \A i \in Inputs : f[i] = Empty
  BY DEF Cleared
<1> QED BY <1>2, <1>3 DEF s

LEMMA FormFilter ==
  ASSUME NEW f \in [Inputs -> Texts]
  PROVE  /\ FormToJsonFilter(f) \in Filters
         /\ f = Cleared => FormToJsonFilter(f) = NoFilter
         /\ f # Cleared => /\ FormToJsonFilter(f).op = "AND"
                           /\ FormToJsonFilter(f).rules = RulesOf(f)
                           /\ FormToJsonFilter(f).groups = <<>>
                           /\ FormToJsonFilter(f) # NoFilter
<1>1. CASE f = Cleared
  <2>1. FormToJsonFilter(f) = NoFilter
    BY <1>1, EmptyForm DEF FormToJsonFilter
  <2> QED BY <1>1, <2>1, NoFilterType
<1>2. CASE f # Cleared
  <2> DEFINE Lists == Seq(Rules)
             Groups == Seq([op : {"AND", "OR"}, rules : Lists])
             filter == FormToJsonFilter(f)
  <2>1. filter = [op |-> "AND", rules |-> RulesOf(f), groups |-> <<>>]
    BY <1>2, EmptyForm DEF FormToJsonFilter
  <2>2. RulesOf(f) \in Lists /\ <<>> \in Groups
    BY FormRules
  <2> HIDE DEF Lists, Groups, filter
  <2>3. filter \in [op : {"none", "AND", "OR"}, rules : Lists, groups : Groups]
    BY <2>1, <2>2
  <2>4. filter \in Filters
    BY Zenon, <2>3 DEF Filters, Groups, Lists
  <2>5. filter.op = "AND" /\ filter.rules = RulesOf(f) /\ filter.groups = <<>>
    BY <2>1
  <2>6. filter # NoFilter
    BY <2>5, NoFilterType
  <2> QED BY <1>2, <2>4, <2>5, <2>6 DEF filter
<1> QED BY <1>1, <1>2

\* A form's filter selects the rows that satisfy the rules of its inputs.
LEMMA FormSelects ==
  ASSUME NEW f \in [Inputs -> Texts], f # Cleared, NEW r
  PROVE  Selects(FormToJsonFilter(f), r)
           <=> \A i \in Inputs : f[i] \notin {Empty, Blank} => Sat(r, Rule(i, f[i]))
<1> DEFINE filter == FormToJsonFilter(f)
           s == RulesOf(f)
<1>1. filter.op = "AND" /\ filter.rules = s /\ filter.groups = <<>>
  BY FormFilter
<1>2. /\ s \in Seq(Rules)
      /\ \A k \in 1..Len(s) : \E i \in Inputs : f[i] # Empty /\ s[k] = Rule(i, f[i])
      /\ \A i \in Inputs : f[i] # Empty => \E k \in 1..Len(s) : s[k] = Rule(i, f[i])
  BY FormRules
<1> HIDE DEF filter, s
<1>3. DOMAIN s = 1..Len(s)
  BY <1>2
<1>4. DOMAIN filter.groups = {}
  <2>1. filter.groups = <<>>
    BY <1>1
  <2> QED BY <2>1
<1>5. Selects(filter, r) <=> \A k \in Given(s) : Sat(r, s[k])
  BY <1>1, <1>4 DEF Selects, Joined
<1>6. ASSUME \A k \in Given(s) : Sat(r, s[k]),
             NEW i \in Inputs, f[i] \notin {Empty, Blank}
      PROVE  Sat(r, Rule(i, f[i]))
  <2>1. PICK k \in 1..Len(s) : s[k] = Rule(i, f[i])
    BY <1>2, <1>6
  <2>2. k \in Given(s)
    BY <1>3, <1>6, <2>1, RuleParts DEF Given
  <2> QED BY <1>6, <2>1, <2>2
<1>7. ASSUME \A i \in Inputs : f[i] \notin {Empty, Blank} => Sat(r, Rule(i, f[i])),
             NEW k \in Given(s)
      PROVE  Sat(r, s[k])
  <2>1. k \in 1..Len(s) /\ s[k].data \notin {Empty, Blank}
    BY <1>3 DEF Given
  <2>2. PICK i \in Inputs : s[k] = Rule(i, f[i])
    BY <1>2, <2>1
  <2>3. f[i] \notin {Empty, Blank}
    BY <2>1, <2>2, RuleParts
  <2> QED BY <1>7, <2>2, <2>3
<1> QED BY <1>5, <1>6, <1>7 DEF filter

\* The form: what its filter selects is what meets it.
LEMMA FormMeets ==
  ASSUME NEW f \in [Inputs -> Texts], f # Cleared, ~Refused(FormToJsonFilter(f)),
         NEW r \in Rows
  PROVE  Selects(FormToJsonFilter(f), r) <=> MeetsForm(Table[r], Days(r), f)
<1> DEFINE s == RulesOf(f)
<1>1. FormToJsonFilter(f).rules = s
  BY FormFilter
<1>2. s \in Seq(Rules)
      /\ \A i \in Inputs : f[i] # Empty => \E k \in 1..Len(s) : s[k] = Rule(i, f[i])
  BY FormRules
<1>3. ~Malformed(s)
  BY <1>1 DEF Refused
<1> HIDE DEF s
<1>4. ASSUME NEW i \in Inputs, f[i] \notin {Empty, Blank}
      PROVE  Sat(r, Rule(i, f[i])) <=> Meets(Table[r], Days(r), Field[i], Op[i], f[i])
  <2>1. PICK k \in 1..Len(s) : s[k] = Rule(i, f[i])
    BY <1>2, <1>4
  <2>2. k \in Given(s)
    BY <1>2, <1>4, <2>1, RuleParts DEF Given
  <2>3. Comparable(Rule(i, f[i]))
    BY <1>3, <2>1, <2>2 DEF Malformed
  <2>4. Rule(i, f[i]) \in Rules
    BY RuleType
  <2> QED BY <2>3, <2>4, RuleParts, SatIsMeets
<1> QED BY <1>4, FormSelects DEF MeetsForm

LEMMA FormOnMore ==
  ASSUME NEW f \in [Inputs -> Texts], NEW row, NEW days, NEW more, days \subseteq more,
         MeetsForm(row, days, f)
  PROVE  MeetsForm(row, more, f)
<1> SUFFICES ASSUME NEW i \in Inputs, f[i] \notin {Empty, Blank}
             PROVE  Meets(row, more, Field[i], Op[i], f[i])
  BY DEF MeetsForm
<1>1. Meets(row, days, Field[i], Op[i], f[i])
  BY DEF MeetsForm
<1>2. Rule(i, f[i]) \in Rules
  BY RuleType
<1> QED BY <1>1, <1>2, RuleParts, MeetsOnMore

-----------------------------------------------------------------------------
(* What a load finds *)

\* The filter that is sent for a form and a dialog.
Sent(f, d) == IF d # NoFilter THEN d ELSE FormToJsonFilter(f)

\* The rows of a load that is not refused are those wanted, and late ones.
FindsWanted(filter, wanted, late) ==
    \E some \in SUBSET late : Found(filter) = wanted \cup some

LEMMA FoundType ==
  ASSUME NEW filter
  PROVE  Found(filter) \subseteq Rows
BY ConstantFacts DEF Found

LEMMA DialogType ==
  ASSUME NEW d \in Dialogs \cup {NoFilter}
  PROVE  d \in Filters /\ (d # NoFilter => d.op # "none")
BY Zenon, ConstantFacts, NoFilterType

LEMMA SearchMeets ==
  ASSUME NEW f \in [Inputs -> Texts], NEW d \in Dialogs \cup {NoFilter},
         ~NothingAsked(f, d), ~OrGroups(d), ~Refused(Sent(f, d)), NEW r \in Rows
  PROVE  Selects(Sent(f, d), r) <=> MeetsSearch(Table[r], Days(r), f, d)
<1>1. CASE d = NoFilter
  <2>1. f # Cleared
    BY <1>1 DEF NothingAsked
  <2>2. Sent(f, d) = FormToJsonFilter(f)
    BY <1>1 DEF Sent
  <2> QED BY <1>1, <2>1, <2>2, FormMeets DEF MeetsSearch
<1>2. CASE d # NoFilter
  <2>1. Sent(f, d) = d
    BY <1>2 DEF Sent
  <2> QED BY <1>2, <2>1, DialogType, DialogSelects DEF MeetsSearch
<1> QED BY <1>1, <1>2

LEMMA SearchOnMore ==
  ASSUME NEW f \in [Inputs -> Texts], NEW d \in Dialogs \cup {NoFilter},
         NEW row, NEW days, NEW more, days \subseteq more,
         MeetsSearch(row, days, f, d)
  PROVE  MeetsSearch(row, more, f, d)
BY DialogType, DialogOnMore, FormOnMore DEF MeetsSearch

LEMMA LoadFinds ==
  ASSUME NEW f \in [Inputs -> Texts], NEW d \in Dialogs \cup {NoFilter},
         ~OrGroups(d), ~Refused(Sent(f, d))
  PROVE  FindsWanted(Sent(f, d), Wanted(f, d), Late(f, d))
<1>1. CASE NothingAsked(f, d)
  <2>1. Sent(f, d) = NoFilter
    BY <1>1, FormFilter DEF NothingAsked, Sent
  <2>2. Found(Sent(f, d)) = Default /\ Wanted(f, d) = Default
    BY <1>1, <2>1 DEF Found, Wanted
  <2>3. Found(Sent(f, d)) = Wanted(f, d) \cup {} /\ {} \in SUBSET Late(f, d)
    BY <2>2
  <2> QED BY <2>3 DEF FindsWanted
<1>2. CASE ~NothingAsked(f, d)
  <2> DEFINE meets(r) == MeetsSearch(Table[r], Days(r), f, d)
             onDay(r) == MeetsSearch(Table[r], {Day(r)}, f, d)
             onBoth(r) == MeetsSearch(Table[r], {Day(r) - 1, Day(r)}, f, d)
             even(r) == Table[r].time % 2 = 0
  <2>1. Sent(f, d) # NoFilter
    BY <1>2, FormFilter DEF NothingAsked, Sent
  <2>2. \A r \in Rows : Selects(Sent(f, d), r) <=> meets(r)
    BY <1>2, SearchMeets
  <2>3. Found(Sent(f, d)) = {r \in Rows : meets(r)}
    BY <2>1, <2>2 DEF Found
  <2>4. Wanted(f, d) = {r \in Rows : onDay(r)}
    BY <1>2 DEF Wanted
  <2>5. Late(f, d) = {r \in Rows : even(r) /\ onBoth(r)}
    BY <1>2 DEF Late
  <2>6. \A r \in Rows : even(r) => (meets(r) <=> onBoth(r))
    BY DEF Days
  <2>7. \A r \in Rows : ~even(r) => (meets(r) <=> onDay(r))
    BY DEF Days
  <2>8. \A r \in Rows : onDay(r) => onBoth(r)
    BY SearchOnMore
  <2> HIDE DEF meets, onDay, onBoth, even
  <2>9. Found(Sent(f, d)) = Wanted(f, d) \cup Late(f, d)
    BY <2>3, <2>4, <2>5, <2>6, <2>7, <2>8
  <2> QED BY <2>9 DEF FindsWanted
<1> QED BY <1>1, <1>2
-----------------------------------------------------------------------------
(* What a saved search puts back *)

LEMMA HasLargest ==
  ASSUME NEW n \in Nat, NEW S \in SUBSET (1..n), S # {}
  PROVE  \E m \in S : \A l \in S : l <= m
<1> DEFINE T == {k \in Nat : \A U \in SUBSET (1..k) :
                   U # {} => \E m \in U : \A l \in U : l <= m}
<1>1. 0 \in T
  <2>1. 1..0 = {}
    OBVIOUS
  <2>2. \A U \in SUBSET (1..0) : U = {}
    BY <2>1
  <2> QED BY <2>2
<1>2. ASSUME NEW k \in Nat, k \in T PROVE k + 1 \in T
  <2> SUFFICES ASSUME NEW U \in SUBSET (1..(k + 1)), U # {}
               PROVE  \E m \in U : \A l \in U : l <= m
    OBVIOUS
  <2>1. CASE k + 1 \in U
    BY <2>1
  <2>2. CASE k + 1 \notin U
    <3>1. U \in SUBSET (1..k)
      BY <2>2
    <3> QED BY <1>2, <3>1
  <2> QED BY <2>1, <2>2
<1> HIDE DEF T
<1>3. Nat \subseteq T
  BY <1>1, <1>2, SetInduction
<1> QED BY <1>3 DEF T

LEMMA InputsOfRule ==
  ASSUME NEW j \in Inputs \ {"unique"}, NEW data
  PROVE  InputsOf(Rule(j, data)) = {j}
<1> DEFINE rule == Rule(j, data)
<1>1. rule.field = Field[j] /\ rule.op = Op[j]
  BY RuleParts
<1> HIDE DEF rule
<1>2. ASSUME NEW i \in Inputs \ {"unique"}
      PROVE  (/\ rule.field = Field[i]
              /\ rule.op = Op[i] \/ {rule.op, Op[i]} \subseteq {"bw", "eq"}) <=> i = j
  BY <1>1, FieldOf, OpOf DEF Inputs
<1> QED BY <1>2 DEF InputsOf, rule

LEMMA ShownType ==
  ASSUME NEW i, NEW data \in Texts
  PROVE  Shown(i, data) \in Texts
BY Zenon, ConstantFacts DEF Shown, Unescaped

LEMMA RestoredType ==
  ASSUME NEW f \in [Inputs -> Texts], NEW filter \in Filters
  PROVE  Restored(f, filter) \in [Inputs -> Texts]
<1> DEFINE rules == filter.rules
           found(i) == {k \in DOMAIN rules : i \in InputsOf(rules[k])}
           last(i) == CHOOSE k \in found(i) : \A l \in found(i) : l <= k
           value(i) == IF found(i) = {} THEN f[i] ELSE Shown(i, rules[last(i)].data)
<1>1. rules \in Seq(Rules)
  BY FilterType
<1>2. Restored(f, filter) = [i \in Inputs |-> value(i)]
  BY DEF Restored
<1> SUFFICES ASSUME NEW i \in Inputs PROVE value(i) \in Texts
  BY Zenon, <1>2
<1> HIDE DEF rules
<1>3. CASE found(i) = {}
  BY <1>3
<1>4. CASE found(i) # {}
  <2>1. Len(rules) \in Nat /\ found(i) \in SUBSET (1..Len(rules))
    BY <1>1
  <2>2. \E m \in found(i) : \A l \in found(i) : l <= m
    BY <1>4, <2>1, HasLargest
  <2>3. last(i) \in found(i)
    BY Zenon, <2>2
  <2> HIDE DEF last
  <2>4. rules[last(i)] \in Rules
    BY <1>1, <2>3
  <2>5. rules[last(i)].data \in Texts
    BY <2>4 DEF Rules
  <2>6. Shown(i, rules[last(i)].data) \in Texts
    BY <2>5, ShownType
  <2> QED BY Zenon, <1>4, <2>6
<1> QED BY <1>3, <1>4

\* The rules of a restorable search are those of what it puts into an empty
\* form.
LEMMA RestoredRules ==
  ASSUME NEW filter \in Filters, Restorable(filter)
  PROVE  /\ \A k \in DOMAIN filter.rules : \E i \in Inputs :
              /\ Restored(Cleared, filter)[i] \notin {Empty, Blank}
              /\ filter.rules[k] = Rule(i, Restored(Cleared, filter)[i])
         /\ \A i \in Inputs : Restored(Cleared, filter)[i] # Empty =>
              \E k \in DOMAIN filter.rules :
                filter.rules[k] = Rule(i, Restored(Cleared, filter)[i])
<1> DEFINE rules == filter.rules
           found(i) == {k \in DOMAIN rules : i \in InputsOf(rules[k])}
           last(i) == CHOOSE k \in found(i) : \A l \in found(i) : l <= k
           h == Restored(Cleared, filter)
<1>1. rules \in Seq(Rules)
  BY FilterType
<1>2. \A i \in Inputs :
        h[i] = IF found(i) = {} THEN Cleared[i] ELSE Shown(i, rules[last(i)].data)
  BY DEF Restored
<1>3. \A k \in DOMAIN rules :
        /\ \E i \in Inputs \ {"unique"} : rules[k] = Rule(i, rules[k].data)
        /\ rules[k].data \notin {Empty, Blank}
        /\ rules[k].field = "choice" => rules[k].data \in Options
        /\ \A j \in DOMAIN rules :
             rules[j].field = rules[k].field /\ rules[j].op = rules[k].op => j = k
  BY DEF Restorable
<1> HIDE DEF rules, h
<1>4. ASSUME NEW k \in DOMAIN rules, NEW i \in Inputs, i \in InputsOf(rules[k])
      PROVE  rules[k] = Rule(i, h[i]) /\ h[i] = rules[k].data
  <2>1. PICK j \in Inputs \ {"unique"} : rules[k] = Rule(j, rules[k].data)
    BY <1>3
  <2>2. i = j
    <3>1. InputsOf(rules[k]) = {j}
      BY <2>1, InputsOfRule
    <3> QED BY <1>4, <3>1
  <2>3. \A l \in found(i) : l = k
    <3> SUFFICES ASSUME NEW l \in found(i) PROVE l = k
      OBVIOUS
    <3>1. PICK m \in Inputs \ {"unique"} : rules[l] = Rule(m, rules[l].data)
      BY <1>3
    <3>2. InputsOf(rules[l]) = {m}
      BY <3>1, InputsOfRule
    <3>3. m = i
      BY <3>2
    <3>4. rules[l].field = rules[k].field /\ rules[l].op = rules[k].op
      BY <2>1, <2>2, <3>1, <3>3, RuleParts
    <3> QED BY <1>3, <3>4
  <2>4. found(i) = {k}
    BY <1>4, <2>3
  <2>5. k \in Int
    BY <1>1
  <2>6. last(i) = k
    <3>1. last(i) = CHOOSE x \in {k} : \A l \in {k} : l <= x
      BY Zenon, <2>4
    <3> QED BY <2>5, <3>1
  <2> HIDE DEF last
  <2>7. h[i] = Shown(i, rules[k].data)
    BY <1>2, <2>4, <2>6
  <2>8. Shown(i, rules[k].data) = rules[k].data
    <3>1. i = "choice" => rules[k].data \in Options
      BY <1>3, <2>1, <2>2, RuleParts, FieldOf
    <3> QED BY <1>3, <3>1 DEF Shown, Unescaped
  <2> QED BY <2>1, <2>2, <2>7, <2>8
<1>5. ASSUME NEW k \in DOMAIN rules
      PROVE  \E i \in Inputs : h[i] \notin {Empty, Blank} /\ rules[k] = Rule(i, h[i])
  <2>1. PICK i \in Inputs \ {"unique"} : rules[k] = Rule(i, rules[k].data)
    BY <1>3
  <2>2. i \in InputsOf(rules[k])
    <3>1. InputsOf(rules[k]) = {i}
      BY <2>1, InputsOfRule
    <3> QED BY <3>1
  <2>3. rules[k] = Rule(i, h[i]) /\ h[i] = rules[k].data
    BY <1>4, <2>2
  <2> QED BY <1>3, <2>3
<1>6. ASSUME NEW i \in Inputs, h[i] # Empty
      PROVE  \E k \in DOMAIN rules : rules[k] = Rule(i, h[i])
  <2>1. found(i) # {}
    <3>1. Cleared[i] = Empty
      BY DEF Cleared
    <3> QED BY Zenon, <1>2, <1>6, <3>1
  <2>2. PICK k \in DOMAIN rules : i \in InputsOf(rules[k])
    BY <2>1
  <2> QED BY <1>4, <2>2
<1> QED BY <1>5, <1>6 DEF rules, h

\* A restorable search that is put into an empty form finds what it found.
LEMMA RestoredFinds ==
  ASSUME NEW filter \in Filters, Restorable(filter)
  PROVE  Found(FormToJsonFilter(Restored(Cleared, filter))) = Found(filter)
<1> DEFINE h == Restored(Cleared, filter)
           rules == filter.rules
<1>1. /\ \A k \in DOMAIN rules : \E i \in Inputs :
           h[i] \notin {Empty, Blank} /\ rules[k] = Rule(i, h[i])
      /\ \A i \in Inputs : h[i] # Empty => \E k \in DOMAIN rules : rules[k] = Rule(i, h[i])
  BY RestoredRules
<1>2. h \in [Inputs -> Texts]
  <2>1. Cleared \in [Inputs -> Texts]
    <3>1. Empty \in Texts
      BY Zenon, ConstantFacts
    <3> QED BY <3>1 DEF Cleared
  <2> QED BY <2>1, RestoredType
<1>3. filter.op = "AND" /\ rules # <<>> /\ filter.groups = <<>>
      /\ \A k \in DOMAIN rules : rules[k].data \notin {Empty, Blank}
  BY DEF Restorable
<1>4. rules \in Seq(Rules)
  BY FilterType
<1> HIDE DEF h, rules
<1>5. h # Cleared
  <2>1. 1 \in DOMAIN rules
    BY <1>3, <1>4
  <2>2. PICK i \in Inputs : h[i] \notin {Empty, Blank}
    BY <1>1, <2>1
  <2> QED BY <2>2 DEF Cleared
<1>6. FormToJsonFilter(h) # NoFilter /\ filter # NoFilter
  BY <1>2, <1>3, <1>5, FormFilter, NoFilterType
<1>7. Given(rules) = DOMAIN rules
  BY <1>3 DEF Given
<1>8. ASSUME NEW r \in Rows
      PROVE  Selects(filter, r) <=> Selects(FormToJsonFilter(h), r)
  <2>1. DOMAIN filter.groups = {}
    <3>1. filter.groups = <<>>
      BY <1>3
    <3> QED BY <3>1
  <2>2. Selects(filter, r) <=> \A k \in DOMAIN rules : Sat(r, rules[k])
    BY <1>3, <1>7, <2>1 DEF Selects, Joined, rules
  <2>3. Selects(FormToJsonFilter(h), r)
          <=> \A i \in Inputs : h[i] \notin {Empty, Blank} => Sat(r, Rule(i, h[i]))
    BY <1>2, <1>5, FormSelects
  <2> QED BY <1>1, <2>2, <2>3
<1>9. {r \in Rows : Selects(filter, r)} = {r \in Rows : Selects(FormToJsonFilter(h), r)}
  BY <1>8
<1> QED BY <1>6, <1>9 DEF Found, h

LEMMA SentType ==
  ASSUME NEW f \in [Inputs -> Texts], NEW d \in Dialogs \cup {NoFilter}
  PROVE  Sent(f, d) \in Filters
BY DialogType, FormFilter DEF Sent

LEMMA WantedType ==
  ASSUME NEW f, NEW d
  PROVE  Wanted(f, d) \subseteq Rows /\ Late(f, d) \subseteq Rows
BY ConstantFacts DEF Wanted, Late

LEMMA PagesType ==
  ASSUME NEW rows \in SUBSET Rows
  PROVE  Pages(rows) \in Nat
<1>1. Rows = 1..Len(Table) /\ Len(Table) \in Nat
  <2> DEFINE Row == [name : Texts, time : Nat, choice : Texts, number : Texts]
  <2>1. Table \in Seq(Row)
    BY Zenon, ConstantFacts
  <2> HIDE DEF Row
  <2> QED BY <2>1 DEF Rows
<1>2. IsFiniteSet(Rows)
  BY <1>1, FS_Interval
<1>3. Cardinality(rows) \in Nat
  BY <1>2, FS_Subset, FS_CardinalityType
<1>4. PageSize \in Nat /\ PageSize > 0
  BY ConstantFacts
<1> DEFINE n == Cardinality(rows)
<1> HIDE DEF n
<1>5. n + PageSize - 1 \in Nat
  BY <1>3, <1>4 DEF n
<1>6. \A a \in Nat, b \in Nat : b > 0 => a \div b \in Nat
  OBVIOUS
<1> QED BY <1>4, <1>5, <1>6 DEF Pages, n

-----------------------------------------------------------------------------
(* The invariant *)

\* The load under way finds what it was sent for.
Under ==
    request.stage # "none" =>
        /\ request.page = asked.page
        /\ asked.known /\ ~Refused(request.filter) =>
             FindsWanted(request.filter, asked.rows, asked.late)
        /\ asked.known /\ asked.picked # NoFilter /\ Restorable(asked.picked) =>
             Found(request.filter) = Found(asked.picked)

\* An answer has the rows that its filter finds.
Answered ==
    request.stage \in {"found", "answered"} =>
        ~Refused(request.filter) /\ request.rows = Found(request.filter)

GInv ==
    /\ TypeOK /\ Under /\ Answered
    /\ GridShowsSearch /\ RestoredIsSaved /\ KeptIsAnswered

\* What is asked of a form or a dialog.
LEMMA AskedType ==
  ASSUME NEW f, NEW d, NEW page \in Nat, NEW picked \in Filters
  PROVE  [known |-> ~OrGroups(d), page |-> page,
          picked |-> IF d = NoFilter THEN picked ELSE NoFilter,
          rows |-> Wanted(f, d), late |-> Late(f, d)]
           \in [known : BOOLEAN, rows : SUBSET Rows, late : SUBSET Rows,
               page : Nat, picked : Filters]
<1> DEFINE known == ~OrGroups(d)
           was == IF d = NoFilter THEN picked ELSE NoFilter
<1>1. known \in BOOLEAN
  OBVIOUS
<1>2. was \in Filters
  BY NoFilterType
<1>3. Wanted(f, d) \subseteq Rows /\ Late(f, d) \subseteq Rows
  BY WantedType
<1> HIDE DEF known, was
<1>4. [known |-> known, page |-> page, picked |-> was,
       rows |-> Wanted(f, d), late |-> Late(f, d)]
        \in [known : BOOLEAN, rows : SUBSET Rows, late : SUBSET Rows,
            page : Nat, picked : Filters]
  BY <1>1, <1>2, <1>3
<1> QED BY Zenon, <1>4 DEF known, was

\* A load, whoever asks for it: a picked search has to find what the form does.
LEMMA LoadKeeps ==
  ASSUME GInv, NEW f \in [Inputs -> Texts], NEW d \in Dialogs \cup {NoFilter},
         NEW page \in Nat \ {0}, NEW picked \in Filters,
         d = NoFilter /\ picked # NoFilter /\ Restorable(picked) =>
           Found(FormToJsonFilter(f)) = Found(picked),
         Load(f, d, page, picked), offered' \in [filter : Filters, picked : BOOLEAN]
  PROVE  GInv'
<1>1. /\ form' = f /\ dialog' = d /\ kept' = kept
      /\ grid' = [grid EXCEPT !.page = page]
  BY Zenon DEF Load
<1>2. TypeOK /\ Under /\ Answered /\ GridShowsSearch /\ RestoredIsSaved /\ KeptIsAnswered
  BY Zenon DEF GInv
<1>3. /\ grid' \in [page : Nat \ {0}, last : Nat, rows : SUBSET Rows]
      /\ grid'.rows = grid.rows
  BY <1>1, <1>2 DEF TypeOK
<1>4. kept' \in Filters /\ KeptIsAnswered'
  BY <1>1, <1>2 DEF TypeOK, KeptIsAnswered
<1>5. CASE request' = request /\ asked' = asked
  <2>1. TypeOK'
    BY <1>1, <1>2, <1>3, <1>4, <1>5 DEF TypeOK
  <2>2. Under' /\ Answered'
    BY <1>2, <1>5 DEF Under, Answered
  <2>3. GridShowsSearch' /\ RestoredIsSaved'
    BY <1>2, <1>3, <1>5 DEF GridShowsSearch, RestoredIsSaved
  <2> QED BY <1>4, <2>1, <2>2, <2>3 DEF GInv
<1>6. CASE ~(request' = request /\ asked' = asked)
  <2> DEFINE known == ~OrGroups(d)
             was == IF d = NoFilter THEN picked ELSE NoFilter
  <2>1. /\ request' = [stage |-> "sent", page |-> page, rows |-> {},
                       filter |-> Sent(f, d)]
        /\ asked' = [known |-> known, page |-> page, picked |-> was,
                     rows |-> Wanted(f, d), late |-> Late(f, d)]
    BY Zenon, <1>6 DEF Load, Sent
  <2>2. asked' \in [known : BOOLEAN, rows : SUBSET Rows, late : SUBSET Rows,
                    page : Nat, picked : Filters]
    BY <2>1, AskedType
  <2>3. known \in BOOLEAN
    OBVIOUS
  <2> HIDE DEF known
  <2>4. /\ request'.stage = "sent" /\ request'.page = page
        /\ request'.filter = Sent(f, d)
        /\ asked'.page = page /\ asked'.known = known /\ asked'.picked = was
        /\ asked'.rows = Wanted(f, d) /\ asked'.late = Late(f, d)
    BY <2>1
  <2>5. request' \in [stage : {"none", "sent", "refused", "found", "answered"},
                      filter : Filters, page : Nat, rows : SUBSET Rows]
    BY <2>1, SentType
  <2>6. TypeOK'
    BY <1>1, <1>3, <1>4, <2>2, <2>4, <2>5 DEF TypeOK
  <2>7. known /\ ~Refused(Sent(f, d)) => FindsWanted(Sent(f, d), Wanted(f, d), Late(f, d))
    BY Zenon, LoadFinds DEF known
  <2>8. was # NoFilter /\ Restorable(was) => Found(Sent(f, d)) = Found(was)
    BY Zenon DEF Sent
  <2>9. Under'
    BY <2>4, <2>7, <2>8 DEF Under
  <2>10. Answered' /\ GridShowsSearch' /\ RestoredIsSaved'
    BY <2>4 DEF Answered, GridShowsSearch, RestoredIsSaved
  <2> QED BY <1>4, <2>6, <2>9, <2>10 DEF GInv
<1> QED BY <1>5, <1>6

\* A step that changes the form and the offered search only.
LEMMA FormKeeps ==
  ASSUME GInv, form' \in [Inputs -> Texts], offered' \in [filter : Filters, picked : BOOLEAN],
         UNCHANGED <<dialog, grid, request, kept, asked>>
  PROVE  GInv'
<1>1. TypeOK /\ Under /\ Answered /\ GridShowsSearch /\ RestoredIsSaved /\ KeptIsAnswered
  BY Zenon DEF GInv
<1>2. TypeOK'
  BY <1>1 DEF TypeOK
<1>3. Under' /\ Answered'
  BY <1>1 DEF Under, Answered
<1>4. GridShowsSearch' /\ RestoredIsSaved' /\ KeptIsAnswered'
  BY <1>1 DEF GridShowsSearch, RestoredIsSaved, KeptIsAnswered
<1> QED BY <1>2, <1>3, <1>4 DEF GInv

\* The types of the state, one by one.
LEMMA TypeFacts ==
  ASSUME GInv
  PROVE  /\ form \in [Inputs -> Texts] /\ dialog \in Dialogs \cup {NoFilter}
         /\ grid.page \in Nat \ {0} /\ kept \in Filters
         /\ offered \in [filter : Filters, picked : BOOLEAN]
         /\ offered.filter \in Filters
         /\ request.filter \in Filters /\ request.page \in Nat
         /\ request.rows \subseteq Rows
         /\ request.page = 0 <=> request.stage = "none"
BY DEF GInv, TypeOK

LEMMA EmptyType == Cleared \in [Inputs -> Texts]
<1>1. Empty \in Texts
  BY Zenon, ConstantFacts
<1> QED BY <1>1 DEF Cleared

LEMMA TypeKeeps ==
  ASSUME GInv, NEW f \in Forms, Type(f)
  PROVE  GInv'
<1>1. form' \in [Inputs -> Texts]
  BY ConstantFacts DEF Type
<1>2. offered' \in [filter : Filters, picked : BOOLEAN]
  BY TypeFacts DEF Type
<1>3. UNCHANGED <<dialog, grid, request, kept, asked>>
  BY DEF Type
<1> QED BY <1>1, <1>2, <1>3, FormKeeps

LEMMA ClearKeeps ==
  ASSUME GInv, ClearForm
  PROVE  GInv'
<1>1. form' \in [Inputs -> Texts]
  BY EmptyType DEF ClearForm
<1>2. offered' \in [filter : Filters, picked : BOOLEAN]
  BY TypeFacts DEF ClearForm
<1>3. UNCHANGED <<dialog, grid, request, kept, asked>>
  BY DEF ClearForm
<1> QED BY <1>1, <1>2, <1>3, FormKeeps

LEMMA DateKeeps ==
  ASSUME GInv, ChangeDate
  PROVE  GInv'
<1> DEFINE SetDate(day) ==
             form' = [i \in Inputs |-> IF i \in {"min", "max"} THEN day ELSE form[i]]
<1>1. \E day \in Texts : SetDate(day)
  <2>1. Calendar \in Seq(Texts) /\ Today \in Range(Calendar) /\ NoDate \in Texts
    BY Zenon, ConstantFacts
  <2>2. \A n \in DOMAIN Calendar : Calendar[n] \in Texts
    BY <2>1
  <2>3. Today \in Texts
    BY <2>1, <2>2 DEF Range
  <2>4. \/ SetDate(Today)
        \/ \E n \in DOMAIN Calendar : SetDate(Calendar[n])
        \/ SetDate(NoDate)
    BY Zenon DEF ChangeDate
  <2> HIDE DEF SetDate
  <2> QED BY <2>1, <2>2, <2>3, <2>4
<1>2. form' \in [Inputs -> Texts]
  BY <1>1, TypeFacts
<1>3. offered' \in [filter : Filters, picked : BOOLEAN]
  BY TypeFacts DEF ChangeDate
<1>4. UNCHANGED <<dialog, grid, request, kept, asked>>
  BY DEF ChangeDate
<1> QED BY <1>2, <1>3, <1>4, FormKeeps

LEMMA SubmitKeeps ==
  ASSUME GInv, SubmitJqGridFilter
  PROVE  GInv'
<1>1. Load(form, dialog, grid.page, NoFilter) /\ offered' = offered
  BY Zenon DEF SubmitJqGridFilter
<1> QED BY <1>1, TypeFacts, NoFilterType, LoadKeeps

LEMMA PopulateKeeps ==
  ASSUME GInv, PopulateSavedSearch
  PROVE  GInv'
<1> DEFINE f == Restored(form, offered.filter)
           picked == IF form = Cleared THEN offered.filter ELSE NoFilter
<1>1. Load(f, dialog, grid.page, picked) /\ offered' = [offered EXCEPT !.picked = TRUE]
  BY Zenon DEF PopulateSavedSearch
<1>2. f \in [Inputs -> Texts]
  BY TypeFacts, RestoredType
<1>3. picked \in Filters
  BY TypeFacts, NoFilterType
<1>4. picked # NoFilter /\ Restorable(picked) => Found(FormToJsonFilter(f)) = Found(picked)
  <2> SUFFICES ASSUME form = Cleared, Restorable(offered.filter)
               PROVE  Found(FormToJsonFilter(f)) = Found(offered.filter)
    BY Zenon
  <2>1. offered.filter \in Filters
    BY TypeFacts
  <2> QED BY <2>1, RestoredFinds
<1>5. offered' \in [filter : Filters, picked : BOOLEAN]
  BY <1>1, TypeFacts
<1> HIDE DEF f, picked
<1> QED BY <1>1, <1>2, <1>3, <1>4, <1>5, TypeFacts, LoadKeeps

LEMMA TurnKeeps ==
  ASSUME GInv, TurnPage
  PROVE  GInv'
<1>1. PICK page \in Nat \ {0} : Load(form, dialog, page, NoFilter)
  BY TypeFacts DEF TurnPage
<1>2. offered' = offered
  BY DEF TurnPage
<1> QED BY <1>1, <1>2, TypeFacts, NoFilterType, LoadKeeps

LEMMA FilterKeeps ==
  ASSUME GInv, NEW filter \in Dialogs \cup {NoFilter}, FilterByDialog(filter)
  PROVE  GInv'
<1>1. Load(form, filter, 1, NoFilter) /\ offered' = offered
  BY Zenon DEF FilterByDialog
<1>2. 1 \in Nat \ {0}
  OBVIOUS
<1> QED BY <1>1, <1>2, TypeFacts, NoFilterType, LoadKeeps

LEMMA QueryKeeps ==
  ASSUME GInv, Query
  PROVE  GInv'
<1>1. TypeOK /\ Under /\ KeptIsAnswered /\ request.stage = "sent"
  BY Zenon DEF GInv, Query
<1>2. UNCHANGED <<form, dialog, grid, kept, offered, asked>>
  BY DEF Query
<1>3. /\ request'.filter = request.filter /\ request'.page = request.page
      /\ IF Refused(request.filter)
         THEN request'.stage = "refused" /\ request'.rows = request.rows
         ELSE request'.stage = "found" /\ request'.rows = Found(request.filter)
      /\ request' \in [stage : {"none", "sent", "refused", "found", "answered"},
                       filter : Filters, page : Nat, rows : SUBSET Rows]
  <2>1. Found(request.filter) \subseteq Rows
    BY FoundType
  <2> QED BY <1>1, <2>1 DEF Query, TypeOK
<1>4. TypeOK'
  BY <1>1, <1>2, <1>3 DEF TypeOK
<1>5. Under' /\ Answered'
  BY <1>1, <1>2, <1>3 DEF Under, Answered
<1>6. GridShowsSearch' /\ RestoredIsSaved'
  BY <1>3 DEF GridShowsSearch, RestoredIsSaved
<1>7. KeptIsAnswered'
  BY <1>1, <1>2 DEF KeptIsAnswered
<1> QED BY <1>4, <1>5, <1>6, <1>7 DEF GInv

LEMMA KeepKeeps ==
  ASSUME GInv, KeepSearch
  PROVE  GInv'
<1>1. TypeOK /\ Under /\ Answered /\ KeptIsAnswered /\ request.stage = "found"
  BY Zenon DEF GInv, KeepSearch
<1>2. UNCHANGED <<form, dialog, grid, offered, asked>>
  BY DEF KeepSearch
<1>3. /\ request'.stage = "answered" /\ request'.filter = request.filter
      /\ request'.page = request.page /\ request'.rows = request.rows
      /\ request' \in [stage : {"none", "sent", "refused", "found", "answered"},
                       filter : Filters, page : Nat, rows : SUBSET Rows]
  BY <1>1 DEF KeepSearch, TypeOK
<1>4. kept' \in {kept, request.filter}
  BY DEF KeepSearch
<1>5. TypeOK'
  BY <1>1, <1>2, <1>3, <1>4 DEF TypeOK
<1>6. Under' /\ Answered'
  BY <1>1, <1>2, <1>3 DEF Under, Answered
<1>7. GridShowsSearch' /\ RestoredIsSaved'
  BY <1>3 DEF GridShowsSearch, RestoredIsSaved
<1>8. KeptIsAnswered'
  BY <1>1, <1>4 DEF Answered, KeptIsAnswered
<1> QED BY <1>5, <1>6, <1>7, <1>8 DEF GInv

LEMMA NoRequestType ==
  /\ NoRequest \in [stage : {"none", "sent", "refused", "found", "answered"},
                    filter : Filters, page : Nat, rows : SUBSET Rows]
  /\ NoRequest.stage = "none" /\ NoRequest.page = 0
  /\ NoRequest.filter = NoFilter /\ NoRequest.rows = {}
BY NoFilterType DEF NoRequest

LEMMA UnknownType ==
  /\ Unknown \in [known : BOOLEAN, rows : SUBSET Rows, late : SUBSET Rows,
                  page : Nat, picked : Filters]
  /\ Unknown.known = FALSE /\ Unknown.picked = NoFilter
BY NoFilterType DEF Unknown

\* An answer that is shown has the rows of the load last sent.
LEMMA ShowKeeps ==
  ASSUME GInv, Show
  PROVE  GInv'
<1>1. TypeOK /\ Under /\ Answered /\ KeptIsAnswered /\ request.stage = "answered"
  BY Zenon DEF GInv, Show
<1>2. UNCHANGED <<form, dialog, kept, offered, asked>> /\ request' = NoRequest
  BY DEF Show
<1>3. grid' = [page |-> request.page, last |-> Pages(request.rows),
               rows |-> Page(request.rows, request.page)]
  BY Zenon DEF Show
<1>4. request.rows \subseteq Rows /\ request.page \in Nat \ {0}
  BY <1>1, TypeFacts
<1>5. Pages(request.rows) \in Nat
  BY <1>4, PagesType
<1>6. Page(request.rows, request.page) \subseteq Rows
  BY <1>4 DEF Page
<1>7. /\ grid' \in [page : Nat \ {0}, last : Nat, rows : SUBSET Rows]
      /\ grid'.rows = Page(request.rows, request.page)
  BY <1>3, <1>4, <1>5, <1>6
<1>8. TypeOK'
  BY <1>1, <1>2, <1>7, NoRequestType DEF TypeOK
<1>9. Under' /\ Answered'
  BY <1>2, NoRequestType DEF Under, Answered
<1>10. ~Refused(request.filter) /\ request.rows = Found(request.filter)
       /\ request.page = asked.page
  BY <1>1 DEF Under, Answered
<1>11. GridShowsSearch'
  <2> SUFFICES ASSUME asked.known
               PROVE  \E late \in SUBSET asked.late :
                        grid'.rows = Page(asked.rows \cup late, asked.page)
    BY <1>2 DEF GridShowsSearch
  <2>1. PICK late \in SUBSET asked.late : Found(request.filter) = asked.rows \cup late
    BY <1>1, <1>10 DEF Under, FindsWanted
  <2> QED BY <1>7, <1>10, <2>1
<1>12. RestoredIsSaved'
  <2> SUFFICES ASSUME asked.known, asked.picked # NoFilter, Restorable(asked.picked)
               PROVE  grid'.rows = Page(Found(asked.picked), asked.page)
    BY <1>2 DEF RestoredIsSaved
  <2>1. Found(request.filter) = Found(asked.picked)
    BY <1>1 DEF Under
  <2> QED BY <1>7, <1>10, <2>1
<1>13. KeptIsAnswered'
  BY <1>1, <1>2 DEF KeptIsAnswered
<1> QED BY <1>8, <1>9, <1>11, <1>12, <1>13 DEF GInv

LEMMA FailKeeps ==
  ASSUME GInv, Fail
  PROVE  GInv'
<1>1. TypeOK /\ KeptIsAnswered
  BY Zenon DEF GInv
<1>2. UNCHANGED <<form, dialog, grid, kept, offered>> /\ request' = NoRequest
      /\ asked' = Unknown
  BY DEF Fail
<1>3. TypeOK'
  BY <1>1, <1>2, NoRequestType, UnknownType DEF TypeOK
<1>4. Under' /\ Answered'
  BY <1>2, NoRequestType DEF Under, Answered
<1>5. GridShowsSearch' /\ RestoredIsSaved'
  BY <1>2, UnknownType DEF GridShowsSearch, RestoredIsSaved
<1>6. KeptIsAnswered'
  BY <1>1, <1>2 DEF KeptIsAnswered
<1> QED BY <1>3, <1>4, <1>5, <1>6 DEF GInv

LEMMA GStep ==
  ASSUME GInv, [Next]_vars
  PROVE  GInv'
<1>1. CASE \E f \in Forms : Type(f)
  BY <1>1, TypeKeeps
<1>2. CASE ClearForm \/ ChangeDate
  BY <1>2, ClearKeeps, DateKeeps
<1>3. CASE SubmitJqGridFilter \/ PopulateSavedSearch \/ TurnPage
  BY <1>3, SubmitKeeps, PopulateKeeps, TurnKeeps
<1>4. CASE \E filter \in Dialogs \cup {NoFilter} : FilterByDialog(filter)
  BY <1>4, FilterKeeps
<1>5. CASE Query \/ KeepSearch \/ Show \/ Fail
  BY <1>5, QueryKeeps, KeepKeeps, ShowKeeps, FailKeeps
<1>6. CASE UNCHANGED vars
  <2>1. form' = form /\ offered' = offered
        /\ UNCHANGED <<dialog, grid, request, kept, asked>>
    BY <1>6 DEF vars
  <2> QED BY <2>1, TypeFacts, FormKeeps
<1> QED BY Zenon, <1>1, <1>2, <1>3, <1>4, <1>5, <1>6 DEF Next

\* The page sends for the grid when it is rendered.
LEMMA GInit ==
  ASSUME Init
  PROVE  GInv
<1>1. /\ form = FirstForm /\ dialog = NoFilter
      /\ grid = [page |-> 1, last |-> 0, rows |-> {}]
      /\ kept \in Offered /\ offered = [filter |-> kept, picked |-> FALSE]
      /\ request = [NoRequest EXCEPT !.stage = "sent", !.page = 1,
                                     !.filter = FormToJsonFilter(FirstForm)]
      /\ asked = [Unknown EXCEPT !.known = TRUE, !.page = 1,
                                 !.rows = Wanted(FirstForm, NoFilter),
                                 !.late = Late(FirstForm, NoFilter)]
  BY Zenon DEF Init
<1>2. FirstForm \in [Inputs -> Texts]
  BY Zenon, ConstantFacts
<1>3. kept \in Filters /\ ~Refused(kept)
  BY Zenon, <1>1, OfferedAssumption
<1>4. /\ FormToJsonFilter(FirstForm) \in Filters
      /\ Sent(FirstForm, NoFilter) = FormToJsonFilter(FirstForm)
  BY <1>2, FormFilter DEF Sent
<1>5. /\ Wanted(FirstForm, NoFilter) \subseteq Rows
      /\ Late(FirstForm, NoFilter) \subseteq Rows
  BY WantedType
<1>6. /\ request.stage = "sent" /\ request.page = 1
      /\ request.filter = FormToJsonFilter(FirstForm)
      /\ request \in [stage : {"none", "sent", "refused", "found", "answered"},
                      filter : Filters, page : Nat, rows : SUBSET Rows]
  BY <1>1, <1>4, NoRequestType
<1>7. /\ asked.page = 1 /\ asked.picked = NoFilter
      /\ asked.rows = Wanted(FirstForm, NoFilter)
      /\ asked.late = Late(FirstForm, NoFilter)
      /\ asked \in [known : BOOLEAN, rows : SUBSET Rows, late : SUBSET Rows,
                    page : Nat, picked : Filters]
  BY <1>1, <1>5, UnknownType
<1>8. TypeOK
  <2>1. grid \in [page : Nat \ {0}, last : Nat, rows : SUBSET Rows]
    BY <1>1
  <2>2. offered \in [filter : Filters, picked : BOOLEAN]
    BY <1>1, <1>3
  <2> QED BY <1>1, <1>2, <1>3, <1>6, <1>7, <2>1, <2>2 DEF TypeOK
<1>9. Under
  <2>1. ~OrGroups(NoFilter)
    BY NoFilterType DEF OrGroups
  <2>2. ~Refused(FormToJsonFilter(FirstForm)) =>
          FindsWanted(FormToJsonFilter(FirstForm), Wanted(FirstForm, NoFilter),
                      Late(FirstForm, NoFilter))
    BY <1>2, <1>4, <2>1, LoadFinds
  <2> QED BY <1>6, <1>7, <2>2 DEF Under
<1>10. Answered /\ GridShowsSearch /\ RestoredIsSaved
  BY <1>6 DEF Answered, GridShowsSearch, RestoredIsSaved
<1>11. KeptIsAnswered
  BY <1>3 DEF KeptIsAnswered
<1> QED BY <1>8, <1>9, <1>10, <1>11 DEF GInv

\* GInv holds in every reachable state.
LEMMA GInvariance ==
  Spec => []GInv
BY GInit, GStep, PTL DEF Spec

\* A grid page's state is well typed: above all, the grid is never on a page
\* before the first, whatever the pager and the dialog make of it.
THEOREM SearchTypes == Spec => []TypeOK
<1>1. GInv => TypeOK
  BY DEF GInv
<1> QED BY <1>1, GInvariance, PTL

\* The grid shows a page of what the form, or the dialog, asked for when the
\* load was sent: through the rules of the form and the SQL made of them no row
\* is lost and none is added, but those of the midnight after the last day.
THEOREM SearchShown == Spec => []GridShowsSearch
<1>1. GInv => GridShowsSearch
  BY DEF GInv
<1> QED BY <1>1, GInvariance, PTL

\* A saved search that the form can hold, picked into an empty form, finds what
\* it found when it was saved.
THEOREM RestoredSaved == Spec => []RestoredIsSaved
<1>1. GInv => RestoredIsSaved
  BY DEF GInv
<1> QED BY <1>1, GInvariance, PTL

\* A search that the database refuses is never kept.
THEOREM KeptAnswered == Spec => []KeptIsAnswered
<1>1. GInv => KeptIsAnswered
  BY DEF GInv
<1> QED BY <1>1, GInvariance, PTL
=============================================================================
