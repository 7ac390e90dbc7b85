--------------------------- MODULE TerminalProofs ---------------------------
(***************************************************************************)
(* What holds of the screen for every size of it, every left column, every *)
(* set of messages and any number of threads, calls and keys: that the     *)
(* left column is put back however calls overlap, and that nothing is      *)
(* overprinted or lost when calls of PrintChar do not.                     *)
(***************************************************************************)
EXTENDS Terminal, FiniteSetTheorems, SequenceTheorems, WellFoundedInduction, TLAPS

-----------------------------------------------------------------------------
(* What the writers have still to print, however their calls overlap *)

\* The column is still to be put back in what s prints.
HasOut(s) == \E n \in 1 .. Len(s) : s[n] = "out"

\* A left column is followed by the end of it, and nothing follows "process".
Shape(s) ==
    \A n \in 1 .. Len(s) :
        /\ s[n] = "in" => \E m \in (n + 1) .. Len(s) : s[m] = "out"
        /\ s[n] = "process" => n = Len(s)

\* The statements of PrintChar.
Places == {"out", "store", "advance", "wrap", "left", "scroll", "up", "blank"}

\* A thread inside PrintChar has the character it prints.
PrintsChar ==
    \A t \in Threads : at[t] # "out" =>
        todo[t] # <<>> /\ Head(todo[t]) \in {"ch", "nl", "bs"}

\* Whoever set the left column has still to put it back.
ColumnOwned == leftColumn # 0 => \E t \in Threads : HasOut(todo[t])

\* The inductive invariant of what is still to print.
TodoInv ==
    /\ todo \in [Threads \union {Awd} -> Seq(Ops)]
    /\ at \in [Threads -> Places]
    /\ leftColumn \in {0, Margin}
    /\ \A t \in Threads : Shape(todo[t])
    /\ PrintsChar /\ ColumnOwned

\* The first call of a sequence is made.
LEMMA TailFacts ==
    ASSUME NEW s \in Seq(Ops), s # <<>>
    PROVE  /\ Tail(s) \in Seq(Ops)
           /\ Shape(s) => Shape(Tail(s))
           /\ Shape(s) /\ Head(s) = "in" => HasOut(Tail(s))
           /\ HasOut(s) /\ Head(s) # "out" => HasOut(Tail(s))
           /\ Shape(s) /\ Head(s) = "process" => ~HasOut(s)
  <1>1. /\ Tail(s) \in Seq(Ops) /\ Len(Tail(s)) = Len(s) - 1 /\ Len(s) \in Nat \ {0}
        /\ \A n \in 1 .. Len(Tail(s)) : Tail(s)[n] = s[n + 1]
        /\ Head(s) = s[1]
    BY HeadTailProperties, EmptySeq, LenProperties
  <1> DEFINE r == Tail(s)
             k == Len(s)
  <1>2. /\ Len(r) = k - 1 /\ k \in Nat \ {0} /\ Head(s) = s[1]
        /\ \A n \in 1 .. (k - 1) : r[n] = s[n + 1]
    BY <1>1
  <1>3. Shape(s) => Shape(r)
    <2> SUFFICES ASSUME Shape(s), NEW n \in 1 .. Len(r)
                 PROVE  /\ r[n] = "in" => \E m \in (n + 1) .. Len(r) : r[m] = "out"
                        /\ r[n] = "process" => n = Len(r)
      BY DEF Shape
    <2>1. n + 1 \in 1 .. k /\ r[n] = s[n + 1]
      BY <1>2
    <2>2. /\ s[n + 1] = "in" => \E m \in (n + 1 + 1) .. k : s[m] = "out"
          /\ s[n + 1] = "process" => n + 1 = k
      BY <2>1 DEF Shape
    <2> HIDE DEF r, k
    <2>3. ASSUME NEW m \in (n + 1 + 1) .. k, s[m] = "out"
          PROVE  \E l \in (n + 1) .. Len(r) : r[l] = "out"
      <3>1. m - 1 \in (n + 1) .. Len(r) /\ m - 1 \in 1 .. (k - 1) /\ (m - 1) + 1 = m
        BY <1>2, <2>1, <2>3
      <3>. QED  BY <1>2, <2>3, <3>1
    <2>. QED  BY <1>2, <2>1, <2>2, <2>3
  <1>4. ASSUME NEW m \in 2 .. k, s[m] = "out" PROVE HasOut(r)
    <2> HIDE DEF r, k
    <2>1. m - 1 \in 1 .. Len(r) /\ m - 1 \in 1 .. (k - 1) /\ (m - 1) + 1 = m
      BY <1>2, <1>4
    <2>. QED  BY <1>2, <1>4, <2>1 DEF HasOut
  <1>5. Shape(s) /\ Head(s) = "in" => HasOut(r)
    <2> SUFFICES ASSUME Shape(s), s[1] = "in" PROVE HasOut(r)
      BY <1>2
    <2>1. 1 \in 1 .. k /\ 1 + 1 = 2
      BY <1>2
    <2>2. \E m \in (1 + 1) .. k : s[m] = "out"
      BY <2>1 DEF Shape
    <2>. QED  BY <1>4, <2>1, <2>2
  <1>6. HasOut(s) /\ Head(s) # "out" => HasOut(r)
    <2> SUFFICES ASSUME HasOut(s), s[1] # "out" PROVE HasOut(r)
      BY <1>2
    <2>1. PICK m \in 1 .. k : s[m] = "out"
      BY DEF HasOut
    <2>2. m \in 2 .. k
      BY <1>2, <2>1
    <2>. QED  BY <1>4, <2>1, <2>2
  <1>7. Shape(s) /\ Head(s) = "process" => ~HasOut(s)
    <2> SUFFICES ASSUME Shape(s), s[1] = "process" PROVE ~HasOut(s)
      BY <1>2
    <2>1. k = 1
      <3>1. 1 \in 1 .. k
        BY <1>2
      <3>. QED  BY <3>1 DEF Shape
    <2>. QED  BY <1>2, <2>1 DEF HasOut
  <1>. QED  BY <1>1, <1>3, <1>5, <1>6, <1>7

\* What a call of the log makes of a message.
LEMMA LogArgFacts ==
    ASSUME NEW m \in Seq({"ch", "nl"})
    PROVE  LogArg(m) \in Seq(Ops) /\ Shape(LogArg(m)) /\ Shape(LogArg(m) \o <<"ch">>)
           /\ LogArg(m) \o <<"ch">> \in Seq(Ops)
  <1> DEFINE a == <<"ch", "in">>
             b == <<"out", "nl">>
             k == Len(m)
             s == LogArg(m)
             l == s \o <<"ch">>
  <1>1. a \in Seq(Ops) /\ b \in Seq(Ops) /\ <<"ch">> \in Seq(Ops)
        /\ Len(a) = 2 /\ Len(b) = 2 /\ Len(<<"ch">>) = 1
        /\ a[1] = "ch" /\ a[2] = "in" /\ b[1] = "out" /\ b[2] = "nl"
    BY DEF Ops
  <1>2. m \in Seq(Ops) /\ k \in Nat /\ \A n \in 1 .. k : m[n] \in {"ch", "nl"}
    <2>1. {"ch", "nl"} \subseteq Ops
      BY DEF Ops
    <2>2. m \in Seq(Ops)
      BY <2>1, SeqMonotonic
    <2>. QED  BY <2>2, ElementOfSeq, LenProperties
  <1> HIDE DEF a, b
  <1>3. /\ a \o m \in Seq(Ops) /\ Len(a \o m) = 2 + k
        /\ \A n \in 1 .. (2 + k) : (a \o m)[n] = IF n <= 2 THEN a[n] ELSE m[n - 2]
    <2>1. Len(a) + Len(m) = 2 + k
      BY <1>1
    <2>2. /\ a \o m \in Seq(Ops) /\ Len(a \o m) = Len(a) + Len(m)
          /\ \A n \in 1 .. (Len(a) + Len(m)) :
                (a \o m)[n] = IF n <= Len(a) THEN a[n] ELSE m[n - Len(a)]
      <3> HIDE DEF k
      <3>. QED  BY <1>1, <1>2, ConcatProperties
    <2> HIDE DEF k
    <2>. QED  BY <1>1, <2>1, <2>2
  <1>4. /\ s \in Seq(Ops) /\ Len(s) = k + 4
        /\ \A n \in 1 .. (k + 4) : s[n] = IF n <= 2 + k THEN (a \o m)[n] ELSE b[n - (2 + k)]
    <2> DEFINE am == a \o m
    <2>1. am \in Seq(Ops) /\ Len(am) = 2 + k
      BY <1>3
    <2>2. s = am \o b
      BY DEF LogArg, a, b
    <2> HIDE DEF am, k, s
    <2>3. Len(am) + Len(b) = k + 4
      BY <1>1, <1>2, <2>1
    <2>4. /\ am \o b \in Seq(Ops) /\ Len(am \o b) = Len(am) + Len(b)
          /\ \A n \in 1 .. (Len(am) + Len(b)) :
                (am \o b)[n] = IF n <= Len(am) THEN am[n] ELSE b[n - Len(am)]
      BY <1>1, <2>1, ConcatProperties
    <2>. QED  BY <2>1, <2>2, <2>3, <2>4 DEF am
  <1> HIDE DEF s, k
  <1>5. /\ l \in Seq(Ops) /\ Len(l) = k + 5
        /\ \A n \in 1 .. (k + 5) : l[n] = IF n <= k + 4 THEN s[n] ELSE "ch"
    <2>1. Len(s) + Len(<<"ch">>) = k + 5
      BY <1>1, <1>2, <1>4
    <2>2. /\ l \in Seq(Ops) /\ Len(l) = k + 5
          /\ \A n \in 1 .. (k + 5) : l[n] = IF n <= k + 4 THEN s[n] ELSE <<"ch">>[n - (k + 4)]
      BY <1>1, <1>4, <2>1, ConcatProperties
    <2>3. \A n \in 1 .. (k + 5) : ~(n <= k + 4) => n - (k + 4) = 1
      BY <1>2
    <2>. QED  BY <2>2, <2>3
  <1> HIDE DEF l
  <1>6. s[k + 3] = "out"
    <2> DEFINE n == k + 3
    <2>1. n \in 1 .. (k + 4) /\ ~(n <= 2 + k) /\ n - (2 + k) = 1
      BY <1>2
    <2> HIDE DEF n
    <2>2. s[n] = b[1]
      BY <1>4, <2>1
    <2>. QED  BY <1>1, <2>2 DEF n
  <1>7. ASSUME NEW n \in 1 .. (k + 4)
        PROVE  s[n] # "process" /\ (s[n] = "in" => n = 2)
    <2>1. CASE n = 1
      <3>1. n \in 1 .. (2 + k) /\ n <= 2 /\ n <= 2 + k
        BY <1>2, <2>1
      <3>2. s[n] = a[1]
        BY <1>3, <1>4, <2>1, <3>1
      <3>. QED  BY <1>1, <3>2
    <2>2. CASE n = 2
      <3>1. n \in 1 .. (2 + k) /\ n <= 2 /\ n <= 2 + k
        BY <1>2, <2>2
      <3>2. s[n] = a[2]
        BY <1>3, <1>4, <2>2, <3>1
      <3>. QED  BY <1>1, <2>2, <3>2
    <2>3. CASE n > 2 /\ n <= 2 + k
      <3>1. n \in 1 .. (2 + k) /\ ~(n <= 2) /\ n - 2 \in 1 .. k
        BY <1>2, <2>3
      <3>2. s[n] = m[n - 2]
        BY <1>3, <1>4, <2>3, <3>1
      <3>. QED  BY <1>2, <3>1, <3>2
    <2>4. CASE n = k + 3
      BY <1>6, <2>4
    <2>5. CASE n = k + 4
      <3>1. ~(n <= 2 + k) /\ n - (2 + k) = 2
        BY <1>2, <2>5
      <3>. QED  BY <1>1, <1>4, <3>1
    <2>. QED  BY <1>2, <2>1, <2>2, <2>3, <2>4, <2>5
  <1>8. Shape(s)
    <2> SUFFICES ASSUME NEW n \in 1 .. (k + 4)
                 PROVE  /\ s[n] = "in" => \E i \in (n + 1) .. (k + 4) : s[i] = "out"
                        /\ s[n] = "process" => n = k + 4
      BY <1>4 DEF Shape
    <2>1. k + 3 \in (2 + 1) .. (k + 4)
      BY <1>2
    <2>. QED  BY <1>6, <1>7, <2>1
  <1>9. Shape(l)
    <2> SUFFICES ASSUME NEW n \in 1 .. (k + 5)
                 PROVE  /\ l[n] = "in" => \E i \in (n + 1) .. (k + 5) : l[i] = "out"
                        /\ l[n] = "process" => n = k + 5
      BY <1>5 DEF Shape
    <2>1. k + 3 \in (2 + 1) .. (k + 5) /\ k + 3 \in 1 .. (k + 5) /\ k + 3 <= k + 4
      BY <1>2
    <2>2. l[k + 3] = "out"
      BY <1>5, <1>6, <2>1
    <2>3. CASE n <= k + 4
      <3>1. n \in 1 .. (k + 4) /\ l[n] = s[n]
        BY <1>2, <1>5, <2>3
      <3>. QED  BY <1>7, <2>1, <2>2, <3>1
    <2>4. CASE ~(n <= k + 4)
      BY <1>5, <2>4
    <2>. QED  BY <2>3, <2>4
  <1>. QED  BY <1>4, <1>5, <1>8, <1>9 DEF s, l

\* A writer that has nothing to print.
LEMMA NothingToPrint ==
    ASSUME TodoInv, NEW t \in Threads, todo[t] = <<>> \/ Head(todo[t]) = "process"
    PROVE  at[t] = "out" /\ ~HasOut(todo[t])
  <1>1. todo[t] \in Seq(Ops) /\ Shape(todo[t])
    BY DEF TodoInv
  <1>2. at[t] = "out"
    BY DEF TodoInv, PrintsChar
  <1>3. CASE todo[t] = <<>>
    BY <1>2, <1>3 DEF HasOut
  <1>4. CASE todo[t] # <<>>
    BY <1>1, <1>2, <1>4, TailFacts
  <1>. QED  BY <1>3, <1>4

\* A writer that has nothing to print is given something.
LEMMA TodoGiven ==
    ASSUME TodoInv, NEW t \in Threads \union {Awd}, NEW s \in Seq(Ops), Shape(s),
           t \in Threads => at[t] = "out" /\ ~HasOut(todo[t]),
           todo' = [todo EXCEPT ![t] = s], at' = at, leftColumn' = leftColumn
    PROVE  TodoInv'
  <1>1. \A u \in Threads \union {Awd} : todo'[u] = IF u = t THEN s ELSE todo[u]
    BY DEF TodoInv
  <1>2. todo' \in [Threads \union {Awd} -> Seq(Ops)] /\ at' \in [Threads -> Places]
        /\ leftColumn' \in {0, Margin}
    BY DEF TodoInv
  <1>3. \A u \in Threads : Shape(todo'[u])
    BY <1>1 DEF TodoInv
  <1>4. PrintsChar'
    BY <1>1 DEF TodoInv, PrintsChar
  <1>5. ColumnOwned'
    <2> SUFFICES ASSUME leftColumn # 0 PROVE \E u \in Threads : HasOut(todo'[u])
      BY DEF ColumnOwned
    <2>1. PICK u \in Threads : HasOut(todo[u])
      BY DEF TodoInv, ColumnOwned
    <2>2. u # t
      BY <2>1
    <2>. QED  BY <1>1, <2>1, <2>2
  <1>. QED  BY <1>2, <1>3, <1>4, <1>5 DEF TodoInv

\* A device call is done: the left column is set, or PrintChar returns.
LEMMA TodoDone ==
    ASSUME TodoInv, NEW t \in Threads \union {Awd}, todo[t] # <<>>,
           todo' = [todo EXCEPT ![t] = Tail(todo[t])],
           at' \in [Threads -> Places],
           \A u \in Threads : at'[u] = IF u = t THEN "out" ELSE at[u],
           \/ leftColumn' = leftColumn /\ (t \in Threads => Head(todo[t]) # "out")
           \/ leftColumn' = Margin /\ t \in Threads /\ Head(todo[t]) = "in"
           \/ leftColumn' = 0
    PROVE  TodoInv'
  <1>1. \A u \in Threads \union {Awd} : todo'[u] = IF u = t THEN Tail(todo[t]) ELSE todo[u]
    BY DEF TodoInv
  <1>2. todo[t] \in Seq(Ops) /\ Tail(todo[t]) \in Seq(Ops)
    BY TailFacts DEF TodoInv
  <1>3. todo' \in [Threads \union {Awd} -> Seq(Ops)] /\ leftColumn' \in {0, Margin}
    BY <1>2 DEF TodoInv
  <1>4. \A u \in Threads : Shape(todo'[u])
    BY <1>1, <1>2, TailFacts DEF TodoInv
  <1>5. PrintsChar'
    BY <1>1 DEF TodoInv, PrintsChar
  <1>6. ColumnOwned'
    <2> SUFFICES ASSUME leftColumn' # 0 PROVE \E u \in Threads : HasOut(todo'[u])
      BY DEF ColumnOwned
    <2>1. CASE leftColumn' = leftColumn /\ (t \in Threads => Head(todo[t]) # "out")
      <3>1. PICK u \in Threads : HasOut(todo[u])
        BY <2>1 DEF TodoInv, ColumnOwned
      <3>2. CASE u = t
        <4>1. HasOut(Tail(todo[t]))
          BY <1>2, <2>1, <3>1, <3>2, TailFacts
        <4>. QED  BY <1>1, <3>2, <4>1
      <3>3. CASE u # t
        BY <1>1, <3>1, <3>3
      <3>. QED  BY <3>2, <3>3
    <2>2. CASE t \in Threads /\ Head(todo[t]) = "in"
      <3>1. HasOut(Tail(todo[t]))
        BY <1>2, <2>2, TailFacts DEF TodoInv
      <3>. QED  BY <1>1, <2>2, <3>1
    <2>. QED  BY <2>1, <2>2
  <1>. QED  BY <1>3, <1>4, <1>5, <1>6 DEF TodoInv

\* A thread goes on inside PrintChar.
LEMMA TodoKept ==
    ASSUME TodoInv, NEW t \in Threads, NEW p \in Places,
           todo[t] # <<>>, Head(todo[t]) \in {"ch", "nl", "bs"},
           todo' = todo, at' = [at EXCEPT ![t] = p], leftColumn' = leftColumn
    PROVE  TodoInv'
  <1>1. at' \in [Threads -> Places] /\ \A u \in Threads : at'[u] = IF u = t THEN p ELSE at[u]
    BY DEF TodoInv
  <1>2. PrintsChar' /\ ColumnOwned'
    BY <1>1 DEF TodoInv, PrintsChar, ColumnOwned
  <1>. QED  BY <1>1, <1>2 DEF TodoInv

\* A step of PrintChar.
LEMMA PrintCharTodo ==
    ASSUME TodoInv, NEW t \in Threads, PrintChar(t)
    PROVE  TodoInv'
  <1>1. ASSUME NEW p \in Places, NEW q \in Places, Step(t, p, q), p # "out", todo' = todo
        PROVE  TodoInv'
    <2>1. at[t] = p /\ at' = [at EXCEPT ![t] = q] /\ leftColumn' = leftColumn
      BY <1>1 DEF Step
    <2>2. todo[t] # <<>> /\ Head(todo[t]) \in {"ch", "nl", "bs"}
      BY <1>1, <2>1 DEF TodoInv, PrintsChar
    <2>. QED  BY <1>1, <2>1, <2>2, TodoKept
  <1>2. ASSUME NEW p \in Places, Step(t, p, "out"), p # "out", Done(t)
        PROVE  TodoInv'
    <2>1. at[t] = p /\ at' = [at EXCEPT ![t] = "out"] /\ leftColumn' = leftColumn
      BY <1>2 DEF Step
    <2>2. todo[t] # <<>> /\ Head(todo[t]) \in {"ch", "nl", "bs"}
      BY <1>2, <2>1 DEF TodoInv, PrintsChar
    <2>3. /\ at' \in [Threads -> Places]
          /\ \A u \in Threads : at'[u] = IF u = t THEN "out" ELSE at[u]
      BY <2>1 DEF TodoInv, Places
    <2>. QED  BY <1>2, <2>1, <2>2, <2>3, TodoDone DEF Done
  <1>3. CASE Enter(t)
    <2>1. /\ todo[t] # <<>> /\ Head(todo[t]) \in {"ch", "nl", "bs"}
          /\ todo' = todo /\ at' = [at EXCEPT ![t] = "store"] /\ leftColumn' = leftColumn
      BY <1>3 DEF Enter, Step
    <2>. QED  BY <2>1, TodoKept DEF Places
  <1>4. CASE Store(t) \/ Advance(t)
    BY <1>1, <1>4 DEF Store, Advance, Places
  <1>5. CASE Wrap(t) \/ Left(t)
    BY <1>1, <1>5 DEF Wrap, Left, Places
  <1>6. CASE Scroll(t)
    BY <1>1, <1>2, <1>6 DEF Scroll, Places
  <1>7. CASE Up(t) \/ Blank(t)
    BY <1>1, <1>2, <1>7 DEF Up, Blank, Places
  <1>. QED  BY <1>3, <1>4, <1>5, <1>6, <1>7 DEF PrintChar

\* Short sequences of device calls.
LEMMA ShortFacts ==
    /\ <<>> \in Seq(Ops) /\ Shape(<<>>)
    /\ \A c \in {"ch", "nl", "bs"} : <<c>> \in Seq(Ops) /\ Shape(<<c>>)
    /\ <<"nl", "process">> \in Seq(Ops) /\ Shape(<<"nl", "process">>)
  <1>1. Shape(<<>>)
    BY DEF Shape
  <1>2. \A c \in {"ch", "nl", "bs"} : Shape(<<c>>)
    BY DEF Shape
  <1>3. Shape(<<"nl", "process">>)
    BY DEF Shape
  <1>. QED  BY <1>1, <1>2, <1>3 DEF Ops

\* Initially nothing is printed.
LEMMA InitTodo == Init => TodoInv
  <1> SUFFICES ASSUME Init PROVE TodoInv
    OBVIOUS
  <1>1. \A t \in Threads \union {Awd} : todo[t] = <<>>
    BY DEF Init
  <1>2. todo \in [Threads \union {Awd} -> Seq(Ops)] /\ at \in [Threads -> Places]
        /\ leftColumn \in {0, Margin} /\ leftColumn = 0
    BY DEF Init, Places
  <1>. QED  BY <1>1, <1>2, ShortFacts DEF TodoInv, PrintsChar, ColumnOwned, Init

\* Every step keeps the invariant.
LEMMA NextTodo == TodoInv /\ [Next]_vars => TodoInv'
  <1> SUFFICES ASSUME TodoInv, [Next]_vars PROVE TodoInv'
    OBVIOUS
  <1>0. \A m \in Messages : m \in Seq({"ch", "nl"})
    BY NamesAssumption
  <1>1. CASE AwdLine
    <2>1. PICK m \in Messages : todo' = [todo EXCEPT ![Awd] = Append(m, "nl")]
      BY <1>1 DEF AwdLine
    <2>2. Append(m, "nl") \in Seq({"ch", "nl"})
      BY <1>0, AppendProperties
    <2> DEFINE s == Append(m, "nl")
    <2>3. s \in Seq({"ch", "nl"}) /\ todo' = [todo EXCEPT ![Awd] = s]
      BY <2>1, <2>2
    <2> HIDE DEF s
    <2>4. \A n \in 1 .. Len(s) : s[n] \in {"ch", "nl"}
      BY <2>3, ElementOfSeq
    <2>5. s \in Seq(Ops)
      <3>1. {"ch", "nl"} \subseteq Ops
        BY DEF Ops
      <3>. QED  BY <2>3, <3>1, SeqMonotonic
    <2>6. Shape(s)
      BY <2>4 DEF Shape
    <2>7. at' = at /\ leftColumn' = leftColumn /\ Awd \notin Threads
      BY <1>1, NamesAssumption DEF AwdLine
    <2>. QED  BY <2>3, <2>5, <2>6, <2>7, TodoGiven
  <1>2. CASE console_print_char
    <2>1. /\ todo[Awd] # <<>> /\ todo' = [todo EXCEPT ![Awd] = Tail(todo[Awd])]
          /\ at' = at /\ leftColumn' = leftColumn
      BY <1>2 DEF console_print_char
    <2>2. Awd \notin Threads
      BY NamesAssumption
    <2>. QED  BY <2>1, <2>2, TodoDone DEF TodoInv
  <1>3. CASE EnterLobo \/ UNCHANGED vars
    <2>1. todo' = todo /\ at' = at /\ leftColumn' = leftColumn
      BY <1>3 DEF EnterLobo, vars
    <2>. QED  BY <2>1 DEF TodoInv, PrintsChar, ColumnOwned
  <1>4. ASSUME NEW t \in Threads, Log(t) PROVE TodoInv'
    <2>1. PICK m \in Messages : todo' = [todo EXCEPT ![t] = LogArg(m)]
      BY <1>4 DEF Log
    <2>2. LogArg(m) \in Seq(Ops) /\ Shape(LogArg(m))
      BY <1>0, LogArgFacts
    <2>3. at[t] = "out" /\ ~HasOut(todo[t])
      BY <1>4, NothingToPrint DEF Log, Idle, Ready
    <2>4. at' = at /\ leftColumn' = leftColumn
      BY <1>4 DEF Log
    <2>. QED  BY <2>1, <2>2, <2>3, <2>4, TodoGiven
  <1>5. ASSUME NEW t \in Threads, FormatSetLeftColumn(t) PROVE TodoInv'
    <2>1. /\ todo[t] # <<>> /\ Head(todo[t]) \in {"in", "out"}
          /\ leftColumn' = IF Head(todo[t]) = "in" THEN Margin ELSE 0
          /\ todo' = [todo EXCEPT ![t] = Tail(todo[t])] /\ at' = at
      BY <1>5 DEF FormatSetLeftColumn
    <2>2. at[t] = "out" /\ at \in [Threads -> Places]
      BY <2>1 DEF TodoInv, PrintsChar
    <2>. QED  BY <2>1, <2>2, TodoDone
  <1>6. ASSUME NEW t \in Threads, PrintChar(t) PROVE TodoInv'
    BY <1>6, PrintCharTodo
  <1>7. ASSUME NEW s \in Seq(Ops), Shape(s), todo' = [todo EXCEPT ![Keyboard] = s],
               todo[Keyboard] = <<>> \/ Head(todo[Keyboard]) = "process",
               at' = at, leftColumn' = leftColumn
        PROVE  TodoInv'
    BY <1>7, NothingToPrint, TodoGiven, NamesAssumption
  <1>8. LogArg(<<"ch">>) \o <<"ch">> \in Seq(Ops) /\ Shape(LogArg(<<"ch">>) \o <<"ch">>)
    <2>1. <<"ch">> \in Seq({"ch", "nl"})
      OBVIOUS
    <2>. QED  BY <2>1, LogArgFacts
  <1>9. CASE WriteChar
    <2>1. PICK c \in {"ch", "nl", "bs"} : todo' = [todo EXCEPT ![Keyboard] = <<c>>]
      BY <1>9 DEF WriteChar
    <2>. QED  BY <1>7, <1>9, <2>1, ShortFacts DEF WriteChar, Idle, Ready
  <1>10. CASE EnterDebugger
    <2> DEFINE s == LogArg(<<"ch">>) \o <<"ch">>
    <2>1. s \in Seq(Ops) /\ Shape(s)
      BY <1>8
    <2>2. /\ todo' = [todo EXCEPT ![Keyboard] = s] /\ todo[Keyboard] = <<>>
          /\ at' = at /\ leftColumn' = leftColumn
      BY <1>10 DEF EnterDebugger, Idle, Ready
    <2> HIDE DEF s
    <2>. QED  BY <1>7, <2>1, <2>2
  <1>11. ASSUME NEW c \in {"ch", "nl", "bs"}, Echo(c) PROVE TodoInv'
    BY <1>7, <1>11, ShortFacts DEF Echo, Ready
  <1>12. CASE Backspace
    BY <1>11, <1>12 DEF Backspace
  <1>13. ASSUME NEW k \in Letters, Key(k) PROVE TodoInv'
    BY <1>11, <1>13 DEF Key
  <1>14. CASE Return
    BY <1>7, <1>14, ShortFacts DEF Return, Idle, Ready
  <1>15. CASE Process
    <2> DEFINE s == LogArg(<<"ch">>) \o <<"ch">>
    <2>1. s \in Seq(Ops) /\ Shape(s)
      BY <1>8
    <2>2. /\ todo' = [todo EXCEPT ![Keyboard] = <<>>] \/ todo' = [todo EXCEPT ![Keyboard] = s]
          /\ Head(todo[Keyboard]) = "process"
          /\ at' = at /\ leftColumn' = leftColumn
      BY <1>15 DEF Process
    <2> HIDE DEF s
    <2>. QED  BY <1>7, <2>1, <2>2, ShortFacts
  <1>. QED  BY <1>1, <1>2, <1>3, <1>4, <1>5, <1>6, <1>9, <1>10, <1>12, <1>13, <1>14, <1>15
            DEF Next

\* So it holds however calls overlap.
LEMMA TodoInvariance == Spec => []TodoInv
  BY InitTodo, NextTodo, PTL DEF Spec

\* Outside of LogArg the left column is 0, for every interleaving of any number
\* of threads inside PrintChar: whoever set it puts it back.
THEOREM ColumnRestored == Spec => []MarginRestored
  <1>1. TodoInv => MarginRestored
    BY DEF TodoInv, ColumnOwned, HasOut, MarginRestored
  <1>. QED  BY <1>1, TodoInvariance, PTL

-----------------------------------------------------------------------------
(* The screen, when calls of PrintChar do not overlap *)

\* One thread at a time is inside PrintChar.
SerialPrinting == MaxBusy = 1

\* That one, and none before Lobo runs.
OneInside ==
    /\ \A t, u \in Threads : at[t] # "out" /\ at[u] # "out" => t = u
    /\ ~lobo => \A t \in Threads : at[t] = "out"

\* The types of the screen, the cursor and the count of ink.
ScreenTypes ==
    /\ screen \in [Cells -> BOOLEAN] /\ x \in Nat /\ y \in Nat
    /\ offset \in [Threads -> Nat] /\ live \in Int

\* Nothing is printed from cell n on.
BlankFrom(s, n) == \A c \in Cells : c >= n => ~s[c]

\* Where the cursor is, and from where on the screen is blank, after each of the
\* statements of PrintChar.
CursorOK(place, head, off) ==
    /\ place = "out" => x < Width /\ y < Height /\ BlankFrom(screen, y * Width + x)
    /\ place = "store" =>
          /\ x < Width /\ y < Height /\ BlankFrom(screen, y * Width + x)
          /\ off = y * Width + x
    /\ place = "advance" =>
          /\ x < Width /\ y < Height
          /\ head = "nl" => BlankFrom(screen, (y + 1) * Width)
          /\ head # "nl" => BlankFrom(screen, y * Width + x + 1)
    /\ place = "wrap" =>
          /\ x <= Width /\ y <= Height /\ BlankFrom(screen, y * Width + x)
          /\ x = Width => y < Height
    /\ place = "left" => y <= Height /\ BlankFrom(screen, y * Width)
    /\ place = "scroll" => x < Width /\ y <= Height /\ BlankFrom(screen, y * Width + x)
    /\ place = "up" => x < Width /\ y = Height
    /\ place = "blank" => x < Width /\ y = Height - 1

\* The characters in some cells.
InkIn(s, cells) == Cardinality({c \in cells : s[c]})

\* Between the move of the rows and the blanking of the last the ink of the last
\* row is there twice.
InkOK(place) ==
    live = IF place \in {"up", "blank"} THEN InkIn(screen, Cells \ Row(Height - 1))
                                        ELSE InkIn(screen, Cells)

\* The inductive invariant of the screen.
ScreenInv ==
    /\ OneInside /\ ScreenTypes
    /\ Inside = {} => CursorOK("out", "nl", 0) /\ InkOK("out")
    /\ \A t \in Inside : CursorOK(at[t], Head(todo[t]), offset[t]) /\ InkOK(at[t])

\* Products of rows and columns.
LEMMA RowEnds ==
    ASSUME NEW a \in Nat, NEW b \in Nat, NEW w \in Nat \ {0}
    PROVE  /\ a * w \in Nat /\ (a + 1) * w = a * w + w
           /\ a <= b => a * w <= b * w
           /\ a < b => a * w + w <= b * w
  <1>1. a * w \in Nat /\ (a + 1) * w = a * w + w
    OBVIOUS
  <1>2. \A c, d \in Nat : c <= d => c * w <= d * w
    OBVIOUS
  <1>3. a < b => (a + 1) * w <= b * w
    BY <1>2
  <1>. QED  BY <1>1, <1>2, <1>3

\* Which cells are in the last row and which in the first.
LEMMA CellFacts ==
    /\ Width \in Nat \ {0} /\ Height \in Nat \ {0, 1} /\ Cells \subseteq Nat
    /\ Cells = 0 .. (Height * Width - 1)
    /\ (Height - 1) * Width + Width = Height * Width /\ (Height - 1) * Width \in Nat
    /\ \A c \in Cells : c \in Row(Height - 1) <=> c >= (Height - 1) * Width
    /\ \A c \in Cells : c \in Row(0) <=> c < Width
    /\ Row(0) \subseteq Cells /\ Row(Height - 1) \subseteq Cells
  <1>1. Width \in Nat \ {0} /\ Height \in Nat \ {0, 1}
    BY SizesAssumption
  <1>2. Width * Height = Height * Width
    BY <1>1
  <1>3. Cells = 0 .. (Height * Width - 1) /\ Cells \subseteq Nat
    BY <1>2 DEF Cells
  <1> DEFINE h == Height - 1
  <1>4. h \in Nat /\ h + 1 = Height
    BY <1>1
  <1>5. h * Width + Width = Height * Width /\ h * Width \in Nat
    BY <1>1, <1>4, RowEnds
  <1>6. ASSUME NEW c \in Nat, NEW q \in Nat
        PROVE  c \div Width = q <=> q * Width <= c /\ c < q * Width + Width
    <2>1. c = (c \div Width) * Width + (c % Width) /\ c \div Width \in Nat
          /\ c % Width \in 0 .. (Width - 1)
      BY <1>1
    <2> DEFINE d == c \div Width
               r == c % Width
    <2>2. c = d * Width + r /\ d \in Nat /\ r \in Nat /\ r < Width
      BY <1>1, <2>1
    <2> HIDE DEF d, r
    <2>3. d < q => d * Width + Width <= q * Width
      BY <1>1, <2>2, RowEnds
    <2>4. q < d => q * Width + Width <= d * Width
      BY <1>1, <2>2, RowEnds
    <2>5. d * Width \in Nat /\ q * Width \in Nat
      BY <1>1, <2>2, RowEnds
    <2>6. CASE d = q
      BY <1>1, <2>2, <2>5, <2>6 DEF d
    <2>7. CASE d < q
      BY <1>1, <2>2, <2>3, <2>5, <2>7 DEF d
    <2>8. CASE q < d
      BY <1>1, <2>2, <2>4, <2>5, <2>8 DEF d
    <2>. QED  BY <2>2, <2>6, <2>7, <2>8
  <1> HIDE DEF h
  <1>7. \A c \in Cells : c \in Row(h) <=> c >= h * Width
    <2> SUFFICES ASSUME NEW c \in Cells PROVE c \in Row(h) <=> c >= h * Width
      OBVIOUS
    <2>1. c \in Nat /\ c < Height * Width /\ Height * Width \in Nat
      BY <1>1, <1>3, <1>5
    <2>2. c \div Width = h <=> h * Width <= c /\ c < h * Width + Width
      BY <1>4, <1>6, <2>1
    <2>. QED  BY <1>5, <2>1, <2>2 DEF Row
  <1>8. \A c \in Cells : c \in Row(0) <=> c < Width
    <2> SUFFICES ASSUME NEW c \in Cells PROVE c \in Row(0) <=> c < Width
      OBVIOUS
    <2>1. c \in Nat
      BY <1>3
    <2>2. c \div Width = 0 <=> 0 * Width <= c /\ c < 0 * Width + Width
      BY <1>6, <2>1
    <2>3. 0 * Width = 0
      BY <1>1
    <2>. QED  BY <1>1, <2>1, <2>2, <2>3 DEF Row
  <1>9. Row(0) \subseteq Cells /\ Row(Height - 1) \subseteq Cells
    BY DEF Row
  <1>. QED  BY <1>1, <1>3, <1>5, <1>7, <1>8, <1>9 DEF h

\* The cell under a cursor that is on the screen.
LEMMA UnderCursor ==
    ASSUME NEW a \in Nat, NEW b \in Nat, a < Width, b < Height
    PROVE  /\ b * Width + a \in Cells
           /\ b * Width \in Nat /\ (b + 1) * Width = b * Width + Width
  <1>1. Width \in Nat \ {0} /\ Height \in Nat
    BY CellFacts
  <1>2. b * Width \in Nat /\ (b + 1) * Width = b * Width + Width
        /\ b * Width + Width <= Height * Width
    BY <1>1, RowEnds
  <1>3. Height * Width \in Nat
    BY <1>1, RowEnds
  <1>4. b * Width + a \in 0 .. (Height * Width - 1)
    BY <1>1, <1>2, <1>3
  <1>. QED  BY <1>2, <1>4, CellFacts

\* There are finitely many cells.
LEMMA CellsFinite == IsFiniteSet(Cells) /\ \A S \in SUBSET Cells : IsFiniteSet(S)
  <1>1. Height * Width \in Nat
    BY CellFacts, RowEnds
  <1>2. IsFiniteSet(Cells)
    BY <1>1, CellFacts, FS_Interval
  <1>. QED  BY <1>2, FS_Subset

\* Ink on a blank cell.
LEMMA InkAdded ==
    ASSUME NEW s \in [Cells -> BOOLEAN], NEW n \in Cells, ~s[n],
           NEW r \in [Cells -> BOOLEAN], \A c \in Cells : r[c] <=> s[c] \/ c = n
    PROVE  InkIn(r, Cells) = InkIn(s, Cells) + 1
  <1> DEFINE S == {c \in Cells : s[c]}
             R == {c \in Cells : r[c]}
  <1>1. R = S \union {n} /\ n \notin S /\ S \in SUBSET Cells
    OBVIOUS
  <1>2. IsFiniteSet(S)
    BY <1>1, CellsFinite
  <1> HIDE DEF S, R
  <1>3. Cardinality(R) = Cardinality(S) + 1
    BY <1>1, <1>2, FS_AddElement
  <1>. QED  BY <1>3 DEF S, R, InkIn

\* A cell is blanked.
LEMMA InkErased ==
    ASSUME NEW s \in [Cells -> BOOLEAN], NEW n \in Cells,
           NEW r \in [Cells -> BOOLEAN], \A c \in Cells : r[c] <=> s[c] /\ c # n
    PROVE  InkIn(r, Cells) = InkIn(s, Cells) - InkIn(s, {n} \intersect Cells)
  <1> DEFINE S == {c \in Cells : s[c]}
             R == {c \in Cells : r[c]}
             E == {c \in {n} \intersect Cells : s[c]}
  <1>1. R = S \ {n} /\ S \in SUBSET Cells
    OBVIOUS
  <1>2. IsFiniteSet(S)
    BY <1>1, CellsFinite
  <1>3. CASE s[n]
    <2>1. E = {n} /\ n \in S
      BY <1>3
    <2> HIDE DEF S, R, E
    <2>2. Cardinality(R) = Cardinality(S) - 1
      BY <1>1, <1>2, <2>1, FS_RemoveElement
    <2>3. Cardinality(E) = 1
      BY <2>1, FS_Singleton, Zenon
    <2>4. Cardinality(R) = Cardinality(S) - Cardinality(E)
      BY <2>2, <2>3
    <2>. QED  BY <2>4 DEF S, R, E, InkIn
  <1>4. CASE ~s[n]
    <2>1. E = {} /\ R = S
      BY <1>4
    <2> HIDE DEF S, R, E
    <2>2. Cardinality(E) = 0 /\ Cardinality(S) \in Nat
      BY <1>2, <2>1, FS_EmptySet, FS_CardinalityType
    <2>3. Cardinality(R) = Cardinality(S) - Cardinality(E)
      BY <2>1, <2>2
    <2>. QED  BY <2>3 DEF S, R, E, InkIn
  <1>. QED  BY <1>3, <1>4

\* The rows move up: what is then above the last row is what was below the first.
LEMMA InkMoved ==
    ASSUME NEW s \in [Cells -> BOOLEAN]
    PROVE  /\ MovedUp(s) \in [Cells -> BOOLEAN]
           /\ InkIn(MovedUp(s), Cells \ Row(Height - 1)) = InkIn(s, Cells) - InkIn(s, Row(0))
  <1> DEFINE r == MovedUp(s)
             h == (Height - 1) * Width
             top == Height * Width
             A == {c \in Cells \ Row(Height - 1) : r[c]}
             B == {c \in Cells \ Row(0) : s[c]}
             S == {c \in Cells : s[c]}
             F == {c \in Row(0) : s[c]}
  <1>0. /\ Width \in Nat \ {0} /\ h \in Nat /\ top \in Nat /\ h + Width = top
        /\ Cells = 0 .. (top - 1)
    BY CellFacts, RowEnds
  <1>1. r \in [Cells -> BOOLEAN]
    BY DEF MovedUp
  <1>2. \A c \in Cells \ Row(Height - 1) : c \in Nat /\ c + Width \in Cells /\ r[c] = s[c + Width]
    <2>1. \A c \in Cells \ Row(Height - 1) : c \in Cells /\ ~(c >= h)
      BY CellFacts
    <2>2. \A c \in Cells \ Row(Height - 1) : c \in Nat /\ c + Width \in Cells
      <3> HIDE DEF h, top
      <3>. QED  BY <1>0, <2>1
    <2>. QED  BY <2>2 DEF MovedUp
  <1> DEFINE f == [c \in A |-> c + Width]
  <1>3. f \in Bijection(A, B)
    <2>1. \A c \in A : f[c] \in B
      <3> SUFFICES ASSUME NEW c \in A PROVE c + Width \in B
        OBVIOUS
      <3>1. c + Width \in Cells /\ s[c + Width] /\ c \in Nat
        BY <1>2
      <3>2. ~(c + Width < Width)
        BY <1>0, <3>1
      <3>3. c + Width \notin Row(0)
        BY <3>1, <3>2, CellFacts
      <3>. QED  BY <3>1, <3>3
    <2>2. \A a, b \in A : f[a] = f[b] => a = b
      <3>1. \A a \in A : a \in Nat
        BY <1>2
      <3>. QED  BY <1>0, <3>1
    <2>3. \A b \in B : \E a \in A : f[a] = b
      <3> SUFFICES ASSUME NEW b \in B PROVE \E a \in A : a + Width = b
        OBVIOUS
      <3>1. b \in Cells /\ ~(b < Width) /\ s[b]
        BY CellFacts
      <3>2. b - Width \in Cells /\ b - Width < h /\ (b - Width) + Width = b
        <4> HIDE DEF h, top
        <4>. QED  BY <1>0, <3>1
      <3>3. b - Width \in Cells \ Row(Height - 1)
        <4>1. ~(b - Width >= h)
          <5>1. b - Width \in Nat /\ h \in Nat
            <6> HIDE DEF h, top
            <6>. QED  BY <1>0, <3>2
          <5> HIDE DEF h
          <5>. QED  BY <3>2, <5>1
        <4>. QED  BY <3>2, <4>1, CellFacts
      <3>4. b - Width \in A
        BY <1>2, <3>1, <3>2, <3>3
      <3>. QED  BY <3>2, <3>4
    <2>. QED  BY <2>1, <2>2, <2>3 DEF Bijection, Injection, Surjection, IsInjective
  <1>4. IsFiniteSet(A) /\ IsFiniteSet(B) /\ IsFiniteSet(S) /\ IsFiniteSet(F)
    <2>1. A \in SUBSET Cells /\ B \in SUBSET Cells /\ S \in SUBSET Cells /\ F \in SUBSET Cells
      BY CellFacts
    <2>. QED  BY <2>1, CellsFinite
  <1>5. B = S \ F /\ S \intersect F = F
    BY CellFacts
  <1> HIDE DEF A, B, S, F, f
  <1>6. Cardinality(A) = Cardinality(B)
    <2>1. ExistsBijection(A, B)
      BY <1>3 DEF ExistsBijection
    <2>. QED  BY <1>4, <2>1, FS_Bijection
  <1>7. Cardinality(B) = Cardinality(S) - Cardinality(F)
    BY <1>4, <1>5, FS_Difference
  <1>8. Cardinality(A) = Cardinality(S) - Cardinality(F)
    BY <1>6, <1>7
  <1>. QED  BY <1>1, <1>8 DEF A, S, F, InkIn

\* The last row is blanked.
LEMMA InkBlanked ==
    ASSUME NEW s \in [Cells -> BOOLEAN]
    PROVE  /\ BlankLast(s) \in [Cells -> BOOLEAN]
           /\ InkIn(BlankLast(s), Cells) = InkIn(s, Cells \ Row(Height - 1))
           /\ \A n \in Nat : n >= (Height - 1) * Width => BlankFrom(BlankLast(s), n)
  <1>1. BlankLast(s) \in [Cells -> BOOLEAN]
    BY DEF BlankLast
  <1>2. {c \in Cells : BlankLast(s)[c]} = {c \in Cells \ Row(Height - 1) : s[c]}
    BY DEF BlankLast
  <1>3. ASSUME NEW n \in Nat, n >= (Height - 1) * Width PROVE BlankFrom(BlankLast(s), n)
    <2> SUFFICES ASSUME NEW c \in Cells, c >= n PROVE ~BlankLast(s)[c]
      BY DEF BlankFrom
    <2> DEFINE h == (Height - 1) * Width
    <2>1. c \in Nat /\ h \in Nat /\ n >= h
      BY <1>3, CellFacts
    <2>2. c >= h
      <3> HIDE DEF h
      <3>. QED  BY <2>1
    <2>3. c \in Row(Height - 1)
      BY <2>2, CellFacts
    <2>. QED  BY <2>3 DEF BlankLast
  <1>. QED  BY <1>1, <1>2, <1>3 DEF InkIn

\* A thread that runs is the one inside PrintChar, if there is one.
LEMMA Alone ==
    ASSUME SerialPrinting, TodoInv, OneInside, NEW t \in Threads, Runs(t)
    PROVE  IF at[t] = "out" THEN Inside = {} ELSE Inside = {t}
  <1>1. \A u \in Inside : Inside = {u}
    BY DEF Inside, OneInside
  <1>2. ASSUME NEW u \in Inside PROVE t \in Inside
    <2>1. Inside = {u}
      BY <1>1
    <2>2. Cardinality(Inside) = 1
      BY <2>1, FS_Singleton, Zenon
    <2>. QED  BY <2>2 DEF Runs, SerialPrinting
  <1>3. t \in Inside <=> at[t] # "out"
    BY DEF Inside
  <1>. QED  BY <1>1, <1>2, <1>3

\* A step that leaves the screen alone, taken while nobody is inside PrintChar.
LEMMA QuietScreen ==
    ASSUME ScreenInv, Inside = {}, lobo' = lobo,
           UNCHANGED <<screen, x, y, at, offset, live>>
    PROVE  ScreenInv'
  <1>1. Inside' = {}
    BY DEF Inside
  <1>2. OneInside' /\ ScreenTypes'
    BY DEF ScreenInv, OneInside, ScreenTypes
  <1>3. CursorOK("out", "nl", 0)' /\ InkOK("out")'
    BY DEF ScreenInv, CursorOK, InkOK
  <1>. QED  BY <1>1, <1>2, <1>3 DEF ScreenInv

\* A step of PrintChar.
LEMMA StepScreen ==
    ASSUME SerialPrinting, TodoInv, ScreenInv, NEW t \in Threads,
           NEW p \in Places, NEW q \in Places, Step(t, p, q), ScreenTypes',
           (CursorOK(at[t], Head(todo[t]), offset[t]) /\ InkOK(at[t]))'
    PROVE  ScreenInv'
  <1>1. at[t] = p /\ at' = [at EXCEPT ![t] = q] /\ lobo' = lobo /\ Runs(t)
    BY DEF Step
  <1>2. \A u \in Threads : at'[u] = IF u = t THEN q ELSE at[u]
    BY <1>1 DEF TodoInv
  <1>3. \A u \in Threads : u # t => at[u] = "out"
    <2>1. IF at[t] = "out" THEN Inside = {} ELSE Inside = {t}
      BY <1>1, Alone DEF ScreenInv
    <2>. QED  BY <2>1 DEF Inside
  <1>4. OneInside'
    BY <1>1, <1>2, <1>3 DEF OneInside, Runs
  <1>5. CASE q = "out"
    <2>1. Inside' = {} /\ at'[t] = "out"
      BY <1>2, <1>3, <1>5 DEF Inside
    <2>2. CursorOK("out", "nl", 0)' /\ InkOK("out")'
      BY <2>1 DEF CursorOK, InkOK
    <2>. QED  BY <1>4, <2>1, <2>2 DEF ScreenInv
  <1>6. CASE q # "out"
    <2>1. Inside' = {t}
      BY <1>2, <1>3, <1>6 DEF Inside
    <2>. QED  BY <1>4, <2>1 DEF ScreenInv
  <1>. QED  BY <1>5, <1>6

\* What the invariant says of the thread that takes a step of PrintChar.
LEMMA InsideFacts ==
    ASSUME TodoInv, ScreenInv, NEW t \in Threads, at[t] # "out"
    PROVE  /\ CursorOK(at[t], Head(todo[t]), offset[t]) /\ InkOK(at[t])
           /\ Head(todo[t]) \in {"ch", "nl", "bs"}
           /\ x \in Nat /\ y \in Nat /\ Width \in Nat \ {0} /\ Height \in Nat \ {0, 1}
           /\ y * Width \in Nat /\ (y + 1) * Width = y * Width + Width
           /\ leftColumn \in Nat /\ leftColumn < Width
  <1>1. t \in Inside
    BY DEF Inside
  <1>2. x \in Nat /\ y \in Nat /\ Width \in Nat \ {0} /\ Height \in Nat \ {0, 1}
    BY SizesAssumption DEF ScreenInv, ScreenTypes
  <1>3. y * Width \in Nat /\ (y + 1) * Width = y * Width + Width
    BY <1>2, RowEnds
  <1>4. leftColumn \in Nat /\ leftColumn < Width
    BY SizesAssumption DEF TodoInv
  <1>. QED  BY <1>1, <1>2, <1>3, <1>4 DEF ScreenInv, TodoInv, PrintsChar

\* A screen that is blank from a cell on is blank from any later one.
LEMMA BlankFurther ==
    ASSUME NEW s, NEW m \in Nat, NEW n \in Nat, m <= n, BlankFrom(s, m)
    PROVE  BlankFrom(s, n)
  BY CellFacts DEF BlankFrom

\* PrintChar begins: it computes the offset of the cursor.
LEMMA EnterScreen ==
    ASSUME SerialPrinting, TodoInv, ScreenInv, NEW t \in Threads, Enter(t)
    PROVE  ScreenInv'
  <1>1. /\ Step(t, "out", "store") /\ at[t] = "out" /\ at' = [at EXCEPT ![t] = "store"]
        /\ offset' = [offset EXCEPT ![t] = y * Width + x] /\ Runs(t)
        /\ UNCHANGED <<screen, x, y, todo, live>>
    BY DEF Enter, Step
  <1>2. Inside = {}
    BY <1>1, Alone DEF ScreenInv
  <1>3. /\ x \in Nat /\ y \in Nat /\ x < Width /\ y < Height
        /\ BlankFrom(screen, y * Width + x) /\ live = InkIn(screen, Cells)
    BY <1>2 DEF ScreenInv, ScreenTypes, CursorOK, InkOK
  <1>4. y * Width + x \in Nat
    BY <1>3, UnderCursor, CellFacts
  <1>5. ScreenTypes'
    BY <1>1, <1>4 DEF ScreenInv, ScreenTypes
  <1>6. at'[t] = "store" /\ offset'[t] = y * Width + x
    BY <1>1 DEF TodoInv, ScreenInv, ScreenTypes
  <1>7. (CursorOK(at[t], Head(todo[t]), offset[t]) /\ InkOK(at[t]))'
    BY <1>1, <1>3, <1>6 DEF CursorOK, InkOK
  <1>. QED  BY <1>1, <1>5, <1>7, StepScreen DEF Places

\* It stores the character.
LEMMA StoreScreen ==
    ASSUME SerialPrinting, TodoInv, ScreenInv, NEW t \in Threads, Store(t)
    PROVE  ScreenInv'
  <1> DEFINE head == Head(todo[t])
  <1>1. /\ Step(t, "store", "advance") /\ at[t] = "store" /\ at' = [at EXCEPT ![t] = "advance"]
        /\ UNCHANGED <<y, todo, offset>>
    BY DEF Store, Step
  <1>2. /\ head \in {"ch", "nl", "bs"}
        /\ x \in Nat /\ y \in Nat /\ Width \in Nat \ {0} /\ Height \in Nat \ {0, 1}
        /\ y * Width \in Nat /\ (y + 1) * Width = y * Width + Width
        /\ leftColumn \in Nat /\ leftColumn < Width
        /\ CursorOK(at[t], head, offset[t]) /\ InkOK(at[t])
    BY <1>1, InsideFacts
  <1>3. /\ x < Width /\ y < Height /\ BlankFrom(screen, y * Width + x)
        /\ offset[t] = y * Width + x /\ live = InkIn(screen, Cells)
    BY <1>1, <1>2 DEF CursorOK, InkOK
  <1>4. at'[t] = "advance"
    BY <1>1 DEF TodoInv
  <1> DEFINE n == y * Width + x
  <1>5. n \in Cells /\ n \in Nat /\ screen \in [Cells -> BOOLEAN] /\ live \in Int
    BY <1>2, <1>3, UnderCursor, CellFacts DEF ScreenInv, ScreenTypes
  <1>6. CASE head = "ch"
    <2>1. /\ screen' = [c \in Cells |-> screen[c] \/ c = n]
          /\ live' = live + 1 /\ x' = x
      BY <1>3, <1>6 DEF Store
    <2> HIDE DEF n
    <2>2. ~screen[n]
      <3>1. n >= n
        BY <1>5
      <3>. QED  BY <1>3, <1>5, <3>1 DEF BlankFrom, n
    <2>3. screen' \in [Cells -> BOOLEAN] /\ \A c \in Cells : screen'[c] <=> screen[c] \/ c = n
      BY <1>5, <2>1
    <2>4. live' = InkIn(screen', Cells)
      BY <1>3, <1>5, <2>1, <2>2, <2>3, InkAdded
    <2>5. BlankFrom(screen', n + 1)
      <3>1. BlankFrom(screen, n)
        BY <1>3 DEF n
      <3>. QED  BY <1>5, <2>3, <3>1, CellFacts DEF BlankFrom
    <2>6. ScreenTypes'
      BY <1>1, <1>5, <2>1, <2>3 DEF ScreenInv, ScreenTypes
    <2>7. (CursorOK(at[t], Head(todo[t]), offset[t]) /\ InkOK(at[t]))'
      BY <1>1, <1>3, <1>4, <1>6, <2>1, <2>4, <2>5 DEF CursorOK, InkOK, n
    <2>. QED  BY <1>1, <2>6, <2>7, StepScreen DEF Places
  <1>7. CASE head = "nl"
    <2>1. x' = leftColumn /\ UNCHANGED <<screen, live>>
      BY <1>7 DEF Store
    <2>2. BlankFrom(screen, (y + 1) * Width)
      <3>1. n <= (y + 1) * Width /\ (y + 1) * Width \in Nat
        BY <1>2, <1>3
      <3> HIDE DEF n
      <3>. QED  BY <1>3, <1>5, <3>1, BlankFurther DEF n
    <2>3. ScreenTypes'
      BY <1>1, <1>2, <2>1 DEF ScreenInv, ScreenTypes
    <2>4. (CursorOK(at[t], Head(todo[t]), offset[t]) /\ InkOK(at[t]))'
      BY <1>1, <1>2, <1>3, <1>4, <1>7, <2>1, <2>2 DEF CursorOK, InkOK
    <2>. QED  BY <1>1, <2>3, <2>4, StepScreen DEF Places
  <1>8. CASE head = "bs"
    <2>1. x' = (IF x - 1 < leftColumn THEN leftColumn ELSE x - 1) /\ UNCHANGED <<screen, live>>
      BY <1>8 DEF Store
    <2>2. x' \in Nat /\ x' < Width /\ x <= x' + 1
      BY <1>2, <1>3, <2>1
    <2>3. BlankFrom(screen, y * Width + x' + 1)
      <3> DEFINE k == y * Width + x' + 1
      <3>1. n <= k /\ k \in Nat
        <4>1. \A r, a, b \in Nat : a <= b + 1 => r + a <= r + b + 1 /\ r + b + 1 \in Nat
          OBVIOUS
        <4>2. x \in Nat /\ x' \in Nat /\ x <= x' + 1 /\ y * Width \in Nat
          BY <1>2, <2>2
        <4>. QED  BY <4>1, <4>2, Zenon
      <3> HIDE DEF k, n
      <3>2. BlankFrom(screen, k)
        BY <1>3, <1>5, <3>1, BlankFurther DEF n
      <3>. QED  BY <3>2 DEF k
    <2>4. ScreenTypes'
      BY <1>1, <2>1, <2>2 DEF ScreenInv, ScreenTypes
    <2>5. (CursorOK(at[t], Head(todo[t]), offset[t]) /\ InkOK(at[t]))'
      BY <1>1, <1>3, <1>4, <1>8, <2>1, <2>2, <2>3 DEF CursorOK, InkOK
    <2>. QED  BY <1>1, <2>4, <2>5, StepScreen DEF Places
  <1>. QED  BY <1>2, <1>6, <1>7, <1>8

\* It moves the cursor.
LEMMA AdvanceScreen ==
    ASSUME SerialPrinting, TodoInv, ScreenInv, NEW t \in Threads, Advance(t)
    PROVE  ScreenInv'
  <1> DEFINE head == Head(todo[t])
  <1>1. /\ Step(t, "advance", "wrap") /\ at[t] = "advance" /\ at' = [at EXCEPT ![t] = "wrap"]
        /\ UNCHANGED <<todo, offset>>
    BY DEF Advance, Step
  <1>2. /\ head \in {"ch", "nl", "bs"}
        /\ x \in Nat /\ y \in Nat /\ Width \in Nat \ {0} /\ Height \in Nat \ {0, 1}
        /\ y * Width \in Nat /\ (y + 1) * Width = y * Width + Width
        /\ CursorOK(at[t], head, offset[t]) /\ InkOK(at[t])
    BY <1>1, InsideFacts
  <1>3. /\ x < Width /\ y < Height /\ live = InkIn(screen, Cells)
        /\ head = "nl" => BlankFrom(screen, (y + 1) * Width)
        /\ head # "nl" => BlankFrom(screen, y * Width + x + 1)
    BY <1>1, <1>2 DEF CursorOK, InkOK
  <1>4. at'[t] = "wrap"
    BY <1>1 DEF TodoInv
  <1> DEFINE n == y * Width + x
  <1>5. n \in Cells /\ n \in Nat /\ screen \in [Cells -> BOOLEAN] /\ live \in Int
    BY <1>2, <1>3, UnderCursor, CellFacts DEF ScreenInv, ScreenTypes
  <1>6. CASE head = "ch"
    <2>1. x' = x + 1 /\ UNCHANGED <<screen, y, live>>
      BY <1>6 DEF Advance
    <2>2. BlankFrom(screen, y * Width + (x + 1))
      <3>1. y * Width + (x + 1) = y * Width + x + 1
        BY <1>2
      <3>. QED  BY <1>3, <1>6, <3>1
    <2>3. x' \in Nat /\ x' <= Width
      BY <1>2, <1>3, <2>1
    <2>4. ScreenTypes'
      BY <1>1, <2>1, <2>3 DEF ScreenInv, ScreenTypes
    <2>5. (CursorOK(at[t], Head(todo[t]), offset[t]) /\ InkOK(at[t]))'
      BY <1>1, <1>2, <1>3, <1>4, <2>1, <2>2, <2>3 DEF CursorOK, InkOK
    <2>. QED  BY <1>1, <2>4, <2>5, StepScreen DEF Places
  <1>7. CASE head = "nl"
    <2>1. y' = y + 1 /\ UNCHANGED <<screen, x, live>>
      BY <1>7 DEF Advance
    <2>2. BlankFrom(screen, (y + 1) * Width + x)
      <3> DEFINE m == (y + 1) * Width
      <3>1. m \in Nat /\ m + x \in Nat /\ m <= m + x /\ BlankFrom(screen, m)
        BY <1>2, <1>3, <1>7
      <3> HIDE DEF m
      <3>2. BlankFrom(screen, m + x)
        BY <3>1, BlankFurther
      <3>. QED  BY <3>2 DEF m
    <2>3. y' \in Nat /\ y' <= Height /\ ~(x = Width)
      BY <1>2, <1>3, <2>1
    <2>4. ScreenTypes'
      BY <1>1, <2>1, <2>3 DEF ScreenInv, ScreenTypes
    <2>5. (CursorOK(at[t], Head(todo[t]), offset[t]) /\ InkOK(at[t]))'
      BY <1>1, <1>2, <1>3, <1>4, <2>1, <2>2, <2>3 DEF CursorOK, InkOK
    <2>. QED  BY <1>1, <2>4, <2>5, StepScreen DEF Places
  <1>8. CASE head = "bs"
    <2>1. /\ screen' = [c \in Cells |-> screen[c] /\ c # n]
          /\ live' = live - InkIn(screen, {n} \intersect Cells) /\ UNCHANGED <<x, y>>
      BY <1>8 DEF Advance, Ink, InkIn
    <2> HIDE DEF n
    <2>2. screen' \in [Cells -> BOOLEAN] /\ \A c \in Cells : screen'[c] <=> screen[c] /\ c # n
      BY <1>5, <2>1
    <2>3. live' = InkIn(screen', Cells)
      BY <1>3, <1>5, <2>1, <2>2, InkErased
    <2>4. live' \in Int
      <3>1. {c \in {n} \intersect Cells : screen[c]} \in SUBSET Cells
        OBVIOUS
      <3>2. InkIn(screen, {n} \intersect Cells) \in Nat
        BY <3>1, CellsFinite, FS_CardinalityType DEF InkIn
      <3>. QED  BY <1>5, <2>1, <3>2
    <2>5. BlankFrom(screen', n)
      <3>1. BlankFrom(screen, n + 1)
        BY <1>3, <1>8 DEF n
      <3>. QED  BY <1>5, <2>2, <3>1, CellFacts DEF BlankFrom
    <2>6. ScreenTypes'
      BY <1>1, <2>1, <2>2, <2>4 DEF ScreenInv, ScreenTypes
    <2>7. ~(x = Width) /\ x <= Width /\ y <= Height
      BY <1>2, <1>3
    <2>8. (CursorOK(at[t], Head(todo[t]), offset[t]) /\ InkOK(at[t]))'
      BY <1>1, <1>3, <1>4, <2>1, <2>3, <2>5, <2>7 DEF CursorOK, InkOK, n
    <2>. QED  BY <1>1, <2>6, <2>8, StepScreen DEF Places
  <1>. QED  BY <1>2, <1>6, <1>7, <1>8

\* It wraps the line.
LEMMA WrapScreen ==
    ASSUME SerialPrinting, TodoInv, ScreenInv, NEW t \in Threads, Wrap(t)
    PROVE  ScreenInv'
  <1>1. at[t] = "wrap" /\ UNCHANGED <<screen, x, todo, offset, live>>
    BY DEF Wrap, Step
  <1>2. /\ x \in Nat /\ y \in Nat /\ Width \in Nat \ {0} /\ Height \in Nat \ {0, 1}
        /\ y * Width \in Nat /\ (y + 1) * Width = y * Width + Width
        /\ CursorOK(at[t], Head(todo[t]), offset[t]) /\ InkOK(at[t])
    BY <1>1, InsideFacts
  <1>3. /\ x <= Width /\ y <= Height /\ BlankFrom(screen, y * Width + x)
        /\ x = Width => y < Height
        /\ live = InkIn(screen, Cells)
    BY <1>1, <1>2 DEF CursorOK, InkOK
  <1>4. CASE PastLastColumn /\ Step(t, "wrap", "left") /\ y' = y + 1
    <2>1. x = Width /\ y < Height
      BY <1>2, <1>3, <1>4 DEF PastLastColumn
    <2>2. y' \in Nat /\ y' <= Height /\ BlankFrom(screen, y' * Width)
      <3>1. BlankFrom(screen, (y + 1) * Width)
        BY <1>2, <1>3, <2>1
      <3>. QED  BY <1>2, <1>4, <2>1, <3>1
    <2>3. ScreenTypes'
      BY <1>1, <2>2 DEF ScreenInv, ScreenTypes
    <2>4. at'[t] = "left"
      BY <1>4 DEF Step, TodoInv
    <2>5. (CursorOK(at[t], Head(todo[t]), offset[t]) /\ InkOK(at[t]))'
      BY <1>1, <1>3, <2>2, <2>4 DEF CursorOK, InkOK
    <2>. QED  BY <1>4, <2>3, <2>5, StepScreen DEF Places
  <1>5. CASE ~PastLastColumn /\ Step(t, "wrap", "scroll") /\ UNCHANGED y
    <2>1. x < Width
      BY <1>2, <1>5 DEF PastLastColumn
    <2>2. ScreenTypes'
      BY <1>1, <1>5 DEF ScreenInv, ScreenTypes
    <2>3. at'[t] = "scroll"
      BY <1>5 DEF Step, TodoInv
    <2>4. (CursorOK(at[t], Head(todo[t]), offset[t]) /\ InkOK(at[t]))'
      BY <1>1, <1>3, <1>5, <2>1, <2>3 DEF CursorOK, InkOK
    <2>. QED  BY <1>5, <2>2, <2>4, StepScreen DEF Places
  <1>. QED  BY <1>4, <1>5 DEF Wrap

\* It goes to the left column.
LEMMA LeftScreen ==
    ASSUME SerialPrinting, TodoInv, ScreenInv, NEW t \in Threads, Left(t)
    PROVE  ScreenInv'
  <1>1. /\ Step(t, "left", "scroll") /\ at[t] = "left" /\ at'[t] = "scroll"
        /\ x' = leftColumn /\ UNCHANGED <<screen, y, todo, offset, live>>
    BY DEF Left, Step, TodoInv
  <1>2. /\ x \in Nat /\ y \in Nat /\ y * Width \in Nat
        /\ leftColumn \in Nat /\ leftColumn < Width
        /\ CursorOK(at[t], Head(todo[t]), offset[t]) /\ InkOK(at[t])
    BY <1>1, InsideFacts
  <1>3. y <= Height /\ BlankFrom(screen, y * Width) /\ live = InkIn(screen, Cells)
    BY <1>1, <1>2 DEF CursorOK, InkOK
  <1>4. BlankFrom(screen, y * Width + leftColumn)
    <2> DEFINE m == y * Width
    <2>1. m \in Nat /\ BlankFrom(screen, m)
      BY <1>2, <1>3
    <2> HIDE DEF m
    <2>2. m + leftColumn \in Nat /\ m <= m + leftColumn
      BY <1>2, <2>1
    <2>3. BlankFrom(screen, m + leftColumn)
      BY <2>1, <2>2, BlankFurther
    <2>. QED  BY <2>3 DEF m
  <1>5. ScreenTypes'
    BY <1>1, <1>2 DEF ScreenInv, ScreenTypes
  <1>6. (CursorOK(at[t], Head(todo[t]), offset[t]) /\ InkOK(at[t]))'
    BY <1>1, <1>2, <1>3, <1>4 DEF CursorOK, InkOK
  <1>. QED  BY <1>1, <1>5, <1>6, StepScreen DEF Places

\* It tests whether to scroll.
LEMMA ScrollScreen ==
    ASSUME SerialPrinting, TodoInv, ScreenInv, NEW t \in Threads, Scroll(t)
    PROVE  ScreenInv'
  <1>1. at[t] = "scroll" /\ UNCHANGED <<x, y, offset>>
    BY DEF Scroll, Step
  <1>2. /\ x \in Nat /\ y \in Nat /\ Height \in Nat \ {0, 1}
        /\ CursorOK(at[t], Head(todo[t]), offset[t]) /\ InkOK(at[t])
    BY <1>1, InsideFacts
  <1>3. /\ x < Width /\ y <= Height /\ BlankFrom(screen, y * Width + x)
        /\ live = InkIn(screen, Cells) /\ screen \in [Cells -> BOOLEAN] /\ live \in Int
    BY <1>1, <1>2 DEF CursorOK, InkOK, ScreenInv, ScreenTypes
  <1>4. CASE /\ y >= Height /\ Step(t, "scroll", "up")
             /\ screen' = MovedUp(screen) /\ live' = live - Ink(Row(0))
    <2>1. at'[t] = "up"
      BY <1>4 DEF Step, TodoInv
    <2>2. /\ screen' \in [Cells -> BOOLEAN]
          /\ live' = InkIn(screen', Cells \ Row(Height - 1))
      BY <1>3, <1>4, InkMoved DEF Ink, InkIn
    <2>3. live' \in Int
      <3>1. {c \in Row(0) : screen[c]} \in SUBSET Cells
        BY CellFacts
      <3>2. Ink(Row(0)) \in Nat
        BY <3>1, CellsFinite, FS_CardinalityType DEF Ink
      <3>. QED  BY <1>3, <1>4, <3>2
    <2>4. ScreenTypes'
      BY <1>1, <2>2, <2>3 DEF ScreenInv, ScreenTypes
    <2>5. y = Height
      BY <1>2, <1>3, <1>4
    <2>6. (CursorOK(at[t], Head(todo[t]), offset[t]) /\ InkOK(at[t]))'
      BY <1>1, <1>3, <2>1, <2>2, <2>5 DEF CursorOK, InkOK
    <2>. QED  BY <1>4, <2>4, <2>6, StepScreen DEF Places
  <1>5. CASE y < Height /\ Step(t, "scroll", "out") /\ UNCHANGED <<screen, live>>
    <2>1. at'[t] = "out"
      BY <1>5 DEF Step, TodoInv
    <2>2. ScreenTypes'
      BY <1>1, <1>5 DEF ScreenInv, ScreenTypes
    <2>3. (CursorOK(at[t], Head(todo[t]), offset[t]) /\ InkOK(at[t]))'
      BY <1>1, <1>3, <1>5, <2>1 DEF CursorOK, InkOK
    <2>. QED  BY <1>5, <2>2, <2>3, StepScreen DEF Places
  <1>. QED  BY <1>4, <1>5 DEF Scroll

\* It moves the rows up.
LEMMA UpScreen ==
    ASSUME SerialPrinting, TodoInv, ScreenInv, NEW t \in Threads, Up(t)
    PROVE  ScreenInv'
  <1>1. /\ Step(t, "up", "blank") /\ at[t] = "up" /\ at'[t] = "blank"
        /\ y' = y - 1 /\ UNCHANGED <<screen, x, todo, offset, live>>
    BY DEF Up, Step, TodoInv
  <1>2. /\ y \in Nat /\ Height \in Nat \ {0, 1}
        /\ CursorOK(at[t], Head(todo[t]), offset[t]) /\ InkOK(at[t])
    BY <1>1, InsideFacts
  <1>3. x < Width /\ y = Height /\ live = InkIn(screen, Cells \ Row(Height - 1))
    BY <1>1, <1>2 DEF CursorOK, InkOK
  <1>4. y' \in Nat /\ y' = Height - 1
    BY <1>1, <1>2, <1>3
  <1>5. ScreenTypes'
    BY <1>1, <1>4 DEF ScreenInv, ScreenTypes
  <1>6. (CursorOK(at[t], Head(todo[t]), offset[t]) /\ InkOK(at[t]))'
    BY <1>1, <1>3, <1>4 DEF CursorOK, InkOK
  <1>. QED  BY <1>1, <1>5, <1>6, StepScreen DEF Places

\* It blanks the last row.
LEMMA BlankScreen ==
    ASSUME SerialPrinting, TodoInv, ScreenInv, NEW t \in Threads, Blank(t)
    PROVE  ScreenInv'
  <1>1. /\ Step(t, "blank", "out") /\ at[t] = "blank" /\ at'[t] = "out"
        /\ screen' = BlankLast(screen) /\ UNCHANGED <<x, y, offset, live>>
    BY DEF Blank, Step, TodoInv
  <1>2. /\ x \in Nat /\ y \in Nat /\ Height \in Nat \ {0, 1} /\ screen \in [Cells -> BOOLEAN]
        /\ CursorOK(at[t], Head(todo[t]), offset[t]) /\ InkOK(at[t])
    BY <1>1, InsideFacts DEF ScreenInv, ScreenTypes
  <1>3. x < Width /\ y = Height - 1 /\ live = InkIn(screen, Cells \ Row(Height - 1))
    BY <1>1, <1>2 DEF CursorOK, InkOK
  <1>4. screen' \in [Cells -> BOOLEAN] /\ live' = InkIn(screen', Cells)
    BY <1>1, <1>2, <1>3, InkBlanked
  <1>5. BlankFrom(screen', y * Width + x)
    <2> DEFINE h == (Height - 1) * Width
    <2>1. h \in Nat
      BY CellFacts
    <2>2. h + x \in Nat /\ h + x >= h
      <3> HIDE DEF h
      <3>. QED  BY <1>2, <2>1
    <2>3. BlankFrom(screen', h + x)
      BY <1>1, <1>2, <2>2, InkBlanked
    <2>. QED  BY <1>3, <2>3
  <1>6. ScreenTypes' /\ y < Height
    BY <1>1, <1>2, <1>3, <1>4 DEF ScreenInv, ScreenTypes
  <1>7. (CursorOK(at[t], Head(todo[t]), offset[t]) /\ InkOK(at[t]))'
    BY <1>1, <1>3, <1>4, <1>5, <1>6 DEF CursorOK, InkOK
  <1>. QED  BY <1>1, <1>6, <1>7, StepScreen DEF Places

\* AWD's console prints a character.
LEMMA AwdScreen ==
    ASSUME TodoInv, ScreenInv, console_print_char
    PROVE  ScreenInv'
  <1> DEFINE prints == Head(todo[Awd]) = "ch"
             n == y * Width + x
             s == [screen EXCEPT ![n] = screen[n] \/ prints]
             newline == ~prints \/ x + 1 >= Width
             a == IF prints THEN 1 ELSE 0
             z == Cardinality({c \in Row(0) : s[c]})
  <1>1. /\ ~lobo /\ lobo' = lobo /\ at' = at /\ offset' = offset
        /\ IF newline THEN console_newline(s) ELSE x' = x + 1 /\ screen' = s /\ UNCHANGED y
        /\ live' = live + (a - (IF newline /\ y + 1 >= Height THEN z ELSE 0))
    BY DEF console_print_char
  <1>2. Inside = {} /\ Inside' = {}
    BY <1>1 DEF ScreenInv, OneInside, Inside
  <1>3. /\ x \in Nat /\ y \in Nat /\ x < Width /\ y < Height /\ live \in Int
        /\ screen \in [Cells -> BOOLEAN] /\ BlankFrom(screen, n) /\ live = InkIn(screen, Cells)
    BY <1>2 DEF ScreenInv, ScreenTypes, CursorOK, InkOK
  <1>4. /\ Width \in Nat \ {0} /\ Height \in Nat \ {0, 1}
        /\ y * Width \in Nat /\ (y + 1) * Width = y * Width + Width
        /\ n \in Cells /\ n \in Nat
    BY <1>3, UnderCursor, CellFacts
  <1>5. ~screen[n]
    <2> HIDE DEF n
    <2>1. n >= n
      BY <1>4
    <2>. QED  BY <1>3, <1>4, <2>1 DEF BlankFrom
  <1>6. s \in [Cells -> BOOLEAN]
    <2> HIDE DEF n
    <2>. QED  BY <1>3, <1>4
  <1>7. InkIn(s, Cells) = live + a
    <2>1. CASE prints
      <3>1. \A c \in Cells : s[c] <=> screen[c] \/ c = n
        <4> HIDE DEF n
        <4>. QED  BY <1>3, <1>4, <2>1
      <3> HIDE DEF s, n
      <3>. QED  BY <1>3, <1>4, <1>5, <1>6, <2>1, <3>1, InkAdded
    <2>2. CASE ~prints
      <3>1. s = screen
        <4> HIDE DEF n
        <4>. QED  BY <1>3, <1>4, <2>2
      <3>2. a = 0
        BY <2>2
      <3> HIDE DEF s, n, a
      <3>3. live + 0 = live
        BY <1>3
      <3>. QED  BY <1>3, <3>1, <3>2, <3>3
    <2>. QED  BY <2>1, <2>2
  <1>8. BlankFrom(s, n + 1)
    <2> HIDE DEF n
    <2>1. \A c \in Cells : c # n => s[c] = screen[c]
      BY <1>3, <1>4
    <2>2. \A c \in Cells : c >= n + 1 => c >= n /\ c # n
      BY <1>4, CellFacts
    <2>. QED  BY <1>3, <2>1, <2>2 DEF BlankFrom
  <1>9. BlankFrom(s, (y + 1) * Width)
    <2>1. n + 1 <= (y + 1) * Width /\ (y + 1) * Width \in Nat /\ n + 1 \in Nat
      BY <1>3, <1>4
    <2> HIDE DEF n, s
    <2>. QED  BY <1>8, <2>1, BlankFurther
  <1>10. ASSUME x' \in Nat, y' \in Nat, screen' \in [Cells -> BOOLEAN], x' < Width, y' < Height,
                BlankFrom(screen', y' * Width + x'), live' = InkIn(screen', Cells)
         PROVE  ScreenInv'
    <2>1. live' \in Int
      <3>1. {c \in Cells : screen'[c]} \in SUBSET Cells
        OBVIOUS
      <3>. QED  BY <1>10, <3>1, CellsFinite, FS_CardinalityType DEF InkIn
    <2>2. OneInside' /\ ScreenTypes'
      BY <1>1, <1>10, <2>1 DEF ScreenInv, OneInside, ScreenTypes
    <2>. QED  BY <1>2, <1>10, <2>2 DEF ScreenInv, CursorOK, InkOK
  <1>11. CASE ~newline
    <2>1. x' = x + 1 /\ y' = y /\ screen' = s /\ live' = InkIn(screen', Cells)
      <3> HIDE DEF s
      <3>. QED  BY <1>1, <1>3, <1>7, <1>11
    <2>2. x' \in Nat /\ x' < Width
      BY <1>3, <1>4, <1>11, <2>1
    <2>3. BlankFrom(screen', y' * Width + x')
      <3>1. n + 1 = y * Width + (x + 1)
        BY <1>3, <1>4
      <3> HIDE DEF s, n
      <3>. QED  BY <1>8, <2>1, <3>1
    <2> HIDE DEF s
    <2>. QED  BY <1>3, <1>6, <1>10, <2>1, <2>2, <2>3
  <1>12. CASE newline /\ y + 1 < Height
    <2>1. x' = 0 /\ y' = y + 1 /\ screen' = s /\ live' = InkIn(screen', Cells)
      <3>1. ~(y + 1 >= Height)
        BY <1>3, <1>4, <1>12
      <3> HIDE DEF s
      <3>. QED  BY <1>1, <1>3, <1>7, <1>12, <3>1 DEF console_newline
    <2>2. BlankFrom(screen', y' * Width + x')
      <3>1. (y + 1) * Width + 0 = (y + 1) * Width
        BY <1>4
      <3> HIDE DEF s, n
      <3>. QED  BY <1>9, <2>1, <3>1
    <2>3. y' \in Nat /\ y' < Height /\ x' \in Nat /\ x' < Width
      BY <1>3, <1>4, <1>12, <2>1
    <2> HIDE DEF s
    <2>. QED  BY <1>6, <1>10, <2>1, <2>2, <2>3
  <1>13. CASE newline /\ y + 1 >= Height
    <2> DEFINE r == MovedUp(s)
    <2>1. /\ x' = 0 /\ y' = Height - 1 /\ screen' = BlankLast(r)
          /\ live' = InkIn(s, Cells) - InkIn(s, Row(0))
      <3>1. console_newline(s)
        <4> HIDE DEF s, newline
        <4>. QED  BY <1>1, <1>13
      <3>2. x' = 0 /\ y' = Height - 1 /\ screen' = BlankLast(r)
        <4> HIDE DEF s, newline
        <4>. QED  BY <1>13, <3>1 DEF console_newline
      <3>3. z = InkIn(s, Row(0)) /\ a \in Int /\ z \in Int
        <4>1. z = InkIn(s, Row(0))
          <5> HIDE DEF s
          <5>. QED  BY DEF InkIn
        <4>2. {c \in Row(0) : s[c]} \in SUBSET Cells
          BY CellFacts
        <4>3. z \in Nat
          <5> HIDE DEF s
          <5>. QED  BY <4>2, CellsFinite, FS_CardinalityType
        <4>4. a \in Int
          OBVIOUS
        <4> HIDE DEF z, a
        <4>. QED  BY <4>1, <4>3, <4>4
      <3> HIDE DEF s, newline, a, z
      <3>4. live' = live + (a - z)
        BY <1>1, <1>13
      <3>5. live + (a - z) = (live + a) - z
        BY <1>3, <3>3
      <3>. QED  BY <1>7, <3>2, <3>3, <3>4, <3>5
    <2> HIDE DEF s
    <2>2. /\ r \in [Cells -> BOOLEAN]
          /\ InkIn(r, Cells \ Row(Height - 1)) = InkIn(s, Cells) - InkIn(s, Row(0))
      BY <1>6, InkMoved
    <2> HIDE DEF r
    <2>3. /\ screen' \in [Cells -> BOOLEAN] /\ live' = InkIn(screen', Cells)
          /\ \A k \in Nat : k >= (Height - 1) * Width => BlankFrom(screen', k)
      BY <2>1, <2>2, InkBlanked
    <2>4. (Height - 1) * Width + 0 = (Height - 1) * Width /\ (Height - 1) * Width \in Nat
          /\ (Height - 1) * Width >= (Height - 1) * Width
      BY CellFacts
    <2>5. BlankFrom(screen', y' * Width + x')
      BY <2>1, <2>3, <2>4
    <2>6. y' \in Nat /\ y' < Height /\ x' \in Nat /\ x' < Width
      BY <1>4, <2>1
    <2>. QED  BY <1>10, <2>3, <2>5, <2>6
  <1>. QED  BY <1>3, <1>4, <1>11, <1>12, <1>13

\* AWD prints whole lines: with nothing left of one, its cursor is in column 0.
AwdInv ==
    ~lobo => IF todo[Awd] = <<>> THEN x = 0 ELSE todo[Awd][Len(todo[Awd])] = "nl"

\* Every line of AWD's ends with a newline, and a newline returns the cursor.
LEMMA AwdLines == TodoInv /\ AwdInv /\ [Next]_vars => AwdInv'
  <1> SUFFICES ASSUME TodoInv, AwdInv, [Next]_vars, ~lobo' PROVE AwdInv'
    BY DEF AwdInv
  <1>1. ~lobo
    BY DEF Next, vars, AwdLine, console_print_char, EnterLobo, Log, FormatSetLeftColumn,
           PrintChar, Enter, Store, Advance, Wrap, Left, Scroll, Up, Blank, Step, WriteChar,
           EnterDebugger, Backspace, Return, Process, Key, Echo
  <1>2. \A t \in Threads : ~Runs(t)
    BY <1>1 DEF Runs
  <1>3. AwdLine \/ console_print_char \/ EnterLobo \/ UNCHANGED vars
    BY <1>2, NamesAssumption
       DEF Next, Log, FormatSetLeftColumn, PrintChar, Enter, Store, Advance, Wrap, Left,
           Scroll, Up, Blank, Step, WriteChar, EnterDebugger, Backspace, Return, Process,
           Key, Echo, Idle, Ready
  <1>4. todo \in [Threads \union {Awd} -> Seq(Ops)]
    BY DEF TodoInv
  <1>5. CASE AwdLine
    <2>1. PICK m \in Messages : todo' = [todo EXCEPT ![Awd] = Append(m, "nl")]
      BY <1>5 DEF AwdLine
    <2>2. m \in Seq({"ch", "nl"})
      BY NamesAssumption
    <2>3. todo'[Awd] = Append(m, "nl")
      BY <1>4, <2>1
    <2>4. Len(Append(m, "nl")) = Len(m) + 1 /\ Append(m, "nl")[Len(m) + 1] = "nl"
      BY <2>2, AppendProperties
    <2>5. Append(m, "nl") # <<>>
      BY <2>2, AppendProperties
    <2>. QED  BY <2>3, <2>4, <2>5 DEF AwdInv
  <1>6. CASE console_print_char
    <2> DEFINE q == todo[Awd]
    <2>1. q \in Seq(Ops) /\ q # <<>> /\ todo'[Awd] = Tail(q) /\ q[Len(q)] = "nl"
      BY <1>1, <1>4, <1>6 DEF console_print_char, AwdInv
    <2>2. Head(q) # "ch" => x' = 0
      BY <1>6 DEF console_print_char, console_newline
    <2> HIDE DEF q
    <2>3. /\ Len(q) \in Nat \ {0} /\ Head(q) = q[1] /\ Tail(q) \in Seq(Ops)
          /\ Len(Tail(q)) = Len(q) - 1
          /\ \A i \in 1 .. Len(Tail(q)) : Tail(q)[i] = q[i + 1]
      BY <2>1, HeadTailProperties, LenProperties, EmptySeq
    <2>4. CASE Len(q) = 1
      <3>1. Head(q) # "ch" /\ Tail(q) = <<>>
        BY <2>1, <2>3, <2>4, EmptySeq
      <3>. QED  BY <2>1, <2>2, <3>1 DEF AwdInv
    <2>5. CASE Len(q) # 1
      <3>1. Len(Tail(q)) \in 1 .. Len(Tail(q)) /\ Len(Tail(q)) + 1 = Len(q)
        BY <2>3, <2>5
      <3>2. Tail(q)[Len(Tail(q))] = "nl"
        BY <2>1, <2>3, <3>1
      <3>3. Tail(q) # <<>>
        <4>1. Len(Tail(q)) # 0
          BY <2>3, <2>5
        <4>2. Len(<<>>) = 0
          OBVIOUS
        <4> HIDE DEF q
        <4>. QED  BY <4>1, <4>2, Zenon
      <3>. QED  BY <2>1, <3>2, <3>3 DEF AwdInv
    <2>. QED  BY <2>4, <2>5
  <1>7. CASE EnterLobo
    BY <1>7 DEF EnterLobo
  <1>8. CASE UNCHANGED vars
    BY <1>8 DEF vars, AwdInv
  <1>. QED  BY <1>3, <1>5, <1>6, <1>7, <1>8

\* Lobo takes the screen over: its cursor starts in AWD's row, which is blank.
LEMMA EnterLoboScreen ==
    ASSUME TodoInv, ScreenInv, AwdInv, EnterLobo
    PROVE  ScreenInv'
  <1>1. /\ ~lobo /\ x' = 0 /\ y' = y /\ todo[Awd] = <<>>
        /\ UNCHANGED <<screen, at, offset, live>>
    BY DEF EnterLobo, log_cursor_y
  <1>2. Inside = {} /\ Inside' = {}
    BY <1>1 DEF ScreenInv, OneInside, Inside
  <1>3. x = 0
    BY <1>1 DEF AwdInv
  <1>4. OneInside' /\ ScreenTypes'
    BY <1>1 DEF ScreenInv, OneInside, ScreenTypes
  <1>5. CursorOK("out", "nl", 0)' /\ InkOK("out")'
    BY <1>1, <1>2, <1>3 DEF ScreenInv, CursorOK, InkOK
  <1>. QED  BY <1>2, <1>4, <1>5 DEF ScreenInv

\* Nobody is inside PrintChar when a thread starts a call of the log, sets the
\* left column or looks at the line typed.
LEMMA NobodyInside ==
    ASSUME SerialPrinting, TodoInv, ScreenInv, NEW t \in Threads, Runs(t),
           todo[t] = <<>> \/ Head(todo[t]) \in {"in", "out", "process"}
    PROVE  Inside = {}
  <1>1. at[t] = "out"
    BY DEF TodoInv, PrintsChar
  <1>. QED  BY <1>1, Alone DEF ScreenInv

\* The screen is empty at first.
LEMMA InitScreen == Init => ScreenInv /\ AwdInv
  <1> SUFFICES ASSUME Init PROVE ScreenInv /\ AwdInv
    OBVIOUS
  <1>1. Inside = {} /\ OneInside
    BY DEF Init, Inside, OneInside
  <1>2. Width \in Nat \ {0} /\ Height \in Nat \ {0, 1}
    BY SizesAssumption
  <1>3. ScreenTypes /\ x < Width /\ y < Height
    BY <1>2 DEF Init, ScreenTypes
  <1>4. BlankFrom(screen, y * Width + x)
    BY DEF Init, BlankFrom
  <1>5. live = InkIn(screen, Cells)
    <2>1. {c \in Cells : screen[c]} = {}
      BY DEF Init
    <2>2. InkIn(screen, Cells) = 0
      BY <2>1, FS_EmptySet, Zenon DEF InkIn
    <2>. QED  BY <2>2 DEF Init
  <1>6. AwdInv
    BY DEF Init, AwdInv
  <1>. QED  BY <1>1, <1>3, <1>4, <1>5, <1>6 DEF ScreenInv, CursorOK, InkOK

\* Every step keeps the screen as the cursor says.
LEMMA NextScreen ==
    ASSUME SerialPrinting, TodoInv, ScreenInv, AwdInv, [Next]_vars
    PROVE  ScreenInv'
  <1>0. Keyboard \in Threads
    BY NamesAssumption
  <1>1. CASE AwdLine
    <2>1. ~lobo /\ lobo' = lobo /\ UNCHANGED <<screen, x, y, at, offset, live>>
      BY <1>1 DEF AwdLine
    <2>2. Inside = {}
      BY <2>1 DEF ScreenInv, OneInside, Inside
    <2>. QED  BY <2>1, <2>2, QuietScreen
  <1>2. CASE console_print_char
    BY <1>2, AwdScreen
  <1>3. CASE EnterLobo
    BY <1>3, EnterLoboScreen
  <1>4. ASSUME NEW t \in Threads, Log(t) \/ FormatSetLeftColumn(t) PROVE ScreenInv'
    <2>1. /\ Runs(t) /\ lobo' = lobo /\ UNCHANGED <<screen, x, y, at, offset, live>>
          /\ todo[t] = <<>> \/ Head(todo[t]) \in {"in", "out", "process"}
      BY <1>4 DEF Log, FormatSetLeftColumn, Idle, Ready
    <2>. QED  BY <2>1, NobodyInside, QuietScreen
  <1>5. ASSUME NEW t \in Threads, PrintChar(t) PROVE ScreenInv'
    BY <1>5, EnterScreen, StoreScreen, AdvanceScreen, WrapScreen, LeftScreen, ScrollScreen,
       UpScreen, BlankScreen DEF PrintChar
  <1>6. CASE WriteChar \/ EnterDebugger \/ Return \/ Process
    <2>1. /\ Runs(Keyboard) /\ lobo' = lobo /\ UNCHANGED <<screen, x, y, at, offset, live>>
          /\ todo[Keyboard] = <<>> \/ Head(todo[Keyboard]) \in {"in", "out", "process"}
      BY <1>6 DEF WriteChar, EnterDebugger, Return, Process, Idle, Ready
    <2>. QED  BY <1>0, <2>1, NobodyInside, QuietScreen
  <1>7. ASSUME NEW c, Echo(c) PROVE ScreenInv'
    <2>1. /\ Runs(Keyboard) /\ lobo' = lobo /\ UNCHANGED <<screen, x, y, at, offset, live>>
          /\ todo[Keyboard] = <<>>
      BY <1>7 DEF Echo, Ready
    <2>. QED  BY <1>0, <2>1, NobodyInside, QuietScreen
  <1>8. CASE Backspace \/ \E k \in Letters : Key(k)
    BY <1>7, <1>8 DEF Backspace, Key
  <1>9. CASE UNCHANGED vars
    <2>1. UNCHANGED <<lobo, screen, x, y, at, offset, live, todo>>
      BY <1>9 DEF vars
    <2>2. Inside' = Inside /\ OneInside' /\ ScreenTypes'
      BY <2>1 DEF Inside, ScreenInv, OneInside, ScreenTypes
    <2>. QED  BY <2>1, <2>2 DEF ScreenInv, CursorOK, InkOK
  <1>. QED  BY <1>1, <1>2, <1>3, <1>4, <1>5, <1>6, <1>8, <1>9 DEF Next

\* The invariant of the screen holds throughout.
LEMMA ScreenInvariance == ASSUME SerialPrinting PROVE Spec => [](ScreenInv /\ AwdInv)
  <1>1. ScreenInv /\ AwdInv /\ TodoInv /\ [Next]_vars => (ScreenInv /\ AwdInv)'
    BY NextScreen, AwdLines
  <1>. QED  BY <1>1, InitScreen, TodoInvariance, PTL DEF Spec

\* When calls of PrintChar do not overlap, the cursor is at the end of what is
\* printed, from AWD's first line through the hand-over of log_cursor_y on: for
\* every size of the screen, left column and message nothing is printed over.
THEOREM NothingOverprinted == ASSUME SerialPrinting PROVE Spec => []CursorAtEnd
  <1>1. ScreenInv => CursorAtEnd
    BY DEF ScreenInv, CursorOK, BlankFrom, CursorAtEnd
  <1>. QED  BY <1>1, ScreenInvariance, PTL

\* When calls of PrintChar do not overlap, everything printed is on the screen
\* or was erased or scrolled off its top: neither console's scrolling drops a
\* row or leaves one twice.
THEOREM AllInkKept == ASSUME SerialPrinting PROVE Spec => []NothingLost
  <1>1. ScreenInv => NothingLost
    BY DEF ScreenInv, InkOK, NothingLost, Ink, InkIn
  <1>. QED  BY <1>1, ScreenInvariance, PTL

-----------------------------------------------------------------------------
(* The line editor and the types *)

\* What the line editor stores.
Texts == Letters \union {"nul"}

\* The debugger's buffer and index stay within input_buffer.
EditorInv ==
    /\ lobo \in BOOLEAN /\ open \in BOOLEAN
    /\ input_buffer \in [0 .. (LineMax - 1) -> Texts]
    /\ input_index \in 0 .. (LineMax - 1)
    /\ typed \in Seq(Letters \union {"bs"}) /\ calls \in 0 .. MaxCalls

\* The buffer a prompt starts with.
LEMMA EmptyLineType == EmptyLine \in [0 .. (LineMax - 1) -> Texts] /\ 0 \in 0 .. (LineMax - 1)
  BY SizesAssumption DEF EmptyLine, Texts

\* A key is stored inside the buffer, before its last byte.
LEMMA EditorStep ==
    ASSUME EditorInv, [Next]_vars
    PROVE  EditorInv'
  <1>0. LineMax \in Nat \ {0, 1} /\ MaxCalls \in Nat
    BY SizesAssumption
  <1>1. CASE UNCHANGED <<editor, open, calls>> /\ lobo' \in BOOLEAN
    BY <1>1 DEF EditorInv, editor
  <1>2. CASE AwdLine \/ WriteChar \/ Return \/ \E t \in Threads : Log(t)
    <2>1. UNCHANGED <<editor, open, lobo>> /\ calls < MaxCalls /\ calls' = calls + 1
      BY <1>2 DEF AwdLine, WriteChar, Return, Log, Idle
    <2>2. calls' \in 0 .. MaxCalls
      BY <1>0, <2>1 DEF EditorInv
    <2>. QED  BY <2>1, <2>2 DEF EditorInv, editor
  <1>3. CASE EnterDebugger
    <2>1. Prompt /\ open' = TRUE /\ lobo' = lobo /\ calls < MaxCalls /\ calls' = calls + 1
      BY <1>3 DEF EnterDebugger, Idle
    <2>2. calls' \in 0 .. MaxCalls
      BY <1>0, <2>1 DEF EditorInv
    <2>. QED  BY <2>1, <2>2, EmptyLineType DEF EditorInv, Prompt
  <1>4. CASE Process
    <2>1. lobo' = lobo /\ calls' = calls /\ open' \in BOOLEAN
      BY <1>4 DEF Process, EditorInv
    <2>2. CASE UNCHANGED editor
      BY <2>1, <2>2 DEF EditorInv, editor
    <2>3. CASE Prompt
      BY <2>1, <2>3, EmptyLineType DEF EditorInv, Prompt
    <2>. QED  BY <1>4, <2>2, <2>3 DEF Process
  <1>5. ASSUME NEW k \in Letters, Key(k) PROVE EditorInv'
    <2> DEFINE n == IF input_index > LineMax - 2 THEN LineMax - 2 ELSE input_index
    <2>1. /\ UNCHANGED <<lobo, open, calls>> /\ typed' = Append(typed, k)
          /\ input_buffer' = [input_buffer EXCEPT ![n] = k] /\ input_index' = n + 1
      BY <1>5 DEF Key, Echo
    <2>2. n \in 0 .. (LineMax - 1) /\ n + 1 \in 0 .. (LineMax - 1)
      BY <1>0 DEF EditorInv
    <2> HIDE DEF n
    <2>3. input_buffer' \in [0 .. (LineMax - 1) -> Texts]
      BY <2>1, <2>2 DEF EditorInv, Texts
    <2>4. typed' \in Seq(Letters \union {"bs"})
      BY <2>1, AppendProperties DEF EditorInv
    <2>. QED  BY <2>1, <2>2, <2>3, <2>4 DEF EditorInv
  <1>6. CASE Backspace
    <2>1. /\ UNCHANGED <<lobo, open, calls>> /\ typed' = Append(typed, "bs")
          /\ input_buffer' = [input_buffer EXCEPT ![input_index] = "nul"]
          /\ input_index' = IF input_index = 0 THEN 0 ELSE input_index - 1
      BY <1>6 DEF Backspace, Echo
    <2>2. input_index' \in 0 .. (LineMax - 1)
      BY <1>0, <2>1 DEF EditorInv
    <2>3. input_buffer' \in [0 .. (LineMax - 1) -> Texts]
      BY <2>1 DEF EditorInv, Texts
    <2>4. typed' \in Seq(Letters \union {"bs"})
      BY <2>1, AppendProperties DEF EditorInv
    <2>. QED  BY <2>1, <2>2, <2>3, <2>4 DEF EditorInv
  <1>7. CASE UNCHANGED vars
    BY <1>1, <1>7 DEF vars, editor, EditorInv
  <1>8. CASE console_print_char \/ EnterLobo
    BY <1>1, <1>8 DEF console_print_char, EnterLobo, EditorInv
  <1>9. ASSUME NEW t \in Threads, FormatSetLeftColumn(t) \/ PrintChar(t) PROVE EditorInv'
    <2>1. UNCHANGED <<editor, open, calls, lobo>>
      BY <1>9 DEF FormatSetLeftColumn, PrintChar, Enter, Store, Advance, Wrap, Left, Scroll,
                  Up, Blank, Step
    <2>. QED  BY <1>1, <2>1 DEF EditorInv
  <1>. QED  BY <1>2, <1>3, <1>4, <1>5, <1>6, <1>7, <1>8, <1>9 DEF Next

\* The editor's index and buffer hold what they should for any overlap.
LEMMA EditorInvariance == Spec => []EditorInv
  <1>1. Init => EditorInv
    <2> SUFFICES ASSUME Init PROVE EditorInv
      OBVIOUS
    <2>1. input_buffer \in [0 .. (LineMax - 1) -> Texts] /\ input_index \in 0 .. (LineMax - 1)
      BY EmptyLineType DEF Init
    <2>2. typed \in Seq(Letters \union {"bs"}) /\ calls \in 0 .. MaxCalls
      BY SizesAssumption DEF Init
    <2>. QED  BY <2>1, <2>2 DEF Init, EditorInv
  <1>2. EditorInv /\ [Next]_vars => EditorInv'
    BY EditorStep
  <1>. QED  BY <1>1, <1>2, PTL DEF Spec

\* Every variable of the consoles keeps its type when calls of PrintChar do not
\* overlap: in particular the debugger's index never leaves input_buffer and the
\* cursor's coordinates never go below 0, where a store would miss the screen.
THEOREM TypeCorrect == ASSUME SerialPrinting PROVE Spec => []TypeOK
  <1>1. TodoInv /\ ScreenInv /\ EditorInv => TypeOK
    BY DEF TodoInv, Places, ScreenInv, ScreenTypes, EditorInv, Texts, TypeOK
  <1>. QED  BY <1>1, TodoInvariance, ScreenInvariance, EditorInvariance, PTL

-----------------------------------------------------------------------------
(* The command that the debugger runs *)

\* A set of numbers that is not empty has a least element.
LEMMA LeastExists ==
    ASSUME NEW S \in SUBSET Nat, S # {}
    PROVE  \E m \in S : \A n \in S : m <= n
  <1> DEFINE R == OpToRel(<, Nat)
  <1>1. PICK m \in S : \A n \in S : ~ (<<n, m>> \in R)
    <2> HIDE DEF R
    <2>1. IsWellFoundedOn(R, Nat)
      BY NatLessThanWellFounded DEF R
    <2>2. S \subseteq Nat
      OBVIOUS
    <2>. QED  BY <2>1, <2>2, WFMin
  <1>2. \A n \in S : <<n, m>> \in R <=> n < m
    BY DEF OpToRel
  <1> HIDE DEF R
  <1>3. \A n \in S : ~(n < m) /\ n \in Nat /\ m \in Nat
    BY <1>1, <1>2
  <1>. QED  BY <1>3

\* e is the sequence of lines that the first N of the keys leave.
Lines(e, keys, N) == e = [n \in 0 .. N |-> IF n = 0 THEN <<>> ELSE EditedBy(e[n - 1], keys[n])]

\* There is one, by a least number of keys that has none.
LEMMA LinesExist ==
    ASSUME NEW keys, NEW N \in Nat
    PROVE  \E e : Lines(e, keys, N)
  <1> DEFINE S == {n \in Nat : ~ \E e : Lines(e, keys, n)}
  <1> SUFFICES ASSUME S # {} PROVE FALSE
    OBVIOUS
  <1>1. PICK m \in S : \A n \in S : m <= n
    <2>1. S \in SUBSET Nat
      OBVIOUS
    <2> HIDE DEF S
    <2>. QED  BY <2>1, LeastExists
  <1>2. m \in Nat /\ ~ \E e : Lines(e, keys, m)
    BY <1>1
  <1>3. CASE m = 0
    <2> DEFINE e == [n \in {0} |-> <<>>]
    <2>1. 0 .. m = {0} /\ e = [n \in {0} |-> IF n = 0 THEN <<>> ELSE EditedBy(e[n - 1], keys[n])]
      BY <1>3
    <2>2. Lines(e, keys, m)
      BY <2>1 DEF Lines
    <2>. QED  BY <1>2, <2>2
  <1>4. CASE m # 0
    <2>1. m - 1 \in Nat /\ m - 1 \notin S
      BY <1>1, <1>2, <1>4
    <2>2. PICK e : Lines(e, keys, m - 1)
      BY <2>1
    <2>3. /\ DOMAIN e = 0 .. (m - 1)
          /\ \A n \in 0 .. (m - 1) : e[n] = IF n = 0 THEN <<>> ELSE EditedBy(e[n - 1], keys[n])
      BY <2>2 DEF Lines
    <2>9. PICK f : f = [n \in 0 .. m |-> IF n = m THEN EditedBy(e[m - 1], keys[m]) ELSE e[n]]
      OBVIOUS
    <2>4. /\ DOMAIN f = 0 .. m /\ f[m] = EditedBy(e[m - 1], keys[m])
          /\ \A n \in 0 .. (m - 1) : f[n] = e[n]
      BY <1>2, <2>9
    <2>5. ASSUME NEW n \in 0 .. m
          PROVE  f[n] = IF n = 0 THEN <<>> ELSE EditedBy(f[n - 1], keys[n])
      <3>1. CASE n = m
        <4>1. f[m - 1] = e[m - 1] /\ n # 0
          BY <1>2, <1>4, <2>4, <3>1
        <4>. QED  BY <2>4, <3>1, <4>1
      <3>2. CASE n # m /\ n # 0
        <4>1. n \in 0 .. (m - 1) /\ n - 1 \in 0 .. (m - 1)
          BY <1>2, <3>2
        <4>. QED  BY <2>3, <2>4, <3>2, <4>1
      <3>3. CASE n # m /\ n = 0
        <4>1. n \in 0 .. (m - 1)
          BY <1>2, <3>3
        <4>. QED  BY <2>3, <2>4, <3>3, <4>1
      <3>. QED  BY <3>1, <3>2, <3>3
    <2>6. f = [n \in 0 .. m |-> f[n]]
      BY <2>9
    <2>7. f = [n \in 0 .. m |-> IF n = 0 THEN <<>> ELSE EditedBy(f[n - 1], keys[n])]
      BY <2>5, <2>6
    <2>. QED  BY <1>2, <2>7 DEF Lines
  <1>. QED  BY <1>3, <1>4

\* Keys that agree leave the same lines, by a least one that differs.
LEMMA LinesAgree ==
    ASSUME NEW keys, NEW more, NEW M \in Nat, NEW N \in Nat, N <= M,
           \A n \in 1 .. N : keys[n] = more[n],
           NEW e, Lines(e, keys, N), NEW f, Lines(f, more, M)
    PROVE  e[N] = f[N]
  <1> DEFINE S == {n \in 0 .. N : e[n] # f[n]}
  <1> SUFFICES ASSUME S # {} PROVE FALSE
    <2>1. N \in 0 .. N
      OBVIOUS
    <2>. QED  BY <2>1
  <1>1. PICK m \in S : \A n \in S : m <= n
    <2>1. S \in SUBSET Nat
      OBVIOUS
    <2> HIDE DEF S
    <2>. QED  BY <2>1, LeastExists
  <1>2. m \in 0 .. N /\ e[m] # f[m] /\ m \in 0 .. M
    BY <1>1
  <1>3. /\ e[m] = IF m = 0 THEN <<>> ELSE EditedBy(e[m - 1], keys[m])
        /\ f[m] = IF m = 0 THEN <<>> ELSE EditedBy(f[m - 1], more[m])
    BY <1>2 DEF Lines
  <1>4. CASE m = 0
    BY <1>2, <1>3, <1>4
  <1>5. CASE m # 0
    <2>1. m \in 1 .. N /\ m - 1 \in 0 .. N /\ ~(m <= m - 1)
      BY <1>2, <1>5
    <2>2. e[m - 1] = f[m - 1]
      BY <1>1, <2>1
    <2>. QED  BY <1>2, <1>3, <1>5, <2>1, <2>2
  <1>. QED  BY <1>4, <1>5

\* The line that keys leave is the last of theirs.
LEMMA EditedIs ==
    ASSUME NEW keys, Len(keys) \in Nat
    PROVE  \E e : Lines(e, keys, Len(keys)) /\ Edited(keys) = e[Len(keys)]
  <1>1. \E e : e = [n \in 0 .. Len(keys) |-> IF n = 0 THEN <<>> ELSE EditedBy(e[n - 1], keys[n])]
    BY LinesExist DEF Lines
  <1> DEFINE e == CHOOSE f : f = [n \in 0 .. Len(keys) |-> IF n = 0 THEN <<>> ELSE EditedBy(f[n - 1], keys[n])]
  <1>2. Edited(keys) = e[Len(keys)]
    BY DEF Edited
  <1>3. e = [n \in 0 .. Len(keys) |-> IF n = 0 THEN <<>> ELSE EditedBy(e[n - 1], keys[n])]
    BY <1>1
  <1> HIDE DEF e
  <1>. QED  BY <1>2, <1>3 DEF Lines

\* One key more edits the line once more.
LEMMA EditedAppend ==
    ASSUME NEW K, NEW keys \in Seq(K), NEW k \in K
    PROVE  Edited(Append(keys, k)) = EditedBy(Edited(keys), k)
  <1> DEFINE more == Append(keys, k)
             N == Len(keys)
  <1>1. N \in Nat /\ Len(more) = N + 1 /\ more[N + 1] = k /\ \A n \in 1 .. N : keys[n] = more[n]
    BY AppendProperties
  <1>2. PICK e : Lines(e, keys, N) /\ Edited(keys) = e[N]
    BY <1>1, EditedIs
  <1>3. PICK f : Lines(f, more, N + 1) /\ Edited(more) = f[N + 1]
    <2>1. Len(more) \in Nat
      BY <1>1
    <2>. QED  BY <1>1, <2>1, EditedIs
  <1> HIDE DEF more, N
  <1>4. e[N] = f[N]
    BY <1>1, <1>2, <1>3, LinesAgree
  <1>5. f[N + 1] = EditedBy(f[N], k)
    <2>1. N + 1 \in 0 .. (N + 1) /\ N + 1 # 0 /\ (N + 1) - 1 = N
      BY <1>1
    <2>. QED  BY <1>1, <1>3, <2>1 DEF Lines
  <1>. QED  BY <1>2, <1>3, <1>4, <1>5 DEF more

\* No key leaves the empty line.
LEMMA EditedEmpty == Edited(<<>>) = <<>>
  <1>1. Len(<<>>) = 0
    OBVIOUS
  <1>2. PICK e : Lines(e, <<>>, 0) /\ Edited(<<>>) = e[0]
    BY <1>1, EditedIs
  <1>. QED  BY <1>2 DEF Lines

\* The buffer holds the line before its index and nothing behind it; at the index there
\* is nothing, or the character that a backspace, the last key, has erased.
Holds(line, buf, ix, erased) ==
    /\ line \in Seq(Letters) /\ Len(line) = ix
    /\ \A n \in 0 .. (ix - 1) : buf[n] = line[n + 1]
    /\ \A n \in (ix + 1) .. (LineMax - 1) : buf[n] = "nul"
    /\ buf[ix] = "nul" \/ (erased /\ ix < LineMax - 1)

\* The editor's variables and the keys typed since the prompt.
LineInv ==
    Holds(Edited(typed), input_buffer, input_index, typed # <<>> /\ typed[Len(typed)] = "bs")

\* A prompt starts with the empty line.
LEMMA PromptHolds ==
    ASSUME input_buffer = EmptyLine, input_index = 0, typed = <<>>
    PROVE  LineInv
  <1>1. LineMax \in Nat \ {0, 1}
    BY SizesAssumption
  <1>2. \A n \in 0 .. (LineMax - 1) : input_buffer[n] = "nul"
    BY DEF EmptyLine
  <1>3. Edited(typed) = <<>> /\ <<>> \in Seq(Letters) /\ Len(<<>>) = 0
    BY EditedEmpty
  <1>4. 0 .. (0 - 1) = {} /\ 0 \in 0 .. (LineMax - 1) /\ (0 + 1) .. (LineMax - 1) \subseteq 0 .. (LineMax - 1)
    BY <1>1
  <1>. QED  BY <1>2, <1>3, <1>4 DEF LineInv, Holds

\* A key that types a character.
LEMMA KeyHolds ==
    ASSUME NEW line, NEW buf \in [0 .. (LineMax - 1) -> Texts], NEW ix \in 0 .. (LineMax - 1),
           NEW erased \in BOOLEAN, Holds(line, buf, ix, erased), NEW k \in Letters
    PROVE  LET n == IF ix > LineMax - 2 THEN LineMax - 2 ELSE ix
           IN  Holds(EditedBy(line, k), [buf EXCEPT ![n] = k], n + 1, FALSE)
  <1> DEFINE n == IF ix > LineMax - 2 THEN LineMax - 2 ELSE ix
             kept == IF Len(line) = LineMax - 1 THEN SubSeq(line, 1, LineMax - 2) ELSE line
             next == [buf EXCEPT ![n] = k]
  <1>1. LineMax \in Nat \ {0, 1} /\ ix \in Nat /\ ix <= LineMax - 1
    BY SizesAssumption
  <1>2. n \in Nat /\ n <= LineMax - 2 /\ n <= ix /\ n \in 0 .. (LineMax - 1)
        /\ (ix = LineMax - 1 => n = LineMax - 2) /\ (ix # LineMax - 1 => n = ix)
    BY <1>1
  <1>3. line \in Seq(Letters) /\ Len(line) = ix
    BY DEF Holds
  <1>4. kept \in Seq(Letters) /\ Len(kept) = n /\ \A m \in 1 .. n : kept[m] = line[m]
    <2>1. CASE ix = LineMax - 1
      <3>1. kept = SubSeq(line, 1, n) /\ n <= Len(line) /\ n = LineMax - 2
        BY <1>2, <1>3, <2>1
      <3> HIDE DEF n
      <3>2. SubSeq(line, 1, n) \in Seq(Letters) /\ Len(SubSeq(line, 1, n)) = n
            /\ \A m \in 1 .. n : SubSeq(line, 1, n)[m] = line[m]
        <4>1. n \in Nat
          BY <1>2
        <4>2. \A m \in 1 .. n : m \in 1 .. Len(line)
          BY <1>1, <1>2, <1>3
        <4>. QED  BY <1>3, <3>1, <4>1, <4>2
      <3>. QED  BY <3>1, <3>2
    <2>2. CASE ix # LineMax - 1
      BY <1>2, <1>3, <2>2
    <2>. QED  BY <2>1, <2>2
  <1>5. EditedBy(line, k) = Append(kept, k)
    BY NamesAssumption DEF EditedBy
  <1> HIDE DEF n, kept
  <1>6. /\ Append(kept, k) \in Seq(Letters) /\ Len(Append(kept, k)) = n + 1
        /\ Append(kept, k)[n + 1] = k /\ \A m \in 1 .. n : Append(kept, k)[m] = line[m]
    BY <1>4, AppendProperties
  <1>7. next[n] = k /\ \A m \in 0 .. (LineMax - 1) : m # n => next[m] = buf[m]
    BY <1>2
  <1> HIDE DEF next
  <1>8. ASSUME NEW m \in 0 .. ((n + 1) - 1) PROVE next[m] = Append(kept, k)[m + 1]
    <2>1. CASE m = n
      BY <1>6, <1>7, <2>1
    <2>2. CASE m # n
      <3>1. m \in 0 .. (ix - 1) /\ m + 1 \in 1 .. n /\ m \in 0 .. (LineMax - 1)
        BY <1>1, <1>2, <2>2
      <3>2. next[m] = buf[m] /\ Append(kept, k)[m + 1] = line[m + 1]
        BY <1>6, <1>7, <2>2, <3>1
      <3>3. buf[m] = line[m + 1]
        BY <3>1 DEF Holds
      <3>. QED  BY <3>2, <3>3
    <2>. QED  BY <2>1, <2>2
  <1>9. ASSUME NEW m \in (n + 1) .. (LineMax - 1) PROVE next[m] = "nul"
    <2>1. m \in 0 .. (LineMax - 1) /\ m # n /\ m \in Nat /\ (m = ix \/ m \in (ix + 1) .. (LineMax - 1))
      BY <1>1, <1>2
    <2>2. m = ix => ix = LineMax - 1
      BY <1>1, <1>2, <2>1
    <2>3. buf[m] = "nul"
      <3>1. CASE m = ix
        BY <1>1, <2>2, <3>1 DEF Holds
      <3>2. CASE m # ix
        BY <2>1, <3>2 DEF Holds
      <3>. QED  BY <3>1, <3>2
    <2>. QED  BY <1>7, <2>1, <2>3
  <1>10. n + 1 \in (n + 1) .. (LineMax - 1) /\ \A m \in ((n + 1) + 1) .. (LineMax - 1) : m \in (n + 1) .. (LineMax - 1)
    BY <1>1, <1>2
  <1>11. Holds(Append(kept, k), next, n + 1, FALSE)
    BY <1>6, <1>8, <1>9, <1>10 DEF Holds
  <1>. QED  BY <1>5, <1>11 DEF n, next

\* A backspace.
LEMMA BackspaceHolds ==
    ASSUME NEW line, NEW buf \in [0 .. (LineMax - 1) -> Texts], NEW ix \in 0 .. (LineMax - 1),
           NEW erased \in BOOLEAN, Holds(line, buf, ix, erased)
    PROVE  Holds(EditedBy(line, "bs"), [buf EXCEPT ![ix] = "nul"],
                 IF ix = 0 THEN 0 ELSE ix - 1, TRUE)
  <1> DEFINE next == [buf EXCEPT ![ix] = "nul"]
  <1>1. LineMax \in Nat \ {0, 1} /\ ix \in Nat /\ ix <= LineMax - 1
    BY SizesAssumption
  <1>2. line \in Seq(Letters) /\ Len(line) = ix
    BY DEF Holds
  <1>3. next[ix] = "nul" /\ \A m \in 0 .. (LineMax - 1) : m # ix => next[m] = buf[m]
    OBVIOUS
  <1>4. \A m \in ix .. (LineMax - 1) : next[m] = "nul"
    <2> TAKE m \in ix .. (LineMax - 1)
    <2>1. m \in 0 .. (LineMax - 1) /\ (m = ix \/ m \in (ix + 1) .. (LineMax - 1))
      BY <1>1
    <2>. QED  BY <1>3, <2>1 DEF Holds
  <1> HIDE DEF next
  <1>5. CASE ix = 0
    <2>1. line = <<>>
      BY <1>2, <1>5, EmptySeq
    <2>2. EditedBy(line, "bs") = <<>> /\ Len(<<>>) = 0 /\ <<>> \in Seq(Letters)
      BY <2>1 DEF EditedBy
    <2>3. 0 .. (0 - 1) = {} /\ \A m \in (0 + 1) .. (LineMax - 1) : m \in ix .. (LineMax - 1)
      BY <1>1, <1>5
    <2>4. Holds(<<>>, next, 0, TRUE)
      BY <1>3, <1>4, <1>5, <2>2, <2>3 DEF Holds
    <2>5. EditedBy(line, "bs") = <<>> /\ (IF ix = 0 THEN 0 ELSE ix - 1) = 0
      BY <1>5, <2>2
    <2>6. Holds(EditedBy(line, "bs"), next, IF ix = 0 THEN 0 ELSE ix - 1, TRUE)
      BY <2>4, <2>5
    <2>. QED  BY <2>6 DEF next
  <1>6. CASE ix # 0
    <2> DEFINE n == ix - 1
    <2>1. n \in Nat /\ n < ix /\ n + 1 = ix /\ n < LineMax - 1 /\ n <= Len(line)
      BY <1>1, <1>2, <1>6
    <2>2. line # <<>>
      BY <1>2, <1>6
    <2>3. EditedBy(line, "bs") = SubSeq(line, 1, n)
      BY <1>2, <2>2 DEF EditedBy
    <2> HIDE DEF n
    <2>4. SubSeq(line, 1, n) \in Seq(Letters) /\ Len(SubSeq(line, 1, n)) = n
          /\ \A m \in 1 .. n : SubSeq(line, 1, n)[m] = line[m]
      <3>1. \A m \in 1 .. n : m \in 1 .. Len(line)
        BY <1>1, <1>2, <2>1
      <3>. QED  BY <1>2, <2>1, <3>1
    <2>5. ASSUME NEW m \in 0 .. (n - 1) PROVE next[m] = SubSeq(line, 1, n)[m + 1]
      <3>1. m \in 0 .. (ix - 1) /\ m + 1 \in 1 .. n /\ m \in 0 .. (LineMax - 1) /\ m # ix
        BY <1>1, <2>1
      <3>2. buf[m] = line[m + 1]
        BY <3>1 DEF Holds
      <3>. QED  BY <1>3, <2>4, <3>1, <3>2
    <2>6. Holds(SubSeq(line, 1, n), next, n, TRUE)
      BY <1>4, <2>1, <2>4, <2>5 DEF Holds
    <2>. QED  BY <1>6, <2>3, <2>6 DEF n, next
  <1>. QED  BY <1>5, <1>6

\* Every step of the editor keeps the buffer and the line together.
LEMMA LineStep ==
    ASSUME EditorInv, LineInv, [Next]_vars
    PROVE  LineInv'
  <1>1. CASE UNCHANGED editor
    BY <1>1 DEF LineInv, editor
  <1>2. CASE Prompt
    <2>1. (input_buffer = EmptyLine /\ input_index = 0 /\ typed = <<>>)'
      BY <1>2 DEF Prompt, EmptyLine
    <2>2. (input_buffer = EmptyLine)' /\ (input_index = 0)' /\ (typed = <<>>)' => LineInv'
      BY PromptHolds, PTL
    <2>. QED  BY <2>1, <2>2
  <1> DEFINE K == Letters \union {"bs"}
             line == Edited(typed)
             erased == typed # <<>> /\ typed[Len(typed)] = "bs"
  <1>3. /\ typed \in Seq(K) /\ Holds(line, input_buffer, input_index, erased) /\ erased \in BOOLEAN
        /\ input_buffer \in [0 .. (LineMax - 1) -> Texts] /\ input_index \in 0 .. (LineMax - 1)
    BY DEF EditorInv, LineInv
  <1>4. \A k \in K : /\ Append(typed, k) # <<>> /\ Append(typed, k)[Len(Append(typed, k))] = k
                     /\ Edited(Append(typed, k)) = EditedBy(line, k)
    <2> TAKE k \in K
    <2> HIDE DEF K
    <2>1. Edited(Append(typed, k)) = EditedBy(line, k)
      BY <1>3, EditedAppend
    <2>2. Len(Append(typed, k)) = Len(typed) + 1 /\ Append(typed, k)[Len(typed) + 1] = k
          /\ Len(typed) \in Nat
      BY <1>3, AppendProperties
    <2>3. Append(typed, k) # <<>>
      <3>1. Len(Append(typed, k)) # 0 /\ Len(<<>>) = 0
        BY <2>2
      <3>. QED  BY <3>1
    <2>. QED  BY <2>1, <2>2, <2>3
  <1> HIDE DEF K, line, erased
  <1>5. ASSUME NEW k \in Letters, Key(k) PROVE LineInv'
    <2> DEFINE n == IF input_index > LineMax - 2 THEN LineMax - 2 ELSE input_index
    <2>1. /\ typed' = Append(typed, k)
          /\ input_buffer' = [input_buffer EXCEPT ![n] = k] /\ input_index' = n + 1
      BY <1>5 DEF Key
    <2>2. Holds(EditedBy(line, k), [input_buffer EXCEPT ![n] = k], n + 1, FALSE)
      BY <1>3, KeyHolds
    <2>3. k \in K /\ k # "bs"
      BY NamesAssumption DEF K
    <2>4. (typed' # <<>> /\ typed'[Len(typed')] = "bs") = FALSE /\ Edited(typed') = EditedBy(line, k)
      BY <1>4, <2>1, <2>3
    <2> HIDE DEF n
    <2>. QED  BY <2>1, <2>2, <2>4 DEF LineInv
  <1>6. CASE Backspace
    <2>1. /\ typed' = Append(typed, "bs")
          /\ input_buffer' = [input_buffer EXCEPT ![input_index] = "nul"]
          /\ input_index' = IF input_index = 0 THEN 0 ELSE input_index - 1
      BY <1>6 DEF Backspace
    <2>2. Holds(EditedBy(line, "bs"), input_buffer', input_index', TRUE)
      BY <1>3, <2>1, BackspaceHolds
    <2>3. (typed' # <<>> /\ typed'[Len(typed')] = "bs") = TRUE /\ Edited(typed') = EditedBy(line, "bs")
      BY <1>4, <2>1 DEF K
    <2>. QED  BY <2>2, <2>3 DEF LineInv
  <1>7. CASE EnterDebugger \/ Process
    BY <1>1, <1>2, <1>7 DEF EnterDebugger, Process
  <1>8. CASE AwdLine \/ WriteChar \/ Return \/ console_print_char \/ EnterLobo \/ UNCHANGED vars
    BY <1>1, <1>8 DEF AwdLine, WriteChar, Return, console_print_char, EnterLobo, vars, editor
  <1>9. ASSUME NEW t \in Threads, Log(t) \/ FormatSetLeftColumn(t) \/ PrintChar(t) PROVE LineInv'
    <2>1. UNCHANGED editor
      BY <1>9 DEF Log, FormatSetLeftColumn, PrintChar, Enter, Store, Advance, Wrap, Left, Scroll,
                  Up, Blank, Step
    <2>. QED  BY <1>1, <2>1
  <1>. QED  BY <1>5, <1>6, <1>7, <1>8, <1>9 DEF Next

\* strcmp reads the line, or the line and the character last erased.
LEMMA CommandRead ==
    ASSUME EditorInv, LineInv
    PROVE  CommandIsEdited
  <1> DEFINE line == Edited(typed)
             ix == input_index
             ends == {n \in DOMAIN input_buffer : input_buffer[n] = "nul"}
             len == CHOOSE n \in ends : \A k \in ends : n <= k
  <1>1. /\ LineMax \in Nat \ {0, 1} /\ ix \in Nat /\ ix <= LineMax - 1
        /\ DOMAIN input_buffer = 0 .. (LineMax - 1)
        /\ \A n \in 0 .. (LineMax - 1) : input_buffer[n] \in Texts
    BY SizesAssumption DEF EditorInv
  <1>2. /\ line \in Seq(Letters) /\ Len(line) = ix
        /\ \A n \in 0 .. (ix - 1) : input_buffer[n] = line[n + 1]
        /\ \A n \in (ix + 1) .. (LineMax - 1) : input_buffer[n] = "nul"
        /\ input_buffer[ix] = "nul"
           \/ (typed # <<>> /\ typed[Len(typed)] = "bs" /\ ix < LineMax - 1)
    BY DEF LineInv, Holds
  <1>3. input_buffer[LineMax - 1] = "nul"
    <2>1. CASE ix = LineMax - 1
      BY <1>1, <1>2, <2>1
    <2>2. CASE ix # LineMax - 1
      <3>1. LineMax - 1 \in (ix + 1) .. (LineMax - 1)
        BY <1>1, <2>2
      <3>. QED  BY <1>2, <3>1
    <2>. QED  BY <2>1, <2>2
  <1>4. Command = [n \in 1 .. len |-> input_buffer[n - 1]]
    BY DEF Command
  <1> HIDE DEF line
  <1>5. \A n \in 0 .. (ix - 1) : input_buffer[n] # "nul"
    <2> TAKE n \in 0 .. (ix - 1)
    <2>1. n + 1 \in 1 .. Len(line)
      BY <1>1, <1>2
    <2>2. line[n + 1] \in Letters
      BY <1>2, <2>1
    <2>. QED  BY <1>2, <2>2, NamesAssumption
  <1>6. ASSUME NEW m \in 0 .. (LineMax - 1), input_buffer[m] = "nul",
               \A n \in 0 .. (m - 1) : input_buffer[n] # "nul"
        PROVE  len = m
    <2>1. m \in ends /\ \A n \in ends : m <= n /\ n \in Nat
      BY <1>1, <1>6
    <2> HIDE DEF ends
    <2>2. len \in ends /\ len <= m /\ m <= len /\ len \in Nat
      BY <2>1
    <2> HIDE DEF len
    <2>. QED  BY <2>2
  <1> HIDE DEF len
  <1>7. CASE input_buffer[ix] = "nul"
    <2>1. len = ix
      BY <1>1, <1>5, <1>6, <1>7
    <2>2. Command = line
      <3>1. \A n \in 1 .. ix : n - 1 \in 0 .. (ix - 1) /\ (n - 1) + 1 = n
        BY <1>1
      <3>2. Command = [n \in 1 .. ix |-> line[n]]
        BY <1>2, <1>4, <2>1, <3>1
      <3>3. line = [n \in 1 .. ix |-> line[n]]
        BY <1>2
      <3>. QED  BY <3>2, <3>3
    <2>. QED  BY <1>3, <2>2 DEF CommandIsEdited, line
  <1>8. CASE input_buffer[ix] # "nul"
    <2>1. ix < LineMax - 1 /\ typed # <<>> /\ typed[Len(typed)] = "bs"
      BY <1>2, <1>8
    <2> DEFINE k == input_buffer[ix]
    <2>2. k \in Letters
      <3>1. ix \in 0 .. (LineMax - 1)
        BY <1>1
      <3>. QED  BY <1>1, <1>8, <3>1 DEF Texts
    <2>3. len = ix + 1
      <3>1. ix + 1 \in 0 .. (LineMax - 1) /\ ix + 1 \in (ix + 1) .. (LineMax - 1)
        BY <1>1, <2>1
      <3>2. \A n \in 0 .. ((ix + 1) - 1) : n = ix \/ n \in 0 .. (ix - 1)
        BY <1>1
      <3>. QED  BY <1>2, <1>5, <1>6, <1>8, <3>1, <3>2
    <2>4. Command = Append(line, k)
      <3>1. /\ Append(line, k) = [n \in 1 .. (ix + 1) |-> Append(line, k)[n]]
            /\ Append(line, k)[ix + 1] = k /\ \A n \in 1 .. ix : Append(line, k)[n] = line[n]
        <4>1. k \in Letters
          BY <2>2
        <4> HIDE DEF k
        <4>2. /\ Append(line, k) \in Seq(Letters) /\ Len(Append(line, k)) = ix + 1
              /\ Append(line, k)[ix + 1] = k /\ \A n \in 1 .. ix : Append(line, k)[n] = line[n]
          BY <1>2, <4>1, AppendProperties
        <4>3. \A q \in Seq(Letters) : q = [n \in 1 .. Len(q) |-> q[n]]
          OBVIOUS
        <4>. QED  BY <4>2, <4>3
      <3>2. \A n \in 1 .. (ix + 1) : input_buffer[n - 1] = Append(line, k)[n]
        <4> TAKE n \in 1 .. (ix + 1)
        <4>1. CASE n = ix + 1
          <5>1. n - 1 = ix
            BY <1>1, <4>1
          <5>. QED  BY <3>1, <4>1, <5>1
        <4>2. CASE n # ix + 1
          <5>1. n \in 1 .. ix /\ n - 1 \in 0 .. (ix - 1) /\ (n - 1) + 1 = n
            BY <1>1, <4>2
          <5> HIDE DEF k
          <5>. QED  BY <1>2, <3>1, <5>1
        <4>. QED  BY <4>1, <4>2
      <3> HIDE DEF k
      <3>. QED  BY <1>4, <2>3, <3>1, <3>2
    <2>. QED  BY <1>3, <2>1, <2>2, <2>4 DEF CommandIsEdited, line
  <1>. QED  BY <1>7, <1>8

\* The debugger runs the line as edited; after a backspace one erased character may
\* still be at its end.  The buffer always ends with a 0.
THEOREM CommandCorrect == Spec => []CommandIsEdited
  <1>1. Init => LineInv
    BY PromptHolds DEF Init
  <1>2. EditorInv /\ LineInv /\ [Next]_vars => LineInv'
    BY LineStep
  <1>3. EditorInv /\ LineInv => CommandIsEdited
    BY CommandRead
  <1>. QED  BY <1>1, <1>2, <1>3, EditorInvariance, PTL DEF Spec
=============================================================================
