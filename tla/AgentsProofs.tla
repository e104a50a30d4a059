---------------------------- MODULE AgentsProofs ----------------------------
(***************************************************************************)
(* Proofs about the agents: AgentStores, for any names, sessions,          *)
(* operations, deaths and faults, and TuiModel, in the second part.        *)
(*                                                                         *)
(* Stores.  Types give each stage the operations that go through it and    *)
(* say that the names of a list are unique, which the loops of the         *)
(* handlers rely on and keep. Lonely says that operations that overlap     *)
(* know it. Advances then relates the stores to what they were when an     *)
(* operation that is alone began, stage by stage: what it has changed, it  *)
(* has changed as it is to, and the rest is as it was; the two properties  *)
(* of the steps in which it ends follow. Fits says which name each stage   *)
(* may leave without its agent in a calm history: only that of the         *)
(* operation itself, until the stage that takes it out.                    *)
(*                                                                         *)
(* UI.  The types and SelectionIsARow are inductive together, since the    *)
(* keys read the selected row; the list of the session is the last that is *)
(* on its way, or is shown (ListsCatchUp).                                 *)
(***************************************************************************)
EXTENDS AgentStores, TuiModel, FiniteSetTheorems, SequenceTheorems, TLAPS

(***************************************************************************)
(* The loops over a list. The library's induction theorems take an         *)
(* operator; this one takes a set.                                         *)
(***************************************************************************)
\* What holds of 0 and passes from each number to the next holds up to n.
LEMMA Induction ==
    ASSUME NEW n \in Nat, NEW S, 0 \in S,
           \A i \in 0 .. n - 1 : i \in S => i + 1 \in S
    PROVE  \A i \in 0 .. n : i \in S
<1> SUFFICES ASSUME NEW m \in 0 .. n, m \notin S PROVE FALSE
  OBVIOUS
<1> DEFINE T == {i \in 0 .. n : i \notin S}
<1>1. PICK x \in T : \A y \in T : <<y, x>> \notin OpToRel(<, Nat)
  <2>1. T \subseteq Nat /\ m \in T
    OBVIOUS
  <2> HIDE DEF T
  <2> QED
    BY <2>1, NatLessThanWellFounded, WFMin
<1>2. x # 0 /\ x - 1 \in 0 .. n - 1
  OBVIOUS
<1>3. x - 1 \notin S
  BY <1>2
<1>4. x - 1 \in T /\ <<x - 1, x>> \in OpToRel(<, Nat)
  BY <1>2, <1>3 DEF OpToRel
<1> QED
  BY <1>1, <1>4

\* The loop over a list: what it has kept after each provider.
Recurses(kept, ps, name) ==
    kept = [i \in 0 .. Len(ps) |->
              IF i = 0 THEN << >>
              ELSE IF ps[i].name = name THEN kept[i - 1]
              ELSE Append(kept[i - 1], ps[i])]

\* The loop ends: there is a function that the definition of KeptOf describes.
LEMMA LoopEnds ==
    ASSUME NEW T, NEW ps \in Seq(T), NEW name
    PROVE  Recurses(KeptOf(ps, name), ps, name)
<1> DEFINE n == Len(ps)
           Turn(f, i) == IF i = 0 THEN << >>
                         ELSE IF ps[i].name = name THEN f[i - 1]
                         ELSE Append(f[i - 1], ps[i])
           Up(f, k) == f = [i \in 0 .. k |-> Turn(f, i)]
           S == {k \in 0 .. n : \E f : Up(f, k)}
<1>n. n \in Nat
  OBVIOUS
<1>1. 0 \in S
  <2>1. \E f : Up(f, 0)
    <3> WITNESS [i \in 0 .. 0 |-> << >>]
    <3> QED
      OBVIOUS
  <2> QED
    BY <1>n, <2>1
<1>2. ASSUME NEW k \in 0 .. n - 1, k \in S PROVE k + 1 \in S
  <2>1. PICK f : Up(f, k)
    BY <1>2
  <2> DEFINE g == [i \in 0 .. k + 1 |-> IF i = k + 1 THEN Turn(f, k + 1) ELSE f[i]]
  <2>2. \A i \in 0 .. k + 1 : g[i] = Turn(g, i)
    <3> SUFFICES ASSUME NEW i \in 0 .. k + 1 PROVE g[i] = Turn(g, i)
      OBVIOUS
    <3>1. i # 0 => i - 1 \in 0 .. k /\ g[i - 1] = f[i - 1]
      BY <1>n
    <3>2. Turn(g, i) = Turn(f, i)
      BY <3>1
    <3>3. CASE i = k + 1
      BY <3>2, <3>3
    <3>4. CASE i # k + 1
      <4>1. i \in 0 .. k /\ g[i] = f[i]
        BY <3>4
      <4>2. f[i] = Turn(f, i)
        BY <2>1, <4>1
      <4> QED
        BY <3>2, <4>1, <4>2
    <3> QED
      BY <3>3, <3>4
  <2>3. \E h : Up(h, k + 1)
    <3> WITNESS g
    <3> QED
      BY <2>2
  <2> QED
    BY <2>3, <1>n
<1>3. n \in S
  <2> HIDE DEF S
  <2>1. \A i \in 0 .. n : i \in S
    <3> HIDE DEF n
    <3> QED
      BY <1>n, <1>1, <1>2, Induction
  <2> QED
    BY <1>n, <2>1
<1>4. PICK f : Up(f, n)
  BY <1>3
<1>5. Recurses(f, ps, name)
  BY <1>4 DEF Recurses
<1> QED
  BY <1>5 DEF Recurses, KeptOf

\* One turn of the loop.
LEMMA LoopTurns ==
    ASSUME NEW T, NEW ps \in Seq(T), NEW name
    PROVE  LET kept == KeptOf(ps, name)
           IN  /\ kept[0] = << >>
               /\ \A m \in 0 .. Len(ps) - 1 :
                     kept[m + 1] = IF ps[m + 1].name = name THEN kept[m]
                                   ELSE Append(kept[m], ps[m + 1])
<1> DEFINE n == Len(ps)
           kept == KeptOf(ps, name)
<1>1. kept = [i \in 0 .. Len(ps) |->
              IF i = 0 THEN << >>
              ELSE IF ps[i].name = name THEN kept[i - 1]
              ELSE Append(kept[i - 1], ps[i])]
  BY LoopEnds DEF Recurses
<1> HIDE DEF kept
<1>2. \A i \in 0 .. Len(ps) :
        kept[i] = IF i = 0 THEN << >>
                  ELSE IF ps[i].name = name THEN kept[i - 1]
                  ELSE Append(kept[i - 1], ps[i])
  BY <1>1, Zenon
<1>3. 0 \in 0 .. Len(ps)
  OBVIOUS
<1>4. ASSUME NEW m \in 0 .. n - 1
      PROVE  m + 1 \in 0 .. Len(ps) /\ m + 1 # 0 /\ (m + 1) - 1 = m
  OBVIOUS
<1> HIDE DEF n
<1>5. /\ kept[0] = << >>
      /\ \A m \in 0 .. n - 1 :
            kept[m + 1] = IF ps[m + 1].name = name THEN kept[m]
                          ELSE Append(kept[m], ps[m + 1])
  BY <1>2, <1>3, <1>4
<1> QED
  BY <1>5 DEF n, kept

\* No two providers have the same name.
Unique(ps) == \A i, j \in DOMAIN ps : ps[i].name = ps[j].name => i = j

\* What the first m turns have kept: the providers of other names among the first m.
Keeps(T, ps, name, m, r) ==
    /\ r \in Seq(T)
    /\ \A i \in DOMAIN r : \E j \in 1 .. m : ps[j] = r[i] /\ ps[j].name # name
    /\ \A j \in 1 .. m : ps[j].name # name => \E i \in DOMAIN r : r[i] = ps[j]
    /\ Unique(ps) => Unique(r)

LEMMA LoopKeeps ==
    ASSUME NEW T, NEW ps \in Seq(T), NEW name
    PROVE  \A k \in 0 .. Len(ps) : Keeps(T, ps, name, k, KeptOf(ps, name)[k])
<1> SUFFICES ASSUME NEW k \in 0 .. Len(ps)
             PROVE  Keeps(T, ps, name, k, KeptOf(ps, name)[k])
  OBVIOUS
<1> DEFINE n == Len(ps)
           kept == KeptOf(ps, name)
           S == {m \in 0 .. n : Keeps(T, ps, name, m, kept[m])}
<1> USE DEF Keeps
<1>n. n \in Nat
  OBVIOUS
<1>k. /\ kept[0] = << >>
      /\ \A m \in 0 .. n - 1 :
            kept[m + 1] = IF ps[m + 1].name = name THEN kept[m]
                          ELSE Append(kept[m], ps[m + 1])
  BY LoopTurns
<1> HIDE DEF kept
<1>1. 0 \in S
  <2>1. Keeps(T, ps, name, 0, << >>)
    BY DEF Unique
  <2> HIDE DEF Keeps
  <2> QED
    BY <1>n, <1>k, <2>1
<1>2. ASSUME NEW m \in 0 .. n - 1, m \in S PROVE m + 1 \in S
  <2> DEFINE r == kept[m]
             x == ps[m + 1]
             s == kept[m + 1]
  <2>1. Keeps(T, ps, name, m, r) /\ m + 1 \in 0 .. n /\ x \in T
    <3> HIDE DEF Keeps
    <3>1. m \in S
      BY <1>2
    <3>2. Keeps(T, ps, name, m, r)
      BY <3>1
    <3>3. m + 1 \in 1 .. n
      BY <1>n
    <3> HIDE DEF S
    <3>4. x \in T
      BY <3>3
    <3> QED
      BY <3>2, <3>3, <3>4
  <2>2. CASE x.name = name
    <3>1. s = r
      BY <1>k, <2>2
    <3>2. \A j \in 1 .. m : j \in 1 .. m + 1
      BY <1>n
    <3>3. \A j \in 1 .. m + 1 : ps[j].name # name => j \in 1 .. m
      BY <1>n, <2>2
    <3> HIDE DEF r, s, n
    <3>4. Keeps(T, ps, name, m + 1, r)
      BY <2>1, <3>2, <3>3
    <3> QED
      BY <2>1, <3>1, <3>4 DEF s
  <2>3. CASE x.name # name
    <3>1. s = Append(r, x)
      BY <1>k, <2>3
    <3>2. /\ s \in Seq(T) /\ Len(s) = Len(r) + 1 /\ Len(r) \in Nat
          /\ s[Len(r) + 1] = x
          /\ \A i \in 1 .. Len(r) : s[i] = r[i]
          /\ DOMAIN s = 1 .. Len(r) + 1 /\ DOMAIN r = 1 .. Len(r)
      BY <2>1, <3>1
    <3> HIDE DEF r, s
    <3>3. \A i \in DOMAIN s : \E j \in 1 .. m + 1 : ps[j] = s[i] /\ ps[j].name # name
      <4> SUFFICES ASSUME NEW i \in DOMAIN s
                   PROVE  \E j \in 1 .. m + 1 : ps[j] = s[i] /\ ps[j].name # name
        OBVIOUS
      <4>1. CASE i = Len(r) + 1
        BY <1>n, <2>1, <2>3, <3>2, <4>1
      <4>2. CASE i # Len(r) + 1
        <5>1. i \in DOMAIN r /\ s[i] = r[i]
          BY <3>2, <4>2
        <5>2. PICK j \in 1 .. m : ps[j] = r[i] /\ ps[j].name # name
          BY <2>1, <5>1
        <5> QED
          BY <1>n, <5>1, <5>2
      <4> QED
        BY <4>1, <4>2
    <3>4. \A j \in 1 .. m + 1 : ps[j].name # name => \E i \in DOMAIN s : s[i] = ps[j]
      <4> SUFFICES ASSUME NEW j \in 1 .. m + 1, ps[j].name # name
                   PROVE  \E i \in DOMAIN s : s[i] = ps[j]
        OBVIOUS
      <4>1. CASE j = m + 1
        BY <3>2, <4>1
      <4>2. CASE j # m + 1
        <5>1. PICK i \in DOMAIN r : r[i] = ps[j]
          BY <1>n, <2>1, <4>2
        <5> QED
          BY <3>2, <5>1
      <4> QED
        BY <4>1, <4>2
    <3>5. ASSUME Unique(ps) PROVE Unique(s)
      <4> SUFFICES ASSUME NEW i \in DOMAIN s, NEW j \in DOMAIN s, i < j,
                          s[i].name = s[j].name
                   PROVE  FALSE
        BY <3>2 DEF Unique
      <4>1. i \in DOMAIN r /\ s[i] = r[i]
        BY <3>2
      <4>2. CASE j = Len(r) + 1
        <5>1. PICK h \in 1 .. m : ps[h] = r[i]
          BY <2>1, <4>1
        <5> QED
          <6>1. ps[h].name = ps[m + 1].name
            BY <3>2, <4>1, <4>2, <5>1
          <6>2. h \in 1 .. n /\ m + 1 \in 1 .. n /\ h # m + 1 /\ DOMAIN ps = 1 .. n
            BY <1>n
          <6> QED
            BY <3>5, <6>1, <6>2 DEF Unique
      <4>3. CASE j # Len(r) + 1
        <5>1. j \in DOMAIN r /\ s[j] = r[j]
          BY <3>2, <4>3
        <5>2. Unique(r) /\ r[i].name = r[j].name
          BY <2>1, <3>5, <4>1, <5>1
        <5>3. i = j
          BY <4>1, <5>1, <5>2 DEF Unique
        <5> QED
          BY <3>2, <5>3
      <4> QED
        BY <4>2, <4>3
    <3> QED
      BY <2>1, <3>2, <3>3, <3>4, <3>5 DEF s
  <2> QED
    BY <2>2, <2>3
<1> HIDE DEF Keeps
<1>3. k \in S
  <2> HIDE DEF S
  <2>1. \A i \in 0 .. n : i \in S
    <3> HIDE DEF n
    <3> QED
      BY <1>n, <1>1, <1>2, Induction
  <2> QED
    BY <1>n, <2>1
<1> QED
  BY <1>3 DEF kept

\* A list without the providers of one name.
LEMMA WithoutKeeps ==
    ASSUME NEW T, NEW ps \in Seq(T), NEW name
    PROVE  /\ Without(ps, name) \in Seq(T)
           /\ \A m : Has(Without(ps, name), m) <=> m # name /\ Has(ps, m)
           /\ Unique(ps) => Unique(Without(ps, name))
<1> DEFINE q == Without(ps, name)
<1>1. q = KeptOf(ps, name)[Len(ps)] /\ Len(ps) \in 0 .. Len(ps) /\ DOMAIN ps = 1 .. Len(ps)
  BY DEF Without
<1> HIDE DEF q
<1>2. /\ q \in Seq(T)
      /\ \A i \in DOMAIN q : \E j \in 1 .. Len(ps) : ps[j] = q[i] /\ ps[j].name # name
      /\ \A j \in 1 .. Len(ps) : ps[j].name # name => \E i \in DOMAIN q : q[i] = ps[j]
      /\ Unique(ps) => Unique(q)
  BY <1>1, LoopKeeps DEF Keeps
<1>3. \A m : Has(q, m) <=> m # name /\ Has(ps, m)
  <2> TAKE m
  <2>1. ASSUME Has(q, m) PROVE m # name /\ Has(ps, m)
    <3>1. PICK i \in DOMAIN q : q[i].name = m
      BY <2>1 DEF Has
    <3>2. PICK j \in 1 .. Len(ps) : ps[j] = q[i] /\ ps[j].name # name
      BY <1>2
    <3> QED
      BY <1>1, <3>1, <3>2 DEF Has
  <2>2. ASSUME m # name, Has(ps, m) PROVE Has(q, m)
    <3>1. PICK j \in 1 .. Len(ps) : ps[j].name = m
      BY <1>1, <2>2 DEF Has
    <3>2. PICK i \in DOMAIN q : q[i] = ps[j]
      BY <1>2, <2>2, <3>1
    <3> QED
      BY <3>1, <3>2 DEF Has
  <2> QED
    BY <2>1, <2>2
<1> QED
  BY <1>2, <1>3 DEF q

\* Lists that differ in providers of one name only are equal without that name.
LEMMA WithoutAlike ==
    ASSUME NEW T, NEW ps \in Seq(T), NEW qs \in Seq(T), NEW name, Len(qs) = Len(ps),
           \A i \in 1 .. Len(ps) :
              qs[i] = ps[i] \/ (qs[i].name = name /\ ps[i].name = name)
    PROVE  Without(qs, name) = Without(ps, name)
<1> DEFINE n == Len(ps)
           p == KeptOf(ps, name)
           q == KeptOf(qs, name)
           S == {m \in 0 .. n : q[m] = p[m]}
<1>n. n \in Nat
  OBVIOUS
<1>1. /\ p[0] = << >>
      /\ \A m \in 0 .. n - 1 :
            p[m + 1] = IF ps[m + 1].name = name THEN p[m] ELSE Append(p[m], ps[m + 1])
  BY LoopTurns
<1>2. /\ q[0] = << >>
      /\ \A m \in 0 .. n - 1 :
            q[m + 1] = IF qs[m + 1].name = name THEN q[m] ELSE Append(q[m], qs[m + 1])
  BY LoopTurns
<1> HIDE DEF p, q
<1>3. 0 \in S
  BY <1>n, <1>1, <1>2
<1>4. ASSUME NEW m \in 0 .. n - 1, m \in S PROVE m + 1 \in S
  <2>1. m + 1 \in 1 .. n
    BY <1>n
  <2>2. q[m] = p[m]
    BY <1>4
  <2>3. qs[m + 1] = ps[m + 1] \/ (qs[m + 1].name = name /\ ps[m + 1].name = name)
    BY <2>1
  <2>4. q[m + 1] = p[m + 1]
    BY <1>1, <1>2, <2>2, <2>3
  <2> QED
    BY <1>n, <2>1, <2>4
<1>5. q[n] = p[n]
  <2> HIDE DEF S
  <2>1. \A i \in 0 .. n : i \in S
    <3> HIDE DEF n
    <3> QED
      BY <1>n, <1>3, <1>4, Induction
  <2> QED
    BY <1>n, <2>1 DEF S
<1> QED
  BY <1>5 DEF Without, p, q

\* A provider of that name at the end of the list makes no difference.
LEMMA WithoutAppended ==
    ASSUME NEW T, NEW ps \in Seq(T), NEW x \in T, NEW name, x.name = name
    PROVE  Without(Append(ps, x), name) = Without(ps, name)
<1> DEFINE n == Len(ps)
           qs == Append(ps, x)
           p == KeptOf(ps, name)
           q == KeptOf(qs, name)
           S == {m \in 0 .. n : q[m] = p[m]}
<1>n. n \in Nat
  OBVIOUS
<1>a. /\ qs \in Seq(T) /\ Len(qs) = n + 1 /\ qs[n + 1] = x
      /\ \A i \in 1 .. n : qs[i] = ps[i]
  OBVIOUS
<1>1. /\ p[0] = << >>
      /\ \A m \in 0 .. n - 1 :
            p[m + 1] = IF ps[m + 1].name = name THEN p[m] ELSE Append(p[m], ps[m + 1])
  BY LoopTurns
<1> HIDE DEF qs
<1>2. /\ q[0] = << >>
      /\ \A m \in 0 .. n :
            q[m + 1] = IF qs[m + 1].name = name THEN q[m] ELSE Append(q[m], qs[m + 1])
  <2>1. /\ q[0] = << >>
        /\ \A m \in 0 .. Len(qs) - 1 :
              q[m + 1] = IF qs[m + 1].name = name THEN q[m] ELSE Append(q[m], qs[m + 1])
    BY <1>a, LoopTurns
  <2>2. Len(qs) - 1 = n
    BY <1>n, <1>a
  <2> HIDE DEF q
  <2> QED
    BY <2>1, <2>2
<1> HIDE DEF p, q
<1>3. 0 \in S
  BY <1>n, <1>1, <1>2
<1>4. ASSUME NEW m \in 0 .. n - 1, m \in S PROVE m + 1 \in S
  <2>1. m + 1 \in 1 .. n /\ m \in 0 .. n
    BY <1>n
  <2>2. q[m] = p[m]
    BY <1>4
  <2>3. qs[m + 1] = ps[m + 1]
    BY <1>a, <2>1
  <2>4. q[m + 1] = p[m + 1]
    BY <1>1, <1>2, <2>1, <2>2, <2>3
  <2> QED
    BY <1>n, <2>1, <2>4
<1>5. q[n] = p[n]
  <2> HIDE DEF S
  <2>1. \A i \in 0 .. n : i \in S
    <3> HIDE DEF n
    <3> QED
      BY <1>n, <1>3, <1>4, Induction
  <2> QED
    BY <1>n, <2>1 DEF S
<1>6. q[n + 1] = q[n]
  BY <1>n, <1>a, <1>2
<1> QED
  BY <1>a, <1>5, <1>6 DEF Without, p, q, qs

\* Nor does a removal of what is not there.
LEMMA WithoutNothing ==
    ASSUME NEW T, NEW ps \in Seq(T), NEW name, ~Has(ps, name)
    PROVE  Without(ps, name) = ps
<1> DEFINE n == Len(ps)
           p == KeptOf(ps, name)
           Same(m) == /\ p[m] \in Seq(T) /\ Len(p[m]) = m
                      /\ \A i \in 1 .. m : p[m][i] = ps[i]
           S == {m \in 0 .. n : Same(m)}
<1>n. n \in Nat /\ DOMAIN ps = 1 .. n
  OBVIOUS
<1>1. /\ p[0] = << >>
      /\ \A m \in 0 .. n - 1 :
            p[m + 1] = IF ps[m + 1].name = name THEN p[m] ELSE Append(p[m], ps[m + 1])
  BY LoopTurns
<1> HIDE DEF p
<1>2. 0 \in S
  <2>1. Same(0)
    BY <1>1
  <2> HIDE DEF Same
  <2> QED
    BY <1>n, <2>1
<1>3. ASSUME NEW m \in 0 .. n - 1, m \in S PROVE m + 1 \in S
  <2>1. m + 1 \in 1 .. n /\ ps[m + 1] \in T /\ ps[m + 1].name # name
    BY <1>n DEF Has
  <2>2. p[m + 1] = Append(p[m], ps[m + 1])
    BY <1>1, <2>1
  <2>3. Same(m + 1)
    BY <1>n, <1>3, <2>1, <2>2
  <2> HIDE DEF Same
  <2> QED
    BY <1>n, <2>1, <2>3
<1>4. Same(n)
  <2> HIDE DEF S
  <2>1. \A i \in 0 .. n : i \in S
    <3> HIDE DEF n
    <3> QED
      BY <1>n, <1>2, <1>3, Induction
  <2> QED
    BY <1>n, <2>1 DEF S
<1>5. p[n] = ps
  BY <1>4, <1>n, SeqEqual
<1> QED
  BY <1>5 DEF Without, p

-----------------------------------------------------------------------------
(* The invariants: what is stored, loaded and saved at each stage.         *)
Stages ==
    {"set_key", "load", "open", "write", "delete_key", "load_selection", "open_selection",
     "write_selection", "list_providers", "list_selection", "resolve"}

\* The stages of a delete after the one that deletes the key.
AfterKey ==
    {"load_selection", "open_selection", "write_selection", "list_providers", "list_selection"}

\* The stages through which each operation goes, and which the command line has.
Belongs(w, stage, o) ==
    /\ o \in Operations
    /\ stage = "set_key" => o.kind = "add" /\ o.key
    /\ stage = "load" => o.kind \in Changes \cup {"prompt"}
    /\ stage \in {"open", "write"} => o.kind \in Changes
    /\ stage = "delete_key" => o.kind = "delete"
    /\ stage = "load_selection" => o.kind \in {"toggle", "delete"}
    /\ stage \in {"open_selection", "write_selection"} =>
          o.kind \in {"set_active", "toggle", "delete"}
    /\ stage \in {"list_providers", "list_selection"} => o.kind \in Changes \cup {"list"}
    /\ stage = "resolve" => o.kind = "prompt"
    /\ w = CommandLine /\ stage \notin Idle =>
          stage \in {"load", "open", "write"} /\ o.kind = "add" /\ ~o.key

\* All writers have their local state.
Local(f) == f = [w \in Writers |-> f[w]]
Domains ==
    /\ Local(op) /\ Local(at) /\ Local(list) /\ Local(active) /\ Local(before)
    /\ alone \in [Writers -> BOOLEAN]

FilesTyped ==
    /\ providers \in Lists \cup {Torn}
    /\ providers # Torn => Unique(providers)
    /\ selection \in Names \cup {None, Torn}
    /\ secrets \subseteq Names /\ left \subseteq Names

WriterTyped(w) ==
    /\ at[w] \in Stages \cup Idle /\ Belongs(w, at[w], op[w])
    /\ list[w] \in Lists /\ Unique(list[w])
    /\ active[w] \in Names \cup {None}

Types ==
    /\ Domains /\ FilesTyped /\ \A w \in Writers : WriterTyped(w)
    /\ calm \in BOOLEAN /\ ops \in Nat /\ deaths \in Nat

\* Operations that overlap know it; what never overlapped is alone.
Lonely ==
    /\ \A v, w \in Busy : v # w => ~alone[v]
    /\ calm => \A w \in Busy : alone[w]

\* What a change has done to the list it is about to save, or has saved.
Saves(o, p, old) ==
    /\ p \in Lists
    /\ Has(p, o.name) <=> o.kind # "delete"
    /\ o.kind = "set_active" => Enabled(p, o.name)
    /\ o.kind \in {"toggle", "add"} => Enabled(p, o.name) = o.enabled
    /\ old # Torn => Without(p, o.name) = Without(old, o.name)

\* How far an operation that is alone has come.
Progress(o, stage, p, s, k, l, a, was) ==
    /\ stage \in {"set_key", "load", "open", "resolve"} => p = was.providers
    /\ stage \in {"open", "write"} => Saves(o, l, was.providers)
    /\ stage \in {"delete_key", "load_selection", "open_selection", "write_selection"} =>
          Saves(o, p, was.providers)
    /\ stage \in {"set_key", "load", "open", "write", "delete_key", "load_selection",
                  "open_selection", "resolve"} => s = was.selection
    /\ stage \in {"delete_key", "load_selection", "open_selection", "write_selection"} =>
          a = IF o.kind = "set_active" THEN o.name ELSE None
    /\ stage \in {"open_selection", "write_selection"} /\ o.kind # "set_active" =>
          was.selection = o.name
    /\ stage = "write" => p = Torn
    /\ stage = "write_selection" => s = Torn
    /\ stage \in {"list_providers", "list_selection"} =>
          /\ o.kind # "list" => Saves(o, p, was.providers)
          /\ o.kind = "set_active" => s = o.name
          /\ o.kind = "delete" \/ (o.kind = "toggle" /\ ~o.enabled) => s # o.name
          /\ o.kind = "list" => p = was.providers
          /\ s \in {was.selection, o.name} \/ was.selection = o.name
    /\ stage \in {"list_selection", "resolve"} => l = p /\ p # Torn
    /\ o.kind = "add" /\ o.key /\ stage # "set_key" => o.name \in k

\* How the stores fit when nobody writes, ...
Quiet(p, s, k) ==
    /\ p \in Lists
    /\ s = None \/ (s \in Names /\ Has(p, s))
    /\ \A m \in k : Has(p, m)

\* ... and while one operation is under way, in a calm history.
Fitting(o, stage, p, s, k, l, a) ==
    LET file == IF stage \in {"open", "write"} THEN l ELSE p
    IN  /\ file \in Lists
        /\ stage = "write" => p = Torn
        /\ \A m \in k :
              \/ Has(file, m)
              \/ m = o.name /\ o.kind = "add" /\ stage = "load"
              \/ m = o.name /\ o.kind = "delete" /\ stage \in {"open", "write", "delete_key"}
        /\ IF stage = "write_selection" THEN s = Torn
           ELSE \/ s = None
                \/ s \in Names /\ Has(file, s)
                \/ /\ s = o.name /\ o.kind = "delete"
                   /\ stage \in {"open", "write", "delete_key", "load_selection", "open_selection"}
        /\ stage \in {"open", "write"} /\ o.kind = "set_active" => Has(file, o.name)
        /\ stage \in {"delete_key", "load_selection", "open_selection", "write_selection"} =>
              a = None \/ (a \in Names /\ Has(p, a))

Advance(w) ==
    Progress(op[w], at[w], providers, selection, secrets, list[w], active[w], before[w])
Advances == \A w \in Busy : alone[w] => Advance(w)

\* A key that is still there after its agent was deleted is one the keychain kept.
KeyGone(w) ==
    op[w].kind = "delete" /\ at[w] \in AfterKey =>
        op[w].name \notin secrets \/ op[w].name \in left
KeysGone == \A w \in Busy : alone[w] => KeyGone(w)

FitsIn(w) == Fitting(op[w], at[w], providers, selection, secrets, list[w], active[w])
Fits ==
    calm => /\ Busy = {} => Quiet(providers, selection, secrets)
            /\ \A w \in Busy : FitsIn(w)

-----------------------------------------------------------------------------
(* What the changes of a list do.                                          *)
\* A loop stops at the provider it looks for.
LEMMA FirstFound ==
    ASSUME NEW T, NEW ps \in Seq(T), Unique(ps), NEW name, Has(ps, name)
    PROVE  First(ps, name) \in DOMAIN ps /\ ps[First(ps, name)].name = name
<1>1. PICK i \in DOMAIN ps : ps[i].name = name
  BY DEF Has
<1>2. \A j \in 1 .. i - 1 : ps[j].name # name
  <2> SUFFICES ASSUME NEW j \in 1 .. i - 1, ps[j].name = name PROVE FALSE
    OBVIOUS
  <2>1. j \in DOMAIN ps /\ j # i
    OBVIOUS
  <2> QED
    BY <1>1, <2>1 DEF Unique
<1> QED
  BY <1>1, <1>2 DEF First

\* An operation that changes something names an agent.
LEMMA ChangesName ==
    ASSUME NEW o \in Operations, o.kind \in Changes
    PROVE  o.name \in Names /\ o.enabled \in BOOLEAN
<1>1. CASE o \in [kind : {"set_active", "delete"}, name : Names, enabled : {TRUE}, key : {FALSE}]
  BY <1>1
<1>2. CASE o \in [kind : {"toggle"}, name : Names, enabled : BOOLEAN, key : {FALSE}]
  BY <1>2
<1>3. CASE o \in [kind : {"add"}, name : Names, enabled : BOOLEAN, key : BOOLEAN]
  BY <1>3
<1>4. CASE o \in [kind : Reads, name : {None}, enabled : {TRUE}, key : {FALSE}]
  BY <1>4 DEF Reads, Changes
<1> QED
  BY <1>1, <1>2, <1>3, <1>4 DEF Operations

\* Each change of a list is the one that its operation is about, and keeps names unique.
LEMMA ChangedSaves ==
    ASSUME NEW ps \in Lists, Unique(ps), NEW o \in Operations, o.kind \in Changes,
           o.kind = "add" \/ Has(ps, o.name)
    PROVE  Saves(o, Changed(o, ps), ps) /\ Unique(Changed(o, ps))
<1> DEFINE T == [name : Names, enabled : BOOLEAN]
           n == o.name
           q == Changed(o, ps)
           i == First(ps, n)
<1>t. ps \in Seq(T) /\ n \in Names /\ o.enabled \in BOOLEAN /\ DOMAIN ps = 1 .. Len(ps)
  BY ChangesName DEF Lists
<1>1. CASE o.kind = "delete"
  <2>1. q = Without(ps, n)
    BY <1>1 DEF Changed
  <2>2. q \in Seq(T) /\ Unique(q) /\ ~Has(q, n)
    BY <1>t, <2>1, WithoutKeeps
  <2>3. Without(q, n) = Without(ps, n)
    BY <2>1, <2>2, WithoutNothing
  <2> HIDE DEF q
  <2> QED
    BY <1>1, <2>2, <2>3 DEF Saves, Lists, q
<1>2. ASSUME Has(ps, n), NEW x \in T, x.name = n, NEW r, r = [ps EXCEPT ![i] = x]
      PROVE  /\ r \in Seq(T) /\ Unique(r) /\ Has(r, n)
             /\ Enabled(r, n) = x.enabled
             /\ Without(r, n) = Without(ps, n)
  <2>1. i \in DOMAIN ps /\ ps[i].name = n
    BY <1>t, <1>2, FirstFound
  <2> HIDE DEF i
  <2>2. /\ r \in Seq(T) /\ Len(r) = Len(ps) /\ DOMAIN r = DOMAIN ps
        /\ \A j \in DOMAIN ps : r[j] = IF j = i THEN x ELSE ps[j]
    BY <1>t, <1>2, <2>1
  <2>3. \A j \in DOMAIN ps : r[j].name = ps[j].name
    BY <1>2, <2>1, <2>2
  <2>4. Unique(r) /\ Has(r, n)
    BY <2>1, <2>2, <2>3 DEF Unique, Has
  <2>5. Enabled(r, n) = x.enabled
    <3>1. x = Agent(n, x.enabled) /\ x.enabled \in BOOLEAN
      BY <1>2 DEF Agent
    <3>2. ASSUME x.enabled = TRUE PROVE Enabled(r, n)
      BY <2>1, <2>2, <3>1, <3>2 DEF Enabled
    <3>3. ASSUME Enabled(r, n) PROVE x.enabled = TRUE
      <4>1. PICK j \in DOMAIN r : r[j] = Agent(n, TRUE)
        BY <3>3 DEF Enabled
      <4>2. r[j].name = n /\ r[j].enabled = TRUE
        BY <4>1 DEF Agent
      <4>3. j = i
        BY <2>1, <2>2, <2>3, <4>1, <4>2 DEF Unique
      <4> QED
        BY <2>2, <4>1, <4>2, <4>3
    <3>4. Enabled(r, n) \in BOOLEAN
      BY DEF Enabled
    <3> QED
      BY <3>1, <3>2, <3>3, <3>4
  <2>6. Without(r, n) = Without(ps, n)
    <3>1. \A j \in 1 .. Len(ps) : r[j] = ps[j] \/ (r[j].name = n /\ ps[j].name = n)
      BY <1>t, <1>2, <2>1, <2>2
    <3> QED
      BY <1>t, <2>2, <3>1, WithoutAlike
  <2> QED
    BY <2>2, <2>4, <2>5, <2>6
<1>3. ASSUME o.kind \in {"set_active", "toggle"} PROVE Saves(o, q, ps) /\ Unique(q)
  <2> DEFINE e == IF o.kind = "set_active" THEN TRUE ELSE o.enabled
             x == [ps[i] EXCEPT !.enabled = e]
  <2>1. i \in DOMAIN ps /\ ps[i].name = n /\ Has(ps, n)
    BY <1>t, <1>3, FirstFound
  <2>2. q = [ps EXCEPT ![i] = x]
    BY <1>3 DEF Changed, SetEnabled
  <2>3. x \in T /\ x.name = n /\ x.enabled = e
    <3>1. e \in BOOLEAN
      BY <1>t
    <3>2. ps[i] \in T
      <4> HIDE DEF T, i
      <4> QED
        BY <1>t, <2>1, ElementOfSeq
    <3> HIDE DEF i, e
    <3> QED
      BY <2>1, <3>1, <3>2
  <2> HIDE DEF i, x, T, n
  <2>4. /\ q \in Seq(T) /\ Unique(q) /\ Has(q, n)
        /\ Enabled(q, n) = e
        /\ Without(q, n) = Without(ps, n)
    BY <1>2, <2>1, <2>2, <2>3
  <2> HIDE DEF q
  <2>5. Saves(o, q, ps)
    BY <1>3, <2>4 DEF Saves, Lists, T, n
  <2> QED
    BY <2>4, <2>5
<1>4. ASSUME o.kind = "add" PROVE Saves(o, q, ps) /\ Unique(q)
  <2> DEFINE x == Agent(n, o.enabled)
  <2>1. q = Upsert(ps, x) /\ x \in T /\ x.name = n /\ x.enabled = o.enabled
    BY <1>4, <1>t DEF Changed, Agent
  <2>a. Agent(n, TRUE) = x <=> o.enabled = TRUE
    BY <1>t DEF Agent
  <2>b. Agent(n, TRUE).name = n
    BY DEF Agent
  <2>t. n \in Names /\ o.enabled \in BOOLEAN
    BY <1>t
  <2> HIDE DEF x, n, i, T
  <2>2. /\ q \in Seq(T) /\ Unique(q) /\ Has(q, n)
        /\ Enabled(q, n) = o.enabled
        /\ Without(q, n) = Without(ps, n)
    <3>1. CASE Has(ps, n)
      <4>0. First(ps, x.name) = i /\ Has(ps, x.name)
        BY <2>1, <3>1 DEF i
      <4>1. q = [ps EXCEPT ![i] = x]
        <5> HIDE DEF q
        <5> QED
          BY <2>1, <4>0, Zenon DEF Upsert
      <4> HIDE DEF q
      <4> QED
        BY <1>2, <2>1, <3>1, <4>1
    <3>2. CASE ~Has(ps, n)
      <4>1. q = Append(ps, x)
        BY <2>1, <3>2 DEF Upsert
      <4> HIDE DEF q
      <4>2. /\ q \in Seq(T) /\ DOMAIN q = 1 .. Len(ps) + 1 /\ q[Len(ps) + 1] = x
            /\ \A j \in 1 .. Len(ps) : q[j] = ps[j] /\ ps[j].name # n
        BY <1>t, <2>1, <3>2, <4>1 DEF Has
      <4>x. Len(ps) + 1 \in DOMAIN q /\ \A j \in DOMAIN q : j # Len(ps) + 1 => j \in 1 .. Len(ps)
        <5>1. Len(ps) \in Nat
          BY <1>t
        <5> QED
          BY <4>2, <5>1
      <4>3. Unique(q)
        BY <1>t, <2>1, <4>2, <4>x DEF Unique
      <4>4. Has(q, n)
        BY <2>1, <4>2, <4>x DEF Has
      <4>5. Enabled(q, n) = o.enabled
        <5>1. ASSUME o.enabled = TRUE PROVE Enabled(q, n)
          BY <2>a, <4>2, <4>x, <5>1 DEF Enabled
        <5>2. ASSUME Enabled(q, n) PROVE o.enabled = TRUE
          <6>1. PICK j \in DOMAIN q : q[j] = Agent(n, TRUE)
            BY <5>2 DEF Enabled
          <6>2. q[j].name = n
            BY <2>b, <6>1
          <6>3. j = Len(ps) + 1
            BY <4>2, <4>x, <6>1, <6>2
          <6> QED
            BY <2>a, <4>2, <6>1, <6>3
        <5>3. Enabled(q, n) \in BOOLEAN
          BY DEF Enabled
        <5> QED
          BY <2>t, <5>1, <5>2, <5>3
      <4>6. Without(q, n) = Without(ps, n)
        BY <1>t, <2>1, <4>1, WithoutAppended
      <4> QED
        BY <4>2, <4>3, <4>4, <4>5, <4>6
    <3> QED
      BY <3>1, <3>2
  <2> HIDE DEF q
  <2>3. Saves(o, q, ps)
    BY <1>4, <2>2 DEF Saves, Lists, n, T
  <2> QED
    BY <2>2, <2>3
<1> QED
  BY <1>1, <1>3, <1>4 DEF Changes, Saves, Lists

\* An add that could not decode the file starts a list of its own.
LEMMA AfreshSaves ==
    ASSUME NEW o \in Operations, o.kind = "add"
    PROVE  LET q == <<Agent(o.name, o.enabled)>>
           IN  Saves(o, q, Torn) /\ Unique(q)
<1> DEFINE x == Agent(o.name, o.enabled)
           q == <<x>>
<1>1. o.name \in Names /\ o.enabled \in BOOLEAN
  BY ChangesName DEF Changes
<1>2. x \in [name : Names, enabled : BOOLEAN] /\ x.name = o.name
  BY <1>1 DEF Agent
<1>3. q \in Lists /\ DOMAIN q = {1} /\ q[1] = x
  BY <1>2 DEF Lists
<1>4. Enabled(q, o.name) = o.enabled
  <2>1. Enabled(q, o.name) <=> x = Agent(o.name, TRUE)
    BY <1>3 DEF Enabled
  <2>2. x = Agent(o.name, TRUE) <=> o.enabled = TRUE
    BY <1>1 DEF Agent
  <2>3. Enabled(q, o.name) \in BOOLEAN
    BY DEF Enabled
  <2> QED
    BY <1>1, <2>1, <2>2, <2>3
<1>5. Has(q, o.name) /\ Unique(q)
  BY <1>2, <1>3 DEF Has, Unique
<1> HIDE DEF q
<1>6. Saves(o, q, Torn)
  BY <1>3, <1>4, <1>5 DEF Saves
<1> QED
  BY <1>5, <1>6 DEF q

\* A change of one agent leaves the names of the others.
LEMMA OthersStay ==
    ASSUME NEW p \in Lists, NEW old \in Lists, NEW n, Without(p, n) = Without(old, n),
           NEW m, m # n
    PROVE  Has(p, m) <=> Has(old, m)
<1>1. Has(Without(p, n), m) <=> Has(p, m)
  BY WithoutKeeps DEF Lists
<1>2. Has(Without(old, n), m) <=> Has(old, m)
  BY WithoutKeeps DEF Lists
<1> QED
  BY <1>1, <1>2

-----------------------------------------------------------------------------
(* What a step does to the control.                                        *)
\* The operation of another writer stays as it is.
Untouched(v) ==
    /\ op'[v] = op[v] /\ at'[v] = at[v] /\ list'[v] = list[v]
    /\ active'[v] = active[v] /\ alone'[v] = alone[v] /\ before'[v] = before[v]

\* An operation goes on to a stage: only its list and selection may change with it; ...
Goes(w, stage) ==
    /\ Domains' /\ \A v \in Writers \ {w} : Untouched(v)
    /\ at'[w] = stage /\ op' = op /\ alone' = alone /\ before' = before

\* ... or it ends, and everything about it is forgotten.
Ends(w, outcome) ==
    /\ Domains' /\ \A v \in Writers \ {w} : Untouched(v)
    /\ at'[w] = outcome /\ op'[w] = Nothing /\ list'[w] = << >>
    /\ active'[w] = None /\ alone'[w] = TRUE /\ before'[w] = << >>

\* An operation goes on to a stage.
LEMMA Going ==
    ASSUME Domains, NEW w \in Writers, NEW stage, Go(w, stage)
    PROVE  /\ UNCHANGED <<list, active>> => Goes(w, stage)
           /\ \A l : list' = [list EXCEPT ![w] = l] /\ UNCHANGED active =>
                 Goes(w, stage) /\ list'[w] = l
           /\ \A a : active' = [active EXCEPT ![w] = a] /\ UNCHANGED list =>
                 Goes(w, stage) /\ active'[w] = a
<1>1. /\ Local(at)' /\ at'[w] = stage /\ \A v \in Writers \ {w} : at'[v] = at[v]
      /\ op' = op /\ alone' = alone /\ before' = before
  BY DEF Domains, Local, Go
<1>2. \A l : list' = [list EXCEPT ![w] = l] =>
         Local(list)' /\ list'[w] = l /\ \A v \in Writers \ {w} : list'[v] = list[v]
  BY DEF Domains, Local
<1>3. \A a : active' = [active EXCEPT ![w] = a] =>
         Local(active)' /\ active'[w] = a /\ \A v \in Writers \ {w} : active'[v] = active[v]
  BY DEF Domains, Local
<1>4. Local(op)' /\ Local(before)' /\ alone' \in [Writers -> BOOLEAN]
  BY <1>1 DEF Domains, Local
<1>5. (UNCHANGED list => Local(list)') /\ (UNCHANGED active => Local(active)')
  BY DEF Domains, Local
<1> QED
  BY <1>1, <1>2, <1>3, <1>4, <1>5 DEF Domains, Goes, Untouched

\* Operations end, and nothing of them is left.
LEMMA Forgetting ==
    ASSUME Domains, NEW ws \in SUBSET Writers, NEW outcome, Forget(ws, outcome)
    PROVE  /\ Domains'
           /\ \A v \in Writers \ ws : Untouched(v)
           /\ \A v \in ws : /\ at'[v] = outcome /\ op'[v] = Nothing /\ list'[v] = << >>
                            /\ active'[v] = None /\ alone'[v] = TRUE /\ before'[v] = << >>
<1>1. alone' \in [Writers -> BOOLEAN]
  BY DEF Forget, Domains
<1>2. \A v \in Writers : alone'[v] = (v \in ws \/ alone[v])
  BY DEF Forget
<1>3. \A v \in Writers \ ws : alone'[v] = alone[v]
  BY <1>2 DEF Domains
<1>4. \A v \in ws : alone'[v] = TRUE
  BY <1>2
<1>5. Local(op)' /\ Local(at)' /\ Local(list)' /\ Local(active)' /\ Local(before)'
  BY DEF Forget, Local
<1>6. \A v \in Writers \ ws : /\ op'[v] = op[v] /\ at'[v] = at[v] /\ list'[v] = list[v]
                              /\ active'[v] = active[v] /\ before'[v] = before[v]
  BY DEF Forget
<1>7. \A v \in ws : /\ at'[v] = outcome /\ op'[v] = Nothing /\ list'[v] = << >>
                    /\ active'[v] = None /\ before'[v] = << >>
  BY DEF Forget
<1>8. Domains'
  BY <1>1, <1>5 DEF Domains
<1>9. \A v \in Writers \ ws : Untouched(v)
  BY <1>3, <1>6 DEF Untouched
<1> QED
  BY <1>4, <1>7, <1>8, <1>9

\* One operation ends.
LEMMA Ending ==
    ASSUME Domains, NEW w \in Writers, NEW outcome, Forget({w}, outcome)
    PROVE  Ends(w, outcome)
  BY Forgetting DEF Ends

-----------------------------------------------------------------------------
(* What each step does, in terms of Goes and Ends.                         *)
LEMMA SetKeyDoes ==
    ASSUME Domains, NEW w \in Writers, SetKey(w)
    PROVE  /\ at[w] = "set_key" /\ UNCHANGED <<providers, selection, left, count>>
           /\ \/ /\ Goes(w, "load") /\ secrets' = secrets \cup {op[w].name}
                 /\ UNCHANGED <<list, active, calm>>
              \/ Ends(w, "failed") /\ calm' = FALSE /\ UNCHANGED secrets
<1>1. Go(w, "load") /\ UNCHANGED <<list, active>> => Goes(w, "load")
  BY Going
<1>2. Forget({w}, "failed") => Ends(w, "failed")
  BY Ending
<1> QED
  BY <1>1, <1>2 DEF SetKey, At, Fail

LEMMA LoadChangeDoes ==
    ASSUME Domains, NEW w \in Writers, LoadChange(w)
    PROVE  /\ at[w] = "load" /\ op[w].kind # "prompt" /\ UNCHANGED <<files, count>>
           /\ \/ /\ providers # Torn
                 /\ op[w].kind = "add" \/ Has(providers, op[w].name)
                 /\ Goes(w, "open") /\ list'[w] = Changed(op[w], providers)
                 /\ UNCHANGED <<active, calm>>
              \/ /\ providers # Torn
                 /\ op[w].kind # "add" /\ ~Has(providers, op[w].name)
                 /\ Ends(w, "failed") /\ UNCHANGED calm
              \/ /\ providers = Torn /\ op[w].kind = "add" /\ w \in Sessions
                 /\ Goes(w, "open") /\ list'[w] = <<Agent(op[w].name, op[w].enabled)>>
                 /\ UNCHANGED <<active, calm>>
              \/ /\ providers = Torn
                 /\ Ends(w, "failed") /\ calm' = FALSE
<1>1. ASSUME NEW l, Go(w, "open"), list' = [list EXCEPT ![w] = l], UNCHANGED active
      PROVE  Goes(w, "open") /\ list'[w] = l
  BY <1>1, Going
<1>2. Forget({w}, "failed") => Ends(w, "failed")
  BY Ending
<1> QED
  BY <1>1, <1>2 DEF LoadChange, At, Refuse, Fail

LEMMA OpenDoes ==
    ASSUME Domains, NEW w \in Writers, Open(w)
    PROVE  /\ at[w] = "open" /\ UNCHANGED <<selection, secrets, left, count>>
           /\ \/ Goes(w, "write") /\ providers' = Torn /\ UNCHANGED <<list, active, calm>>
              \/ Ends(w, "failed") /\ calm' = FALSE /\ UNCHANGED providers
<1>1. Go(w, "write") /\ UNCHANGED <<list, active>> => Goes(w, "write")
  BY Going
<1>2. Forget({w}, "failed") => Ends(w, "failed")
  BY Ending
<1> QED
  BY <1>1, <1>2 DEF Open, At, Fail

LEMMA WriteDoes ==
    ASSUME Domains, NEW w \in Writers, Write(w)
    PROVE  /\ at[w] = "write" /\ UNCHANGED <<selection, secrets, left, count>>
           /\ \/ /\ providers' = list[w] \/ (providers' = Torn /\ providers # Torn)
                 /\ w = CommandLine /\ Ends(w, "ok") /\ UNCHANGED calm
              \/ /\ providers' = list[w] \/ (providers' = Torn /\ providers # Torn)
                 /\ w \in Sessions /\ Goes(w, AfterSave(op[w]))
                 /\ active'[w] = IF op[w].kind = "set_active" THEN op[w].name ELSE None
                 /\ UNCHANGED <<list, calm>>
              \/ /\ providers' \in {list[w], Torn, providers}
                 /\ Ends(w, "failed") /\ calm' = FALSE
<1> DEFINE a == IF op[w].kind = "set_active" THEN op[w].name ELSE None
<1>1. Go(w, AfterSave(op[w])) /\ active' = [active EXCEPT ![w] = a] /\ UNCHANGED list =>
         Goes(w, AfterSave(op[w])) /\ active'[w] = a
  BY Going
<1>2. \A outcome : Forget({w}, outcome) => Ends(w, outcome)
  BY Ending
<1> QED
  BY <1>1, <1>2 DEF Write, At, Succeed, Fail, Written, Unwritten

LEMMA DeleteKeyDoes ==
    ASSUME Domains, NEW w \in Writers, DeleteKey(w)
    PROVE  /\ at[w] = "delete_key" /\ UNCHANGED <<providers, selection, count, list, active>>
           /\ secrets' \in {secrets, secrets \ {op[w].name}}
           /\ left' = (left \ {op[w].name}) \cup (secrets' \cap {op[w].name})
           /\ calm' = (calm /\ op[w].name \notin secrets')
           /\ Goes(w, "load_selection")
<1>1. Go(w, "load_selection") /\ UNCHANGED <<list, active>> => Goes(w, "load_selection")
  BY Going
<1> QED
  BY <1>1 DEF DeleteKey, At

LEMMA LoadSelectionDoes ==
    ASSUME Domains, NEW w \in Writers, LoadSelection(w)
    PROVE  /\ at[w] = "load_selection" /\ UNCHANGED <<files, count>>
           /\ \/ selection = Torn /\ Ends(w, "failed") /\ calm' = FALSE
              \/ /\ selection # Torn /\ Clears(op[w]) /\ selection = op[w].name
                 /\ Goes(w, "open_selection") /\ UNCHANGED <<list, active, calm>>
              \/ /\ selection # Torn /\ ~(Clears(op[w]) /\ selection = op[w].name)
                 /\ Goes(w, "list_providers") /\ UNCHANGED <<list, active, calm>>
<1>1. ASSUME NEW stage, Go(w, stage), UNCHANGED <<list, active>> PROVE Goes(w, stage)
  BY <1>1, Going
<1>2. Forget({w}, "failed") => Ends(w, "failed")
  BY Ending
<1> QED
  BY <1>1, <1>2 DEF LoadSelection, At, Fail

LEMMA OpenSelectionDoes ==
    ASSUME Domains, NEW w \in Writers, OpenSelection(w)
    PROVE  /\ at[w] = "open_selection" /\ UNCHANGED <<providers, secrets, left, count>>
           /\ \/ Goes(w, "write_selection") /\ selection' = Torn /\ UNCHANGED <<list, active, calm>>
              \/ Ends(w, "failed") /\ calm' = FALSE /\ UNCHANGED selection
<1>1. Go(w, "write_selection") /\ UNCHANGED <<list, active>> => Goes(w, "write_selection")
  BY Going
<1>2. Forget({w}, "failed") => Ends(w, "failed")
  BY Ending
<1> QED
  BY <1>1, <1>2 DEF OpenSelection, At, Fail

LEMMA WriteSelectionDoes ==
    ASSUME Domains, NEW w \in Writers, WriteSelection(w)
    PROVE  /\ at[w] = "write_selection" /\ UNCHANGED <<providers, secrets, left, count>>
           /\ \/ /\ selection' = active[w] \/ (selection' = Torn /\ selection # Torn)
                 /\ Goes(w, "list_providers") /\ UNCHANGED <<list, active, calm>>
              \/ /\ selection' \in {active[w], Torn, selection}
                 /\ Ends(w, "failed") /\ calm' = FALSE
<1>1. Go(w, "list_providers") /\ UNCHANGED <<list, active>> => Goes(w, "list_providers")
  BY Going
<1>2. Forget({w}, "failed") => Ends(w, "failed")
  BY Ending
<1> QED
  BY <1>1, <1>2 DEF WriteSelection, At, Fail, Written, Unwritten

LEMMA ListProvidersDoes ==
    ASSUME Domains, NEW w \in Writers, ListProviders(w)
    PROVE  /\ at[w] = "list_providers" /\ UNCHANGED <<files, count>>
           /\ \/ providers = Torn /\ Ends(w, "failed") /\ calm' = FALSE
              \/ /\ providers # Torn /\ Goes(w, "list_selection") /\ list'[w] = providers
                 /\ UNCHANGED <<active, calm>>
<1>1. Go(w, "list_selection") /\ list' = [list EXCEPT ![w] = providers] /\ UNCHANGED active =>
         Goes(w, "list_selection") /\ list'[w] = providers
  BY Going
<1>2. Forget({w}, "failed") => Ends(w, "failed")
  BY Ending
<1> QED
  BY <1>1, <1>2 DEF ListProviders, At, Fail

LEMMA ListSelectionDoes ==
    ASSUME Domains, NEW w \in Writers, ListSelection(w)
    PROVE  /\ at[w] = "list_selection" /\ UNCHANGED <<files, count>>
           /\ \/ selection = Torn /\ Ends(w, "failed") /\ calm' = FALSE
              \/ selection # Torn /\ Ends(w, "ok") /\ UNCHANGED calm
<1>1. ASSUME NEW outcome, Forget({w}, outcome) PROVE Ends(w, outcome)
  BY <1>1, Ending
<1> QED
  BY <1>1 DEF ListSelection, At, Fail, Succeed

LEMMA LoadForPromptDoes ==
    ASSUME Domains, NEW w \in Writers, LoadForPrompt(w)
    PROVE  /\ at[w] = "load" /\ op[w].kind = "prompt" /\ UNCHANGED <<files, count>>
           /\ \/ providers = Torn /\ Ends(w, "failed") /\ calm' = FALSE
              \/ /\ providers # Torn /\ Goes(w, "resolve") /\ list'[w] = providers
                 /\ UNCHANGED <<active, calm>>
<1>1. Go(w, "resolve") /\ list' = [list EXCEPT ![w] = providers] /\ UNCHANGED active =>
         Goes(w, "resolve") /\ list'[w] = providers
  BY Going
<1>2. Forget({w}, "failed") => Ends(w, "failed")
  BY Ending
<1> QED
  BY <1>1, <1>2 DEF LoadForPrompt, At, Fail

LEMMA ResolveDoes ==
    ASSUME Domains, NEW w \in Writers, Resolve(w)
    PROVE  /\ at[w] = "resolve" /\ UNCHANGED <<files, count>>
           /\ \/ selection = Torn /\ Ends(w, "failed") /\ calm' = FALSE
              \/ selection # Torn /\ Ends(w, "failed") /\ UNCHANGED calm
              \/ /\ selection # Torn /\ Resolves(list[w], selection)
                 /\ Ends(w, "ok") /\ UNCHANGED calm
<1>1. ASSUME NEW outcome, Forget({w}, outcome) PROVE Ends(w, outcome)
  BY <1>1, Ending
<1> QED
  BY <1>1 DEF Resolve, At, Fail, Refuse, Succeed

-----------------------------------------------------------------------------
(* Types.                                                                  *)
\* The types hold if they hold of the files and of the writer that took a step.
LEMMA TypesFrame ==
    ASSUME Types, NEW w \in Writers, Domains', \A v \in Writers \ {w} : Untouched(v),
           FilesTyped', WriterTyped(w)', calm' \in BOOLEAN, ops' \in Nat, deaths' \in Nat
    PROVE  Types'
<1>1. ASSUME NEW v \in Writers \ {w} PROVE WriterTyped(v)'
  BY <1>1 DEF Types, WriterTyped, Untouched
<1> QED
  BY <1>1 DEF Types

\* A writer that is idle has the operation of an idle writer.
LEMMA NothingTyped ==
    ASSUME NEW w, NEW stage \in Idle PROVE Belongs(w, stage, Nothing)
  BY DEF Belongs, Nothing, Operations, Reads, Idle

\* The types of a writer that ended.
LEMMA EndTyped ==
    ASSUME NEW w \in Writers, NEW outcome \in {"ok", "failed"}, Ends(w, outcome)
    PROVE  WriterTyped(w)' /\ Domains' /\ \A v \in Writers \ {w} : Untouched(v)
<1>1. << >> \in Lists /\ Unique(<< >>)
  BY DEF Lists, Unique
<1>2. Belongs(w, outcome, Nothing)
  BY NothingTyped DEF Idle
<1> QED
  BY <1>1, <1>2 DEF Ends, WriterTyped, Idle

\* A step of a writer keeps the types.
LEMMA StepTypes ==
    ASSUME Types, NEW w \in Writers, Step(w)
    PROVE  Types'
<1> DEFINE o == op[w]
<1>d. Domains /\ FilesTyped /\ WriterTyped(w) /\ calm \in BOOLEAN /\ ops \in Nat /\ deaths \in Nat
  BY DEF Types
<1>e. ASSUME NEW outcome \in {"ok", "failed"}, Ends(w, outcome), FilesTyped', calm' \in BOOLEAN,
             UNCHANGED count
      PROVE  Types'
  BY <1>d, <1>e, EndTyped, TypesFrame DEF count
<1>g. ASSUME NEW stage \in Stages, Goes(w, stage), Belongs(w, stage, o), FilesTyped',
             list'[w] \in Lists, Unique(list'[w]), active'[w] \in Names \cup {None},
             calm' \in BOOLEAN, UNCHANGED count
      PROVE  Types'
  <2>1. WriterTyped(w)'
    BY <1>g DEF Goes, WriterTyped
  <2> QED
    BY <1>d, <1>g, <2>1, TypesFrame DEF Goes, count
<1>l. /\ list[w] \in Lists /\ Unique(list[w]) /\ active[w] \in Names \cup {None}
      /\ at[w] \in Stages \cup Idle /\ Belongs(w, at[w], o)
  BY <1>d DEF WriterTyped
<1>c. CommandLine \notin Sessions
  BY StoresAssumption
<1>n. o \in Operations /\ (o.kind \in Changes => o.name \in Names)
  BY <1>l, ChangesName DEF Belongs
<1> HIDE DEF o
<1>1. CASE SetKey(w)
  <2>1. o.kind = "add" /\ o.key /\ w # CommandLine
    BY <1>1, <1>d, <1>l, SetKeyDoes DEF Belongs, Idle
  <2>2. FilesTyped'
    BY <1>1, <1>d, <1>n, <2>1, SetKeyDoes DEF FilesTyped, Changes, o
  <2>3. Belongs(w, "load", o)
    BY <1>n, <2>1 DEF Belongs, Changes
  <2> QED
    BY <1>1, <1>d, <1>e, <1>g, <1>l, <2>2, <2>3, SetKeyDoes DEF Stages
<1>2. CASE LoadChange(w)
  <2>1. at[w] = "load" /\ o.kind # "prompt" /\ UNCHANGED <<files, count>>
    BY <1>2, <1>d, LoadChangeDoes DEF o
  <2>2. o.kind \in Changes /\ (w = CommandLine => o.kind = "add" /\ ~o.key)
    BY <1>l, <2>1 DEF Belongs, Idle
  <2>3. Belongs(w, "open", o)
    BY <1>n, <2>2 DEF Belongs
  <2>4. FilesTyped'
    BY <1>d, <2>1 DEF FilesTyped, files
  <2>5. CASE /\ providers # Torn
             /\ o.kind = "add" \/ Has(providers, o.name)
             /\ Goes(w, "open") /\ list'[w] = Changed(o, providers)
             /\ UNCHANGED <<active, calm>>
    <3>1. providers \in Lists /\ Unique(providers)
      BY <1>d, <2>5 DEF FilesTyped
    <3>2. list'[w] \in Lists /\ Unique(list'[w])
      BY <1>n, <2>2, <2>5, <3>1, ChangedSaves DEF Saves
    <3> QED
      BY <1>d, <1>g, <1>l, <2>1, <2>3, <2>4, <2>5, <3>2 DEF Stages
  <2>6. CASE /\ providers = Torn /\ o.kind = "add" /\ w \in Sessions
             /\ Goes(w, "open") /\ list'[w] = <<Agent(o.name, o.enabled)>>
             /\ UNCHANGED <<active, calm>>
    <3>1. list'[w] \in Lists /\ Unique(list'[w])
      BY <1>n, <2>6, AfreshSaves DEF Saves
    <3> QED
      BY <1>d, <1>g, <1>l, <2>1, <2>3, <2>4, <2>6, <3>1 DEF Stages
  <2>7. CASE Ends(w, "failed") /\ calm' \in BOOLEAN
    BY <1>e, <2>1, <2>4, <2>7
  <2> QED
    BY <1>2, <1>d, <2>5, <2>6, <2>7, LoadChangeDoes DEF o
<1>3. CASE Open(w)
  <2>1. at[w] = "open" /\ UNCHANGED <<selection, secrets, count>>
    BY <1>3, <1>d, OpenDoes
  <2>2. FilesTyped'
    BY <1>3, <1>d, OpenDoes DEF FilesTyped
  <2>3. Belongs(w, "write", o)
    BY <1>l, <2>1 DEF Belongs, Idle
  <2> QED
    BY <1>3, <1>d, <1>e, <1>g, <1>l, <2>1, <2>2, <2>3, OpenDoes DEF Stages
<1>4. CASE Write(w)
  <2>1. at[w] = "write" /\ UNCHANGED <<selection, secrets, left, count>>
    BY <1>4, <1>d, WriteDoes
  <2>2. o.kind \in Changes
    BY <1>l, <2>1 DEF Belongs
  <2>3. FilesTyped'
    BY <1>4, <1>d, <1>l, WriteDoes DEF FilesTyped
  <2>4. CASE w = CommandLine /\ Ends(w, "ok") /\ UNCHANGED calm
    BY <1>d, <1>e, <2>1, <2>3, <2>4
  <2>6. CASE Ends(w, "failed") /\ calm' = FALSE
    BY <1>e, <2>1, <2>3, <2>6
  <2>5. CASE /\ w \in Sessions /\ Goes(w, AfterSave(op[w]))
             /\ active'[w] = IF op[w].kind = "set_active" THEN op[w].name ELSE None
             /\ UNCHANGED <<list, calm>>
    <3>1. active'[w] \in Names \cup {None}
      BY <1>n, <2>2, <2>5 DEF o
    <3>2. AfterSave(o) \in Stages /\ Belongs(w, AfterSave(o), o)
      BY <1>c, <1>n, <2>2, <2>5 DEF AfterSave, Stages, Belongs, Changes
    <3> QED
      BY <1>d, <1>g, <1>l, <2>1, <2>3, <2>5, <3>1, <3>2 DEF o
  <2> QED
    BY <1>4, <1>d, <2>4, <2>5, <2>6, WriteDoes
<1>5. CASE DeleteKey(w)
  <2>1. /\ at[w] = "delete_key" /\ UNCHANGED <<providers, selection, count, list, active>>
        /\ Goes(w, "load_selection") /\ calm' \in BOOLEAN
        /\ secrets' \in {secrets, secrets \ {op[w].name}}
        /\ left' = (left \ {op[w].name}) \cup (secrets' \cap {op[w].name})
    BY <1>5, <1>d, DeleteKeyDoes
  <2>2. FilesTyped'
    BY <1>d, <2>1 DEF FilesTyped
  <2>3. Belongs(w, "load_selection", o)
    BY <1>l, <2>1 DEF Belongs, Idle
  <2> QED
    BY <1>g, <1>l, <2>1, <2>2, <2>3 DEF Stages
<1>6. CASE LoadSelection(w)
  <2>1. at[w] = "load_selection" /\ UNCHANGED <<files, count>>
    BY <1>6, <1>d, LoadSelectionDoes
  <2>2. FilesTyped'
    BY <1>d, <2>1 DEF FilesTyped, files
  <2>3. Belongs(w, "open_selection", o) /\ Belongs(w, "list_providers", o)
    BY <1>l, <2>1 DEF Belongs, Idle, Changes
  <2> QED
    BY <1>6, <1>d, <1>e, <1>g, <1>l, <2>1, <2>2, <2>3, LoadSelectionDoes DEF Stages
<1>7. CASE OpenSelection(w)
  <2>1. at[w] = "open_selection" /\ UNCHANGED <<providers, secrets, count>>
    BY <1>7, <1>d, OpenSelectionDoes
  <2>2. FilesTyped'
    BY <1>7, <1>d, OpenSelectionDoes DEF FilesTyped
  <2>3. Belongs(w, "write_selection", o)
    BY <1>l, <2>1 DEF Belongs, Idle
  <2> QED
    BY <1>7, <1>d, <1>e, <1>g, <1>l, <2>1, <2>2, <2>3, OpenSelectionDoes DEF Stages
<1>8. CASE WriteSelection(w)
  <2>1. at[w] = "write_selection" /\ UNCHANGED <<providers, secrets, left, count>>
    BY <1>8, <1>d, WriteSelectionDoes
  <2>2. FilesTyped'
    BY <1>8, <1>d, <1>l, WriteSelectionDoes DEF FilesTyped
  <2>3. Belongs(w, "list_providers", o)
    BY <1>l, <2>1 DEF Belongs, Idle, Changes
  <2>4. CASE Goes(w, "list_providers") /\ UNCHANGED <<list, active, calm>>
    BY <1>d, <1>g, <1>l, <2>1, <2>2, <2>3, <2>4 DEF Stages
  <2>5. CASE Ends(w, "failed") /\ calm' = FALSE
    BY <1>e, <2>1, <2>2, <2>5
  <2> QED
    BY <1>8, <1>d, <2>4, <2>5, WriteSelectionDoes
<1>9. CASE ListProviders(w)
  <2>1. at[w] = "list_providers" /\ UNCHANGED <<files, count>>
    BY <1>9, <1>d, ListProvidersDoes
  <2>2. FilesTyped'
    BY <1>d, <2>1 DEF FilesTyped, files
  <2>3. Belongs(w, "list_selection", o)
    BY <1>l, <2>1 DEF Belongs, Idle
  <2>4. providers # Torn => providers \in Lists /\ Unique(providers)
    BY <1>d DEF FilesTyped
  <2> QED
    BY <1>9, <1>d, <1>e, <1>g, <1>l, <2>1, <2>2, <2>3, <2>4, ListProvidersDoes DEF Stages
<1>10. CASE ListSelection(w)
  <2>1. UNCHANGED <<files, count>>
    BY <1>10, <1>d, ListSelectionDoes
  <2>2. FilesTyped'
    BY <1>d, <2>1 DEF FilesTyped, files
  <2> QED
    BY <1>10, <1>d, <1>e, <2>1, <2>2, ListSelectionDoes
<1>11. CASE LoadForPrompt(w)
  <2>1. at[w] = "load" /\ op[w].kind = "prompt" /\ UNCHANGED <<files, count>>
    BY <1>11, <1>d, LoadForPromptDoes
  <2>2. FilesTyped'
    BY <1>d, <2>1 DEF FilesTyped, files
  <2>3. Belongs(w, "resolve", o)
    BY <1>l, <2>1 DEF Belongs, Idle, o
  <2>4. providers # Torn => providers \in Lists /\ Unique(providers)
    BY <1>d DEF FilesTyped
  <2> QED
    BY <1>11, <1>d, <1>e, <1>g, <1>l, <2>1, <2>2, <2>3, <2>4, LoadForPromptDoes DEF Stages
<1>12. CASE Resolve(w)
  <2>1. UNCHANGED <<files, count>>
    BY <1>12, <1>d, ResolveDoes
  <2>2. FilesTyped'
    BY <1>d, <2>1 DEF FilesTyped, files
  <2> QED
    BY <1>12, <1>d, <1>e, <2>1, <2>2, ResolveDoes
<1> QED
  BY <1>1, <1>2, <1>3, <1>4, <1>5, <1>6, <1>7, <1>8, <1>9, <1>10, <1>11, <1>12 DEF Step

\* A list of all agents holds each of them once.
LEMMA AllListed ==
    LET q == SetToSeq({Agent(name, TRUE) : name \in Names})
    IN  q \in Lists /\ Unique(q) /\ \A name \in Names : Has(q, name)
<1> DEFINE S == {Agent(name, TRUE) : name \in Names}
           q == SetToSeq(S)
           f == [name \in Names |-> Agent(name, TRUE)]
           c == Cardinality(S)
<1> DEFINE T == [name : Names, enabled : BOOLEAN]
<1>1. S \subseteq T
  <2>1. \A name \in Names : Agent(name, TRUE) \in T
    BY DEF Agent
  <2> QED
    BY <2>1
<1>b. ASSUME NEW x \in S, NEW y \in S, x.name = y.name PROVE x = y
  <2>1. PICK n \in Names : x = Agent(n, TRUE)
    OBVIOUS
  <2>2. PICK m \in Names : y = Agent(m, TRUE)
    OBVIOUS
  <2>3. x.name = n /\ y.name = m
    BY <2>1, <2>2 DEF Agent
  <2> QED
    BY <1>b, <2>1, <2>2, <2>3
<1>a. \A name \in Names : Agent(name, TRUE) \in S /\ Agent(name, TRUE).name = name
  BY DEF Agent
<1>2. IsFiniteSet(S)
  <2>1. f \in Surjection(Names, S)
    BY DEF Surjection
  <2> QED
    BY <2>1, StoresAssumption, FS_Surjection
<1> HIDE DEF S
<1>3. c \in Nat /\ ExistsBijection(1 .. c, S)
  BY <1>2, FS_CardinalityType
<1>4. q \in [1 .. c -> S] /\ IsInjective(q)
  <2>1. \E g \in [1 .. c -> S] : IsInjective(g)
    BY <1>3 DEF ExistsBijection, Bijection, Injection
  <2> QED
    BY <2>1 DEF SetToSeq
<1>5. q \in Surjection(1 .. c, S)
  <2>1. q \in Injection(1 .. c, S)
    BY <1>4 DEF Injection
  <2>2. Cardinality(1 .. c) = c
    BY <1>3, FS_Interval
  <2> HIDE DEF q
  <2> QED
    BY <1>2, <2>1, <2>2, FS_Injection
<1> HIDE DEF q, c, T
<1>6. q \in Seq(T) /\ DOMAIN q = 1 .. c
  <2>1. q \in [1 .. c -> T]
    BY <1>1, <1>4
  <2> QED
    BY <1>3, <2>1, SeqDef
<1>7. Unique(q)
  BY <1>b, <1>4, <1>6 DEF Unique, IsInjective
<1>8. ASSUME NEW name \in Names PROVE Has(q, name)
  <2>1. PICK i \in 1 .. c : q[i] = Agent(name, TRUE)
    BY <1>5, <1>a DEF Surjection
  <2> QED
    BY <1>6, <1>a, <2>1 DEF Has
<1> QED
  BY <1>6, <1>7, <1>8 DEF q, S, T, Lists

\* The list of a missing file.
LEMMA EmptyList == << >> \in Lists /\ Unique(<< >>)
  BY DEF Lists, Unique

\* The stores fit at first.
LEMMA InitFiles ==
    ASSUME Init
    PROVE  /\ providers \in Lists /\ Unique(providers)
           /\ selection = None \/ (selection \in Names /\ Has(providers, selection))
           /\ \A m \in secrets : m \in Names /\ Has(providers, m)
  BY EmptyList, AllListed DEF Init

\* The types hold at first.
LEMMA InitTypes == Init => Types
<1> SUFFICES ASSUME Init PROVE Types
  OBVIOUS
<1>1. Domains
  BY DEF Init, Domains, Local
<1>2. FilesTyped
  <2>1. left = {}
    BY DEF Init
  <2> QED
    BY <2>1, InitFiles DEF FilesTyped
<1>3. ASSUME NEW w \in Writers PROVE WriterTyped(w)
  <2>1. at[w] = "idle" /\ op[w] = Nothing /\ list[w] = << >> /\ active[w] = None
    BY <1>3 DEF Init
  <2> QED
    BY <2>1, EmptyList, NothingTyped DEF WriterTyped, Idle
<1> QED
  BY <1>1, <1>2, <1>3 DEF Types, Init

-----------------------------------------------------------------------------
(* An operation begins; a process dies.                                    *)
\* What is changed when an operation begins: everybody busy knows that it overlaps.
LEMMA BeginDoes ==
    ASSUME Types, NEW w \in Writers, Begin(w)
    PROVE  /\ at[w] \in Idle /\ UNCHANGED <<files, list, active, deaths>> /\ Domains'
           /\ op'[w] \in Offered(w) /\ at'[w] = FirstStage(op'[w]) /\ before'[w] = Now
           /\ \A v \in Writers \ {w} : op'[v] = op[v] /\ at'[v] = at[v] /\ before'[v] = before[v]
           /\ \A v \in Writers : alone'[v] = IF v \in Busy \cup {w} THEN Busy = {} ELSE alone[v]
           /\ calm' = (calm /\ Busy = {})
           /\ ops' = ops + 1
<1> Domains
  BY DEF Types
<1>1. PICK o \in Offered(w) : op' = [op EXCEPT ![w] = o] /\ at' = [at EXCEPT ![w] = FirstStage(o)]
  BY DEF Begin
<1>2. op'[w] = o /\ at'[w] = FirstStage(o) /\ before'[w] = Now
  BY <1>1 DEF Domains, Local, Begin
<1>3. \A v \in Writers \ {w} : op'[v] = op[v] /\ at'[v] = at[v] /\ before'[v] = before[v]
  BY <1>1 DEF Domains, Local, Begin
<1>4. alone' = [v \in Writers |-> IF v \in Busy \cup {w} THEN Busy = {} ELSE alone[v]]
  BY DEF Begin
<1>5. alone' \in [Writers -> BOOLEAN]
  BY <1>4 DEF Domains
<1>6. \A v \in Writers : alone'[v] = IF v \in Busy \cup {w} THEN Busy = {} ELSE alone[v]
  BY <1>4
<1>7. Domains'
  BY <1>1, <1>5 DEF Domains, Local, Begin
<1> QED
  BY <1>2, <1>3, <1>6, <1>7 DEF Begin

\* What is begun is an operation of that writer.
LEMMA BegunBelongs ==
    ASSUME NEW w \in Writers, NEW o \in Offered(w)
    PROVE  Belongs(w, FirstStage(o), o) /\ FirstStage(o) \in {"set_key", "load", "list_providers"}
<1>1. /\ o \in Operations /\ o.kind \in Changes \cup Reads
      /\ w = CommandLine => o.kind = "add" /\ ~o.key
  BY DEF Offered, Operations, Changes, Reads
<1>2. FirstStage(o) = IF o.kind = "add" /\ o.key THEN "set_key"
                      ELSE IF o.kind = "list" THEN "list_providers" ELSE "load"
  BY DEF FirstStage
<1> QED
  BY <1>1, <1>2 DEF Belongs, Changes, Reads, Idle

\* An operation that begins keeps the types.
LEMMA BeginTypes ==
    ASSUME Types, NEW w \in Writers, Begin(w)
    PROVE  Types'
<1>a. Domains' /\ ops' \in Nat /\ deaths' \in Nat
  BY BeginDoes DEF Types
<1>b. FilesTyped'
  BY BeginDoes DEF Types, FilesTyped, files
<1>c. calm' \in BOOLEAN
  BY BeginDoes
<1>1. Domains' /\ ops' \in Nat /\ deaths' \in Nat /\ calm' \in BOOLEAN /\ FilesTyped'
  BY <1>a, <1>b, <1>c
<1>2. ASSUME NEW v \in Writers \ {w} PROVE WriterTyped(v)'
  BY <1>2, BeginDoes DEF Types, WriterTyped
<1>3. WriterTyped(w)'
  <2>1. Belongs(w, at'[w], op'[w]) /\ at'[w] \in Stages
    BY BeginDoes, BegunBelongs DEF Stages
  <2> QED
    BY <2>1, BeginDoes DEF Types, WriterTyped
<1> QED
  BY <1>1, <1>2, <1>3 DEF Types

\* A process dies: its operations are forgotten, the stores are not.
LEMMA DiesDoes ==
    ASSUME Types, Dies
    PROVE  /\ Domains' /\ calm' = FALSE /\ UNCHANGED <<files, ops>> /\ deaths' = deaths + 1
           /\ \A v \in Writers :
                 \/ Untouched(v)
                 \/ /\ v \in Busy /\ at'[v] = "failed" /\ op'[v] = Nothing /\ list'[v] = << >>
                    /\ active'[v] = None /\ alone'[v] = TRUE
<1>1. PICK ws \in SUBSET Busy : Forget(ws, "failed")
  BY DEF Dies
<1>2. Domains /\ ws \in SUBSET Writers
  BY DEF Types, Busy
<1> QED
  BY <1>1, <1>2, Forgetting DEF Dies

\* A death keeps the types.
LEMMA DiesTypes ==
    ASSUME Types, Dies
    PROVE  Types'
<1>0. Domains' /\ calm' = FALSE /\ ops' = ops /\ deaths' = deaths + 1 /\ UNCHANGED files
  BY DiesDoes
<1>c. ops' \in Nat /\ deaths' \in Nat
  BY <1>0 DEF Types
<1>a. Domains' /\ ops' \in Nat /\ deaths' \in Nat /\ calm' \in BOOLEAN
  BY <1>0, <1>c, Zenon
<1>b. FilesTyped'
  BY <1>0 DEF Types, FilesTyped, files
<1>1. Domains' /\ ops' \in Nat /\ deaths' \in Nat /\ calm' \in BOOLEAN /\ FilesTyped'
  BY <1>a, <1>b
<1>2. ASSUME NEW v \in Writers PROVE WriterTyped(v)'
  <2>1. CASE Untouched(v)
    BY <2>1 DEF Types, WriterTyped, Untouched
  <2>2. CASE at'[v] = "failed" /\ op'[v] = Nothing /\ list'[v] = << >> /\ active'[v] = None
    BY <2>2, EmptyList, NothingTyped DEF WriterTyped, Idle
  <2> QED
    BY <2>1, <2>2, DiesDoes
<1> QED
  BY <1>1, <1>2 DEF Types

\* Every step keeps the types.
LEMMA TypesKept == Types /\ [Next]_vars => Types'
<1> SUFFICES ASSUME Types, [Next]_vars PROVE Types'
  OBVIOUS
<1>1. CASE Dies
  BY <1>1, DiesTypes
<1>2. ASSUME NEW w \in Writers, Begin(w) PROVE Types'
  BY <1>2, BeginTypes
<1>3. ASSUME NEW w \in Writers, Step(w) PROVE Types'
  BY <1>3, StepTypes
<1>4. CASE UNCHANGED vars
  BY <1>4 DEF vars, files, local, count, Types, Domains, FilesTyped, WriterTyped
<1> QED
  BY <1>1, <1>2, <1>3, <1>4 DEF Next

\* The files, the local state and the outcomes of the operations have their types.
THEOREM TypeCorrect == Spec => []TypeOK
<1>1. ASSUME Types PROVE TypeOK
  <2>1. /\ Local(op) /\ Local(list) /\ Local(active) /\ alone \in [Writers -> BOOLEAN]
        /\ \A w \in Writers : op[w] \in Operations /\ list[w] \in Lists
                              /\ active[w] \in Names \cup {None}
    BY <1>1 DEF Types, Domains, WriterTyped, Belongs
  <2>2. op \in [Writers -> Operations] /\ list \in [Writers -> Lists]
        /\ active \in [Writers -> Names \cup {None}]
    BY <2>1 DEF Local
  <2> QED
    BY <1>1, <2>1, <2>2 DEF Types, TypeOK, FilesTyped
<1> QED
  BY <1>1, InitTypes, TypesKept, PTL DEF Spec

-----------------------------------------------------------------------------
(* Who is alone.                                                           *)

\* A step of a writer: it was busy, it goes on or ends, and nobody else moves.
LEMMA StepFrame ==
    ASSUME Types, NEW w \in Writers, Step(w)
    PROVE  /\ at[w] \in Stages
           /\ calm' => calm
           /\ \A v \in Writers \ {w} : Untouched(v)
           /\ \/ at'[w] \in {"ok", "failed"}
              \/ at'[w] \in Stages /\ op' = op /\ alone' = alone /\ before' = before
           /\ UNCHANGED count
<1> DEFINE o == op[w]
           G(stage) == Goes(w, stage) /\ stage \in Stages
           E(outcome) == Ends(w, outcome) /\ outcome \in {"ok", "failed"}
           R == /\ at[w] \in Stages /\ (calm' => calm) /\ UNCHANGED count
                /\ E("ok") \/ E("failed") \/ \E stage : G(stage)
<1>d. Domains /\ Belongs(w, at[w], o)
  BY DEF Types, WriterTyped
<1> HIDE DEF G, E
<1>g. \A stage \in Stages : Goes(w, stage) => \E s : G(s)
  BY DEF G
<1>e. (Ends(w, "ok") => E("ok")) /\ (Ends(w, "failed") => E("failed"))
  BY DEF E
<1>f. \A outcome : E(outcome) => at'[w] \in {"ok", "failed"} /\ \A v \in Writers \ {w} : Untouched(v)
  BY DEF E, Ends
<1>h. \A stage : G(stage) => /\ at'[w] \in Stages /\ op' = op /\ alone' = alone /\ before' = before
                             /\ \A v \in Writers \ {w} : Untouched(v)
  BY DEF G, Goes
<1> SUFFICES R
  BY <1>f, <1>h
<1> USE DEF Stages
<1>1. CASE SetKey(w)
  BY <1>1, <1>d, <1>e, <1>g, SetKeyDoes
<1>2. CASE LoadChange(w)
  BY <1>2, <1>d, <1>e, <1>g, LoadChangeDoes
<1>3. CASE Open(w)
  BY <1>3, <1>d, <1>e, <1>g, OpenDoes
<1>4. CASE Write(w)
  <2>1. at[w] = "write" /\ UNCHANGED count
    BY <1>4, <1>d, WriteDoes
  <2>2. AfterSave(o) \in Stages
    BY <1>d, <2>1 DEF AfterSave, Belongs, Changes
  <2> QED
    BY <1>4, <1>d, <1>e, <1>g, <2>1, <2>2, WriteDoes
<1>5. CASE DeleteKey(w)
  BY <1>5, <1>d, <1>e, <1>g, DeleteKeyDoes
<1>6. CASE LoadSelection(w)
  BY <1>6, <1>d, <1>e, <1>g, LoadSelectionDoes
<1>7. CASE OpenSelection(w)
  BY <1>7, <1>d, <1>e, <1>g, OpenSelectionDoes
<1>8. CASE WriteSelection(w)
  BY <1>8, <1>d, <1>e, <1>g, WriteSelectionDoes
<1>9. CASE ListProviders(w)
  BY <1>9, <1>d, <1>e, <1>g, ListProvidersDoes
<1>10. CASE ListSelection(w)
  BY <1>10, <1>d, <1>e, <1>g, ListSelectionDoes
<1>11. CASE LoadForPrompt(w)
  BY <1>11, <1>d, <1>e, <1>g, LoadForPromptDoes
<1>12. CASE Resolve(w)
  BY <1>12, <1>d, <1>e, <1>g, ResolveDoes
<1> QED
  BY <1>1, <1>2, <1>3, <1>4, <1>5, <1>6, <1>7, <1>8, <1>9, <1>10, <1>11, <1>12 DEF Step

\* Every step keeps it that operations that overlap know it.
LEMMA LonelyKept ==
    ASSUME Types, Lonely, [Next]_vars
    PROVE  Lonely'
<1> USE DEF Lonely, Busy
<1>1. CASE Dies
  <2>1. \A v \in Busy' : v \in Busy /\ alone'[v] = alone[v]
    BY <1>1, DiesDoes DEF Untouched, Idle
  <2> QED
    BY <1>1, <2>1, DiesDoes
<1>2. ASSUME NEW w \in Writers, Begin(w) PROVE Lonely'
  <2>1. \A v \in Busy' : v \in Busy \cup {w} /\ alone'[v] = (Busy = {})
    BY <1>2, BeginDoes
  <2>2. calm' => Busy = {}
    BY <1>2, BeginDoes
  <2> QED
    BY <2>1, <2>2
<1>3. ASSUME NEW w \in Writers, Step(w) PROVE Lonely'
  <2>1. \A v \in Busy' : v \in Busy /\ alone'[v] = alone[v]
    BY <1>3, StepFrame DEF Untouched, Idle, Stages
  <2> QED
    BY <1>3, <2>1, StepFrame
<1>4. CASE UNCHANGED vars
  BY <1>4 DEF vars, local
<1> QED
  BY <1>1, <1>2, <1>3, <1>4 DEF Next

-----------------------------------------------------------------------------
(* What an operation that is alone does.                                   *)
\* What an operation that was alone leaves behind.
Effective(w) ==
    /\ Effect(op[w], providers', selection', secrets', left')
    /\ w \in Sessions => list[w] = providers'

Spared(w) ==
    before[w].providers # Torn =>
        LET o == op[w]
            was == before[w]
        IN /\ IF providers' = Torn THEN at[w] = "write"
              ELSE Without(providers', o.name) = Without(was.providers, o.name)
           /\ \/ selection' \in {was.selection, o.name} \/ was.selection = o.name
              \/ selection' = Torn /\ at[w] = "write_selection"

\* What was saved is no torn file.
LEMMA SavedIsWhole ==
    ASSUME NEW o, NEW p, NEW old, Saves(o, p, old)
    PROVE  /\ p # Torn
           /\ old # Torn => Without(p, o.name) = Without(old, o.name)
  BY StoresAssumption DEF Saves

\* What a change saved, with the selection and the keys it left, is its effect.
LEMMA SavedHasEffect ==
    ASSUME NEW o, o.kind \in Changes, NEW p, NEW old, Saves(o, p, old), NEW s, NEW k, NEW kept,
           o.kind = "set_active" => s = o.name,
           o.kind = "delete" \/ (o.kind = "toggle" /\ ~o.enabled) => s # o.name,
           o.kind = "add" /\ o.key => o.name \in k,
           o.kind = "delete" => o.name \notin k \/ o.name \in kept,
           o.enabled \in BOOLEAN
    PROVE  Effect(o, p, s, k, kept)
<1>1. p # Torn
  BY SavedIsWhole
<1>2. CASE o.kind = "set_active"
  BY <1>1, <1>2 DEF Effect, Saves
<1>3. CASE o.kind = "toggle"
  BY <1>1, <1>3 DEF Effect, Saves
<1>4. CASE o.kind = "add"
  BY <1>1, <1>4 DEF Effect, Saves
<1>5. CASE o.kind = "delete"
  BY <1>1, <1>5 DEF Effect, Saves
<1> QED
  BY <1>2, <1>3, <1>4, <1>5 DEF Changes

\* Each step of an operation that is alone keeps what is known of its progress, and an
\* operation that ends has spared the others, and done what it is to do if it succeeds.
LEMMA StepAdvances ==
    ASSUME Types, NEW w \in Writers, Step(w), Advance(w), KeyGone(w)
    PROVE  /\ at'[w] \in Stages => Advance(w)'
           /\ at'[w] \notin Stages => Spared(w)
           /\ at'[w] = "ok" => Effective(w)
<1> DEFINE o == op[w]
           was == before[w]
           a == active[w]
           l == list[w]
           Goal == /\ at'[w] \in Stages => Advance(w)'
                   /\ at'[w] \notin Stages => Spared(w)
                   /\ at'[w] = "ok" => Effective(w)
<1>d. Domains /\ FilesTyped
  BY DEF Types
<1>b. Belongs(w, at[w], o) /\ o \in Operations
  BY DEF Types, WriterTyped, Belongs
<1>n. o.kind \in Changes => o.name \in Names /\ o.enabled \in BOOLEAN
  BY <1>b, ChangesName
<1>p. Progress(o, at[w], providers, selection, secrets, l, a, was)
  BY DEF Advance
<1>c. CommandLine \notin Sessions /\ w \in Sessions \cup {CommandLine} /\ None \notin Names
  BY StoresAssumption DEF Writers
<1>s. "ok" \notin Stages /\ "failed" \notin Stages
  BY DEF Stages
<1>g. ASSUME NEW stage \in Stages, Goes(w, stage),
             Progress(o, stage, providers', selection', secrets', list'[w], active'[w], was)
      PROVE  Goal
  BY <1>g, <1>s DEF Goes, Advance
<1>e. ASSUME Ends(w, "failed"), Spared(w) PROVE Goal
  BY <1>e, <1>s DEF Ends
<1>o. ASSUME Ends(w, "ok"), Spared(w), Effective(w) PROVE Goal
  BY <1>o, <1>s DEF Ends
<1> SUFFICES Goal
  OBVIOUS
<1> HIDE DEF Goal, o, was, a, l
<1> USE DEF Stages
<1>1. CASE SetKey(w)
  <2>1. at[w] = "set_key" /\ UNCHANGED <<providers, selection>>
    BY <1>1, <1>d, SetKeyDoes
  <2>2. /\ providers = was.providers /\ selection = was.selection
        /\ o.kind = "add"
    BY <1>b, <1>p, <2>1 DEF Progress, Belongs
  <2>3. CASE Ends(w, "failed")
    <3>1. Spared(w)
      BY <2>1, <2>2 DEF Spared, was
    <3> QED
      BY <1>e, <2>3, <3>1
  <2>4. CASE Goes(w, "load") /\ secrets' = secrets \cup {op[w].name}
    <3>1. Progress(o, "load", providers', selection', secrets', list'[w], active'[w], was)
      BY <2>1, <2>2, <2>4 DEF Progress, o
    <3> QED
      BY <1>g, <2>4, <3>1
  <2> QED
    BY <1>1, <1>d, <2>3, <2>4, SetKeyDoes
<1>2. CASE LoadChange(w)
  <2>1. at[w] = "load" /\ o.kind # "prompt" /\ UNCHANGED files
    BY <1>2, <1>d, LoadChangeDoes DEF o
  <2>2. /\ providers' = was.providers /\ selection' = was.selection /\ providers' = providers
        /\ o.kind \in Changes
        /\ o.kind = "add" /\ o.key => o.name \in secrets'
    BY <1>b, <1>p, <2>1 DEF Progress, Belongs, files
  <2>3. CASE Ends(w, "failed")
    <3>1. Spared(w)
      BY <2>1, <2>2 DEF Spared, was
    <3> QED
      BY <1>e, <2>3, <3>1
  <2>4. CASE /\ providers # Torn
             /\ o.kind = "add" \/ Has(providers, o.name)
             /\ Goes(w, "open") /\ list'[w] = Changed(o, providers)
    <3>1. providers \in Lists /\ Unique(providers)
      BY <1>d, <2>4 DEF FilesTyped
    <3>2. Saves(o, list'[w], was.providers)
      BY <1>b, <2>2, <2>4, <3>1, ChangedSaves
    <3>3. Progress(o, "open", providers', selection', secrets', list'[w], active'[w], was)
      BY <2>2, <3>2 DEF Progress
    <3> QED
      BY <1>g, <2>4, <3>3
  <2>5. CASE /\ providers = Torn /\ o.kind = "add"
             /\ Goes(w, "open") /\ list'[w] = <<Agent(o.name, o.enabled)>>
    <3>1. Saves(o, list'[w], was.providers)
      BY <1>b, <2>2, <2>5, AfreshSaves
    <3>2. Progress(o, "open", providers', selection', secrets', list'[w], active'[w], was)
      BY <2>2, <3>1 DEF Progress
    <3> QED
      BY <1>g, <2>5, <3>2
  <2> QED
    BY <1>2, <1>d, <2>3, <2>4, <2>5, LoadChangeDoes DEF o
<1>3. CASE Open(w)
  <2>1. at[w] = "open" /\ UNCHANGED <<selection, secrets>>
    BY <1>3, <1>d, OpenDoes
  <2>2. /\ providers = was.providers /\ selection = was.selection
        /\ Saves(o, l, was.providers) /\ o.kind \in Changes
        /\ o.kind = "add" /\ o.key => o.name \in secrets
    BY <1>b, <1>p, <2>1 DEF Progress, Belongs
  <2>3. CASE Ends(w, "failed") /\ UNCHANGED providers
    <3>1. Spared(w)
      BY <2>1, <2>2, <2>3 DEF Spared, was
    <3> QED
      BY <1>e, <2>3, <3>1
  <2>4. CASE Goes(w, "write") /\ providers' = Torn /\ UNCHANGED list
    <3>1. Progress(o, "write", providers', selection', secrets', list'[w], active'[w], was)
      BY <2>1, <2>2, <2>4 DEF Progress, l
    <3> QED
      BY <1>g, <2>4, <3>1
  <2> QED
    BY <1>3, <1>d, <2>3, <2>4, OpenDoes
<1>4. CASE Write(w)
  <2>1. at[w] = "write" /\ UNCHANGED <<selection, secrets, left>>
    BY <1>4, <1>d, WriteDoes
  <2>2. /\ selection' = was.selection /\ Saves(o, l, was.providers) /\ o.kind \in Changes
        /\ o.kind = "add" /\ o.key => o.name \in secrets'
        /\ w = CommandLine => o.kind = "add"
        /\ providers = Torn
    BY <1>b, <1>p, <2>1 DEF Progress, Belongs, Idle
  <2>6. CASE providers' \in {list[w], Torn, providers} /\ Ends(w, "failed")
    <3>1. Spared(w)
      BY <2>1, <2>2, <2>6, SavedIsWhole DEF Spared, was, o, l
    <3> QED
      BY <1>e, <2>6, <3>1
  <2>3. \/ providers' = l
        \/ providers' \in {list[w], Torn, providers} /\ Ends(w, "failed")
    BY <1>4, <1>d, <2>2, WriteDoes DEF l
  <2>4. CASE providers' = l /\ w = CommandLine /\ Ends(w, "ok")
    <3>1. Spared(w)
      BY <2>2, <2>4, SavedIsWhole DEF Spared, was, o
    <3>2. Effect(o, providers', selection', secrets', left')
      BY <1>n, <2>1, <2>2, <2>4, SavedHasEffect
    <3>3. Effective(w)
      BY <1>c, <2>4, <3>2 DEF Effective, o
    <3> QED
      BY <1>o, <2>4, <3>1, <3>3
  <2>5. CASE /\ providers' = l /\ w \in Sessions /\ Goes(w, AfterSave(op[w]))
             /\ active'[w] = IF op[w].kind = "set_active" THEN op[w].name ELSE None
             /\ UNCHANGED list
    <3>1. active'[w] = IF o.kind = "set_active" THEN o.name ELSE None
      BY <2>5 DEF o
    <3>2. AfterSave(o) = CASE o.kind = "set_active" -> "open_selection"
                           [] o.kind = "toggle"     -> "load_selection"
                           [] o.kind = "delete"     -> "delete_key"
                           [] o.kind = "add"        -> "list_providers"
      BY DEF AfterSave
    <3>3. Progress(o, AfterSave(o), providers', selection', secrets', list'[w], active'[w], was)
      <4>1. CASE o.kind = "set_active"
        BY <2>2, <2>5, <3>1, <3>2, <4>1 DEF Progress
      <4>2. CASE o.kind = "toggle"
        BY <2>2, <2>5, <3>1, <3>2, <4>2 DEF Progress
      <4>3. CASE o.kind = "delete"
        BY <2>2, <2>5, <3>1, <3>2, <4>3 DEF Progress
      <4>4. CASE o.kind = "add"
        BY <2>2, <2>5, <3>1, <3>2, <4>4 DEF Progress
      <4> QED
        BY <2>2, <4>1, <4>2, <4>3, <4>4 DEF Changes
    <3>4. AfterSave(o) \in Stages
      BY <2>2, <3>2 DEF Changes
    <3> QED
      BY <1>g, <2>5, <3>3, <3>4 DEF o
  <2> QED
    BY <1>4, <1>d, <2>3, <2>4, <2>5, <2>6, WriteDoes
<1>5. CASE DeleteKey(w)
  <2>1. /\ at[w] = "delete_key" /\ UNCHANGED <<providers, selection, list, active>>
        /\ Goes(w, "load_selection")
    BY <1>5, <1>d, DeleteKeyDoes
  <2>2. Progress(o, "load_selection", providers', selection', secrets', list'[w], active'[w], was)
    BY <1>b, <1>p, <2>1 DEF Progress, Belongs, a
  <2> QED
    BY <1>g, <2>1, <2>2
<1>6. CASE LoadSelection(w)
  <2>1. at[w] = "load_selection" /\ UNCHANGED files
    BY <1>6, <1>d, LoadSelectionDoes
  <2>2. /\ providers' = providers /\ selection' = selection /\ secrets' = secrets
        /\ Saves(o, providers, was.providers) /\ selection = was.selection
        /\ o.kind \in {"toggle", "delete"} /\ a = None
    BY <1>b, <1>p, <2>1 DEF Progress, Belongs, files
  <2>3. CASE Ends(w, "failed")
    <3>1. Spared(w)
      BY <2>2, SavedIsWhole DEF Spared, was, o
    <3> QED
      BY <1>e, <2>3, <3>1
  <2>4. CASE /\ Clears(o) /\ selection = o.name
             /\ Goes(w, "open_selection") /\ UNCHANGED <<list, active>>
    <3>1. Progress(o, "open_selection", providers', selection', secrets', list'[w], active'[w], was)
      BY <2>2, <2>4 DEF Progress, a
    <3> QED
      BY <1>g, <2>4, <3>1
  <2>5. CASE /\ ~(Clears(o) /\ selection = o.name)
             /\ Goes(w, "list_providers") /\ UNCHANGED <<list, active>>
    <3>1. o.kind = "delete" \/ (o.kind = "toggle" /\ ~o.enabled) => selection # o.name
      BY <2>5 DEF Clears
    <3>2. Progress(o, "list_providers", providers', selection', secrets', list'[w], active'[w], was)
      BY <2>2, <3>1 DEF Progress
    <3> QED
      BY <1>g, <2>5, <3>2
  <2> QED
    BY <1>6, <1>d, <2>3, <2>4, <2>5, LoadSelectionDoes DEF o
<1>7. CASE OpenSelection(w)
  <2>1. at[w] = "open_selection" /\ UNCHANGED <<providers, secrets>>
    BY <1>7, <1>d, OpenSelectionDoes
  <2>2. /\ Saves(o, providers, was.providers) /\ selection = was.selection
        /\ o.kind \in {"set_active", "toggle", "delete"}
        /\ a = IF o.kind = "set_active" THEN o.name ELSE None
        /\ o.kind # "set_active" => was.selection = o.name
    BY <1>b, <1>p, <2>1 DEF Progress, Belongs
  <2>3. CASE Ends(w, "failed") /\ UNCHANGED selection
    <3>1. Spared(w)
      BY <2>1, <2>2, <2>3, SavedIsWhole DEF Spared, was, o
    <3> QED
      BY <1>e, <2>3, <3>1
  <2>4. CASE Goes(w, "write_selection") /\ selection' = Torn /\ UNCHANGED <<list, active>>
    <3>1. Progress(o, "write_selection", providers', selection', secrets', list'[w], active'[w], was)
      BY <2>1, <2>2, <2>4 DEF Progress, a
    <3> QED
      BY <1>g, <2>4, <3>1
  <2> QED
    BY <1>7, <1>d, <2>3, <2>4, OpenSelectionDoes
<1>8. CASE WriteSelection(w)
  <2>1. at[w] = "write_selection" /\ UNCHANGED <<providers, secrets>>
    BY <1>8, <1>d, WriteSelectionDoes
  <2>2. /\ Saves(o, providers, was.providers) /\ selection = Torn
        /\ o.kind \in {"set_active", "toggle", "delete"}
        /\ a = IF o.kind = "set_active" THEN o.name ELSE None
        /\ o.kind # "set_active" => was.selection = o.name
    BY <1>b, <1>p, <2>1 DEF Progress, Belongs
  <2>3. CASE selection' \in {active[w], Torn, selection} /\ Ends(w, "failed")
    <3>1. Spared(w)
      BY <2>1, <2>2, <2>3, SavedIsWhole DEF Spared, was, o, a
    <3> QED
      BY <1>e, <2>3, <3>1
  <2>4. CASE selection' = a /\ Goes(w, "list_providers") /\ UNCHANGED <<list, active>>
    <3>1. o.name # None
      BY <1>c, <1>n, <2>2 DEF Changes
    <3>2. Progress(o, "list_providers", providers', selection', secrets', list'[w], active'[w], was)
      BY <2>1, <2>2, <2>4, <3>1 DEF Progress
    <3> QED
      BY <1>g, <2>4, <3>2
  <2> QED
    BY <1>8, <1>d, <2>2, <2>3, <2>4, WriteSelectionDoes DEF a
<1>9. CASE ListProviders(w)
  <2>1. at[w] = "list_providers" /\ UNCHANGED files
    BY <1>9, <1>d, ListProvidersDoes
  <2>2. CASE providers = Torn /\ Ends(w, "failed")
    <3>1. Spared(w)
      BY <1>p, <2>1, <2>2, SavedIsWhole DEF Progress, Spared, was
    <3> QED
      BY <1>e, <2>2, <3>1
  <2>3. CASE providers # Torn /\ Goes(w, "list_selection") /\ list'[w] = providers
    <3>1. Progress(o, "list_selection", providers', selection', secrets', list'[w], active'[w], was)
      BY <1>p, <2>1, <2>3 DEF Progress, files
    <3> QED
      BY <1>g, <2>3, <3>1
  <2> QED
    BY <1>9, <1>d, <2>2, <2>3, ListProvidersDoes
<1>10. CASE ListSelection(w)
  <2>1. /\ at[w] = "list_selection"
        /\ providers' = providers /\ selection' = selection /\ secrets' = secrets
        /\ left' = left
    BY <1>10, <1>d, ListSelectionDoes DEF files
  <2>2. /\ o.kind # "list" => Saves(o, providers, was.providers)
        /\ o.kind = "set_active" => selection = o.name
        /\ o.kind = "delete" \/ (o.kind = "toggle" /\ ~o.enabled) => selection # o.name
        /\ o.kind = "list" => providers = was.providers
        /\ selection \in {was.selection, o.name} \/ was.selection = o.name
        /\ l = providers /\ providers # Torn
        /\ o.kind = "add" /\ o.key => o.name \in secrets
        /\ o.kind \in Changes \cup {"list"}
        /\ o.kind = "delete" => o.name \notin secrets \/ o.name \in left
    BY <1>b, <1>p, <2>1 DEF Progress, Belongs, KeyGone, AfterKey, o
  <2>3. Spared(w)
    BY <2>1, <2>2, SavedIsWhole DEF Spared, was, o
  <2>4. Effect(o, providers', selection', secrets', left')
    <3>1. CASE o.kind = "list"
      BY <2>1, <2>2, <3>1 DEF Effect
    <3>2. CASE o.kind \in Changes
      BY <1>n, <2>1, <2>2, <3>2, SavedHasEffect DEF Changes
    <3> QED
      BY <2>2, <3>1, <3>2
  <2>5. Effective(w)
    BY <2>1, <2>2, <2>4 DEF Effective, o, l
  <2> QED
    BY <1>10, <1>d, <1>e, <1>o, <2>3, <2>5, ListSelectionDoes
<1>11. CASE LoadForPrompt(w)
  <2>1. at[w] = "load" /\ o.kind = "prompt" /\ UNCHANGED files
    BY <1>11, <1>d, LoadForPromptDoes DEF o
  <2>2. /\ providers' = was.providers /\ selection' = was.selection /\ providers' = providers
    BY <1>p, <2>1 DEF Progress, files
  <2>3. CASE Ends(w, "failed")
    <3>1. Spared(w)
      BY <2>2 DEF Spared, was
    <3> QED
      BY <1>e, <2>3, <3>1
  <2>4. CASE providers # Torn /\ Goes(w, "resolve") /\ list'[w] = providers
    <3>1. Progress(o, "resolve", providers', selection', secrets', list'[w], active'[w], was)
      BY <2>1, <2>2, <2>4 DEF Progress
    <3> QED
      BY <1>g, <2>4, <3>1
  <2> QED
    BY <1>11, <1>d, <2>3, <2>4, LoadForPromptDoes
<1>12. CASE Resolve(w)
  <2>1. /\ at[w] = "resolve"
        /\ providers' = providers /\ selection' = selection /\ secrets' = secrets
    BY <1>12, <1>d, ResolveDoes DEF files
  <2>2. /\ providers = was.providers /\ selection = was.selection
        /\ l = providers /\ providers # Torn /\ o.kind = "prompt"
    BY <1>b, <1>p, <2>1 DEF Progress, Belongs
  <2>3. Spared(w)
    BY <2>1, <2>2 DEF Spared, was
  <2>4. CASE Ends(w, "failed")
    BY <1>e, <2>3, <2>4
  <2>5. CASE Resolves(list[w], selection) /\ Ends(w, "ok")
    <3>1. Effect(o, providers', selection', secrets', left')
      BY <2>1, <2>2, <2>5 DEF Effect, l
    <3>2. Effective(w)
      BY <2>1, <2>2, <3>1 DEF Effective, o, l
    <3> QED
      BY <1>o, <2>3, <2>5, <3>2
  <2> QED
    BY <1>12, <1>d, <2>4, <2>5, ResolveDoes
<1> QED
  BY <1>1, <1>2, <1>3, <1>4, <1>5, <1>6, <1>7, <1>8, <1>9, <1>10, <1>11, <1>12 DEF Step

\* What a step does to the keys, and where it leads.
LEMMA StepKeys ==
    ASSUME Types, NEW w \in Writers, Step(w), op[w].kind = "delete", at'[w] \in AfterKey
    PROVE  /\ at[w] \in AfterKey \cup {"delete_key"}
           /\ UNCHANGED op
           /\ at[w] # "delete_key" => UNCHANGED <<secrets, left>>
           /\ at[w] = "delete_key" =>
                 left' = (left \ {op[w].name}) \cup (secrets' \cap {op[w].name})
<1>d. Domains /\ Belongs(w, at[w], op[w])
  BY DEF Types, WriterTyped
<1>e. \A outcome : Ends(w, outcome) => at'[w] = outcome
  BY DEF Ends
<1>g. \A stage : Goes(w, stage) => at'[w] = stage /\ UNCHANGED op
  BY DEF Goes
<1> USE DEF AfterKey
<1>1. CASE SetKey(w)
  BY <1>1, <1>d, <1>e, <1>g, SetKeyDoes
<1>2. CASE LoadChange(w)
  BY <1>2, <1>d, <1>e, <1>g, LoadChangeDoes
<1>3. CASE Open(w)
  BY <1>3, <1>d, <1>e, <1>g, OpenDoes
<1>4. CASE Write(w)
  <2>1. AfterSave(op[w]) = "delete_key"
    BY DEF AfterSave
  <2> QED
    BY <1>4, <1>d, <1>e, <1>g, <2>1, WriteDoes
<1>5. CASE DeleteKey(w)
  BY <1>5, <1>d, <1>g, DeleteKeyDoes
<1>6. CASE LoadSelection(w)
  BY <1>6, <1>d, <1>e, <1>g, LoadSelectionDoes DEF files
<1>7. CASE OpenSelection(w)
  BY <1>7, <1>d, <1>e, <1>g, OpenSelectionDoes
<1>8. CASE WriteSelection(w)
  BY <1>8, <1>d, <1>e, <1>g, WriteSelectionDoes
<1>9. CASE ListProviders(w)
  BY <1>9, <1>d, <1>e, <1>g, ListProvidersDoes DEF files
<1>10. CASE ListSelection(w)
  BY <1>10, <1>d, <1>e, <1>g, ListSelectionDoes
<1>11. CASE LoadForPrompt(w)
  BY <1>11, <1>d, LoadForPromptDoes
<1>12. CASE Resolve(w)
  BY <1>12, <1>d, <1>e, ResolveDoes
<1> QED
  BY <1>1, <1>2, <1>3, <1>4, <1>5, <1>6, <1>7, <1>8, <1>9, <1>10, <1>11, <1>12 DEF Step

\* While nothing overlaps a delete, its key is gone or was kept by the keychain.
LEMMA KeysGoneKept ==
    ASSUME Types, Lonely, KeysGone, [Next]_vars
    PROVE  KeysGone'
<1>a. ASSUME NEW v \in Writers, Untouched(v), UNCHANGED files, v \in Busy', alone'[v]
      PROVE  KeyGone(v)'
  <2>1. v \in Busy /\ alone[v]
    BY <1>a DEF Untouched, Busy
  <2>2. KeyGone(v)
    BY <2>1 DEF KeysGone
  <2> QED
    BY <1>a, <2>2 DEF KeyGone, Untouched, files
<1>1. CASE Dies
  <2>1. ASSUME NEW v \in Busy', alone'[v] PROVE v \in Writers /\ Untouched(v)
    BY <1>1, <2>1, DiesDoes DEF Busy, Idle
  <2>2. UNCHANGED files
    BY <1>1, DiesDoes
  <2> QED
    BY <1>a, <2>1, <2>2 DEF KeysGone
<1>2. ASSUME NEW w \in Writers, Begin(w) PROVE KeysGone'
  <2> SUFFICES ASSUME NEW v \in Busy', alone'[v] PROVE KeyGone(v)'
    BY DEF KeysGone
  <2>1. v = w
    BY <1>2, BeginDoes DEF Busy
  <2>2. at'[w] = FirstStage(op'[w])
    BY <1>2, BeginDoes
  <2>3. op'[w].kind = "delete" => at'[w] = "load"
    BY <2>2 DEF FirstStage
  <2> QED
    BY <2>1, <2>3 DEF KeyGone, AfterKey
<1>3. ASSUME NEW w \in Writers, Step(w) PROVE KeysGone'
  <2> SUFFICES ASSUME NEW v \in Busy', alone'[v] PROVE KeyGone(v)'
    BY DEF KeysGone
  <2>1. v \in Busy /\ w \in Busy /\ v \in Writers /\ alone'[v] = alone[v]
    BY <1>3, StepFrame DEF Busy, Untouched, Idle, Stages
  <2>2. v = w /\ KeyGone(w)
    BY <2>1 DEF Lonely, KeysGone
  <2>3. at'[w] \in Stages /\ op' = op
    BY <1>3, <2>2, StepFrame DEF Busy, Idle
  <2> SUFFICES ASSUME op[w].kind = "delete", at'[w] \in AfterKey
               PROVE  op[w].name \notin secrets' \/ op[w].name \in left'
    BY <2>2, <2>3 DEF KeyGone
  <2> QED
    BY <1>3, <2>2, StepKeys DEF KeyGone
<1>4. CASE UNCHANGED vars
  BY <1>4 DEF vars, files, local, KeysGone, KeyGone, Busy
<1> QED
  BY <1>1, <1>2, <1>3, <1>4 DEF Next

\* Of an operation that is alone, the progress is known in every state.
LEMMA AdvancesKept ==
    ASSUME Types, Lonely, KeysGone, Advances, [Next]_vars
    PROVE  Advances'
<1>a. ASSUME NEW v \in Writers, Untouched(v), UNCHANGED files, v \in Busy', alone'[v]
      PROVE  Advance(v)'
  <2>1. v \in Busy /\ alone[v]
    BY <1>a DEF Untouched, Busy
  <2>2. Advance(v)
    BY <2>1 DEF Advances
  <2> QED
    BY <1>a, <2>2 DEF Advance, Untouched, files
<1>1. CASE Dies
  <2>1. ASSUME NEW v \in Busy', alone'[v] PROVE Untouched(v)
    BY <1>1, <2>1, DiesDoes DEF Busy, Idle
  <2>2. UNCHANGED files
    BY <1>1, DiesDoes
  <2> QED
    BY <1>a, <2>1, <2>2 DEF Advances, Busy
<1>2. ASSUME NEW w \in Writers, Begin(w) PROVE Advances'
  <2> SUFFICES ASSUME NEW v \in Busy', alone'[v] PROVE Advance(v)'
    BY DEF Advances
  <2>1. v \in Writers /\ v \in Busy \cup {w} /\ (alone'[v] = (Busy = {}))
    BY <1>2, BeginDoes DEF Busy
  <2>2. v = w
    BY <2>1
  <2>3. /\ at'[w] = FirstStage(op'[w]) /\ before'[w] = Now
        /\ providers' = providers /\ selection' = selection /\ op'[w] \in Offered(w)
    BY <1>2, BeginDoes DEF files
  <2>4. /\ at'[w] = IF op'[w].kind = "add" /\ op'[w].key THEN "set_key"
                    ELSE IF op'[w].kind = "list" THEN "list_providers" ELSE "load"
    BY <2>3 DEF FirstStage
  <2>5. before'[w].providers = providers' /\ before'[w].selection = selection'
    BY <2>3 DEF Now
  <2> HIDE <2>3
  <2> QED
    BY <2>2, <2>4, <2>5 DEF Advance, Progress
<1>3. ASSUME NEW w \in Writers, Step(w) PROVE Advances'
  <2> SUFFICES ASSUME NEW v \in Busy', alone'[v] PROVE Advance(v)'
    BY DEF Advances
  <2>1. v \in Busy /\ w \in Busy /\ v \in Writers /\ alone'[v] = alone[v]
    BY <1>3, StepFrame DEF Busy, Untouched, Idle, Stages
  <2>2. v = w /\ Advance(w) /\ KeyGone(w) /\ at'[w] \in Stages
    <3>1. v = w
      BY <2>1 DEF Lonely
    <3>2. Advance(w) /\ KeyGone(w)
      BY <2>1, <3>1 DEF Advances, KeysGone
    <3>3. at'[w] \in Stages
      BY <1>3, <3>1, StepFrame DEF Busy, Idle
    <3> QED
      BY <3>1, <3>2, <3>3
  <2> QED
    BY <1>3, <2>2, StepAdvances
<1>4. CASE UNCHANGED vars
  BY <1>4 DEF vars, files, local, Advances, Advance, Busy
<1> QED
  BY <1>1, <1>2, <1>3, <1>4 DEF Next

\* An operation that its process takes with it has spared the others, if alone.
LEMMA DeathSpares ==
    ASSUME Types, Dies, NEW w \in Busy, Advance(w)
    PROVE  Spared(w)
<1>1. providers' = providers /\ selection' = selection
  BY DiesDoes DEF files
<1>2. at[w] \in Stages /\ Belongs(w, at[w], op[w])
  BY DEF Types, WriterTyped, Busy
<1>3. Progress(op[w], at[w], providers, selection, secrets, list[w], active[w], before[w])
  BY DEF Advance
<1> DEFINE o == op[w]
           was == before[w]
<1> SUFFICES ASSUME was.providers # Torn
             PROVE  /\ IF providers = Torn THEN at[w] = "write"
                       ELSE Without(providers, o.name) = Without(was.providers, o.name)
                    /\ \/ selection \in {was.selection, o.name} \/ was.selection = o.name
                       \/ selection = Torn /\ at[w] = "write_selection"
  BY <1>1 DEF Spared
<1> HIDE DEF o, was
<1>4. \A p : Saves(o, p, was.providers) =>
         p # Torn /\ Without(p, o.name) = Without(was.providers, o.name)
  BY SavedIsWhole
<1>5. CASE at[w] \in {"set_key", "load", "open", "resolve", "write"}
  BY <1>3, <1>5 DEF Progress, o, was
<1>6. CASE at[w] \in {"delete_key", "load_selection", "open_selection", "write_selection"}
  BY <1>3, <1>4, <1>6 DEF Progress, o, was
<1>7. CASE at[w] \in {"list_providers", "list_selection"}
  BY <1>3, <1>4, <1>7 DEF Progress, o, was
<1> QED
  BY <1>2, <1>5, <1>6, <1>7 DEF Stages

\* An operation that ends is the one that took the step, or dies; and it was alone if it
\* says so.
LEMMA EndsAdvanced ==
    ASSUME Types, KeysGone, Advances, [Next]_vars, NEW w \in Writers,
           at[w] \notin Idle, at'[w] \in Idle, alone[w]
    PROVE  /\ Advance(w) /\ KeyGone(w)
           /\ Step(w) \/ (Dies /\ at'[w] = "failed")
<1>0. Advance(w) /\ KeyGone(w)
  BY DEF Advances, KeysGone, Busy
<1>1. CASE Dies
  <2>1. at'[w] = "failed"
    BY <1>1, DiesDoes DEF Untouched
  <2> QED
    BY <1>0, <1>1, <2>1
<1>2. ASSUME NEW v \in Writers, Begin(v) PROVE FALSE
  <2>1. v # w /\ at'[w] = at[w]
    BY <1>2, BeginDoes
  <2> QED
    BY <2>1
<1>3. ASSUME NEW v \in Writers, Step(v) PROVE Step(w)
  BY <1>3, StepFrame DEF Untouched
<1>4. CASE UNCHANGED vars
  BY <1>4 DEF vars, local
<1> QED
  BY <1>0, <1>1, <1>2, <1>3, <1>4 DEF Next

\* At first nobody is busy.
LEMMA InitQuiet == Init => Lonely /\ KeysGone /\ Advances
  BY DEF Init, Lonely, KeysGone, Advances, Busy, Idle

\* An operation that reports success and that nothing overlapped has done to all three
\* stores what it is to do, whatever happened to them before; only the key of a deleted
\* agent may have stayed, if the keychain refused to delete it (handler.go:241-515).
THEOREM SuccessesAreEffective == Spec => SuccessIsEffective
<1> DEFINE Inv == Types /\ Lonely /\ KeysGone /\ Advances
<1>1. Init => Inv
  BY InitTypes, InitQuiet
<1>2. Inv /\ [Next]_vars => Inv'
  BY TypesKept, LonelyKept, KeysGoneKept, AdvancesKept
<1>3. Inv /\ [Next]_vars =>
         [\A w \in Writers : Succeeds(w) /\ alone[w] =>
            /\ Effect(op[w], providers', selection', secrets', left')
            /\ w \in Sessions => list[w] = providers']_vars
  <2> SUFFICES ASSUME Inv, [Next]_vars, NEW w \in Writers, Succeeds(w), alone[w]
               PROVE  Effective(w)
    BY DEF Effective
  <2>1. at[w] \notin Idle /\ at'[w] \in Idle /\ at'[w] = "ok"
    BY DEF Succeeds, Idle
  <2>2. Step(w) /\ Advance(w) /\ KeyGone(w)
    BY <2>1, EndsAdvanced
  <2> QED
    BY <2>1, <2>2, StepAdvances
<1> QED
  BY <1>1, <1>2, <1>3, PTL DEF Spec, SuccessIsEffective

\* However an operation that nothing overlapped ends, every agent but its own is as it
\* was, and so is the selection unless it is about that agent; only an end between the
\* truncation of a file and its writing loses a file, as a whole (store.go:71,
\* selection.go:54; handler.go:254-309, 443-515).
THEOREM OthersStayAsTheyWere == Spec => OthersAreSpared
<1> DEFINE Inv == Types /\ Lonely /\ KeysGone /\ Advances
<1>1. Init => Inv
  BY InitTypes, InitQuiet
<1>2. Inv /\ [Next]_vars => Inv'
  BY TypesKept, LonelyKept, KeysGoneKept, AdvancesKept
<1>3. Inv /\ [Next]_vars =>
         [\A w \in Writers :
            (Completes(w) /\ alone[w] /\ before[w].providers # Torn) =>
              LET o == op[w]
                  was == before[w]
              IN /\ IF providers' = Torn THEN at[w] = "write"
                    ELSE Without(providers', o.name) = Without(was.providers, o.name)
                 /\ \/ selection' \in {was.selection, o.name} \/ was.selection = o.name
                    \/ selection' = Torn /\ at[w] = "write_selection"]_vars
  <2> SUFFICES ASSUME Inv, [Next]_vars, NEW w \in Writers, Completes(w), alone[w]
               PROVE  Spared(w)
    BY DEF Spared
  <2>1. at[w] \notin Idle /\ at'[w] \in Idle /\ at'[w] \notin Stages
    BY DEF Completes, Idle, Stages
  <2>2. Advance(w) /\ KeyGone(w) /\ (Step(w) \/ Dies)
    BY <2>1, EndsAdvanced
  <2>3. w \in Busy
    BY <2>1 DEF Busy
  <2> QED
    BY <2>1, <2>2, <2>3, StepAdvances, DeathSpares
<1> QED
  BY <1>1, <1>2, <1>3, PTL DEF Spec, OthersAreSpared

-----------------------------------------------------------------------------
(* The stores fit.                                                         *)
\* A step of the only operation of a calm history keeps the stores fitting.
LEMMA StepFits ==
    ASSUME Types, NEW w \in Writers, Step(w), FitsIn(w), calm'
    PROVE  /\ at'[w] \in Stages => FitsIn(w)'
           /\ at'[w] \notin Stages => Quiet(providers, selection, secrets)'
<1> DEFINE o == op[w]
           a == active[w]
           l == list[w]
           Goal == /\ at'[w] \in Stages => FitsIn(w)'
                   /\ at'[w] \notin Stages => Quiet(providers, selection, secrets)'
<1>d. Domains /\ FilesTyped
  BY DEF Types
<1>b. Belongs(w, at[w], o) /\ o \in Operations
  BY DEF Types, WriterTyped, Belongs
<1>n. o.kind \in Changes => o.name \in Names
  BY <1>b, ChangesName
<1>p. Fitting(o, at[w], providers, selection, secrets, l, a)
  BY DEF FitsIn
<1>c. CommandLine \notin Sessions /\ Torn \notin Names \cup {None} \cup Lists /\ None \notin Names
  BY StoresAssumption
<1>s. "ok" \notin Stages /\ "failed" \notin Stages
  BY DEF Stages
<1>g. ASSUME NEW stage \in Stages, Goes(w, stage),
             Fitting(o, stage, providers', selection', secrets', list'[w], active'[w])
      PROVE  Goal
  BY <1>g, <1>s DEF Goes, FitsIn
<1>e. ASSUME NEW outcome \in {"ok", "failed"}, Ends(w, outcome),
             Quiet(providers', selection', secrets')
      PROVE  Goal
  BY <1>e, <1>s DEF Ends
<1> SUFFICES Goal
  OBVIOUS
<1>t. calm' = TRUE
  OBVIOUS
<1> HIDE DEF Goal, o, a, l
<1> USE DEF Stages
<1>1. CASE SetKey(w)
  <2>1. /\ at[w] = "set_key" /\ UNCHANGED <<providers, selection>>
        /\ Goes(w, "load") /\ secrets' = secrets \cup {o.name}
    BY <1>1, <1>d, <1>t, SetKeyDoes DEF o
  <2>2. o.kind = "add"
    BY <1>b, <2>1 DEF Belongs
  <2>3. Fitting(o, "load", providers', selection', secrets', list'[w], active'[w])
    BY <1>p, <2>1, <2>2 DEF Fitting
  <2> QED
    BY <1>g, <2>1, <2>3
<1>2. CASE LoadChange(w)
  <2>1. /\ at[w] = "load" /\ o.kind # "prompt"
        /\ providers' = providers /\ selection' = selection /\ secrets' = secrets
    BY <1>2, <1>d, LoadChangeDoes DEF o, files
  <2>2. /\ providers \in Lists /\ providers # Torn /\ Unique(providers) /\ o.kind \in Changes
        /\ \A m \in secrets : Has(providers, m) \/ (m = o.name /\ o.kind = "add")
        /\ selection = None \/ (selection \in Names /\ Has(providers, selection))
    BY <1>b, <1>c, <1>d, <1>p, <2>1 DEF Fitting, Belongs, FilesTyped
  <2>3. CASE Ends(w, "failed") /\ o.kind # "add"
    BY <1>e, <2>1, <2>2, <2>3 DEF Quiet
  <2>4. CASE /\ o.kind = "add" \/ Has(providers, o.name)
             /\ Goes(w, "open") /\ list'[w] = Changed(o, providers)
    <3>1. Saves(o, list'[w], providers)
      BY <1>b, <2>2, <2>4, ChangedSaves
    <3>2. \A m : m # o.name => (Has(list'[w], m) <=> Has(providers, m))
      BY <2>2, <3>1, OthersStay DEF Saves
    <3>3. list'[w] \in Lists /\ (Has(list'[w], o.name) <=> o.kind # "delete")
      BY <3>1 DEF Saves
    <3>4. ASSUME NEW m, Has(providers, m)
          PROVE  Has(list'[w], m) \/ (m = o.name /\ o.kind = "delete")
      BY <3>2, <3>3, <3>4
    <3>5. Fitting(o, "open", providers', selection', secrets', list'[w], active'[w])
      BY <2>1, <2>2, <3>3, <3>4 DEF Fitting
    <3> QED
      BY <1>g, <2>4, <3>5
  <2> QED
    BY <1>2, <1>d, <1>t, <2>2, <2>3, <2>4, LoadChangeDoes DEF o
<1>3. CASE Open(w)
  <2>1. /\ at[w] = "open" /\ UNCHANGED <<selection, secrets, list>>
        /\ Goes(w, "write") /\ providers' = Torn
    BY <1>3, <1>d, <1>t, OpenDoes
  <2>2. Fitting(o, "write", providers', selection', secrets', list'[w], active'[w])
    BY <1>p, <2>1 DEF Fitting, l
  <2> QED
    BY <1>g, <2>1, <2>2
<1>4. CASE Write(w)
  <2>1. at[w] = "write" /\ UNCHANGED <<selection, secrets>>
    BY <1>4, <1>d, WriteDoes
  <2>2. /\ providers = Torn /\ l \in Lists /\ o.kind \in Changes
        /\ w = CommandLine => o.kind = "add"
        /\ \A m \in secrets' : Has(l, m) \/ (m = o.name /\ o.kind = "delete")
        /\ \/ selection' = None
           \/ selection' \in Names /\ Has(l, selection')
           \/ selection' = o.name /\ o.kind = "delete"
        /\ o.kind = "set_active" => Has(l, o.name)
    BY <1>b, <1>p, <2>1 DEF Fitting, Belongs, Idle
  <2>3. providers' = l
    BY <1>4, <1>d, <1>t, <2>2, WriteDoes DEF l
  <2>4. CASE w = CommandLine /\ Ends(w, "ok")
    BY <1>e, <2>2, <2>3, <2>4 DEF Quiet
  <2>5. CASE /\ w \in Sessions /\ Goes(w, AfterSave(op[w]))
             /\ active'[w] = IF op[w].kind = "set_active" THEN op[w].name ELSE None
             /\ UNCHANGED list
    <3>1. active'[w] = IF o.kind = "set_active" THEN o.name ELSE None
      BY <2>5 DEF o
    <3>2. AfterSave(o) = IF o.kind = "set_active" THEN "open_selection"
                         ELSE IF o.kind = "toggle" THEN "load_selection"
                         ELSE IF o.kind = "delete" THEN "delete_key" ELSE "list_providers"
      BY <2>2 DEF AfterSave, Changes
    <3>3. active'[w] = None \/ (active'[w] \in Names /\ Has(providers', active'[w]))
      BY <1>n, <2>2, <2>3, <3>1
    <3>4. Fitting(o, AfterSave(o), providers', selection', secrets', list'[w], active'[w])
      BY <2>2, <2>3, <3>2, <3>3 DEF Fitting
    <3> QED
      BY <1>g, <2>5, <3>2, <3>4 DEF o
  <2> QED
    BY <1>4, <1>d, <1>t, <2>4, <2>5, WriteDoes
<1>5. CASE DeleteKey(w)
  <2>1. /\ at[w] = "delete_key" /\ UNCHANGED <<providers, selection, list, active>>
        /\ Goes(w, "load_selection") /\ o.name \notin secrets' /\ secrets' \subseteq secrets
    BY <1>5, <1>d, <1>t, DeleteKeyDoes DEF o
  <2>2. Fitting(o, "load_selection", providers', selection', secrets', list'[w], active'[w])
    BY <1>p, <2>1 DEF Fitting, a
  <2> QED
    BY <1>g, <2>1, <2>2
<1>6. CASE LoadSelection(w)
  <2>1. /\ at[w] = "load_selection" /\ UNCHANGED <<list, active>>
        /\ providers' = providers /\ selection' = selection /\ secrets' = secrets
        /\ Goes(w, IF Clears(o) /\ selection = o.name THEN "open_selection" ELSE "list_providers")
    BY <1>6, <1>d, <1>t, LoadSelectionDoes DEF o, files
  <2>2. CASE Clears(o) /\ selection = o.name
    <3>1. Fitting(o, "open_selection", providers', selection', secrets', list'[w], active'[w])
      BY <1>p, <2>1 DEF Fitting, a
    <3> QED
      BY <1>g, <2>1, <2>2, <3>1
  <2>3. CASE ~(Clears(o) /\ selection = o.name)
    <3>1. Fitting(o, "list_providers", providers', selection', secrets', list'[w], active'[w])
      BY <1>p, <2>1, <2>3 DEF Fitting, Clears
    <3> QED
      BY <1>g, <2>1, <2>3, <3>1
  <2> QED
    BY <2>2, <2>3
<1>7. CASE OpenSelection(w)
  <2>1. /\ at[w] = "open_selection" /\ UNCHANGED <<providers, secrets, list, active>>
        /\ Goes(w, "write_selection") /\ selection' = Torn
    BY <1>7, <1>d, <1>t, OpenSelectionDoes
  <2>2. Fitting(o, "write_selection", providers', selection', secrets', list'[w], active'[w])
    BY <1>p, <2>1 DEF Fitting, a
  <2> QED
    BY <1>g, <2>1, <2>2
<1>8. CASE WriteSelection(w)
  <2>1. /\ at[w] = "write_selection" /\ Goes(w, "list_providers")
        /\ UNCHANGED <<providers, secrets, list, active>>
        /\ selection' = a \/ (selection' = Torn /\ selection # Torn)
    BY <1>8, <1>d, <1>t, WriteSelectionDoes DEF a
  <2>2. Fitting(o, "list_providers", providers', selection', secrets', list'[w], active'[w])
    BY <1>p, <2>1 DEF Fitting
  <2> QED
    BY <1>g, <2>1, <2>2
<1>9. CASE ListProviders(w)
  <2>1. /\ at[w] = "list_providers" /\ Goes(w, "list_selection")
        /\ providers' = providers /\ selection' = selection /\ secrets' = secrets
    BY <1>9, <1>d, <1>t, ListProvidersDoes DEF files
  <2>2. Fitting(o, "list_selection", providers', selection', secrets', list'[w], active'[w])
    BY <1>p, <2>1 DEF Fitting
  <2> QED
    BY <1>g, <2>1, <2>2
<1>10. CASE ListSelection(w)
  <2>1. /\ at[w] = "list_selection" /\ Ends(w, "ok")
        /\ providers' = providers /\ selection' = selection /\ secrets' = secrets
    BY <1>10, <1>d, <1>t, ListSelectionDoes DEF files
  <2>2. Quiet(providers', selection', secrets')
    BY <1>p, <2>1 DEF Fitting, Quiet
  <2> QED
    BY <1>e, <2>1, <2>2
<1>11. CASE LoadForPrompt(w)
  <2>1. /\ at[w] = "load" /\ o.kind = "prompt" /\ Goes(w, "resolve")
        /\ providers' = providers /\ selection' = selection /\ secrets' = secrets
    BY <1>11, <1>d, <1>t, LoadForPromptDoes DEF o, files
  <2>2. Fitting(o, "resolve", providers', selection', secrets', list'[w], active'[w])
    BY <1>p, <2>1 DEF Fitting
  <2> QED
    BY <1>g, <2>1, <2>2
<1>12. CASE Resolve(w)
  <2>1. /\ at[w] = "resolve"
        /\ Ends(w, "ok") \/ Ends(w, "failed")
        /\ providers' = providers /\ selection' = selection /\ secrets' = secrets
    BY <1>12, <1>d, ResolveDoes DEF files
  <2>2. Quiet(providers', selection', secrets')
    BY <1>p, <2>1 DEF Fitting, Quiet
  <2> QED
    BY <1>e, <2>1, <2>2
<1> QED
  BY <1>1, <1>2, <1>3, <1>4, <1>5, <1>6, <1>7, <1>8, <1>9, <1>10, <1>11, <1>12 DEF Step

\* Every step keeps the stores of a calm history fitting.
LEMMA FitsKept ==
    ASSUME Types, Lonely, Fits, [Next]_vars
    PROVE  Fits'
<1> SUFFICES ASSUME calm'
             PROVE  /\ Busy' = {} => Quiet(providers, selection, secrets)'
                    /\ \A w \in Busy' : FitsIn(w)'
  BY DEF Fits
<1>t. calm' = TRUE
  OBVIOUS
<1>1. CASE Dies
  BY <1>1, <1>t, DiesDoes
<1>2. ASSUME NEW w \in Writers, Begin(w)
      PROVE  Busy' = {w} /\ FitsIn(w)'
  <2>1. /\ calm /\ Busy = {}
        /\ at'[w] = FirstStage(op'[w]) /\ op'[w] \in Offered(w)
        /\ providers' = providers /\ selection' = selection /\ secrets' = secrets
        /\ \A v \in Writers \ {w} : at'[v] = at[v]
    BY <1>2, BeginDoes DEF files
  <2>2. at'[w] \in {"set_key", "load", "list_providers"}
    BY <2>1, BegunBelongs
  <2>3. Busy' = {w}
    BY <2>1, <2>2 DEF Busy, Idle
  <2>4. Quiet(providers, selection, secrets)
    BY <2>1 DEF Fits
  <2> HIDE <2>1
  <2>5. providers' = providers /\ selection' = selection /\ secrets' = secrets
    BY <2>1
  <2>6. FitsIn(w)'
    BY <2>2, <2>4, <2>5 DEF FitsIn, Fitting, Quiet
  <2> QED
    BY <2>3, <2>6
<1>3. ASSUME NEW w \in Writers, Step(w)
      PROVE  IF at'[w] \in Stages THEN Busy' = {w} /\ FitsIn(w)'
             ELSE Busy' = {} /\ Quiet(providers, selection, secrets)'
  <2>1. calm /\ w \in Busy
    BY <1>3, <1>t, StepFrame DEF Busy, Stages, Idle
  <2>2. Busy = {w} /\ FitsIn(w)
    BY <2>1 DEF Lonely, Fits
  <2>3. IF at'[w] \in Stages THEN Busy' = {w} ELSE Busy' = {}
    <3>1. \A v \in Writers \ {w} : at'[v] = at[v] /\ v \notin Busy
      BY <1>3, <2>2, StepFrame DEF Untouched
    <3>2. at'[w] \in Stages => at'[w] \notin Idle
      BY DEF Stages, Idle
    <3>3. at'[w] \notin Stages => at'[w] \in Idle
      BY <1>3, StepFrame DEF Idle
    <3> QED
      BY <1>3, <3>1, <3>2, <3>3 DEF Busy
  <2> QED
    BY <1>3, <1>t, <2>2, <2>3, StepFits
<1>4. CASE UNCHANGED vars
  BY <1>4 DEF vars, files, local, Fits, FitsIn, Busy
<1> QED
  BY <1>1, <1>2, <1>3, <1>4 DEF Next

\* After any sequence of operations that did not overlap or break, the active agent
\* exists and every key has its agent (handler.go:254-309, 443-515).
THEOREM StoresFitTogether == Spec => []StoresFit
<1> DEFINE Inv == Types /\ Lonely /\ Fits
<1>1. Init => Inv
  <2> SUFFICES ASSUME Init PROVE Fits
    BY InitTypes, InitQuiet
  <2>1. Busy = {} /\ Quiet(providers, selection, secrets)
    BY InitFiles DEF Init, Busy, Idle, Quiet
  <2> QED
    BY <2>1 DEF Fits
<1>2. Inv /\ [Next]_vars => Inv'
  BY TypesKept, LonelyKept, FitsKept
<1>3. Inv => StoresFit
  BY DEF Fits, StoresFit, Quiet
<1> QED
  BY <1>1, <1>2, <1>3, PTL DEF Spec

-----------------------------------------------------------------------------
(***************************************************************************)
(* The terminal UI.                                                        *)
(***************************************************************************)
\* What travels: actions on their way to the session and in its queue, events back.
Ids == 0 .. MaxKeys
Submittable ==
    {a \in [id : Ids, name : Names \cup {None}, enabled : BOOLEAN,
            type : AgentActions \cup {"agents_list", "agent_prompt", "run_command"}] :
        a.type \in AgentActions => a.name \in Names}
Emitted ==
    [type : {"list"}, providers : Lists] \cup
    [type : {"finished", "message", "error"}, id : Ids]

\* A command is one of `sends`; only that of a line for the shell has other stages.
Sending ==
    {s \in [action : Submittable, stage : {"start", "store", "send"}, copy : SUBSET Ids] :
        s.stage # "send" => s.action.type = "run_command"}

UITypes ==
    /\ TuiTypeOK /\ Unique(store) /\ keys \in Ids
    /\ sends \subseteq Sending /\ queue \in Seq(Submittable) /\ events \in Seq(Emitted)
    /\ executing \in Seq(Emitted \cup {Load})
    /\ SelectionIsARow

\* If the list is not stale: a list that is still to be emitted is the one that is stored;
\* if there is none, the last on its way is it, or else the one that is shown.
IsList(i) == i \in DOMAIN events /\ events[i].type = "list"
LastList(i) == IsList(i) /\ \A j \in DOMAIN events : j > i => ~IsList(j)
Listed(i) == i \in DOMAIN executing /\ executing[i].type \in {"load", "list"}
ListsCatchUp ==
    /\ \A i \in DOMAIN executing : i > 1 => ~Listed(i)
    /\ ~stale /\ 1 \in DOMAIN executing /\ executing[1].type = "list" =>
          executing[1].providers = store
    /\ ~stale /\ ~Listed(1) =>
          /\ \A i \in DOMAIN events : LastList(i) => events[i].providers = store
          /\ (\A i \in DOMAIN events : ~IsList(i)) => shown = store
    /\ ~connected => events = << >>

-----------------------------------------------------------------------------
\* A change that an action of the UI asks for is that of the operation of AgentStores.
LEMMA UIChangeTyped ==
    ASSUME UITypes, NEW a \in Submittable, a.type \in ListActions, Known(a)
    PROVE  ListAfter(a) \in Lists /\ Unique(ListAfter(a))
<1> DEFINE O(kind, enabled) == [kind |-> kind, name |-> a.name, enabled |-> enabled, key |-> FALSE]
           q == ListAfter(a)
<1>0. store \in Lists /\ Unique(store)
  BY DEF UITypes, TuiTypeOK, Rows, Lists
<1>n. a.type # "agents_list" => a.name \in Names /\ a.enabled \in BOOLEAN
  BY DEF Submittable, ListActions
<1>h. a.type \notin {"agents_list", "agents_add"} => Has(store, a.name)
  BY DEF Known, Has
<1>c. ASSUME NEW kind \in Changes, NEW enabled \in BOOLEAN,
             O(kind, enabled) \in Operations, q = Changed(O(kind, enabled), store),
             kind = "add" \/ Has(store, a.name)
      PROVE  q \in Lists /\ Unique(q)
  BY <1>0, <1>c, ChangedSaves DEF Saves
<1>1. CASE a.type = "agents_list"
  BY <1>0, <1>1 DEF ListAfter
<1>2. CASE a.type = "agents_set_active"
  <2>1. O("set_active", TRUE) \in Operations
    BY <1>n, <1>2 DEF Operations
  <2>2. q = Changed(O("set_active", TRUE), store)
    BY <1>2 DEF ListAfter, Changed, SetEnabled, First
  <2> QED
    BY <1>c, <1>h, <1>2, <2>1, <2>2 DEF Changes
<1>3. CASE a.type = "agents_toggle"
  <2>1. O("toggle", a.enabled) \in Operations
    BY <1>n, <1>3 DEF Operations
  <2>2. q = Changed(O("toggle", a.enabled), store)
    BY <1>3 DEF ListAfter, Changed, SetEnabled, First
  <2> QED
    BY <1>c, <1>n, <1>h, <1>3, <2>1, <2>2 DEF Changes
<1>4. CASE a.type = "agents_add"
  <2>1. O("add", a.enabled) \in Operations
    BY <1>n, <1>4 DEF Operations
  <2>2. q = Changed(O("add", a.enabled), store)
    BY <1>4 DEF ListAfter, Changed, Upsert, First, Has, Agent
  <2> QED
    BY <1>c, <1>n, <1>4, <2>1, <2>2 DEF Changes
<1>5. CASE a.type = "agents_delete"
  <2>1. O("delete", TRUE) \in Operations
    BY <1>n, <1>5 DEF Operations
  <2>2. q = Changed(O("delete", TRUE), store)
    BY <1>5 DEF ListAfter, Changed, Without, KeptOf
  <2> QED
    BY <1>c, <1>h, <1>5, <2>1, <2>2 DEF Changes
<1> QED
  BY <1>1, <1>2, <1>3, <1>4, <1>5 DEF AgentActions, ListActions

\* The row that the keys read.
LEMMA RowTyped ==
    ASSUME UITypes, shown # << >>
    PROVE  Row.name \in Names /\ Row.enabled \in BOOLEAN
<1>1. shown \in Seq(Rows) /\ selected \in Nat /\ selected < Len(shown)
  BY DEF UITypes, TuiTypeOK, SelectionIsARow
<1>2. Row \in Rows
  <2> HIDE DEF Rows
  <2>1. selected + 1 \in 1 .. Len(shown)
    BY <1>1
  <2> QED
    BY <1>1, <2>1, ElementOfSeq DEF Row
<1> QED
  BY <1>2 DEF Rows

\* A key that sends an action starts one command.
LEMMA LaunchTyped ==
    ASSUME Bounds, UITypes, Key, NEW type, NEW name \in Names \cup {None},
           NEW enabled \in BOOLEAN, Launch(type, name, enabled),
           type \in AgentActions \cup {"agents_list", "agent_prompt", "run_command"},
           type \in AgentActions => name \in Names
    PROVE  sends' \subseteq Sending
<1>1. keys + 1 \in Ids
  BY DEF Bounds, UITypes, Ids, Key
<1>2. Mine(keys + 1, type, name, enabled) \in Submittable
  BY <1>1 DEF Mine, Submittable
<1> HIDE DEF Mine
<1> QED
  BY <1>2 DEF UITypes, Sending, Launch, Mine

-----------------------------------------------------------------------------
(* Each step keeps the types, and a row selected.                          *)
\* A line that is typed keeps the types.
LEMMA LineTypes ==
    ASSUME Bounds, UITypes, Line
    PROVE  UITypes'
<1>k. Key => keys' \in Ids
  BY DEF Bounds, UITypes, Ids, Key
<1> USE DEF UITypes, TuiTypeOK, SelectionIsARow, modal, chat, session, Typed,
            TakeLogo, Kept
<1>1. CASE TypePrompt
  <2>1. sends' \subseteq Sending
    BY <1>1, LaunchTyped DEF TypePrompt, AgentActions
  <2> QED
    BY <1>k, <1>1, <2>1 DEF TypePrompt
<1>2. CASE TypeRun
  <2>1. sends' \subseteq Sending
    BY <1>2, LaunchTyped DEF TypeRun, AgentActions
  <2> QED
    BY <1>k, <1>2, <2>1 DEF TypeRun
<1>3. CASE TypeClear
  BY <1>k, <1>3 DEF TypeClear
<1>4. CASE TypeAgents
  <2>1. sends' \subseteq Sending
    BY <1>4, LaunchTyped DEF TypeAgents, AgentActions
  <2>2. shown = << >> \/ 0 < Len(shown)
    BY DEF UITypes, TuiTypeOK
  <2> QED
    BY <1>k, <1>4, <2>1, <2>2 DEF TypeAgents
<1> QED
  BY <1>1, <1>2, <1>3, <1>4 DEF Line

\* A key of the list keeps the types.
LEMMA ListKeysTypes ==
    ASSUME Bounds, UITypes, ListKeys
    PROVE  UITypes'
<1>k. Key => keys' \in Ids
  BY DEF Bounds, UITypes, Ids, Key
<1>r. shown # << >> => Row.name \in Names /\ Row.enabled \in BOOLEAN
  BY RowTyped
<1> USE DEF UITypes, TuiTypeOK, SelectionIsARow, modal, chat, session, ListKey
<1> HIDE DEF Row
<1>1. CASE CloseList
  BY <1>k, <1>1 DEF CloseList
<1>2. CASE MoveSelection
  BY <1>k, <1>2 DEF MoveSelection
<1>3. CASE SetActive
  <2>1. sends' \subseteq Sending
    BY <1>3, <1>r, LaunchTyped DEF SetActive, AgentActions
  <2> QED
    BY <1>k, <1>3, <2>1 DEF SetActive
<1>4. CASE Toggle
  <2>1. sends' \subseteq Sending
    BY <1>4, <1>r, LaunchTyped DEF Toggle, AgentActions
  <2> QED
    BY <1>k, <1>4, <2>1 DEF Toggle
<1>5. CASE OpenAdd
  BY <1>k, <1>5 DEF OpenAdd, OpenForm, Bounds
<1>6. CASE OpenEdit
  BY <1>k, <1>r, <1>6 DEF OpenEdit, OpenForm, Bounds
<1>7. CASE AskDelete
  BY <1>k, <1>r, <1>7 DEF AskDelete
<1>8. CASE ConfirmDelete
  <2>1. sends' \subseteq Sending
    BY <1>8, <1>r, LaunchTyped DEF ConfirmDelete, AgentActions
  <2> QED
    BY <1>k, <1>8, <2>1 DEF ConfirmDelete
<1> QED
  BY <1>1, <1>2, <1>3, <1>4, <1>5, <1>6, <1>7, <1>8 DEF ListKeys

\* A key of the form keeps the types.
LEMMA FormKeysTypes ==
    ASSUME Bounds, UITypes, FormKeys
    PROVE  UITypes'
<1>k. Key => keys' \in Ids
  BY DEF Bounds, UITypes, Ids, Key
<1>f. /\ form = [name |-> form.name, enabled |-> form.enabled, field |-> form.field]
      /\ form.name \in Names \cup {None} /\ form.enabled \in BOOLEAN /\ form.field \in 0 .. Fields
  BY DEF UITypes, TuiTypeOK
<1> USE DEF UITypes, TuiTypeOK, SelectionIsARow, chat, session, FormKey
<1>1. CASE LeaveForm
  BY <1>k, <1>1 DEF LeaveForm, NoForm, Bounds
<1>2. CASE MoveField
  <2>1. form'.field \in 0 .. Fields
    BY <1>2, <1>f DEF MoveField, Bounds
  <2>2. form' = [name |-> form.name, enabled |-> form.enabled, field |-> form'.field]
    BY <1>2, <1>f DEF MoveField
  <2> QED
    BY <1>k, <1>2, <1>f, <2>1, <2>2 DEF MoveField
<1>3. CASE EditField
  BY <1>k, <1>3, <1>f DEF EditField
<1>4. CASE SubmitForm
  <2>1. sends' \subseteq Sending
    BY <1>4, <1>f, LaunchTyped DEF SubmitForm, AgentActions
  <2> QED
    BY <1>k, <1>4, <2>1 DEF SubmitForm, NoForm, Bounds
<1> QED
  BY <1>1, <1>2, <1>3, <1>4 DEF FormKeys

\* The event that is handled next, and the others.
LEMMA NextEvent ==
    ASSUME UITypes, events # << >>
    PROVE  /\ Head(events) \in Emitted /\ Tail(events) \in Seq(Emitted)
           /\ Len(Tail(events)) = Len(events) - 1 /\ Head(events) = events[1]
           /\ \A i \in 1 .. Len(events) - 1 : Tail(events)[i] = events[i + 1]
  BY DEF UITypes

\* An event keeps the types, and a row selected.
LEMMA HandleEventTypes ==
    ASSUME UITypes, HandleEvent
    PROVE  UITypes'
<1> DEFINE e == Head(events)
<1>1. e \in Emitted /\ Tail(events) \in Seq(Emitted)
  BY NextEvent DEF HandleEvent
<1> HIDE DEF e
<1> USE DEF UITypes, TuiTypeOK, SelectionIsARow, HandleEvent
<1>2. CASE e.type = "list" /\ ListArrives(e.providers)
  <2>1. e.providers \in Seq(Rows)
    BY <1>1, <1>2 DEF Emitted, Lists, Rows
  <2>2. selected' \in Nat /\ (shown' = << >> \/ selected' < Len(shown'))
    BY <1>2, <2>1 DEF ListArrives, Clamped
  <2> QED
    BY <1>1, <1>2, <2>1, <2>2 DEF ListArrives, chat
<1>3. CASE e.type # "list" /\ OutcomeArrives(e)
  <2>1. e.type = "message" => e.id \in Ids
    BY <1>1, <1>3 DEF Emitted
  <2> QED
    BY <1>1, <1>3, <2>1 DEF OutcomeArrives, modal, EndsWait, Ids
<1> QED
  BY <1>2, <1>3 DEF e

\* A goroutine of the UI keeps the types.
LEMMA CommandTypes ==
    ASSUME UITypes, Command
    PROVE  UITypes'
<1> USE DEF UITypes, TuiTypeOK, SelectionIsARow, modal, chat, session
<1>0. PICK s \in sends : \/ ReadTranscript(s) \/ StoreTranscript(s)
                         \/ SendAction(s) \/ SendIsLost(s)
  BY DEF Command
<1>s. /\ s = [action |-> s.action, stage |-> s.stage, copy |-> s.copy]
      /\ s.action \in Submittable /\ s.copy \subseteq Ids
      /\ s.stage # "send" => s.action.type = "run_command"
  BY DEF Sending
<1>1. CASE ReadTranscript(s)
  <2>1. [s EXCEPT !.stage = "store", !.copy = terminal] \in Sending
    BY <1>s, <1>1 DEF ReadTranscript, Sending, Ids
  <2> QED
    BY <1>1, <2>1 DEF ReadTranscript
<1>2. CASE StoreTranscript(s)
  <2>1. [s EXCEPT !.stage = "send", !.copy = {}] \in Sending
    BY <1>s DEF Sending
  <2> QED
    BY <1>s, <1>2, <2>1 DEF StoreTranscript, Ids
<1>3. CASE SendAction(s)
  <2>1. queue' \in Seq(Submittable)
    BY <1>s, <1>3, AppendProperties DEF SendAction
  <2> QED
    BY <1>3, <2>1 DEF SendAction
<1>4. CASE SendIsLost(s)
  BY <1>4 DEF SendIsLost
<1> QED
  BY <1>0, <1>1, <1>2, <1>3, <1>4

\* What is taken from the queue is one of the actions that may be submitted.
LEMMA ActionTaken ==
    ASSUME UITypes, queue # << >>
    PROVE  /\ Head(queue) \in Submittable /\ Tail(queue) \in Seq(Submittable)
           /\ Finished(Head(queue)) \in Emitted /\ Message(Head(queue)) \in Emitted
<1>1. Head(queue) \in Submittable /\ Tail(queue) \in Seq(Submittable)
  BY DEF UITypes
<1>2. Head(queue).id \in Ids
  BY <1>1 DEF Submittable
<1> QED
  BY <1>1, <1>2 DEF Finished, Message, Emitted

\* What the executor does with the first of the steps it has still to do.
LEMMA StepTaken ==
    ASSUME UITypes, executing # << >>
    PROVE  /\ Head(executing) = executing[1] /\ executing[1] \in Emitted \cup {Load}
           /\ Tail(executing) \in Seq(Emitted \cup {Load})
           /\ DOMAIN Tail(executing) = 1 .. Len(executing) - 1
           /\ DOMAIN executing = 1 .. Len(executing) /\ Len(executing) \in Nat \ {0}
           /\ \A i \in 1 .. Len(executing) - 1 : Tail(executing)[i] = executing[i + 1]
<1> DEFINE E == Emitted \cup {Load}
<1>1. executing \in Seq(E)
  BY DEF UITypes
<1> HIDE DEF E
<1>2. /\ Head(executing) = executing[1] /\ executing[1] \in E
      /\ Tail(executing) \in Seq(E)
      /\ DOMAIN Tail(executing) = 1 .. Len(executing) - 1
      /\ DOMAIN executing = 1 .. Len(executing) /\ Len(executing) \in Nat \ {0}
      /\ \A i \in 1 .. Len(executing) - 1 : Tail(executing)[i] = executing[i + 1]
  BY <1>1
<1> QED
  BY <1>2 DEF E

\* The session's executor keeps the types.
LEMMA ExecutorTypes ==
    ASSUME UITypes, Executor
    PROVE  UITypes'
<1> DEFINE E == Emitted \cup {Load}
           a == Head(queue)
           Frame == UNCHANGED <<modal, chat, sends, keys>>
<1>0. store \in Lists /\ Unique(store)
  BY DEF UITypes, TuiTypeOK, Rows, Lists
<1>p. ASSUME NEW x \in E, NEW y \in E PROVE <<x>> \in Seq(E) /\ <<x, y>> \in Seq(E)
  OBVIOUS
<1>e. ASSUME store' \in Lists, Unique(store'), executing' \in Seq(E),
             events' \in Seq(Emitted), queue' \in Seq(Submittable), Frame,
             life' \in {"runs", "failed", "gone"}
      PROVE  UITypes'
  <2>1. store' \in Seq(Rows)
    BY <1>e DEF Lists, Rows
  <2> HIDE DEF E
  <2> QED
    BY <1>e, <2>1 DEF E, UITypes, TuiTypeOK, SelectionIsARow, modal, chat
<1>l. life \in {"runs", "failed", "gone"} /\ events \in Seq(Emitted)
      /\ queue \in Seq(Submittable) /\ executing \in Seq(E)
  BY DEF UITypes, TuiTypeOK
<1> HIDE DEF E, Frame
<1>1. CASE Execute
  <2>1. /\ a \in Submittable /\ queue' \in Seq(Submittable)
        /\ Finished(a) \in E /\ Message(a) \in E /\ Load \in E
    BY <1>1, ActionTaken DEF Execute, E
  <2>2. Frame /\ life' = life /\ events' = events
    BY <1>1 DEF Execute, Frame
  <2>3. CASE /\ a.type \in ListActions /\ Known(a)
             /\ store' = ListAfter(a) /\ executing' = Answered(a)
    <3>1. store' \in Lists /\ Unique(store')
      BY <2>1, <2>3, UIChangeTyped
    <3>2. executing' \in Seq(E)
      BY <1>p, <2>1, <2>3 DEF Answered
    <3> QED
      BY <1>e, <1>l, <2>1, <2>2, <3>1, <3>2
  <2>4. CASE /\ store' = store
             /\ executing' = <<Finished(a)>> \/ executing' = <<Message(a), Finished(a)>>
    <3>1. executing' \in Seq(E)
      BY <1>p, <2>1, <2>4
    <3> QED
      BY <1>0, <1>e, <1>l, <2>1, <2>2, <2>4, <3>1
  <2> HIDE DEF a
  <2> QED
    BY <1>1, <2>3, <2>4 DEF Execute, a
<1>2. CASE HandlerFails
  <2>1. /\ a \in Submittable /\ queue' \in Seq(Submittable) /\ Finished(a) \in E
    BY <1>2, ActionTaken DEF HandlerFails, E
  <2>2. Frame /\ life' = life /\ events' = events
    BY <1>2 DEF HandlerFails, Frame
  <2>3. ListAfter(a) \in Lists /\ Unique(ListAfter(a))
    BY <1>2, <2>1, UIChangeTyped DEF HandlerFails
  <2>4. store' \in Lists /\ Unique(store')
    <3>1. store' = store \/ store' = ListAfter(a)
      BY <1>2 DEF HandlerFails
    <3> QED
      BY <1>0, <2>3, <3>1
  <2>5. executing' \in Seq(E)
    BY <1>2, <1>p, <2>1 DEF HandlerFails
  <2> QED
    BY <1>e, <1>l, <2>1, <2>2, <2>4, <2>5
<1>3. CASE LoadList
  <2>1. Tail(executing) \in Seq(E)
    BY <1>3, StepTaken DEF LoadList, E
  <2>2. List \in E
    BY <1>0 DEF List, E, Emitted
  <2>3. <<List>> \o Tail(executing) \in Seq(E)
    BY <1>p, <2>1, <2>2, ConcatProperties
  <2>4. executing' \in Seq(E)
    BY <1>3, <2>1, <2>3 DEF LoadList
  <2>5. Frame /\ life' = life /\ events' = events /\ store' = store /\ queue' = queue
    BY <1>3 DEF LoadList, Frame
  <2> QED
    BY <1>0, <1>e, <1>l, <2>4, <2>5
<1>4. CASE Emit
  <2>1. executing' \in Seq(E) /\ Head(executing) \in E /\ Head(executing).type # "load"
    BY <1>4, StepTaken DEF Emit, E
  <2>2. Head(executing) \in Emitted
    <3>1. Load.type = "load"
      BY DEF Load
    <3> QED
      BY <2>1, <3>1 DEF E
  <2>3. events' \in Seq(Emitted)
    <3>1. events' = events \/ events' = Append(events, Head(executing))
      BY <1>4 DEF Emit
    <3> QED
      BY <1>l, <2>2, <3>1, AppendProperties
  <2>4. Frame /\ life' = life /\ store' = store /\ queue' = queue
    BY <1>4 DEF Emit, Frame
  <2> QED
    BY <1>0, <1>e, <1>l, <2>1, <2>3, <2>4
<1> QED
  BY <1>1, <1>2, <1>3, <1>4 DEF Executor

\* What a new subscription is sent.
LEMMA ReplayedTyped ==
    ASSUME Bounds
    PROVE  Replayed \in Seq(Emitted)
<1>1. StartError \in Emitted
  BY DEF StartError, Theirs, Emitted, Ids, Bounds
<1> QED
  BY <1>1 DEF Replayed

\* Every step keeps the types.
LEMMA UITypesKept ==
    ASSUME Bounds, UITypes, [TuiNext]_tuiVars
    PROVE  UITypes'
<1> USE DEF UITypes, TuiTypeOK, SelectionIsARow, modal, chat, session
<1>a. ASSUME NEW a \in TheirActions PROVE a \in Submittable /\ a.type \in ListActions
  <2>1. PICK o \in OthersDo : a = Mine(Theirs, o.type, o.name, o.enabled)
    BY <1>a DEF TheirActions
  <2> QED
    BY <2>1 DEF Mine, Theirs, AgentActions, ListActions, Submittable, Ids, Bounds
<1>1. CASE OtherClient
  <2>1. PICK a \in TheirActions : Others /\ queue' = Append(queue, a) /\ store' = store
    BY <1>1 DEF OtherClient
  <2>2. queue' \in Seq(Submittable)
    BY <1>a, <2>1, AppendProperties
  <2> QED
    BY <2>1, <2>2 DEF Others
<1>2. CASE OtherSession
  <2>1. PICK a \in TheirActions :
           Others /\ Known(a) /\ store' = ListAfter(a) /\ queue' = queue
    BY <1>2 DEF OtherSession
  <2>2. store' \in Lists /\ Unique(store')
    BY <1>a, <2>1, UIChangeTyped
  <2>3. store' \in Seq(Rows)
    BY <2>2 DEF Lists, Rows
  <2> QED
    BY <2>1, <2>2, <2>3 DEF Others
<1>r. << >> \in Seq(Emitted) /\ Replayed \in Seq(Emitted)
  BY ReplayedTyped
<1>3. CASE Disconnect
  BY <1>3, <1>r DEF Disconnect
<1>5. CASE Subscribe
  BY <1>5, <1>r DEF Subscribe
<1>6. CASE DaemonStops
  <2>1. queue' \in Seq(Submittable) /\ executing' \in Seq(Emitted \cup {Load})
    BY <1>6 DEF DaemonStops
  <2> QED
    BY <1>6, <1>r, <2>1 DEF DaemonStops
<1>4. CASE UNCHANGED tuiVars
  BY <1>4 DEF tuiVars
<1> QED
  BY <1>1, <1>2, <1>3, <1>4, <1>5, <1>6, LineTypes, ListKeysTypes, FormKeysTypes,
     HandleEventTypes, CommandTypes, ExecutorTypes DEF TuiNext

\* The invariant of the UI holds at first.
LEMMA UIInitTypes == Bounds /\ TuiInit => UITypes /\ ListsCatchUp
<1> SUFFICES ASSUME Bounds, TuiInit PROVE UITypes /\ ListsCatchUp
  OBVIOUS
<1>1. store = SetToSeq({Agent(n, TRUE) : n \in Names})
  BY DEF TuiInit, SetToSeq, SetToSeq, Agent, Cardinality, Cardinality,
         IsInjective, IsInjective
<1>2. store \in Seq(Rows) /\ Unique(store)
  BY <1>1, AllListed DEF Lists, Rows
<1>a. NoForm \in [name : Names \cup {None}, enabled : BOOLEAN, field : 0 .. Fields]
  BY DEF NoForm, Bounds
<1>e. open = FALSE /\ mode = "list" /\ loading = FALSE /\ thinking = FALSE /\ showLogo = TRUE
  BY DEF TuiInit
<1>f. shown = << >> /\ selected = 0 /\ deleting = None /\ form = NoForm
  BY DEF TuiInit
<1>g. terminal = {} /\ received = {}
  BY DEF TuiInit
<1>b. TuiTypeOK
  <2> HIDE DEF NoForm, Rows
  <2>1. shown \in Seq(Rows) /\ selected \in Nat /\ deleting \in Names \cup {None}
    BY <1>f
  <2>2. terminal \subseteq 0 .. MaxKeys /\ received \subseteq 0 .. MaxKeys
    BY <1>g
  <2>3. form \in [name : Names \cup {None}, enabled : BOOLEAN, field : 0 .. Fields]
    BY <1>a, <1>f
  <2>4. /\ open \in BOOLEAN /\ mode \in {"list", "add"} /\ loading \in BOOLEAN
        /\ thinking \in BOOLEAN /\ showLogo \in BOOLEAN /\ life \in {"runs", "failed", "gone"}
    BY <1>e DEF TuiInit
  <2> QED
    BY <1>2, <2>1, <2>2, <2>3, <2>4 DEF TuiTypeOK
<1>c. /\ queue \in Seq(Submittable) /\ events \in Seq(Emitted) /\ sends \subseteq Sending
      /\ executing \in Seq(Emitted \cup {Load})
  BY ReplayedTyped DEF TuiInit
<1>d. keys \in Ids /\ SelectionIsARow
  BY DEF TuiInit, Ids, Bounds, SelectionIsARow
<1>3. UITypes
  BY <1>2, <1>b, <1>c, <1>d DEF UITypes
<1>4. ListsCatchUp
  BY DEF TuiInit, ListsCatchUp, Listed
<1> QED
  BY <1>3, <1>4

-----------------------------------------------------------------------------
(* The lists that are on their way.                                        *)

\* Most steps are about no list.
LEMMA ListsFrame ==
    ASSUME ListsCatchUp, UNCHANGED <<events, executing, store, stale, shown, connected>>
    PROVE  ListsCatchUp'
  BY DEF ListsCatchUp, LastList, IsList, Listed

\* An event that is handled: the last list of the others is the last of all, or was it.
LEMMA HandledListsCatchUp ==
    ASSUME UITypes, ListsCatchUp, HandleEvent
    PROVE  ListsCatchUp'
<1> DEFINE n == Len(events)
<1>1. /\ events # << >> /\ events' = Tail(events)
      /\ UNCHANGED <<store, connected, executing, stale>>
      /\ \/ Head(events).type = "list" /\ shown' = Head(events).providers
         \/ Head(events).type # "list" /\ shown' = shown
  BY DEF HandleEvent, ListArrives, OutcomeArrives, modal
<1>2. /\ n \in Nat \ {0} /\ DOMAIN events = 1 .. n /\ DOMAIN events' = 1 .. n - 1
      /\ Head(events) = events[1]
      /\ \A i \in 1 .. n - 1 : events'[i] = events[i + 1]
  BY <1>1, NextEvent DEF UITypes
<1> HIDE DEF n
<1>3. ASSUME NEW i \in 1 .. n - 1 PROVE IsList(i)' <=> IsList(i + 1)
  BY <1>2 DEF IsList
<1>4. ASSUME ~stale, ~Listed(1), NEW i \in DOMAIN events', LastList(i)'
      PROVE  events'[i].providers = store'
  <2>1. i + 1 \in DOMAIN events /\ IsList(i + 1)
    BY <1>2, <1>3, <1>4 DEF LastList
  <2>2. ASSUME NEW j \in DOMAIN events, j > i + 1 PROVE ~IsList(j)
    <3>1. j - 1 \in 1 .. n - 1 /\ j - 1 > i /\ (j - 1) + 1 = j
      BY <1>2, <2>2
    <3>2. ~IsList(j - 1)'
      BY <1>2, <1>4, <3>1 DEF LastList
    <3> QED
      BY <1>3, <3>1, <3>2
  <2>3. LastList(i + 1)
    BY <2>1, <2>2 DEF LastList
  <2> QED
    BY <1>1, <1>2, <1>4, <2>1, <2>3 DEF ListsCatchUp
<1>5. ASSUME ~stale, ~Listed(1), \A i \in DOMAIN events' : ~IsList(i)'
      PROVE  shown' = store'
  <2>1. ASSUME NEW j \in DOMAIN events, j > 1 PROVE ~IsList(j)
    <3>1. j - 1 \in 1 .. n - 1 /\ (j - 1) + 1 = j
      BY <1>2, <2>1
    <3> QED
      BY <1>2, <1>3, <1>5, <3>1
  <2>2. CASE events[1].type = "list"
    <3>1. 1 \in DOMAIN events /\ LastList(1)
      BY <1>2, <2>1, <2>2 DEF LastList, IsList
    <3> QED
      BY <1>1, <1>2, <1>5, <2>2, <3>1 DEF ListsCatchUp
  <2>3. CASE events[1].type # "list"
    <3>1. \A j \in DOMAIN events : ~IsList(j)
      BY <1>2, <2>1, <2>3 DEF IsList
    <3> QED
      BY <1>1, <1>2, <1>5, <2>3, <3>1 DEF ListsCatchUp
  <2> QED
    BY <2>2, <2>3
<1>6. /\ \A i \in DOMAIN executing' : i > 1 => ~Listed(i)'
      /\ ~stale' /\ 1 \in DOMAIN executing' /\ executing'[1].type = "list" =>
            executing'[1].providers = store'
      /\ Listed(1)' <=> Listed(1)
      /\ ~connected' => events' = << >>
  BY <1>1 DEF ListsCatchUp, Listed
<1> QED
  BY <1>1, <1>4, <1>5, <1>6 DEF ListsCatchUp

\* A list that is emitted is the last on its way; another event changes no list.
LEMMA EmittedListsCatchUp ==
    ASSUME UITypes, ListsCatchUp, Emit
    PROVE  ListsCatchUp'
<1> DEFINE e == Head(executing)
<1>1. /\ executing' = Tail(executing) /\ e = executing[1] /\ e.type # "load"
      /\ 1 \in DOMAIN executing
      /\ DOMAIN executing' = 1 .. Len(executing) - 1 /\ DOMAIN executing = 1 .. Len(executing)
      /\ Len(executing) \in Nat
      /\ \A i \in DOMAIN executing' : executing'[i] = executing[i + 1]
  BY StepTaken DEF Emit
<1>2. UNCHANGED <<store, shown, connected>>
  BY DEF Emit, modal
<1>3. ASSUME NEW i \in DOMAIN executing' PROVE ~Listed(i)'
  <2>1. i + 1 \in DOMAIN executing /\ i + 1 > 1
    BY <1>1
  <2>2. ~Listed(i + 1)
    BY <2>1 DEF ListsCatchUp
  <2> QED
    BY <1>1, <2>1, <2>2 DEF Listed
<1>4. 1 \in DOMAIN executing' => executing'[1].type # "list"
  BY <1>3 DEF Listed
<1>5. Listed(1) <=> e.type = "list"
  BY <1>1 DEF Listed
<1>6. CASE events' = events
  <2>1. stale' = (stale \/ e.type = "list") \/ connected
    BY DEF Emit
  <2>2. ~connected' => events' = << >>
    BY <1>2, <1>6 DEF ListsCatchUp
  <2>3. CASE connected /\ events' = Append(events, e)
    BY <1>6, <2>3, AppendProperties DEF UITypes
  <2>4. CASE stale' = (stale \/ e.type = "list")
    <3>1. ~stale' => ~stale /\ ~Listed(1)
      BY <1>5, <2>4
    <3> QED
      BY <1>2, <1>3, <1>4, <1>6, <2>2, <3>1 DEF ListsCatchUp, LastList, IsList
  <2> QED
    BY <2>3, <2>4 DEF Emit
<1>7. CASE connected /\ events' = Append(events, e) /\ stale' = stale
  <2>1. PICK n \in Nat :
        /\ DOMAIN events = 1 .. n /\ DOMAIN events' = 1 .. n + 1
        /\ events'[n + 1] = e
        /\ \A i \in 1 .. n : events'[i] = events[i]
    <3>1. events \in Seq(Emitted)
      BY DEF UITypes
    <3>2. e \in Emitted
      BY <1>1, StepTaken DEF Load, Emit
    <3> HIDE DEF e
    <3> QED
      BY <1>7, <3>1, <3>2, LenProperties, AppendProperties
  <2> HIDE DEF e
  <2>2. CASE e.type = "list"
    <3>1. ~stale => e.providers = store
      BY <1>1, <2>2 DEF ListsCatchUp
    <3>2. IsList(n + 1)' /\ n + 1 \in DOMAIN events'
      BY <2>1, <2>2 DEF IsList
    <3>3. ASSUME NEW i \in DOMAIN events', LastList(i)' PROVE events'[i] = e
      BY <2>1, <3>2, <3>3 DEF LastList
    <3> QED
      BY <1>2, <1>3, <1>4, <1>7, <3>1, <3>2, <3>3 DEF ListsCatchUp
  <2>3. CASE e.type # "list"
    <3>1. ~Listed(1)
      BY <1>5, <2>3
    <3>2. ASSUME NEW i \in DOMAIN events', IsList(i)' PROVE i \in 1 .. n /\ IsList(i)
      BY <2>1, <2>3, <3>2 DEF IsList
    <3>3. ASSUME NEW i \in 1 .. n, IsList(i) PROVE IsList(i)'
      BY <2>1, <3>3 DEF IsList
    <3>4. ASSUME ~stale, NEW i \in DOMAIN events', LastList(i)'
          PROVE  events'[i].providers = store
      <4>1. i \in 1 .. n /\ LastList(i)
        BY <2>1, <3>2, <3>3, <3>4 DEF LastList, IsList
      <4> QED
        BY <2>1, <3>1, <3>4, <4>1 DEF ListsCatchUp
    <3>5. ASSUME ~stale, \A i \in DOMAIN events' : ~IsList(i)' PROVE shown = store
      <4>1. \A i \in DOMAIN events : ~IsList(i)
        BY <2>1, <3>3, <3>5
      <4> QED
        BY <3>1, <3>5, <4>1 DEF ListsCatchUp
    <3> QED
      BY <1>2, <1>3, <1>4, <1>7, <3>4, <3>5 DEF ListsCatchUp
  <2> QED
    BY <2>2, <2>3
<1> QED
  BY <1>6, <1>7 DEF Emit

\* A handler that changes the list has one to emit, or leaves a stale one behind.
LEMMA ExecutedListsCatchUp ==
    ASSUME UITypes, ListsCatchUp, Execute \/ HandlerFails \/ LoadList
    PROVE  ListsCatchUp'
<1>1. UNCHANGED <<shown, connected, events>>
  BY DEF Execute, HandlerFails, LoadList, modal
<1>0. UNCHANGED <<shown, connected, events>> =>
         (\A i \in DOMAIN events : LastList(i)' <=> LastList(i))
           /\ (\A i \in DOMAIN events : IsList(i)' <=> IsList(i))
  BY DEF LastList, IsList
<1>2. ASSUME executing = << >>, ~stale' => ~stale /\ store' = store,
             \A i \in DOMAIN executing' : executing'[i].type \notin {"load", "list"}
      PROVE  ListsCatchUp'
  <2>1. ~Listed(1)
    BY <1>2 DEF Listed
  <2> QED
    BY <1>0, <1>1, <1>2, <2>1 DEF ListsCatchUp, Listed
<1>3. ASSUME 1 \in DOMAIN executing', executing'[1].type \in {"load", "list"},
             ~stale' /\ executing'[1].type = "list" => executing'[1].providers = store',
             \A i \in DOMAIN executing' : i > 1 => executing'[i].type \notin {"load", "list"}
      PROVE  ListsCatchUp'
  <2>1. Listed(1)'
    BY <1>3 DEF Listed
  <2>2. ~connected' => events' = << >>
    BY <1>1 DEF ListsCatchUp
  <2> QED
    BY <1>3, <2>1, <2>2 DEF ListsCatchUp, Listed
<1>4. ASSUME NEW x, NEW y
      PROVE  /\ DOMAIN <<x>> = 1 .. 1 /\ DOMAIN <<x, y>> = 1 .. 2 /\ <<x>>[1] = x
             /\ <<x, y>>[1] = x /\ <<x, y>>[2] = y
  OBVIOUS
<1> DEFINE a == Head(queue)
<1>5. /\ Finished(a).type = "finished" /\ Message(a).type = "message" /\ Load.type = "load"
      /\ List.type = "list" /\ List.providers = store
  BY DEF Finished, Message, Load, List
<1> HIDE DEF a
<1>6. CASE Execute
  <2>1. CASE executing' = Answered(a)
    <3>1. executing' = <<Load, Finished(a)>>
      BY <2>1 DEF Answered
    <3> QED
      BY <1>3, <1>4, <1>5, <3>1
  <2>2. CASE /\ executing' = <<Finished(a)>> \/ executing' = <<Message(a), Finished(a)>>
             /\ store' = store
    <3>1. \A i \in DOMAIN executing' : executing'[i].type \notin {"load", "list"}
      BY <1>4, <1>5, <2>2
    <3> QED
      BY <1>2, <1>6, <2>2, <3>1 DEF Execute
  <2> QED
    BY <1>6, <2>1, <2>2 DEF Execute, a
<1>7. CASE HandlerFails
  <2>1. executing' = <<Finished(a)>> /\ executing = << >>
    BY <1>7 DEF HandlerFails, a
  <2>2. \A i \in DOMAIN executing' : executing'[i].type \notin {"load", "list"}
    BY <1>4, <1>5, <2>1
  <2>3. ~stale' => ~stale /\ store' = store
    BY <1>7 DEF HandlerFails
  <2> QED
    BY <1>2, <2>1, <2>2, <2>3
<1>8. CASE LoadList
  <2> DEFINE t == Tail(executing)
             m == Len(executing) - 1
  <2>1. /\ m \in Nat /\ DOMAIN t = 1 .. m /\ DOMAIN executing = 1 .. m + 1
        /\ \A i \in 1 .. m : t[i] = executing[i + 1]
    BY <1>8, StepTaken DEF LoadList
  <2>2. \A i \in 2 .. m + 1 : executing[i].type \notin {"load", "list"}
    <3>1. ASSUME NEW i \in 2 .. m + 1 PROVE executing[i].type \notin {"load", "list"}
      <4>1. i \in DOMAIN executing /\ i > 1
        BY <2>1
      <4> QED
        BY <4>1 DEF ListsCatchUp, Listed
    <3> QED
      BY <3>1
  <2>3. CASE executing' = <<List>> \o t
    <3>1. /\ DOMAIN executing' = 1 .. m + 1 /\ executing'[1] = List
          /\ \A i \in 2 .. m + 1 : executing'[i] = executing[i]
      <4>1. t \in Seq(Emitted \cup {Load})
        BY <1>8, StepTaken DEF LoadList
      <4>2. t \in Seq(Emitted \cup {Load, List}) /\ Len(t) = m
        BY <2>1, <4>1
      <4>3. <<List>> \in Seq(Emitted \cup {Load, List}) /\ Len(<<List>>) = 1
        OBVIOUS
      <4> HIDE DEF t, m
      <4>4. /\ DOMAIN executing' = 1 .. m + 1 /\ executing'[1] = List
            /\ \A i \in 2 .. m + 1 : executing'[i] = t[i - 1]
        BY <2>1, <2>3, <4>2, <4>3, ConcatProperties
      <4>5. ASSUME NEW i \in 2 .. m + 1 PROVE executing'[i] = executing[i]
        <5>1. i - 1 \in 1 .. m /\ (i - 1) + 1 = i
          BY <2>1, <4>5
        <5> QED
          BY <2>1, <4>4, <5>1
      <4> QED
        BY <4>4, <4>5
    <3> HIDE DEF t, m
    <3>2. store' = store
      BY <1>8 DEF LoadList
    <3>3. \A i \in DOMAIN executing' : i > 1 => executing'[i].type \notin {"load", "list"}
      BY <2>1, <2>2, <3>1
    <3>4. 1 \in DOMAIN executing'
      BY <2>1, <3>1
    <3> QED
      BY <1>3, <1>5, <3>1, <3>2, <3>3, <3>4
  <2>4. CASE executing' = t /\ stale' = TRUE
    <3> HIDE DEF m
    <3>1. ASSUME NEW i \in DOMAIN executing' PROVE ~Listed(i)'
      <4>1. i + 1 \in 2 .. m + 1 /\ t[i] = executing[i + 1]
        BY <2>1, <2>4, <3>1
      <4>2. executing[i + 1].type \notin {"load", "list"}
        BY <2>2, <4>1
      <4> HIDE DEF t
      <4> QED
        BY <2>4, <4>1, <4>2 DEF Listed
    <3>2. ~connected' => events' = << >>
      BY <1>1 DEF ListsCatchUp
    <3> QED
      BY <2>4, <3>1, <3>2 DEF ListsCatchUp
  <2> QED
    BY <1>8, <2>3, <2>4 DEF LoadList
<1> QED
  BY <1>6, <1>7, <1>8

\* Every step keeps it.
LEMMA ListsCatchUpKept ==
    ASSUME UITypes, ListsCatchUp, [TuiNext]_tuiVars
    PROVE  ListsCatchUp'
<1>1. CASE Line
  BY <1>1, ListsFrame DEF Line, TypePrompt, TypeRun, TypeClear, TypeAgents,
                          modal, session
<1>2. CASE ListKeys
  BY <1>2, ListsFrame
     DEF ListKeys, CloseList, MoveSelection, SetActive, Toggle, OpenAdd,
         OpenEdit, OpenForm, AskDelete, ConfirmDelete, ListKey, session
<1>3. CASE FormKeys
  BY <1>3, ListsFrame DEF FormKeys, LeaveForm, MoveField, EditField, SubmitForm,
                          FormKey, session
<1>4. CASE Command
  BY <1>4, ListsFrame DEF Command, ReadTranscript, StoreTranscript, SendAction,
                          SendIsLost, modal, session
<1>5. CASE OtherClient
  BY <1>5, ListsFrame DEF OtherClient, Others, modal
<1>9. CASE OtherSession
  BY <1>9 DEF OtherSession, Others, ListsCatchUp, Listed
<1>6. CASE Disconnect
  <2>1. ~stale' => ~stale /\ \A i \in DOMAIN events : ~IsList(i)
    BY <1>6 DEF Disconnect, IsList, UITypes
  <2>2. UNCHANGED <<store, shown, executing>> /\ DOMAIN events' = {}
    BY <1>6 DEF Disconnect, modal
  <2>3. /\ Listed(1)' <=> Listed(1)
        /\ \A i \in DOMAIN executing : Listed(i)' <=> Listed(i)
    BY <2>2 DEF Listed
  <2> QED
    BY <1>6, <2>1, <2>2, <2>3 DEF Disconnect, ListsCatchUp
<1>7. CASE Subscribe
  <2>1. /\ events = << >> /\ events' = Replayed /\ connected' = TRUE
        /\ UNCHANGED <<store, shown, executing, stale>>
    BY <1>7 DEF Subscribe, modal, ListsCatchUp
  <2>2. /\ \A i \in DOMAIN events : ~IsList(i)
        /\ \A i \in DOMAIN events' : ~IsList(i)'
    BY <2>1 DEF IsList, Replayed, StartError
  <2>3. /\ Listed(1)' <=> Listed(1)
        /\ \A i \in DOMAIN executing : Listed(i)' <=> Listed(i)
    BY <2>1 DEF Listed
  <2> QED
    BY <2>1, <2>2, <2>3 DEF ListsCatchUp, LastList
<1>10. CASE DaemonStops
  BY <1>10 DEF DaemonStops, ListsCatchUp, Listed
<1>8. CASE UNCHANGED tuiVars
  BY <1>8, ListsFrame DEF tuiVars, modal, session
<1> QED
  BY <1>1, <1>2, <1>3, <1>4, <1>5, <1>6, <1>7, <1>8, <1>9, <1>10, HandledListsCatchUp,
     ExecutedListsCatchUp, EmittedListsCatchUp DEF TuiNext, Executor

-----------------------------------------------------------------------------
\* A delete waits for its confirmation exactly while the last key asked for it: every other
\* key withdraws it, and no event does.
Waiting == asked = deleting

LEMMA WaitingKept ==
    ASSUME Waiting, [TuiNext]_tuiVars
    PROVE  Waiting'
<1> USE DEF Waiting
<1>1. CASE Line
  BY <1>1 DEF Line, TypePrompt, TypeRun, TypeClear, TypeAgents, modal
<1>2. CASE ListKeys
  <2> HIDE DEF Row
  <2> QED
    BY <1>2 DEF ListKeys, CloseList, MoveSelection, SetActive, Toggle, OpenAdd,
                OpenEdit, OpenForm, AskDelete, ConfirmDelete, ListKey
<1>3. CASE FormKeys
  BY <1>3 DEF FormKeys, LeaveForm, MoveField, EditField, SubmitForm, FormKey
<1>4. CASE Command
  BY <1>4 DEF Command, ReadTranscript, StoreTranscript, SendAction, SendIsLost, modal
<1>5. CASE HandleEvent
  BY <1>5 DEF HandleEvent, ListArrives, OutcomeArrives, modal
<1>6. CASE Executor
  BY <1>6 DEF Executor, Execute, HandlerFails, LoadList, Emit, modal
<1>7. CASE OtherClient \/ OtherSession \/ Disconnect \/ Subscribe \/ DaemonStops
  BY <1>7 DEF OtherClient, OtherSession, Others, Disconnect, Subscribe, DaemonStops, modal
<1>8. CASE UNCHANGED tuiVars
  BY <1>8 DEF tuiVars, modal
<1> QED
  BY <1>1, <1>2, <1>3, <1>4, <1>5, <1>6, <1>7, <1>8 DEF TuiNext

\* The invariant of the UI.
UIInv == UITypes /\ ListsCatchUp /\ Waiting

\* It holds in every reachable state.
LEMMA UIInvHolds == TuiSpec => []UIInv
<1>0. TuiInit => Waiting
  BY DEF TuiInit, Waiting
<1>1. TuiInit => UIInv
  BY <1>0, UIInitTypes, TuiAssumption DEF UIInv
<1>2. UIInv /\ [TuiNext]_tuiVars => UIInv'
  BY UITypesKept, ListsCatchUpKept, WaitingKept, TuiAssumption DEF UIInv
<1> QED
  BY <1>1, <1>2, PTL DEF TuiSpec

\* The variables of the UI keep their types, for any names, fields, keys and lines.
THEOREM UITypeCorrect == TuiSpec => []TuiTypeOK
<1>1. UIInv => TuiTypeOK
  BY DEF UIInv, UITypes
<1> QED
  BY <1>1, UIInvHolds, PTL

\* The keys that index the list find a row, whatever lists arrive (tui_model.go:219-246,
\* 640-660).
THEOREM ARowIsSelected == TuiSpec => []SelectionIsARow
<1>1. UIInv => SelectionIsARow
  BY DEF UIInv, UITypes
<1> QED
  BY <1>1, UIInvHolds, PTL

\* Once nothing is on its way, the list that is shown is the one that is stored, if what was
\* last loaded for this session was neither changed since by others or by a handler that
\* failed, nor lost (handler.go:270, 309, 457, 515).
THEOREM ListsCatchUpWhenQuiet == TuiSpec => []QuietListIsCurrent
<1>1. UIInv => QuietListIsCurrent
  BY DEF UIInv, ListsCatchUp, QuietListIsCurrent, Listed, IsList
<1> QED
  BY <1>1, UIInvHolds, PTL

\* A command starts with a key, and goes through its stages as it is.
LEMMA DeletesComeFromConfirm ==
    ASSUME UITypes, [TuiNext]_tuiVars, NEW s \in sends' \ sends, s.action.type = "agents_delete"
    PROVE  ConfirmDelete /\ s.action = Mine(keys + 1, "agents_delete", Row.name, TRUE)
<1>1. CASE Line
  BY <1>1 DEF Line, TypePrompt, TypeRun, TypeClear, TypeAgents,
              Launch, Mine
<1>2. CASE ListKeys
  <2> HIDE DEF Row
  <2>1. CASE ConfirmDelete
    <3>1. Launch("agents_delete", Row.name, TRUE)
      BY <2>1 DEF ConfirmDelete
    <3>2. s.action = Mine(keys + 1, "agents_delete", Row.name, TRUE)
      <4> DEFINE a == Mine(keys + 1, "agents_delete", Row.name, TRUE)
                 t == [action |-> a, stage |-> "send", copy |-> {}]
      <4>1. sends' = sends \cup {t}
        BY <3>1 DEF Launch
      <4>2. s = t /\ t.action = a
        BY <4>1
      <4> QED
        BY <4>2
    <3> QED
      BY <2>1, <3>2
  <2>2. CASE SetActive
    BY <2>2 DEF SetActive, Launch, Mine
  <2>3. CASE Toggle
    BY <2>3 DEF Toggle, Launch, Mine
  <2> QED
    BY <1>2, <2>1, <2>2, <2>3
       DEF ListKeys, CloseList, MoveSelection, OpenAdd, OpenEdit,
           OpenForm, AskDelete
<1>3. CASE FormKeys
  BY <1>3 DEF FormKeys, LeaveForm, MoveField, EditField, SubmitForm,
              Launch, Mine
<1>4. CASE Command
  <2>1. ASSUME NEW t \in sends, t.stage # "send", NEW stage, NEW copy,
               s = [t EXCEPT !.stage = stage, !.copy = copy]
        PROVE  FALSE
    BY <2>1 DEF UITypes, Sending
  <2>2. PICK t \in sends : \/ ReadTranscript(t) \/ StoreTranscript(t)
                           \/ SendAction(t) \/ SendIsLost(t)
    BY <1>4 DEF Command
  <2> QED
    BY <2>1, <2>2 DEF ReadTranscript, StoreTranscript, SendAction, SendIsLost
<1>5. CASE \/ HandleEvent \/ Executor \/ OtherClient \/ OtherSession
           \/ Disconnect \/ Subscribe \/ DaemonStops
  BY <1>5 DEF HandleEvent, Executor, Execute, HandlerFails, LoadList, Emit, OtherClient,
              OtherSession, Others, Disconnect, Subscribe, DaemonStops
<1>6. CASE UNCHANGED tuiVars
  BY <1>6 DEF tuiVars
<1> QED
  BY <1>1, <1>2, <1>3, <1>4, <1>5, <1>6 DEF TuiNext

\* An agent is deleted only after two presses of "d" that pointed at it, with no other key
\* of the list or the form between them, whatever lists arrived (tui_model.go:194-254).
THEOREM DeletesWereConfirmed == TuiSpec => DeletesAreConfirmed
<1>1. UIInv /\ [TuiNext]_tuiVars =>
         [\A s \in sends' \ sends :
            s.action.type = "agents_delete" =>
              /\ asked = s.action.name
              /\ shown # << >> /\ Row.name = s.action.name]_tuiVars
  <2> SUFFICES ASSUME UITypes, Waiting, [TuiNext]_tuiVars, NEW s \in sends' \ sends,
                      s.action.type = "agents_delete"
               PROVE  /\ asked = s.action.name
                      /\ shown # << >> /\ Row.name = s.action.name
    BY DEF UIInv
  <2>1. ConfirmDelete /\ s.action = Mine(keys + 1, "agents_delete", Row.name, TRUE)
    BY DeletesComeFromConfirm
  <2> HIDE DEF Row
  <2> QED
    BY <2>1 DEF ConfirmDelete, Confirmed, Waiting, Mine
<1> QED
  BY <1>1, UIInvHolds, PTL DEF TuiSpec, DeletesAreConfirmed
=============================================================================
