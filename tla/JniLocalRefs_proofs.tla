------------------------- MODULE JniLocalRefs_proofs -------------------------
(***************************************************************************)
(* Proofs that the conversions hand only live references to JNI, return    *)
(* live results, and read a list with one reference for its elements, for  *)
(* lists, workers, senders and LBs in any number.                          *)
(*                                                                         *)
(* The argument is a proof outline of each method: between any two of its  *)
(* calls, what is known of the references.  An outline of a conversion is  *)
(* put together from those of its parts, as the conversion is.             *)
(***************************************************************************)
EXTENDS JniLocalRefs, SequenceTheorems, TLAPS

(* What is known: some objects are alive; some were deleted, and their     *)
(* slots are free or were given to a victim; inputs read have one slot.    *)
Known(alive, gone, read) == [alive |-> alive, gone |-> gone, read |-> read]
Alive(names) == Known(names, {}, {})

(* What the second deletion of the workers may hit.                        *)
Victims == {Class("jLBStatus"), Object("jLBStatus")}

IsInput(x) == x[2] = "input"
OneAtMost(S) == \A x, y \in S : x = y

Implies(K, L) == L.alive \subseteq K.alive /\ L.gone \subseteq K.gone /\ K.read \subseteq L.read

(* A call may be made with K known, and L is known after it.               *)
CallLeads(K, c, L) ==
  /\ c.args \subseteq K.alive \cup {Object("jLBStatus")}
  /\ c.op = "new" =>
       /\ L.alive \subseteq K.alive \cup {c.name}
       /\ L.gone \subseteq (IF c.name \in Victims THEN K.gone \ {c.name} ELSE {})
       /\ c.name # Free /\ c.name \notin K.read
       /\ (IF IsInput(c.name) THEN K.read \cup {c.name} ELSE K.read) \subseteq L.read
  /\ c.op = "use" => Implies(K, L)
  /\ c.op = "delete" =>
       \/ /\ c.name \in K.alive
          /\ Implies(Known(K.alive \ {c.name}, K.gone \cup {c.name}, K.read \ {c.name}), L)
       \/ /\ c.name \in K.gone
          /\ Implies(Known(K.alive \ Victims, K.gone, K.read), L)

Outline(calls, k) ==
  /\ \A i \in 1 .. Len(calls) : CallLeads(k[i], calls[i], k[i + 1])
  /\ \A i \in 1 .. Len(calls) + 1 : OneAtMost(k[i].read)

Leads(K, calls, L) ==
  /\ \E S : calls \in Seq(S)
  /\ \E k : Outline(calls, k) /\ Implies(K, k[1]) /\ Implies(k[Len(calls) + 1], L)

-----------------------------------------------------------------------------
(* A sequence of elements of a set is one of elements of a larger set.     *)
LEMMA SeqMonotone ==
  ASSUME NEW S, NEW T, NEW s \in Seq(S), S \subseteq T
  PROVE  s \in Seq(T)
OBVIOUS

LEMMA SeqOfElements ==
  ASSUME NEW S, NEW n \in Nat, NEW s \in [1 .. n -> S]
  PROVE  s \in Seq(S) /\ Len(s) = n
OBVIOUS

(* Less may be known after a call.                                         *)
LEMMA Weaker ==
  ASSUME NEW K, NEW c, NEW L, NEW M, CallLeads(K, c, L), Implies(L, M)
  PROVE  CallLeads(K, c, M)
BY DEF CallLeads, Implies, Known

LEMMA ImpliesTransitive ==
  ASSUME NEW K, NEW L, NEW M, Implies(K, L), Implies(L, M)
  PROVE  Implies(K, M)
BY DEF Implies

LEMMA LeadsWeaker ==
  ASSUME NEW K, NEW s, NEW L, NEW M, Leads(K, s, L), Implies(L, M)
  PROVE  Leads(K, s, M)
BY ImpliesTransitive DEF Leads

(* Nothing is done.                                                        *)
LEMMA LeadsNowhere ==
  ASSUME NEW K, OneAtMost(K.read)
  PROVE  Leads(K, <<>>, K)
<1> DEFINE k == [i \in {1} |-> K]
<1>1. <<>> \in Seq({}) /\ Len(<<>>) = 0
  BY EmptySeq
<1>2. Outline(<<>>, k)
  BY <1>1 DEF Outline
<1>3. Implies(K, k[1]) /\ Implies(k[1], K)
  BY DEF Implies
<1> QED BY <1>1, <1>2, <1>3 DEF Leads

(* One call.                                                               *)
LEMMA Lead1 ==
  ASSUME NEW K, NEW L, NEW c,
         CallLeads(K, c, L), OneAtMost(K.read), OneAtMost(L.read)
  PROVE  Leads(K, <<c>>, L)
<1> DEFINE k == [i \in {1, 2} |-> IF i = 1 THEN K ELSE L]
<1>1. <<c>> \in Seq({c}) /\ Len(<<c>>) = 1 /\ <<c>>[1] = c
  OBVIOUS
<1>2. Outline(<<c>>, k)
  BY <1>1 DEF Outline
<1>3. Implies(K, k[1]) /\ Implies(k[Len(<<c>>) + 1], L)
  BY <1>1 DEF Implies
<1> QED BY <1>1, <1>2, <1>3 DEF Leads

(* One conversion after another.                                           *)
LEMMA LeadBoth ==
  ASSUME NEW K, NEW L, NEW M, NEW s, NEW t, Leads(K, s, L), Leads(L, t, M)
  PROVE  Leads(K, s \o t, M)
<1>1. PICK S, k1 : /\ s \in Seq(S) /\ Outline(s, k1)
                   /\ Implies(K, k1[1]) /\ Implies(k1[Len(s) + 1], L)
  BY DEF Leads
<1>2. PICK T, k2 : /\ t \in Seq(T) /\ Outline(t, k2)
                   /\ Implies(L, k2[1]) /\ Implies(k2[Len(t) + 1], M)
  BY DEF Leads
<1> DEFINE m == Len(s)
           n == Len(t)
           k == [i \in 1 .. m + n + 1 |-> IF i <= m THEN k1[i] ELSE k2[i - m]]
<1>3. m \in Nat /\ n \in Nat
  BY <1>1, <1>2, LenProperties
<1>4. /\ s \o t \in Seq(S \cup T) /\ Len(s \o t) = m + n
      /\ \A i \in 1 .. m + n : (s \o t)[i] = IF i <= m THEN s[i] ELSE t[i - m]
  <2>1. s \in Seq(S \cup T) /\ t \in Seq(S \cup T)
    BY <1>1, <1>2, SeqMonotone
  <2> QED BY <2>1, ConcatProperties
<1>5. Implies(K, k[1])
  <2>1. CASE m = 0
    <3>1. Implies(K, L)
      BY <1>1, <2>1, ImpliesTransitive
    <3> QED BY <1>2, <1>3, <2>1, <3>1, ImpliesTransitive
  <2>2. CASE m # 0
    BY <1>1, <1>3, <2>2
  <2> QED BY <2>1, <2>2
<1>6. Implies(k[m + n + 1], M)
  BY <1>2, <1>3
<1>7. ASSUME NEW i \in 1 .. m + n
      PROVE  CallLeads(k[i], (s \o t)[i], k[i + 1])
  <2>1. CASE i < m
    BY <1>1, <1>3, <1>4, <2>1 DEF Outline
  <2>2. CASE i = m
    <3>1. CallLeads(k1[m], s[m], k1[m + 1])
      BY <1>1, <1>3, <2>2 DEF Outline
    <3>2. Implies(k1[m + 1], k2[1])
      BY <1>1, <1>2, ImpliesTransitive
    <3>3. CallLeads(k1[m], s[m], k2[1])
      BY <3>1, <3>2, Weaker
    <3> QED BY <1>3, <1>4, <2>2, <3>3
  <2>3. CASE i > m
    <3>1. i - m \in 1 .. n /\ i - m + 1 = i + 1 - m
      BY <1>3, <2>3
    <3>2. CallLeads(k2[i - m], t[i - m], k2[i + 1 - m])
      BY <1>2, <3>1 DEF Outline
    <3> QED BY <1>3, <1>4, <2>3, <3>2
  <2> QED BY <1>3, <2>1, <2>2, <2>3
<1>8. ASSUME NEW i \in 1 .. m + n + 1
      PROVE  OneAtMost(k[i].read)
  <2>1. CASE i <= m
    BY <1>1, <1>3, <2>1 DEF Outline
  <2>2. CASE ~(i <= m)
    <3>1. i - m \in 1 .. n + 1
      BY <1>3, <2>2
    <3> QED BY <1>2, <2>2, <3>1 DEF Outline
  <2> QED BY <2>1, <2>2
<1>9. Outline(s \o t, k)
  BY <1>4, <1>7, <1>8 DEF Outline
<1> QED BY <1>4, <1>5, <1>6, <1>9 DEF Leads

(* Before a conversion more may be known.                                  *)
LEMMA LeadsStronger ==
  ASSUME NEW K, NEW L, NEW s, NEW M, Implies(K, L), Leads(L, s, M)
  PROVE  Leads(K, s, M)
BY ImpliesTransitive DEF Leads

(* Several calls in a row.                                                 *)
LEMMA Lead2 ==
  ASSUME NEW K, NEW L, NEW M,
         NEW c, NEW d,
         CallLeads(K, c, L), CallLeads(L, d, M),
         OneAtMost(K.read), OneAtMost(L.read), OneAtMost(M.read)
  PROVE  Leads(K, <<c, d>>, M)
<1> DEFINE s == <<c, d>>
           k == [i \in 1 .. 3 |-> CASE i = 1 -> K [] i = 2 -> L [] i = 3 -> M]
<1>1. s \in Seq({c, d}) /\ Len(s) = 2 /\ s[1] = c /\ s[2] = d
  OBVIOUS
<1>2. k[1] = K /\ k[2] = L /\ k[3] = M
  OBVIOUS
<1> HIDE DEF k, s
<1>3. Outline(s, k)
  <2>1. /\ \A i \in 1 .. 2 : i = 1 \/ i = 2
        /\ \A i \in 1 .. 3 : i = 1 \/ i = 2 \/ i = 3
    OBVIOUS
  <2>2. \A i \in 1 .. 2 : CallLeads(k[i], s[i], k[i + 1])
    BY <1>1, <1>2, <2>1
  <2>3. \A i \in 1 .. 3 : OneAtMost(k[i].read)
    BY <1>2, <2>1
  <2> QED BY <1>1, <2>2, <2>3 DEF Outline
<1>4. Implies(K, k[1]) /\ Implies(k[Len(s) + 1], M)
  BY <1>1, <1>2 DEF Implies
<1>5. s \in Seq({c, d})
  BY <1>1
<1>6. Leads(K, s, M)
  BY <1>3, <1>4, <1>5 DEF Leads
<1> QED BY <1>6 DEF s

LEMMA Lead3 ==
  ASSUME NEW K, NEW L, NEW M, NEW N,
         NEW c, NEW d, NEW e,
         CallLeads(K, c, L), CallLeads(L, d, M), CallLeads(M, e, N),
         OneAtMost(K.read), OneAtMost(L.read), OneAtMost(M.read), OneAtMost(N.read)
  PROVE  Leads(K, <<c, d, e>>, N)
<1> DEFINE s == <<c, d, e>>
           k == [i \in 1 .. 4 |-> CASE i = 1 -> K [] i = 2 -> L [] i = 3 -> M [] i = 4 -> N]
<1>1. s \in Seq({c, d, e}) /\ Len(s) = 3 /\ s[1] = c /\ s[2] = d /\ s[3] = e
  OBVIOUS
<1>2. k[1] = K /\ k[2] = L /\ k[3] = M /\ k[4] = N
  OBVIOUS
<1> HIDE DEF k, s
<1>3. Outline(s, k)
  <2>1. /\ \A i \in 1 .. 3 : i = 1 \/ i = 2 \/ i = 3
        /\ \A i \in 1 .. 4 : i = 1 \/ i = 2 \/ i = 3 \/ i = 4
    OBVIOUS
  <2>2. \A i \in 1 .. 3 : CallLeads(k[i], s[i], k[i + 1])
    BY <1>1, <1>2, <2>1
  <2>3. \A i \in 1 .. 4 : OneAtMost(k[i].read)
    BY <1>2, <2>1
  <2> QED BY <1>1, <2>2, <2>3 DEF Outline
<1>4. Implies(K, k[1]) /\ Implies(k[Len(s) + 1], N)
  BY <1>1, <1>2 DEF Implies
<1>5. s \in Seq({c, d, e})
  BY <1>1
<1>6. Leads(K, s, N)
  BY <1>3, <1>4, <1>5 DEF Leads
<1> QED BY <1>6 DEF s

LEMMA Lead4 ==
  ASSUME NEW K, NEW L, NEW M, NEW N, NEW P,
         NEW c, NEW d, NEW e, NEW f,
         CallLeads(K, c, L), CallLeads(L, d, M), CallLeads(M, e, N),
         CallLeads(N, f, P),
         OneAtMost(K.read), OneAtMost(L.read), OneAtMost(M.read), OneAtMost(N.read),
         OneAtMost(P.read)
  PROVE  Leads(K, <<c, d, e, f>>, P)
<1> DEFINE s == <<c, d, e, f>>
           k == [i \in 1 .. 5 |-> CASE i = 1 -> K [] i = 2 -> L [] i = 3 -> M
                               [] i = 4 -> N [] i = 5 -> P]
<1>1. s \in Seq({c, d, e, f}) /\ Len(s) = 4 /\ s[1] = c /\ s[2] = d /\ s[3] = e /\ s[4] = f
  OBVIOUS
<1>2. k[1] = K /\ k[2] = L /\ k[3] = M /\ k[4] = N /\ k[5] = P
  OBVIOUS
<1> HIDE DEF k, s
<1>3. Outline(s, k)
  <2>1. /\ \A i \in 1 .. 4 : i = 1 \/ i = 2 \/ i = 3 \/ i = 4
        /\ \A i \in 1 .. 5 : i = 1 \/ i = 2 \/ i = 3 \/ i = 4 \/ i = 5
    OBVIOUS
  <2>2. \A i \in 1 .. 4 : CallLeads(k[i], s[i], k[i + 1])
    BY <1>1, <1>2, <2>1
  <2>3. \A i \in 1 .. 5 : OneAtMost(k[i].read)
    BY <1>2, <2>1
  <2> QED BY <1>1, <2>2, <2>3 DEF Outline
<1>4. Implies(K, k[1]) /\ Implies(k[Len(s) + 1], P)
  BY <1>1, <1>2 DEF Implies
<1>5. s \in Seq({c, d, e, f})
  BY <1>1
<1>6. Leads(K, s, P)
  BY <1>3, <1>4, <1>5 DEF Leads
<1> QED BY <1>6 DEF s

LEMMA Lead5 ==
  ASSUME NEW K, NEW L, NEW M, NEW N, NEW P, NEW Q,
         NEW c, NEW d, NEW e, NEW f, NEW g,
         CallLeads(K, c, L), CallLeads(L, d, M), CallLeads(M, e, N),
         CallLeads(N, f, P), CallLeads(P, g, Q),
         OneAtMost(K.read), OneAtMost(L.read), OneAtMost(M.read), OneAtMost(N.read),
         OneAtMost(P.read), OneAtMost(Q.read)
  PROVE  Leads(K, <<c, d, e, f, g>>, Q)
<1> DEFINE s == <<c, d, e, f, g>>
           k == [i \in 1 .. 6 |-> CASE i = 1 -> K [] i = 2 -> L [] i = 3 -> M
                               [] i = 4 -> N [] i = 5 -> P [] i = 6 -> Q]
<1>1. /\ s \in Seq({c, d, e, f, g}) /\ Len(s) = 5
      /\ s[1] = c /\ s[2] = d /\ s[3] = e /\ s[4] = f /\ s[5] = g
  OBVIOUS
<1>2. k[1] = K /\ k[2] = L /\ k[3] = M /\ k[4] = N /\ k[5] = P /\ k[6] = Q
  OBVIOUS
<1> HIDE DEF k, s
<1>3. Outline(s, k)
  <2>1. /\ \A i \in 1 .. 5 : i = 1 \/ i = 2 \/ i = 3 \/ i = 4 \/ i = 5
        /\ \A i \in 1 .. 6 : i = 1 \/ i = 2 \/ i = 3 \/ i = 4 \/ i = 5 \/ i = 6
    OBVIOUS
  <2>2. \A i \in 1 .. 5 : CallLeads(k[i], s[i], k[i + 1])
    BY <1>1, <1>2, <2>1
  <2>3. \A i \in 1 .. 6 : OneAtMost(k[i].read)
    BY <1>2, <2>1
  <2> QED BY <1>1, <2>2, <2>3 DEF Outline
<1>4. Implies(K, k[1]) /\ Implies(k[Len(s) + 1], Q)
  BY <1>1, <1>2 DEF Implies
<1>5. s \in Seq({c, d, e, f, g})
  BY <1>1
<1>6. Leads(K, s, Q)
  BY <1>3, <1>4, <1>5 DEF Leads
<1> QED BY <1>6 DEF s

(* Where a call of a loop is: the quotient is the number of rounds done.   *)
LEMMA PlaceInLoop ==
  ASSUME NEW m \in Nat \ {0}, NEW n \in Nat, NEW a \in 0 .. m * n
  PROVE  /\ a \div m \in 0 .. n /\ a % m \in 0 .. m - 1
         /\ a < m * n => a \div m < n
         /\ a = m * n => a \div m = n
         /\ a % m < m - 1 => (a + 1) \div m = a \div m /\ (a + 1) % m = (a % m) + 1
         /\ a % m = m - 1 => (a + 1) \div m = a \div m + 1 /\ (a + 1) % m = 0
<1> DEFINE q == a \div m
           r == a % m
<1>1. q \in Int /\ r \in 0 .. m - 1 /\ a = m * q + r
  OBVIOUS
<1> QED BY <1>1

(* A loop leads on if each of its rounds does.                             *)
LEMMA LeadLoop ==
  ASSUME NEW n \in Nat, NEW m \in Nat \ {0}, NEW rounds, NEW j,
         rounds = [i \in 1 .. n |-> rounds[i]],
         \A i \in 1 .. n : Len(rounds[i]) = m /\ Leads(j[i], rounds[i], j[i + 1]),
         OneAtMost(j[1].read)
  PROVE  Leads(j[1], InTurn(rounds), j[n + 1])
<1> DEFINE S(i) == CHOOSE T : rounds[i] \in Seq(T)
           U == UNION {S(i) : i \in 1 .. n}
<1>0. \A i \in 1 .. n : rounds[i] \in Seq(U)
  <2> SUFFICES ASSUME NEW i \in 1 .. n PROVE rounds[i] \in Seq(U)
    OBVIOUS
  <2>1. rounds[i] \in Seq(S(i))
    BY DEF Leads
  <2>2. S(i) \subseteq U
    OBVIOUS
  <2> HIDE DEF S, U
  <2> QED BY <2>1, <2>2, SeqMonotone
<1> HIDE DEF S, U
<1>1. rounds \in Seq(Seq(U)) /\ Len(rounds) = n
  BY <1>0
<1>2. CASE n = 0
  <2>1. InTurn(rounds) = <<>>
    BY <1>1, <1>2 DEF InTurn
  <2> QED BY <1>2, <2>1, LeadsNowhere
<1>3. CASE n # 0
  <2> DEFINE N == m * n
             Q(p) == (p - 1) \div m
             R(p) == (p - 1) % m
             calls == [p \in 1 .. N |-> rounds[Q(p) + 1][R(p) + 1]]
             Good(i, k) == /\ Outline(rounds[i], k)
                           /\ Implies(j[i], k[1]) /\ Implies(k[m + 1], j[i + 1])
             kk == [i \in 1 .. n |-> CHOOSE k : Good(i, k)]
             k == [p \in 1 .. N + 1 |-> IF Q(p) < n THEN kk[Q(p) + 1][R(p) + 1] ELSE kk[n][m + 1]]
  <2>1. InTurn(rounds) = calls
    <3>1. Len(rounds[1]) = m
      BY <1>3
    <3>2. m * Len(rounds) = m * n
      BY <1>1
    <3> QED BY <1>1, <1>3, <3>1, <3>2 DEF InTurn
  <2>2. N \in Nat
    OBVIOUS
  <2>3. ASSUME NEW p \in 1 .. N + 1
        PROVE  /\ Q(p) \in 0 .. n /\ R(p) \in 0 .. m - 1
               /\ p \in 1 .. N => Q(p) < n
               /\ p = N + 1 => Q(p) = n
               /\ R(p) < m - 1 => Q(p + 1) = Q(p) /\ R(p + 1) = R(p) + 1
               /\ R(p) = m - 1 => Q(p + 1) = Q(p) + 1 /\ R(p + 1) = 0
    <3> DEFINE a == p - 1
    <3>1. /\ a \in 0 .. m * n /\ p + 1 - 1 = a + 1
          /\ p \in 1 .. N => a < m * n
          /\ p = N + 1 => a = m * n
      BY <2>2
    <3> HIDE DEF a
    <3>2. Q(p) = a \div m /\ R(p) = a % m
      BY DEF a
    <3>3. Q(p + 1) = (a + 1) \div m /\ R(p + 1) = (a + 1) % m
      BY <3>1
    <3>4. /\ a \div m \in 0 .. n /\ a % m \in 0 .. m - 1
          /\ a < m * n => a \div m < n
          /\ a = m * n => a \div m = n
          /\ a % m < m - 1 => (a + 1) \div m = a \div m /\ (a + 1) % m = (a % m) + 1
          /\ a % m = m - 1 => (a + 1) \div m = a \div m + 1 /\ (a + 1) % m = 0
      BY <3>1, PlaceInLoop
    <3> HIDE DEF N, Q, R
    <3> QED BY <3>1, <3>2, <3>3, <3>4
  <2>4. Q(1) = 0 /\ R(1) = 0
    OBVIOUS
  <2> HIDE DEF N, Q, R
  <2>5. ASSUME NEW i \in 1 .. n
        PROVE  Good(i, kk[i])
    BY DEF Leads
  <2> HIDE DEF kk
  <2>6. calls \in Seq(U) /\ Len(calls) = N
    <3>1. \A p \in 1 .. N : rounds[Q(p) + 1][R(p) + 1] \in U
      <4> SUFFICES ASSUME NEW p \in 1 .. N
                   PROVE  rounds[Q(p) + 1][R(p) + 1] \in U
        OBVIOUS
      <4>1. Q(p) + 1 \in 1 .. n /\ R(p) + 1 \in 1 .. m
        BY <2>2, <2>3
      <4>2. rounds[Q(p) + 1] \in Seq(U) /\ Len(rounds[Q(p) + 1]) = m
        BY <1>0, <4>1
      <4> DEFINE t == rounds[Q(p) + 1]
                 h == R(p) + 1
      <4>3. t \in Seq(U) /\ h \in 1 .. Len(t)
        BY <4>1, <4>2
      <4> HIDE DEF t, h
      <4>4. t[h] \in U
        BY <4>3, ElementOfSeq
      <4> QED BY <4>4 DEF t, h
    <3>2. calls \in [1 .. N -> U]
      BY <3>1
    <3> HIDE DEF calls
    <3> QED BY <2>2, <3>2, SeqOfElements
  <2>7. ASSUME NEW p \in 1 .. N
        PROVE  CallLeads(k[p], calls[p], k[p + 1])
    <3> DEFINE q == Q(p)
               r == R(p)
    <3>1. /\ q \in 0 .. n - 1 /\ q + 1 \in 1 .. n /\ r \in 0 .. m - 1 /\ r + 1 \in 1 .. m
          /\ k[p] = kk[q + 1][r + 1] /\ calls[p] = rounds[q + 1][r + 1]
      BY <2>2, <2>3
    <3>2. CallLeads(kk[q + 1][r + 1], rounds[q + 1][r + 1], kk[q + 1][r + 1 + 1])
      BY <2>5, <3>1 DEF Outline
    <3>3. /\ r < m - 1 => Q(p + 1) = q /\ R(p + 1) = r + 1
          /\ r = m - 1 => Q(p + 1) = q + 1 /\ R(p + 1) = 0
      <4>1. p \in 1 .. N + 1
        BY <2>2
      <4> QED BY <2>3, <4>1
    <3> DEFINE q1 == Q(p + 1)
               r1 == R(p + 1)
    <3>4. k[p + 1] = IF q1 < n THEN kk[q1 + 1][r1 + 1] ELSE kk[n][m + 1]
      <4>1. p + 1 \in 1 .. N + 1
        BY <2>2
      <4> QED BY <4>1
    <3> HIDE DEF q, r, q1, r1, k
    <3>5. CASE r < m - 1
      <4>1. q1 = q /\ r1 = r + 1
        BY <3>3, <3>5 DEF q1, r1
      <4>2. k[p + 1] = kk[q + 1][r + 1 + 1]
        BY <3>1, <3>4, <4>1
      <4> QED BY <3>1, <3>2, <4>2
    <3>6. CASE r = m - 1
      <4>1. q1 = q + 1 /\ r1 = 0 /\ r + 1 + 1 = m + 1
        BY <3>1, <3>3, <3>6 DEF q1, r1
      <4>2. CASE q + 1 < n
        <5>1. k[p + 1] = kk[q + 2][1] /\ q + 2 \in 1 .. n
          <6>1. q1 < n /\ q1 + 1 = q + 2 /\ r1 + 1 = 1 /\ q + 2 \in 1 .. n
            BY <3>1, <4>1, <4>2
          <6> QED BY <3>4, <6>1
        <5>2. Implies(kk[q + 1][m + 1], j[q + 1 + 1]) /\ Implies(j[q + 2], kk[q + 2][1])
          BY <2>5, <3>1, <5>1
        <5>3. Implies(kk[q + 1][r + 1 + 1], kk[q + 2][1])
          <6>1. q + 1 + 1 = q + 2
            BY <3>1
          <6> QED BY <4>1, <5>2, <6>1, ImpliesTransitive
        <5> QED BY <3>1, <3>2, <5>1, <5>3, Weaker
      <4>3. CASE q + 1 = n
        <5>1. k[p + 1] = kk[q + 1][r + 1 + 1]
          BY <3>4, <4>1, <4>3
        <5> QED BY <3>1, <3>2, <5>1
      <4> QED BY <3>1, <4>2, <4>3
    <3> QED BY <3>1, <3>5, <3>6
  <2>8. k[1] = kk[1][1] /\ k[N + 1] = kk[n][m + 1]
    <3>1. 1 \in 1 .. N + 1 /\ N + 1 \in 1 .. N + 1
      BY <2>2
    <3> QED BY <1>3, <2>3, <2>4, <3>1
  <2>9. ASSUME NEW p \in 1 .. N + 1
        PROVE  OneAtMost(k[p].read)
    <3>1. \A i \in 1 .. n, h \in 1 .. m + 1 : OneAtMost(kk[i][h].read)
      BY <2>5 DEF Outline
    <3>2. CASE p = N + 1
      <4>1. n \in 1 .. n /\ m + 1 \in 1 .. m + 1
        BY <1>3
      <4> QED BY <2>8, <3>1, <3>2, <4>1
    <3>3. CASE p \in 1 .. N
      <4>1. Q(p) + 1 \in 1 .. n /\ R(p) + 1 \in 1 .. m + 1 /\ k[p] = kk[Q(p) + 1][R(p) + 1]
        BY <2>2, <2>3, <3>3
      <4> QED BY <3>1, <4>1
    <3> QED BY <2>2, <3>2, <3>3
  <2>10. Outline(calls, k)
    BY <2>6, <2>7, <2>9 DEF Outline
  <2>11. Implies(j[1], k[1]) /\ Implies(k[Len(calls) + 1], j[n + 1])
    <3>1. 1 \in 1 .. n /\ n \in 1 .. n
      BY <1>3
    <3> QED BY <2>5, <2>6, <2>8, <3>1
  <2> HIDE DEF calls, k
  <2> QED BY <2>1, <2>6, <2>10, <2>11 DEF Leads
<1> QED BY <1>2, <1>3

-----------------------------------------------------------------------------
(* Names of different kinds, variables, classes or indices are different.  *)
LEMMA NameFacts ==
  /\ \A v : /\ Object(v) # Free /\ Class(v) # Free
            /\ IsInput(Object(v)) <=> v = "input"
            /\ IsInput(Class(v)) <=> v = "input"
  /\ \A v, i : Element(v, i) # Free /\ (IsInput(Element(v, i)) <=> v = "input")
  /\ \A v, w : /\ Object(v) = Object(w) => v = w
               /\ Class(v) = Class(w) => v = w
               /\ Object(v) # Class(w)
  /\ \A v, w, i : Element(v, i) # Object(w) /\ Element(v, i) # Class(w)
  /\ \A v, w, i, j : Element(v, i) = Element(w, j) => v = w /\ i = j
<1>1. \A v : /\ Object(v) # Free /\ Class(v) # Free
             /\ IsInput(Object(v)) <=> v = "input"
             /\ IsInput(Class(v)) <=> v = "input"
  BY DEF Object, Class, Free, IsInput
<1>2. \A v, i : Element(v, i) # Free /\ (IsInput(Element(v, i)) <=> v = "input")
  BY DEF Element, Free, IsInput
<1>3. \A v, w : /\ Object(v) = Object(w) => v = w
                /\ Class(v) = Class(w) => v = w
                /\ Object(v) # Class(w)
  BY DEF Object, Class
<1>4. \A v, w, i : Element(v, i) # Object(w) /\ Element(v, i) # Class(w)
  BY DEF Object, Class, Element
<1>5. \A v, w, i, j : Element(v, i) = Element(w, j) => v = w /\ i = j
  BY DEF Element
<1> QED BY <1>1, <1>2, <1>3, <1>4, <1>5

(* The calls, each with what it makes known.                               *)
LEMMA NewLeads ==
  ASSUME NEW A, NEW n, NEW a, a \subseteq A \cup {Object("jLBStatus")}, n # Free, ~IsInput(n)
  PROVE  CallLeads(Alive(A), New(n, a), Alive(A \cup {n}))
BY DEF CallLeads, Alive, Known, New

LEMMA NewVictimLeads ==
  ASSUME NEW A, NEW G, NEW n \in Victims, NEW a, a \subseteq A \cup {Object("jLBStatus")}
  PROVE  CallLeads(Known(A, G, {}), New(n, a), Known(A \cup {n}, G \ {n}, {}))
<1>1. n # Free /\ ~IsInput(n)
  BY NameFacts DEF Victims
<1> QED BY <1>1 DEF CallLeads, Known, New

LEMMA UseLeads ==
  ASSUME NEW A, NEW G, NEW R, NEW a, a \subseteq A \cup {Object("jLBStatus")}
  PROVE  CallLeads(Known(A, G, R), Use(a), Known(A, G, R))
BY DEF CallLeads, Known, Use, Implies

LEMMA DeleteLeads ==
  ASSUME NEW A, NEW G, NEW n \in A
  PROVE  CallLeads(Known(A, G, {}), DeleteLocalRef(n), Known(A \ {n}, G \cup {n}, {}))
BY DEF CallLeads, Known, DeleteLocalRef, Implies

LEMMA DeleteAgainLeads ==
  ASSUME NEW A, NEW G, NEW n \in G
  PROVE  CallLeads(Known(A, G, {}), DeleteLocalRef(n), Known(A \ Victims, G, {}))
BY DEF CallLeads, Known, DeleteLocalRef, Implies

(* An input is read: it is the only one, and afterwards there is none.     *)
LEMMA NewInputLeads ==
  ASSUME NEW A, NEW n, NEW a, a \subseteq A \cup {Object("jLBStatus")}, n # Free
  PROVE  CallLeads(Alive(A), New(n, a), Known(A \cup {n}, {}, {n}))
BY DEF CallLeads, Alive, Known, New

LEMMA DeleteInputLeads ==
  ASSUME NEW A, NEW n \in A
  PROVE  CallLeads(Known(A, {}, {n}), DeleteLocalRef(n), Alive(A \ {n}))
BY DEF CallLeads, Alive, Known, DeleteLocalRef, Implies

LEMMA ReadFacts ==
  ASSUME NEW A, NEW G, NEW n
  PROVE  /\ OneAtMost(Alive(A).read)
         /\ OneAtMost(Known(A, G, {}).read)
         /\ OneAtMost(Known(A, G, {n}).read)
BY DEF OneAtMost, Alive, Known

LEMMA Forget ==
  ASSUME NEW A, NEW G, NEW B, B \subseteq A
  PROVE  Implies(Known(A, G, {}), Alive(B)) /\ Implies(Alive(A), Alive(B))
BY DEF Implies, Alive, Known

-----------------------------------------------------------------------------
(* The first elements of a vector.                                         *)
First(vec, n) == {Element(vec, i) : i \in 1 .. n}

LEMMA FirstNone == \A vec : First(vec, 0) = {}
BY DEF First

LEMMA FirstNext ==
  ASSUME NEW vec, NEW i \in Nat \ {0}
  PROVE  /\ First(vec, i) = First(vec, i - 1) \cup {Element(vec, i)}
         /\ Element(vec, i) \notin First(vec, i - 1)
<1>1. First(vec, i) = First(vec, i - 1) \cup {Element(vec, i)}
  <2>1. \A h : h \in 1 .. i <=> h \in 1 .. i - 1 \/ h = i
    OBVIOUS
  <2> QED BY <2>1 DEF First
<1>2. Element(vec, i) \notin First(vec, i - 1)
  <2>1. i \notin 1 .. i - 1
    OBVIOUS
  <2> QED BY <2>1, NameFacts DEF First
<1> QED BY <1>1, <1>2

(* A class is found and an object made of it.                              *)
LEMMA ClassAndObject ==
  ASSUME NEW A, NEW v, v # "input"
  PROVE  Leads(Alive(A), <<FindClass(v), New(Object(v), {Class(v)})>>,
               Alive(A \cup {Class(v), Object(v)}))
<1>1. CallLeads(Alive(A), New(Class(v), {}), Alive(A \cup {Class(v)}))
  BY NameFacts, NewLeads
<1>2. CallLeads(Alive(A \cup {Class(v)}), New(Object(v), {Class(v)}),
                Alive(A \cup {Class(v)} \cup {Object(v)}))
  BY NameFacts, NewLeads
<1>3. A \cup {Class(v)} \cup {Object(v)} = A \cup {Class(v), Object(v)}
  OBVIOUS
<1> QED BY <1>1, <1>2, <1>3, Lead2, ReadFacts DEF FindClass

(* What is added to the list is alive, and then deleted.                   *)
LEMMA ArrayListLeads ==
  ASSUME NEW A, NEW list, NEW vec, NEW n \in Nat,
         list # "input", vec # "input", First(vec, n) \subseteq A
  PROVE  Leads(Alive(A), convertJobjectVectorToArrayList(list, vec, n),
               Known((A \cup {Object(list)}) \ First(vec, n), First(vec, n), {}))
<1> DEFINE B == A \cup {Object(list)}
           Round(i) == <<Use({Object(list), Element(vec, i)}), DeleteLocalRef(Element(vec, i))>>
           rounds == [i \in 1 .. n |-> Round(i)]
           J(i) == Known(B \ First(vec, i), First(vec, i), {})
           j == [i \in 1 .. n + 1 |-> J(i - 1)]
<1>1. Leads(Alive(A), <<FindClass(list), New(Object(list), {Class(list)})>>, Alive(B))
  <2>1. Implies(Alive(A \cup {Class(list), Object(list)}), Alive(B))
    BY Forget
  <2> QED BY <2>1, ClassAndObject, LeadsWeaker
<1>2. ASSUME NEW i \in 1 .. n
      PROVE  Leads(j[i], rounds[i], j[i + 1])
  <2>1. Object(list) \in B \ First(vec, i - 1) /\ Element(vec, i) \in B \ First(vec, i - 1)
    <3>1. i \in Nat \ {0} /\ Element(vec, i) \in First(vec, n)
      BY DEF First
    <3>2. Object(list) \notin First(vec, i - 1) /\ Element(vec, i) \notin First(vec, i - 1)
      BY <3>1, FirstNext, NameFacts DEF First
    <3> QED BY <3>1, <3>2
  <2>2. CallLeads(J(i - 1), Use({Object(list), Element(vec, i)}), J(i - 1))
    BY <2>1, UseLeads
  <2>3. CallLeads(J(i - 1), DeleteLocalRef(Element(vec, i)), J(i))
    <3>1. /\ First(vec, i) = First(vec, i - 1) \cup {Element(vec, i)}
          /\ B \ First(vec, i) = (B \ First(vec, i - 1)) \ {Element(vec, i)}
      <4>1. i \in Nat \ {0}
        OBVIOUS
      <4> QED BY <4>1, FirstNext
    <3> QED BY <2>1, <3>1, DeleteLeads
  <2>4. Leads(J(i - 1), Round(i), J(i))
    BY <2>2, <2>3, Lead2, ReadFacts
  <2>5. j[i] = J(i - 1) /\ j[i + 1] = J(i) /\ rounds[i] = Round(i)
    OBVIOUS
  <2> QED BY <2>4, <2>5
<1>3. j[1] = J(0) /\ j[n + 1] = J(n)
  OBVIOUS
<1>4. Leads(J(0), InTurn(rounds), J(n))
  <2>1. \A i \in 1 .. n : Len(rounds[i]) = 2
    OBVIOUS
  <2>2. OneAtMost(j[1].read)
    BY <1>3, ReadFacts
  <2>3. rounds = [i \in 1 .. n |-> rounds[i]] /\ 2 \in Nat \ {0}
    OBVIOUS
  <2> HIDE DEF rounds, j, J
  <2>4. Leads(j[1], InTurn(rounds), j[n + 1])
    BY <1>2, <2>1, <2>2, <2>3, LeadLoop
  <2> QED BY <1>3, <2>4
<1>5. Implies(Alive(B), J(0))
  BY FirstNone DEF Implies, Alive, Known
<1>6. Leads(Alive(B), InTurn(rounds), J(n))
  BY <1>4, <1>5, LeadsStronger
<1> QED BY <1>1, <1>6, LeadBoth DEF convertJobjectVectorToArrayList

(* A loop whose rounds add one element each to what is alive.              *)
LEMMA AddingLoop ==
  ASSUME NEW A, NEW vec, NEW n \in Nat, NEW m \in Nat \ {0}, NEW rounds,
         rounds = [i \in 1 .. n |-> rounds[i]],
         \A i \in 1 .. n :
           /\ Len(rounds[i]) = m
           /\ Leads(Alive(A \cup First(vec, i - 1)), rounds[i],
                    Alive(A \cup First(vec, i - 1) \cup {Element(vec, i)}))
  PROVE  Leads(Alive(A), InTurn(rounds), Alive(A \cup First(vec, n)))
<1> DEFINE J(i) == Alive(A \cup First(vec, i))
           j == [i \in 1 .. n + 1 |-> J(i - 1)]
<1>1. ASSUME NEW i \in 1 .. n
      PROVE  Len(rounds[i]) = m /\ Leads(j[i], rounds[i], j[i + 1])
  <2>1. i \in Nat \ {0}
    OBVIOUS
  <2>2. A \cup First(vec, i - 1) \cup {Element(vec, i)} = A \cup First(vec, i)
    BY <2>1, FirstNext
  <2>3. j[i] = J(i - 1) /\ j[i + 1] = J(i)
    <3>1. i \in 1 .. n + 1 /\ i + 1 \in 1 .. n + 1 /\ i + 1 - 1 = i
      OBVIOUS
    <3> QED BY <3>1
  <2> QED BY <2>2, <2>3
<1>2. j[1] = J(0) /\ j[n + 1] = J(n)
  <2>1. 1 \in 1 .. n + 1 /\ n + 1 \in 1 .. n + 1 /\ n + 1 - 1 = n /\ 1 - 1 = 0
    OBVIOUS
  <2> HIDE DEF J
  <2> QED BY <2>1
<1>3. OneAtMost(j[1].read)
  BY <1>2, ReadFacts
<1>4. J(0) = Alive(A)
  BY FirstNone
<1> HIDE DEF j, J
<1>5. Leads(j[1], InTurn(rounds), j[n + 1])
  BY <1>1, <1>3, LeadLoop
<1> QED BY <1>2, <1>4, <1>5 DEF J

LEMMA StringsLead ==
  ASSUME NEW A, NEW n \in Nat
  PROVE  Leads(Alive(A), makeStrings(n), Alive(A \cup First("jStr", n)))
<1> DEFINE Round(i) == <<New(Element("jStr", i), {})>>
           rounds == [i \in 1 .. n |-> Round(i)]
<1>1. ASSUME NEW B, NEW i
      PROVE  Leads(Alive(B), Round(i), Alive(B \cup {Element("jStr", i)}))
  <2>1. Element("jStr", i) # Free /\ ~IsInput(Element("jStr", i))
    BY NameFacts
  <2>2. CallLeads(Alive(B), New(Element("jStr", i), {}), Alive(B \cup {Element("jStr", i)}))
    BY <2>1, NewLeads
  <2> QED BY <2>2, Lead1, ReadFacts
<1>2. rounds = [i \in 1 .. n |-> rounds[i]] /\ 1 \in Nat \ {0}
  OBVIOUS
<1>3. \A i \in 1 .. n : rounds[i] = Round(i) /\ Len(Round(i)) = 1
  OBVIOUS
<1> HIDE DEF rounds, Round
<1>4. \A i \in 1 .. n : Len(rounds[i]) = 1
                        /\ Leads(Alive(A \cup First("jStr", i - 1)), rounds[i],
                                 Alive(A \cup First("jStr", i - 1) \cup {Element("jStr", i)}))
  BY <1>1, <1>3
<1>5. Leads(Alive(A), InTurn(rounds), Alive(A \cup First("jStr", n)))
  BY <1>2, <1>4, AddingLoop
<1> QED BY <1>5 DEF makeStrings, rounds, Round

LEMMA IntegersLead ==
  ASSUME NEW A, NEW n \in Nat
  PROVE  Leads(Alive(A),
               InTurn([i \in 1 .. n |-> <<FindClass("Integer"), FindClass("Integer"),
                                          New(Element("integerObj", i), {Class("Integer")})>>]),
               Alive(A \cup First("integerObj", n)))
<1> DEFINE C == Class("Integer")
           E(i) == Element("integerObj", i)
           Round(i) == <<FindClass("Integer"), FindClass("Integer"), New(E(i), {C})>>
           rounds == [i \in 1 .. n |-> Round(i)]
<1>1. ASSUME NEW B, NEW i
      PROVE  Leads(Alive(B), Round(i), Alive(B \cup {E(i)}))
  <2>1. CallLeads(Alive(B), FindClass("Integer"), Alive(B \cup {C}))
    BY NameFacts, NewLeads DEF FindClass
  <2>2. CallLeads(Alive(B \cup {C}), FindClass("Integer"), Alive(B \cup {C} \cup {C}))
    BY NameFacts, NewLeads DEF FindClass
  <2>3. CallLeads(Alive(B \cup {C} \cup {C}), New(E(i), {C}), Alive(B \cup {C} \cup {C} \cup {E(i)}))
    BY NameFacts, NewLeads
  <2>4. Leads(Alive(B), Round(i), Alive(B \cup {C} \cup {C} \cup {E(i)}))
    BY <2>1, <2>2, <2>3, Lead3, ReadFacts
  <2>5. Implies(Alive(B \cup {C} \cup {C} \cup {E(i)}), Alive(B \cup {E(i)}))
    BY Forget
  <2> QED BY <2>4, <2>5, LeadsWeaker
<1>2. rounds = [i \in 1 .. n |-> rounds[i]] /\ 3 \in Nat \ {0}
  OBVIOUS
<1>3. \A i \in 1 .. n : rounds[i] = Round(i) /\ Len(Round(i)) = 3
  OBVIOUS
<1> HIDE DEF rounds, Round
<1>4. \A i \in 1 .. n : Len(rounds[i]) = 3
                        /\ Leads(Alive(A \cup First("integerObj", i - 1)), rounds[i],
                                 Alive(A \cup First("integerObj", i - 1) \cup {E(i)}))
  BY <1>1, <1>3
<1>5. Leads(Alive(A), InTurn(rounds), Alive(A \cup First("integerObj", n)))
  BY <1>2, <1>4, AddingLoop
<1> QED BY <1>5 DEF rounds, Round

(* The second deletion of the elements hits victims at most.               *)
LEMMA DeleteElementsLeads ==
  ASSUME NEW A, NEW vec, NEW n \in Nat
  PROVE  Leads(Known(A, First(vec, n), {}), deleteElements(vec, n), Alive(A \ Victims))
<1> DEFINE G == First(vec, n)
           J == Known(A \ Victims, G, {})
           Round(i) == <<DeleteLocalRef(Element(vec, i))>>
           rounds == [i \in 1 .. n |-> Round(i)]
           j == [i \in 1 .. n + 1 |-> J]
<1>1. ASSUME NEW i \in 1 .. n
      PROVE  Leads(J, Round(i), J)
  <2>1. Element(vec, i) \in G /\ (A \ Victims) \ Victims = A \ Victims
    BY DEF First
  <2>2. CallLeads(J, DeleteLocalRef(Element(vec, i)), J)
    BY <2>1, DeleteAgainLeads
  <2> QED BY <2>2, Lead1, ReadFacts
<1>2. OneAtMost(J.read)
  BY ReadFacts
<1>3. Implies(Known(A, G, {}), J) /\ Implies(J, Alive(A \ Victims))
  BY DEF Implies, Known, Alive
<1> HIDE DEF J
<1>4. /\ rounds = [i \in 1 .. n |-> rounds[i]] /\ 1 \in Nat \ {0}
      /\ j[1] = J /\ j[n + 1] = J
  OBVIOUS
<1>5. \A i \in 1 .. n : Len(rounds[i]) = 1 /\ rounds[i] = Round(i) /\ j[i] = J /\ j[i + 1] = J
  OBVIOUS
<1> HIDE DEF rounds, Round, j
<1>6. \A i \in 1 .. n : Len(rounds[i]) = 1 /\ Leads(j[i], rounds[i], j[i + 1])
  BY <1>1, <1>5
<1>7. Leads(j[1], InTurn(rounds), j[n + 1])
  BY <1>2, <1>4, <1>6, LeadLoop
<1>8. Leads(Known(A, G, {}), InTurn(rounds), Alive(A \ Victims))
  BY <1>3, <1>4, <1>7, LeadsStronger, LeadsWeaker
<1> QED BY <1>8 DEF deleteElements, rounds, Round

(* The list survives both deletions of its elements, and so does whatever  *)
(* else is no victim.                                                      *)
LEMMA StringVectorLeads ==
  ASSUME NEW A, NEW list, NEW n \in Nat, NEW B, list # "input",
         B \subseteq A \cup {Object(list)},
         B \cap First("jStr", n) = {}, B \cap Victims = {}
  PROVE  Leads(Alive(A), convertStringVectorToArrayList(list, n), Alive(B))
<1> DEFINE S == First("jStr", n)
           C == (A \cup S \cup {Object(list)}) \ S
<1>1. Leads(Alive(A), makeStrings(n), Alive(A \cup S))
  BY StringsLead
<1>2. Leads(Alive(A \cup S), convertJobjectVectorToArrayList(list, "jStr", n), Known(C, S, {}))
  BY ArrayListLeads
<1>3. Leads(Known(C, S, {}), deleteElements("jStr", n), Alive(C \ Victims))
  BY DeleteElementsLeads
<1>4. Implies(Alive(C \ Victims), Alive(B))
  <2>1. B \subseteq C \ Victims
    OBVIOUS
  <2> QED BY <2>1, Forget
<1> QED BY <1>1, <1>2, <1>3, <1>4, LeadBoth, LeadsWeaker DEF convertStringVectorToArrayList

LEMMA IntVectorLeads ==
  ASSUME NEW A, NEW list, NEW n \in Nat, NEW B, list # "input",
         B \subseteq A \cup {Object(list)},
         B \cap First("integerObj", n) = {}, B \cap Victims = {}
  PROVE  Leads(Alive(A), convertIntVectorToArrayList(list, n), Alive(B))
<1> DEFINE S == First("integerObj", n)
           C == (A \cup S \cup {Object(list)}) \ S
           makeIntegers ==
             InTurn([i \in 1 .. n |-> <<FindClass("Integer"), FindClass("Integer"),
                                        New(Element("integerObj", i), {Class("Integer")})>>])
<1>1. Leads(Alive(A), makeIntegers, Alive(A \cup S))
  BY IntegersLead
<1>2. Leads(Alive(A \cup S), convertJobjectVectorToArrayList(list, "integerObj", n), Known(C, S, {}))
  BY ArrayListLeads
<1>3. Leads(Known(C, S, {}), deleteElements("integerObj", n), Alive(C \ Victims))
  BY DeleteElementsLeads
<1>4. Implies(Alive(C \ Victims), Alive(B))
  <2>1. B \subseteq C \ Victims
    OBVIOUS
  <2> QED BY <2>1, Forget
<1> HIDE DEF makeIntegers
<1>5. Leads(Alive(A), makeIntegers \o convertJobjectVectorToArrayList(list, "integerObj", n)
                        \o deleteElements("integerObj", n), Alive(B))
  BY <1>1, <1>2, <1>3, <1>4, LeadBoth, LeadsWeaker
<1> QED BY <1>5 DEF convertIntVectorToArrayList, makeIntegers

LEMMA TimestampLeads ==
  ASSUME NEW A, NEW v, v # "input"
  PROVE  Leads(Alive(A), convertTimestampToInstant(v), Alive(A \cup {Object(v)}))
<1>1. Implies(Alive(A \cup {Class(v), Object(v)}), Alive(A \cup {Object(v)}))
  BY Forget
<1> QED BY <1>1, ClassAndObject, LeadsWeaker DEF convertTimestampToInstant

(* A worker's name and time are deleted, the worker stays.                 *)
LEMMA WorkerStatusLeads ==
  ASSUME NEW A, NEW i, Object("jName") \notin A, Object("jLastUpdated") \notin A
  PROVE  Leads(Alive(A), convertToJWorkerStatus(i), Alive(A \cup {Element("jWorker", i)}))
<1> DEFINE name == Object("jName")
           time == Object("jLastUpdated")
           class == Class("jWorkerStatus")
           worker == Element("jWorker", i)
           A1 == A \cup {name}
           A2 == A1 \cup {time}
           A3 == A2 \cup {class}
           A4 == A3 \cup {worker}
           A5 == A4 \ {name}
           A6 == A5 \ {time}
<1>1. Leads(Alive(A), <<New(name, {})>>, Alive(A1))
  <2>1. CallLeads(Alive(A), New(name, {}), Alive(A1))
    BY NameFacts, NewLeads
  <2> QED BY <2>1, Lead1, ReadFacts
<1>2. Leads(Alive(A1), convertTimestampToInstant("jLastUpdated"), Alive(A2))
  BY TimestampLeads
<1>3. CallLeads(Alive(A2), FindClass("jWorkerStatus"), Alive(A3))
  BY NameFacts, NewLeads DEF FindClass
<1>4. CallLeads(Alive(A3), New(worker, {class, name, time}), Alive(A4))
  BY NameFacts, NewLeads
<1>5. CallLeads(Alive(A4), DeleteLocalRef(name), Known(A5, {name}, {}))
  <2>1. name \in A4 /\ {} \cup {name} = {name} /\ Alive(A4) = Known(A4, {}, {})
    BY DEF Alive
  <2> HIDE DEF A4, name
  <2>2. CallLeads(Known(A4, {}, {}), DeleteLocalRef(name), Known(A4 \ {name}, {} \cup {name}, {}))
    BY <2>1, DeleteLeads
  <2> QED BY <2>1, <2>2
<1>6. CallLeads(Known(A5, {name}, {}), DeleteLocalRef(time), Known(A6, {name} \cup {time}, {}))
  <2>1. time \in A5
    BY NameFacts
  <2> QED BY <2>1, DeleteLeads
<1>7. Leads(Alive(A2), <<FindClass("jWorkerStatus"), New(worker, {class, name, time}),
                         DeleteLocalRef(name), DeleteLocalRef(time)>>,
            Known(A6, {name} \cup {time}, {}))
  <2> HIDE DEF A2, A3, A4, A5, A6, name, time, class, worker
  <2> QED BY <1>3, <1>4, <1>5, <1>6, Lead4, ReadFacts
<1>8. Implies(Known(A6, {name} \cup {time}, {}), Alive(A \cup {worker}))
  <2>1. A \cup {worker} \subseteq A6
    BY NameFacts
  <2> QED BY <2>1, Forget
<1> QED BY <1>1, <1>2, <1>7, <1>8, LeadBoth, LeadsWeaker DEF convertToJWorkerStatus

(* All sequences of a worker's conversion have seven calls.                *)
LEMMA WorkerStatusLength == \A i : Len(convertToJWorkerStatus(i)) = 7
BY DEF convertToJWorkerStatus, convertTimestampToInstant

LEMMA WorkersLead ==
  ASSUME NEW A, NEW n \in Nat, Object("jName") \notin A, Object("jLastUpdated") \notin A
  PROVE  Leads(Alive(A), InTurn([i \in 1 .. n |-> convertToJWorkerStatus(i)]),
               Alive(A \cup First("jWorker", n)))
<1> DEFINE rounds == [i \in 1 .. n |-> convertToJWorkerStatus(i)]
<1>1. ASSUME NEW i \in 1 .. n
      PROVE  /\ Len(rounds[i]) = 7
             /\ Leads(Alive(A \cup First("jWorker", i - 1)), rounds[i],
                      Alive(A \cup First("jWorker", i - 1) \cup {Element("jWorker", i)}))
  <2>1. /\ Object("jName") \notin A \cup First("jWorker", i - 1)
        /\ Object("jLastUpdated") \notin A \cup First("jWorker", i - 1)
    BY NameFacts DEF First
  <2> QED BY <2>1, WorkerStatusLeads, WorkerStatusLength
<1>2. rounds = [i \in 1 .. n |-> rounds[i]] /\ 7 \in Nat \ {0}
  OBVIOUS
<1> HIDE DEF rounds
<1>3. Leads(Alive(A), InTurn(rounds), Alive(A \cup First("jWorker", n)))
  BY <1>1, <1>2, AddingLoop
<1> QED BY <1>3 DEF rounds

(* What an overview has made when it comes to the status of an LB.         *)
Kept ==
  {Object("jLbName"), Object("jLbid"), Object("jSyncAndPort"), Object("jDataIPv4"),
   Object("jDataIPv6")} \cup {Element("jOverviewEntry", i) : i \in Nat}

LEMMA KeptFacts ==
  ASSUME NEW A \in SUBSET Kept, NEW n, NEW v
  PROVE  /\ v \in {"jName", "jLastUpdated", "jInstantTimestamp", "jExpiresAt", "jSenderAddresses",
                   "jWorkerArrayList", "jLBStatus", "jIpStr", "result", "input"}
              => Object(v) \notin A
         /\ Class(v) \notin A
         /\ A \cap First("jStr", n) = {} /\ A \cap First("jWorker", n) = {}
<1>1. \A x \in A : \/ \E w \in {"jLbName", "jLbid", "jSyncAndPort", "jDataIPv4", "jDataIPv6"} :
                         x = Object(w)
                   \/ \E i \in Nat : x = Element("jOverviewEntry", i)
  BY DEF Kept
<1>2. v \in {"jName", "jLastUpdated", "jInstantTimestamp", "jExpiresAt", "jSenderAddresses",
             "jWorkerArrayList", "jLBStatus", "jIpStr", "result", "input"} => Object(v) \notin A
  BY <1>1, NameFacts
<1>3. Class(v) \notin A
  BY <1>1, NameFacts
<1>4. A \cap First("jStr", n) = {} /\ A \cap First("jWorker", n) = {}
  BY <1>1, NameFacts DEF First
<1> QED BY <1>2, <1>3, <1>4

(* The status itself may not survive, but what was made before does.       *)
LEMMA LBStatusLeads ==
  ASSUME NEW A \in SUBSET Kept, NEW workers \in Nat, NEW senders \in Nat
  PROVE  Leads(Alive(A), convertToJLBStatus(workers, senders), Alive(A))
<1> DEFINE stamp == Object("jInstantTimestamp")
           expires == Object("jExpiresAt")
           names == Object("jSenderAddresses")
           list == Object("jWorkerArrayList")
           class == Class("jLBStatus")
           status == Object("jLBStatus")
           W == First("jWorker", workers)
           A1 == A \cup {stamp}
           A2 == A1 \cup {expires}
           A3 == A2 \cup {names}
           A4 == A3 \cup W
           A5 == (A4 \cup {list}) \ W
           A6 == A5 \cup {class}
           A7 == A6 \cup {status}
           A8 == A7 \ {stamp}
           A9 == A8 \ {expires}
           G6 == W \ {class}
           G7 == G6 \ {status}
           G8 == G7 \cup {stamp}
           G9 == G8 \cup {expires}
           make == <<FindClass("jLBStatus"), New(status, {class, stamp, expires, list, names}),
                     DeleteLocalRef(stamp), DeleteLocalRef(expires)>>
<1>1. Leads(Alive(A), convertTimestampToInstant("jInstantTimestamp"), Alive(A1))
  BY TimestampLeads
<1>2. Leads(Alive(A1), convertTimestampToInstant("jExpiresAt"), Alive(A2))
  BY TimestampLeads
<1>3. Leads(Alive(A2), convertStringVectorToArrayList("jSenderAddresses", senders), Alive(A3))
  <2>1. A3 \cap First("jStr", senders) = {}
    BY KeptFacts, NameFacts DEF First
  <2>2. A3 \cap Victims = {}
    BY KeptFacts, NameFacts DEF Victims
  <2> QED BY <2>1, <2>2, StringVectorLeads
<1>4. Leads(Alive(A3), InTurn([i \in 1 .. workers |-> convertToJWorkerStatus(i)]), Alive(A4))
  <2>1. Object("jName") \notin A3 /\ Object("jLastUpdated") \notin A3
    BY KeptFacts, NameFacts
  <2> QED BY <2>1, WorkersLead
<1>5. Leads(Alive(A4), convertJobjectVectorToArrayList("jWorkerArrayList", "jWorker", workers),
            Known(A5, W, {}))
  BY ArrayListLeads
<1>6. Leads(Known(A5, W, {}), make, Known(A9, G9, {}))
  <2>1. stamp \in A5 /\ expires \in A5 /\ list \in A5 /\ names \in A5 /\ class \in A6
    BY NameFacts DEF First
  <2>2. class \in Victims /\ status \in Victims
    BY DEF Victims
  <2>3. stamp \in A7 /\ expires \in A8
    BY <2>1, NameFacts
  <2>4. CallLeads(Known(A5, W, {}), FindClass("jLBStatus"), Known(A6, G6, {}))
    BY <2>2, NewVictimLeads DEF FindClass
  <2>5. CallLeads(Known(A6, G6, {}), New(status, {class, stamp, expires, list, names}),
                  Known(A7, G7, {}))
    BY <2>1, <2>2, NewVictimLeads
  <2>6. CallLeads(Known(A7, G7, {}), DeleteLocalRef(stamp), Known(A8, G8, {}))
    BY <2>3, DeleteLeads
  <2>7. CallLeads(Known(A8, G8, {}), DeleteLocalRef(expires), Known(A9, G9, {}))
    BY <2>3, DeleteLeads
  <2> HIDE DEF A5, A6, A7, A8, A9, G6, G7, G8, G9, W, stamp, expires, list, names, class, status
  <2> QED BY <2>4, <2>5, <2>6, <2>7, Lead4, ReadFacts
<1>7. Leads(Known(A9, G9, {}), deleteElements("jWorker", workers), Alive(A))
  <2>1. W \subseteq G9 /\ A \subseteq A9 \ Victims
    BY KeptFacts, NameFacts DEF First, Victims
  <2>2. Implies(Known(A9, G9, {}), Known(A9, W, {}))
    BY <2>1 DEF Implies, Known
  <2>3. Leads(Known(A9, W, {}), deleteElements("jWorker", workers), Alive(A9 \ Victims))
    BY DeleteElementsLeads
  <2>4. Implies(Alive(A9 \ Victims), Alive(A))
    BY <2>1, Forget
  <2> QED BY <2>2, <2>3, <2>4, LeadsStronger, LeadsWeaker
<1>8. Leads(Alive(A), convertTimestampToInstant("jInstantTimestamp")
                        \o convertTimestampToInstant("jExpiresAt")
                        \o convertStringVectorToArrayList("jSenderAddresses", senders), Alive(A3))
  BY <1>1, <1>2, <1>3, LeadBoth
<1> HIDE DEF A3, A4, A5, A9, G9, make
<1>9. Leads(Alive(A), convertTimestampToInstant("jInstantTimestamp")
                        \o convertTimestampToInstant("jExpiresAt")
                        \o convertStringVectorToArrayList("jSenderAddresses", senders)
                        \o InTurn([i \in 1 .. workers |-> convertToJWorkerStatus(i)])
                        \o convertJobjectVectorToArrayList("jWorkerArrayList", "jWorker", workers)
                        \o make \o deleteElements("jWorker", workers), Alive(A))
  BY <1>4, <1>5, <1>6, <1>7, <1>8, LeadBoth
<1> QED BY <1>9 DEF convertToJLBStatus, make

LEMMA BoostIpLeads ==
  ASSUME NEW A, NEW class, NEW v, class # "input", v \notin {"input", "jIpStr"},
         Object("jIpStr") \notin A
  PROVE  Leads(Alive(A), convertBoostIp(class, v), Alive(A \cup {Object(v)}))
<1> DEFINE ip == Object("jIpStr")
           C == Class(class)
           A1 == A \cup {ip}
           A2 == A1 \cup {C}
           A3 == A2 \cup {Object(v)}
           A4 == A3 \ {ip}
<1>1. CallLeads(Alive(A), New(ip, {}), Alive(A1))
  BY NameFacts, NewLeads
<1>2. CallLeads(Alive(A1), FindClass(class), Alive(A2))
  BY NameFacts, NewLeads DEF FindClass
<1>3. CallLeads(Alive(A2), New(Object(v), {C, ip}), Alive(A3))
  BY NameFacts, NewLeads
<1>4. CallLeads(Alive(A3), DeleteLocalRef(ip), Known(A4, {ip}, {}))
  <2>1. ip \in A3 /\ {} \cup {ip} = {ip} /\ Alive(A3) = Known(A3, {}, {})
    BY DEF Alive
  <2> HIDE DEF A3, ip
  <2>2. CallLeads(Known(A3, {}, {}), DeleteLocalRef(ip), Known(A3 \ {ip}, {} \cup {ip}, {}))
    BY <2>1, DeleteLeads
  <2> QED BY <2>1, <2>2
<1>5. A \cup {Object(v)} \subseteq A4
  BY NameFacts
<1>6. Leads(Alive(A), <<New(ip, {}), FindClass(class), New(Object(v), {C, ip}),
                        DeleteLocalRef(ip)>>, Known(A4, {ip}, {}))
  <2> HIDE DEF A1, A2, A3, A4, ip, C
  <2> QED BY <1>1, <1>2, <1>3, <1>4, Lead4, ReadFacts
<1> QED BY <1>5, <1>6, Forget, LeadsWeaker DEF convertBoostIp

(* What an overview makes of an LB before its entry.                       *)
OverviewParts(workers, senders) ==
  <<New(Object("jLbName"), {}), New(Object("jLbid"), {})>>
    \o convertBoostIp("InetSocketAddress", "jSyncAndPort")
    \o convertBoostIp("InetAddress", "jDataIPv4") \o convertBoostIp("InetAddress", "jDataIPv6")
    \o convertToJLBStatus(workers, senders)

PartNames ==
  {Object("jLbName"), Object("jLbid"), Object("jSyncAndPort"), Object("jDataIPv4"),
   Object("jDataIPv6")}

LEMMA OverviewPartsLead ==
  ASSUME NEW A \in SUBSET Kept, NEW workers \in Nat, NEW senders \in Nat
  PROVE  Leads(Alive(A), OverviewParts(workers, senders), Alive(A \cup PartNames))
<1> DEFINE name == Object("jLbName")
           id == Object("jLbid")
           sync == Object("jSyncAndPort")
           v4 == Object("jDataIPv4")
           v6 == Object("jDataIPv6")
           A1 == A \cup {name}
           A2 == A1 \cup {id}
           A3 == A2 \cup {sync}
           A4 == A3 \cup {v4}
           A5 == A4 \cup {v6}
           begin == <<New(name, {}), New(id, {})>>
<1>1. /\ A2 \in SUBSET Kept /\ A3 \in SUBSET Kept
      /\ A4 \in SUBSET Kept /\ A5 \in SUBSET Kept
  BY DEF Kept
<1>2. Leads(Alive(A), begin, Alive(A2))
  <2>1. CallLeads(Alive(A), New(name, {}), Alive(A1))
    BY NameFacts, NewLeads
  <2>2. CallLeads(Alive(A1), New(id, {}), Alive(A2))
    BY NameFacts, NewLeads
  <2> HIDE DEF A1, A2, name, id
  <2> QED BY <2>1, <2>2, Lead2, ReadFacts
<1>3. /\ Object("jIpStr") \notin A2 /\ Object("jIpStr") \notin A3 /\ Object("jIpStr") \notin A4
  BY <1>1, KeptFacts
<1>4. Leads(Alive(A2), convertBoostIp("InetSocketAddress", "jSyncAndPort"), Alive(A3))
  BY <1>3, BoostIpLeads
<1>5. Leads(Alive(A3), convertBoostIp("InetAddress", "jDataIPv4"), Alive(A4))
  BY <1>3, BoostIpLeads
<1>6. Leads(Alive(A4), convertBoostIp("InetAddress", "jDataIPv6"), Alive(A5))
  BY <1>3, BoostIpLeads
<1>7. Leads(Alive(A5), convertToJLBStatus(workers, senders), Alive(A5))
  BY <1>1, LBStatusLeads
<1>8. A5 = A \cup PartNames
  BY DEF PartNames
<1> HIDE DEF A2, A3, A4, A5, begin
<1>9. Leads(Alive(A), begin \o convertBoostIp("InetSocketAddress", "jSyncAndPort")
                        \o convertBoostIp("InetAddress", "jDataIPv4")
                        \o convertBoostIp("InetAddress", "jDataIPv6")
                        \o convertToJLBStatus(workers, senders), Alive(A5))
  BY <1>2, <1>4, <1>5, <1>6, <1>7, LeadBoth
<1> QED BY <1>8, <1>9 DEF OverviewParts, begin

(* The entry is made of them, and of the status.                           *)
OverviewEntry(i) ==
  <<FindClass("jOverview"),
    New(Element("jOverviewEntry", i),
        {Class("jOverview"), Object("jLbName"), Object("jLbid"), Object("jSyncAndPort"),
         Object("jDataIPv4"), Object("jDataIPv6"), Object("jLBStatus")})>>

LEMMA OverviewEntryLeads ==
  ASSUME NEW A, NEW i, PartNames \subseteq A
  PROVE  Leads(Alive(A), OverviewEntry(i), Alive(A \cup {Element("jOverviewEntry", i)}))
<1> DEFINE class == Class("jOverview")
           entry == Element("jOverviewEntry", i)
           args == {class} \cup PartNames \cup {Object("jLBStatus")}
           A1 == A \cup {class}
           A2 == A1 \cup {entry}
<1>1. CallLeads(Alive(A), FindClass("jOverview"), Alive(A1))
  BY NameFacts, NewLeads DEF FindClass
<1>2. args \subseteq A1 \cup {Object("jLBStatus")} /\ entry # Free /\ ~IsInput(entry)
  BY NameFacts
<1>3. OverviewEntry(i) = <<FindClass("jOverview"), New(entry, args)>>
  BY DEF OverviewEntry, PartNames
<1>4. Implies(Alive(A2), Alive(A \cup {entry}))
  BY Forget
<1> HIDE DEF A1, entry, args
<1>5. CallLeads(Alive(A1), New(entry, args), Alive(A2))
  BY <1>2, NewLeads
<1> HIDE DEF A2
<1>6. Leads(Alive(A), OverviewEntry(i), Alive(A2))
  BY <1>1, <1>3, <1>5, Lead2, ReadFacts
<1> QED BY <1>4, <1>6, LeadsWeaker DEF entry

(* The entries add up, made by rounds of one length.                       *)
LEMMA OverviewEntriesLead ==
  ASSUME NEW n \in Nat, NEW workers \in Nat, NEW senders \in Nat
  PROVE  Leads(Alive({}), InTurn([i \in 1 .. n |-> convertToLBOverivew(i, workers, senders)]),
               Alive(First("jOverviewEntry", n)))
<1> DEFINE parts == OverviewParts(workers, senders)
           m == Len(parts) + 2
           rounds == [i \in 1 .. n |-> parts \o OverviewEntry(i)]
           E(i) == First("jOverviewEntry", i)
<1>1. PICK S : parts \in Seq(S)
  <2>1. Leads(Alive({}), parts, Alive({} \cup PartNames))
    BY OverviewPartsLead
  <2> QED BY <2>1 DEF Leads
<1>2. m \in Nat \ {0}
  BY <1>1, LenProperties
<1>3. ASSUME NEW i \in 1 .. n
      PROVE  Len(rounds[i]) = m
  <2> DEFINE e == OverviewEntry(i)
             T == S \cup {e[1], e[2]}
  <2>1. Len(e) = 2 /\ e \in Seq({e[1], e[2]})
    BY DEF OverviewEntry
  <2> HIDE DEF parts, e
  <2>2. parts \in Seq(T) /\ e \in Seq(T)
    BY <1>1, <2>1, SeqMonotone
  <2>3. Len(parts \o e) = Len(parts) + Len(e)
    BY <2>2, ConcatProperties
  <2>4. rounds[i] = parts \o e
    BY DEF e
  <2> QED BY <2>1, <2>3, <2>4
<1>4. ASSUME NEW i \in 1 .. n
      PROVE  Leads(Alive({} \cup E(i - 1)), rounds[i],
                   Alive({} \cup E(i - 1) \cup {Element("jOverviewEntry", i)}))
  <2>1. E(i - 1) \in SUBSET Kept
    BY DEF First, Kept
  <2>2. Leads(Alive(E(i - 1)), parts, Alive(E(i - 1) \cup PartNames))
    BY <2>1, OverviewPartsLead
  <2>3. Leads(Alive(E(i - 1) \cup PartNames), OverviewEntry(i),
              Alive(E(i - 1) \cup PartNames \cup {Element("jOverviewEntry", i)}))
    BY OverviewEntryLeads
  <2>4. Implies(Alive(E(i - 1) \cup PartNames \cup {Element("jOverviewEntry", i)}),
                Alive(E(i - 1) \cup {Element("jOverviewEntry", i)}))
    BY Forget
  <2>5. /\ rounds[i] = parts \o OverviewEntry(i)
        /\ {} \cup E(i - 1) = E(i - 1)
    OBVIOUS
  <2> HIDE DEF parts, E, rounds
  <2>6. Leads(Alive(E(i - 1)), parts \o OverviewEntry(i),
              Alive(E(i - 1) \cup {Element("jOverviewEntry", i)}))
    BY <2>2, <2>3, <2>4, LeadBoth, LeadsWeaker
  <2> QED BY <2>5, <2>6
<1>5. rounds = [i \in 1 .. n |-> rounds[i]]
  OBVIOUS
<1>6. [i \in 1 .. n |-> convertToLBOverivew(i, workers, senders)] = rounds
  <2>1. \A i \in 1 .. n : convertToLBOverivew(i, workers, senders) = parts \o OverviewEntry(i)
    BY DEF convertToLBOverivew, OverviewParts, OverviewEntry
  <2> HIDE DEF parts
  <2> QED BY <2>1
<1> HIDE DEF rounds, m
<1>7. Leads(Alive({}), InTurn(rounds), Alive({} \cup E(n)))
  BY <1>2, <1>3, <1>4, <1>5, AddingLoop
<1> QED BY <1>6, <1>7

(* A loop whose rounds leave nothing alive that was not before.            *)
LEMMA SameLoop ==
  ASSUME NEW A, NEW n \in Nat, NEW m \in Nat \ {0}, NEW rounds,
         rounds = [i \in 1 .. n |-> rounds[i]],
         \A i \in 1 .. n : Len(rounds[i]) = m /\ Leads(Alive(A), rounds[i], Alive(A))
  PROVE  Leads(Alive(A), InTurn(rounds), Alive(A))
<1> DEFINE j == [i \in 1 .. n + 1 |-> Alive(A)]
<1>1. \A i \in 1 .. n : j[i] = Alive(A) /\ j[i + 1] = Alive(A)
  OBVIOUS
<1>2. j[1] = Alive(A) /\ j[n + 1] = Alive(A)
  OBVIOUS
<1> HIDE DEF j
<1>3. Leads(j[1], InTurn(rounds), j[n + 1])
  BY <1>1, <1>2, LeadLoop, ReadFacts
<1> QED BY <1>2, <1>3

(* An element is read, made of some objects, used and deleted.             *)
LEMMA ElementLeads ==
  ASSUME NEW A, NEW i, NEW a, a \subseteq A, Element("input", i) \notin A
  PROVE  LET e == Element("input", i)
         IN  Leads(Alive(A), <<New(e, a), Use({e}), DeleteLocalRef(e)>>, Alive(A))
<1> DEFINE e == Element("input", i)
<1>1. e # Free
  BY NameFacts
<1>2. (A \cup {e}) \ {e} = A
  OBVIOUS
<1> HIDE DEF e
<1>3. CallLeads(Alive(A), New(e, a), Known(A \cup {e}, {}, {e}))
  BY <1>1, NewInputLeads
<1>4. CallLeads(Known(A \cup {e}, {}, {e}), Use({e}), Known(A \cup {e}, {}, {e}))
  BY UseLeads
<1>5. CallLeads(Known(A \cup {e}, {}, {e}), DeleteLocalRef(e), Alive(A))
  BY <1>2, DeleteInputLeads
<1>6. Leads(Alive(A), <<New(e, a), Use({e}), DeleteLocalRef(e)>>, Alive(A))
  BY <1>3, <1>4, <1>5, Lead3, ReadFacts
<1> QED BY <1>6 DEF e

LEMMA ArrayInputLeads ==
  ASSUME NEW n \in Nat
  PROVE  Leads(Alive({}), jstringArray2Vector(n), Alive({}))
<1> DEFINE Round(i) == <<New(Element("input", i), {}), Use({Element("input", i)}),
                         DeleteLocalRef(Element("input", i))>>
           rounds == [i \in 1 .. n |-> Round(i)]
<1>1. \A i : Leads(Alive({}), Round(i), Alive({}))
  BY ElementLeads
<1>2. rounds = [i \in 1 .. n |-> rounds[i]] /\ 3 \in Nat \ {0}
  OBVIOUS
<1>3. \A i \in 1 .. n : rounds[i] = Round(i) /\ Len(Round(i)) = 3
  OBVIOUS
<1> HIDE DEF rounds, Round
<1>4. \A i \in 1 .. n : Len(rounds[i]) = 3 /\ Leads(Alive({}), rounds[i], Alive({}))
  BY <1>1, <1>3
<1>5. Leads(Alive({}), InTurn(rounds), Alive({}))
  BY <1>2, <1>4, SameLoop
<1> QED BY <1>5 DEF jstringArray2Vector, rounds, Round

LEMMA IterateLeads ==
  ASSUME NEW A, NEW n \in Nat, Object("iterator") \in A, \A i : Element("input", i) \notin A
  PROVE  Leads(Alive(A), Iterate(n), Alive({}))
<1> DEFINE it == Object("iterator")
           E(i) == Element("input", i)
           Round(i) == <<Use({it}), New(E(i), {it}), Use({E(i)}), DeleteLocalRef(E(i))>>
           rounds == [i \in 1 .. n |-> Round(i)]
<1>0. Alive(A) = Known(A, {}, {})
  BY DEF Alive
<1>1. ASSUME NEW i
      PROVE  Leads(Alive(A), Round(i), Alive(A))
  <2>1. E(i) # Free /\ (A \cup {E(i)}) \ {E(i)} = A
    BY NameFacts
  <2>2. CallLeads(Alive(A), Use({it}), Alive(A))
    BY <1>0, UseLeads
  <2> HIDE DEF E, it
  <2>3. CallLeads(Alive(A), New(E(i), {it}), Known(A \cup {E(i)}, {}, {E(i)}))
    BY <2>1, NewInputLeads DEF it
  <2>4. CallLeads(Known(A \cup {E(i)}, {}, {E(i)}), Use({E(i)}), Known(A \cup {E(i)}, {}, {E(i)}))
    BY UseLeads
  <2>5. CallLeads(Known(A \cup {E(i)}, {}, {E(i)}), DeleteLocalRef(E(i)), Alive(A))
    BY <2>1, DeleteInputLeads
  <2> QED BY <2>2, <2>3, <2>4, <2>5, Lead4, ReadFacts
<1>2. rounds = [i \in 1 .. n |-> rounds[i]] /\ 4 \in Nat \ {0}
  OBVIOUS
<1>3. \A i \in 1 .. n : rounds[i] = Round(i) /\ Len(Round(i)) = 4
  OBVIOUS
<1>4. Leads(Alive(A), <<Use({it}), DeleteLocalRef(it)>>, Alive({}))
  <2>1. CallLeads(Alive(A), Use({it}), Alive(A))
    BY <1>0, UseLeads
  <2>2. CallLeads(Alive(A), DeleteLocalRef(it), Known(A \ {it}, {} \cup {it}, {}))
    BY <1>0, DeleteLeads
  <2>3. Implies(Known(A \ {it}, {} \cup {it}, {}), Alive({}))
    BY Forget
  <2> HIDE DEF it
  <2>4. Leads(Alive(A), <<Use({it}), DeleteLocalRef(it)>>, Known(A \ {it}, {} \cup {it}, {}))
    BY <2>1, <2>2, Lead2, ReadFacts
  <2> QED BY <2>3, <2>4, LeadsWeaker
<1> HIDE DEF rounds, Round
<1>5. \A i \in 1 .. n : Len(rounds[i]) = 4 /\ Leads(Alive(A), rounds[i], Alive(A))
  BY <1>1, <1>3
<1>6. Leads(Alive(A), InTurn(rounds), Alive(A))
  BY <1>2, <1>5, SameLoop
<1>7. Leads(Alive(A), InTurn(rounds) \o <<Use({it}), DeleteLocalRef(it)>>, Alive({}))
  BY <1>4, <1>6, LeadBoth
<1> QED BY <1>7 DEF Iterate, rounds, Round

LEMMA ListInputsLead ==
  ASSUME NEW n \in Nat
  PROVE  /\ Leads(Alive({}), jstringList2Vector(n), Alive({}))
         /\ Leads(Alive({}), jIntList2Vector(n), Alive({}))
<1> DEFINE list == Class("list")
           class == Class("iterator")
           it == Object("iterator")
           int == Class("integer")
           A1 == {list}
           A2 == A1 \cup {class}
           A3 == A2 \cup {it}
           A4 == A3 \cup {int}
<1>1. CallLeads(Alive({}), FindClass("list"), Alive(A1))
  <2>1. {} \cup {list} = A1
    OBVIOUS
  <2> HIDE DEF A1
  <2> QED BY <2>1, NameFacts, NewLeads DEF FindClass
<1>2. CallLeads(Alive(A1), FindClass("iterator"), Alive(A2))
  BY NameFacts, NewLeads DEF FindClass
<1>3. CallLeads(Alive(A2), New(it, {}), Alive(A3))
  BY NameFacts, NewLeads
<1>4. CallLeads(Alive(A3), FindClass("integer"), Alive(A4))
  BY NameFacts, NewLeads DEF FindClass
<1>5. /\ it \in A3 /\ \A i : Element("input", i) \notin A3
      /\ it \in A4 /\ \A i : Element("input", i) \notin A4
  BY NameFacts
<1>6. Leads(Alive(A3), Iterate(n), Alive({})) /\ Leads(Alive(A4), Iterate(n), Alive({}))
  BY <1>5, IterateLeads
<1> HIDE DEF A1, A2, A3, A4, it
<1>7. Leads(Alive({}), <<FindClass("list"), FindClass("iterator"), New(it, {})>>, Alive(A3))
  BY <1>1, <1>2, <1>3, Lead3, ReadFacts
<1>8. Leads(Alive({}), <<FindClass("list"), FindClass("iterator"), New(it, {}),
                         FindClass("integer")>>, Alive(A4))
  BY <1>1, <1>2, <1>3, <1>4, Lead4, ReadFacts
<1> QED BY <1>6, <1>7, <1>8, LeadBoth DEF jstringList2Vector, jIntList2Vector, it

LEMMA StatsLead == Leads(Alive({}), convertToJStats, Alive({Object("result")}))
<1>1. CallLeads(Alive({}), FindClass("jStats"), Alive({} \cup {Class("jStats")}))
  BY NameFacts, NewLeads DEF FindClass
<1>2. CallLeads(Alive({} \cup {Class("jStats")}), New(Object("result"), {Class("jStats")}),
                Alive({} \cup {Class("jStats")} \cup {Object("result")}))
  BY NameFacts, NewLeads
<1>3. Implies(Alive({} \cup {Class("jStats")} \cup {Object("result")}), Alive({Object("result")}))
  BY Forget
<1>4. Leads(Alive({}), <<FindClass("jStats"), New(Object("result"), {Class("jStats")})>>,
            Alive({} \cup {Class("jStats")} \cup {Object("result")}))
  BY <1>1, <1>2, Lead2, ReadFacts
<1> QED BY <1>3, <1>4, LeadsWeaker DEF convertToJStats

(* An optional, of an event without a buffer and of one with it.           *)
LEMMA OptionalLeads ==
  ASSUME NEW A
  PROVE  LET optional == Class("optional")
             event == Class("jEvent")
             obj == Object("eventObj")
             result == Object("result")
         IN  Leads(Alive(A), <<FindClass("optional"), FindClass("jEvent"), New(obj, {event} \cup A),
                               New(result, {optional, obj})>>, Alive({result}))
<1> DEFINE optional == Class("optional")
           event == Class("jEvent")
           obj == Object("eventObj")
           result == Object("result")
           A1 == A \cup {optional}
           A2 == A1 \cup {event}
           A3 == A2 \cup {obj}
           A4 == A3 \cup {result}
<1>1. CallLeads(Alive(A), FindClass("optional"), Alive(A1))
  BY NameFacts, NewLeads DEF FindClass
<1>2. CallLeads(Alive(A1), FindClass("jEvent"), Alive(A2))
  BY NameFacts, NewLeads DEF FindClass
<1>3. CallLeads(Alive(A2), New(obj, {event} \cup A), Alive(A3))
  BY NameFacts, NewLeads
<1>4. CallLeads(Alive(A3), New(result, {optional, obj}), Alive(A4))
  BY NameFacts, NewLeads
<1>5. Implies(Alive(A4), Alive({result}))
  BY Forget
<1> HIDE DEF optional, event, obj, result, A1, A2, A3, A4
<1>6. Leads(Alive(A), <<FindClass("optional"), FindClass("jEvent"), New(obj, {event} \cup A),
                        New(result, {optional, obj})>>, Alive(A4))
  BY <1>1, <1>2, <1>3, <1>4, Lead4, ReadFacts
<1>7. Leads(Alive(A), <<FindClass("optional"), FindClass("jEvent"), New(obj, {event} \cup A),
                        New(result, {optional, obj})>>, Alive({result}))
  BY <1>5, <1>6, LeadsWeaker
<1> QED BY <1>7 DEF optional, event, obj, result

LEMMA OptionalsLead ==
  ASSUME NEW buffers \in {<<>>, <<Object("jDirectBuffer")>>}
  PROVE  Leads(Alive({}), createOptional(buffers), Alive({Object("result")}))
<1> DEFINE b == Object("jDirectBuffer")
           A == {buffers[i] : i \in DOMAIN buffers}
           first == [i \in 1 .. Len(buffers) |-> New(buffers[i], {})]
<1>1. Leads(Alive({}), first, Alive(A))
  <2>1. CASE buffers = <<>>
    <3>1. first = <<>> /\ A = {}
      BY <2>1
    <3> QED BY <3>1, LeadsNowhere, ReadFacts
  <2>2. CASE buffers = <<b>>
    <3>1. CallLeads(Alive({}), New(b, {}), Alive({} \cup {b}))
      BY NameFacts, NewLeads
    <3>2. A = {} \cup {b} /\ first = <<New(b, {})>>
      <4> HIDE DEF b
      <4> QED BY <2>2
    <3> HIDE DEF first, A, b
    <3> QED BY <3>1, <3>2, Lead1, ReadFacts
  <2> QED BY <2>1, <2>2
<1> HIDE DEF first, A
<1>2. Leads(Alive(A), <<FindClass("optional"), FindClass("jEvent"),
                        New(Object("eventObj"), {Class("jEvent")} \cup A),
                        New(Object("result"), {Class("optional"), Object("eventObj")})>>,
            Alive({Object("result")}))
  BY OptionalLeads
<1> QED BY <1>1, <1>2, LeadBoth DEF createOptional, first, A

(* An address is read through the objects on the way to it.                *)
LEMMA SocketAddressLeads == \E B : Leads(Alive({}), convertInetSocketAddress, Alive(B))
<1> DEFINE class == Class("inetSocketAddress")
           address == Object("inetAddress")
           addressClass == Class("inetAddress")
           string == Object("ipAddressString")
           A1 == {} \cup {class}
           A2 == A1 \cup {address}
           A3 == A2 \cup {addressClass}
           A4 == A3 \cup {string}
<1>1. CallLeads(Alive({}), FindClass("inetSocketAddress"), Alive(A1))
  BY NameFacts, NewLeads DEF FindClass
<1>2. CallLeads(Alive(A1), New(address, {}), Alive(A2))
  BY NameFacts, NewLeads
<1>3. CallLeads(Alive(A2), New(addressClass, {address}), Alive(A3))
  BY NameFacts, NewLeads
<1>4. CallLeads(Alive(A3), New(string, {address}), Alive(A4))
  BY NameFacts, NewLeads
<1>5. CallLeads(Alive(A4), Use({string}), Alive(A4))
  BY UseLeads DEF Alive
<1> HIDE DEF A1, A2, A3, A4, address, addressClass, string
<1>6. Leads(Alive({}), <<FindClass("inetSocketAddress"), New(address, {}),
                         New(addressClass, {address}), New(string, {address}), Use({string})>>,
            Alive(A4))
  BY <1>1, <1>2, <1>3, <1>4, <1>5, Lead5, ReadFacts
<1> QED BY <1>6 DEF convertInetSocketAddress, address, addressClass, string

LEMMA BoostAddressLeads ==
  \E B : Leads(Alive({}), getLongField \o convertInetAddressToBoostIp, Alive(B))
<1> DEFINE cls == Class("cls")
           class == Class("inetAddress")
           bytes == Object("addressBytes")
           A1 == {} \cup {cls}
           A2 == A1 \cup {class}
           A3 == A2 \cup {bytes}
<1>1. CallLeads(Alive({}), FindClass("cls"), Alive(A1))
  BY NameFacts, NewLeads DEF FindClass
<1>2. CallLeads(Alive(A1), FindClass("inetAddress"), Alive(A2))
  BY NameFacts, NewLeads DEF FindClass
<1>3. CallLeads(Alive(A2), New(bytes, {}), Alive(A3))
  BY NameFacts, NewLeads
<1>4. CallLeads(Alive(A3), Use({bytes}), Alive(A3))
  BY UseLeads DEF Alive
<1> HIDE DEF A1, A2, A3, bytes
<1>5. Leads(Alive({}), <<FindClass("cls")>>, Alive(A1))
  BY <1>1, Lead1, ReadFacts
<1>6. Leads(Alive(A1), <<FindClass("inetAddress"), New(bytes, {}), Use({bytes})>>, Alive(A3))
  BY <1>2, <1>3, <1>4, Lead3, ReadFacts
<1>7. Leads(Alive({}), <<FindClass("cls")>>
                         \o <<FindClass("inetAddress"), New(bytes, {}), Use({bytes})>>, Alive(A3))
  BY <1>5, <1>6, LeadBoth
<1> QED BY <1>7 DEF getLongField, convertInetAddressToBoostIp, bytes

LEMMA InstantLeads == \E B : Leads(Alive({}), convertInstantToTimestamp, Alive(B))
<1>1. CallLeads(Alive({}), FindClass("instant"), Alive({} \cup {Class("instant")}))
  BY NameFacts, NewLeads DEF FindClass
<1>2. Leads(Alive({}), <<FindClass("instant")>>, Alive({} \cup {Class("instant")}))
  BY <1>1, Lead1, ReadFacts
<1> QED BY <1>2 DEF convertInstantToTimestamp

(* The list of an overview.                                                *)
LEMMA OverviewLeads ==
  ASSUME NEW n \in Nat, NEW workers \in Nat, NEW senders \in Nat
  PROVE  Leads(Alive({}), InTurn([i \in 1 .. n |-> convertToLBOverivew(i, workers, senders)])
                            \o convertJobjectVectorToArrayList("result", "jOverviewEntry", n),
               Alive({Object("result")}))
<1> DEFINE E == First("jOverviewEntry", n)
           entries == InTurn([i \in 1 .. n |-> convertToLBOverivew(i, workers, senders)])
<1>1. Leads(Alive({}), entries, Alive(E))
  BY OverviewEntriesLead
<1>2. Leads(Alive(E), convertJobjectVectorToArrayList("result", "jOverviewEntry", n),
            Known((E \cup {Object("result")}) \ E, E, {}))
  BY ArrayListLeads
<1>3. Implies(Known((E \cup {Object("result")}) \ E, E, {}), Alive({Object("result")}))
  <2>1. Object("result") \notin E
    BY NameFacts DEF First
  <2> QED BY <2>1, Forget
<1> HIDE DEF entries, E
<1>4. Leads(Alive({}), entries \o convertJobjectVectorToArrayList("result", "jOverviewEntry", n),
            Alive({Object("result")}))
  BY <1>1, <1>2, <1>3, LeadBoth, LeadsWeaker
<1> QED BY <1>4 DEF entries

ResultNames == {"list", "getOverview", "object"}

(* Every method has an outline, at whose end its result is alive.          *)
LEMMA MethodLeads ==
  ASSUME NEW m \in Methods
  PROVE  \E B : /\ Leads(Alive({}), m.calls, Alive(B))
                /\ m.name \in ResultNames => Object("result") \in B
<1> DEFINE G(name, calls) == \E B : /\ Leads(Alive({}), calls, Alive(B))
                                    /\ name \in ResultNames => Object("result") \in B
<1> USE SizeAssumption
<1>1. ASSUME NEW name, NEW calls, Leads(Alive({}), calls, Alive({Object("result")}))
      PROVE  G(name, calls)
  BY <1>1
<1>2. ASSUME NEW name, NEW calls, name \notin ResultNames, \E B : Leads(Alive({}), calls, Alive(B))
      PROVE  G(name, calls)
  BY <1>2
<1>3. \A name, calls : Method(name, calls).name = name /\ Method(name, calls).calls = calls
  BY DEF Method
<1>4. Object("result") \notin Victims /\ \A v, n : Object("result") \notin First(v, n)
  BY NameFacts DEF Victims, First
<1> HIDE DEF G
<1>5. ASSUME m \in Arguments PROVE G(m.name, m.calls)
  <2>1. G("argument", convertInetSocketAddress)
    BY <1>2, SocketAddressLeads DEF ResultNames
  <2>2. G("argument", convertInstantToTimestamp)
    BY <1>2, InstantLeads DEF ResultNames
  <2>3. G("argument", getLongField \o convertInetAddressToBoostIp)
    BY <1>2, BoostAddressLeads DEF ResultNames
  <2> QED BY <1>3, <1>5, <2>1, <2>2, <2>3 DEF Arguments
<1>6. ASSUME m \in Inputs PROVE G(m.name, m.calls)
  <2>1. \A n \in Nat : /\ G("input", jstringArray2Vector(n)) /\ G("input", jstringList2Vector(n))
                       /\ G("input", jIntList2Vector(n))
    BY <1>2, ArrayInputLeads, ListInputsLead DEF ResultNames
  <2>2. PICK n \in 0 .. MaxSize : \/ m = Method("input", jstringArray2Vector(n))
                                  \/ m = Method("input", jstringList2Vector(n))
                                  \/ m = Method("input", jIntList2Vector(n))
    BY <1>6 DEF Inputs
  <2> QED BY <1>3, <2>1, <2>2
<1>7. ASSUME m \in Lists PROVE G(m.name, m.calls)
  <2>1. \A n \in Nat : /\ G("list", convertStringVectorToArrayList("result", n))
                       /\ G("list", convertIntVectorToArrayList("result", n))
    <3> SUFFICES ASSUME NEW n \in Nat
                 PROVE  /\ G("list", convertStringVectorToArrayList("result", n))
                        /\ G("list", convertIntVectorToArrayList("result", n))
      OBVIOUS
    <3> DEFINE R == {Object("result")}
    <3>1. /\ R \subseteq {} \cup {Object("result")} /\ R \cap Victims = {}
          /\ R \cap First("jStr", n) = {} /\ R \cap First("integerObj", n) = {}
      BY <1>4
    <3> HIDE DEF R
    <3>2. /\ Leads(Alive({}), convertStringVectorToArrayList("result", n), Alive(R))
          /\ Leads(Alive({}), convertIntVectorToArrayList("result", n), Alive(R))
      BY <3>1, StringVectorLeads, IntVectorLeads
    <3> QED BY <1>1, <3>2 DEF R
  <2>2. PICK n \in 0 .. MaxSize : \/ m = Method("list", convertStringVectorToArrayList("result", n))
                                  \/ m = Method("list", convertIntVectorToArrayList("result", n))
    BY <1>7 DEF Lists
  <2> QED BY <1>3, <2>1, <2>2
<1>8. ASSUME m \in getStatus PROVE G(m.name, m.calls)
  <2>1. PICK w \in 0 .. MaxWorkers, n \in 0 .. MaxSenders :
          m = Method("getStatus", convertToJLBStatus(w, n))
    BY <1>8 DEF getStatus
  <2>2. {} \in SUBSET Kept /\ w \in Nat /\ n \in Nat
    OBVIOUS
  <2>3. G("getStatus", convertToJLBStatus(w, n))
    BY <1>2, <2>2, LBStatusLeads DEF ResultNames
  <2> QED BY <1>3, <2>1, <2>3
<1>9. ASSUME m \in getOverview PROVE G(m.name, m.calls)
  <2> DEFINE calls(k, w, n) ==
               InTurn([i \in 1 .. k |-> convertToLBOverivew(i, w, n)])
                 \o convertJobjectVectorToArrayList("result", "jOverviewEntry", k)
  <2>1. m \in {Method("getOverview", calls(k, w, n)) :
                 k \in 0 .. MaxReserved, w \in 0 .. MaxWorkers, n \in 0 .. MaxSenders}
    BY <1>9 DEF getOverview
  <2>2. \A k, w, n \in Nat : G("getOverview", calls(k, w, n))
    BY <1>1, OverviewLeads
  <2> HIDE DEF calls
  <2>3. PICK k \in 0 .. MaxReserved, w \in 0 .. MaxWorkers, n \in 0 .. MaxSenders :
          m = Method("getOverview", calls(k, w, n))
    BY <2>1
  <2>4. k \in Nat /\ w \in Nat /\ n \in Nat
    OBVIOUS
  <2> QED BY <1>3, <2>2, <2>3, <2>4
<1>10. ASSUME m \in Objects PROVE G(m.name, m.calls)
  <2>1. /\ G("object", convertToJStats) /\ G("object", createOptional(<<>>))
        /\ G("object", createOptional(<<Object("jDirectBuffer")>>))
    BY <1>1, StatsLead, OptionalsLead
  <2> QED BY <1>3, <1>10, <2>1 DEF Objects
<1>11. G(m.name, m.calls)
  BY <1>5, <1>6, <1>7, <1>8, <1>9, <1>10 DEF Methods
<1> QED BY <1>11 DEF G

-----------------------------------------------------------------------------
(* What is known holds of the slots and of the variables.                  *)
Holds(K) ==
  /\ \A x \in K.alive : x # Free /\ IsAlive(x)
  /\ \A x \in K.gone : x \in DOMAIN ref /\ slots[ref[x]] \in {Free} \cup Victims
  /\ \A s \in DOMAIN slots : IsInput(slots[s]) =>
       slots[s] \in K.read /\ slots[s] \in DOMAIN ref /\ ref[slots[s]] = s

(* The method that runs has an outline, and what it says here holds.       *)
Outlined(k) ==
  /\ \E S : method.calls \in Seq(S)
  /\ Outline(method.calls, k)
  /\ method.name \in ResultNames => Object("result") \in k[Len(method.calls) + 1].alive
  /\ Holds(k[next])

IInv == TypeOK /\ \E k : Outlined(k)

(* Less holds as well.                                                     *)
LEMMA HoldsWeaker ==
  ASSUME NEW K, NEW L, Holds(K), Implies(K, L)
  PROVE  Holds(L)
BY DEF Holds, Implies

LEMMA SlotFacts ==
  ASSUME TypeOK
  PROVE  /\ Len(slots) \in Nat /\ DOMAIN slots = 1 .. Len(slots)
         /\ \A s \in AnySlot : \/ s \in DOMAIN slots /\ slots[s] = Free
                               \/ s = Len(slots) + 1
<1>1. Len(slots) \in Nat /\ DOMAIN slots = 1 .. Len(slots)
  BY LenProperties DEF TypeOK
<1>2. StaleSlots \subseteq FreeSlots
  BY DEF StaleSlots
<1>3. (CHOOSE s \in (FreeSlots \ StaleSlots) \cup {Len(slots) + 1} : TRUE)
        \in FreeSlots \cup {Len(slots) + 1}
  OBVIOUS
<1> QED BY <1>1, <1>2, <1>3 DEF AnySlot, FreeSlots

LEMMA InitInv ==
  ASSUME Init
  PROVE  IInv
<1>1. PICK B : /\ Leads(Alive({}), method.calls, Alive(B))
               /\ method.name \in ResultNames => Object("result") \in B
  BY MethodLeads DEF Init
<1>2. PICK S, k : /\ method.calls \in Seq(S) /\ Outline(method.calls, k)
                  /\ Implies(k[Len(method.calls) + 1], Alive(B)) /\ Implies(Alive({}), k[1])
  BY <1>1 DEF Leads
<1>3. DOMAIN slots = {} /\ DOMAIN ref = {} /\ slots \in Seq(DOMAIN ref \cup {Free})
  BY EmptySeq DEF Init
<1>4. Holds(Alive({}))
  BY <1>3 DEF Holds, Alive, Known
<1>5. Holds(k[1])
  BY <1>2, <1>4, HoldsWeaker
<1>6. method.name \in ResultNames => Object("result") \in k[Len(method.calls) + 1].alive
  BY <1>1, <1>2 DEF Implies, Alive, Known
<1>7. Len(method.calls) \in Nat
  BY <1>2, LenProperties
<1>8. TypeOK
  BY <1>3, <1>7 DEF TypeOK, Init
<1> QED BY <1>2, <1>5, <1>6, <1>8 DEF IInv, Outlined, Init

(* The reference made is the only one to its object, and took the slot of  *)
(* none that is known to be alive.                                         *)
LEMMA NewRefHolds ==
  ASSUME NEW K, NEW L, TypeOK, Holds(K), CallLeads(K, Call, L), OneAtMost(L.read), NewRef
  PROVE  Holds(L)' /\ slots' \in Seq(DOMAIN ref' \cup {Free})
         /\ \A x \in DOMAIN ref' : ref'[x] \in DOMAIN slots'
<1> DEFINE n == Call.name
<1>1. PICK s \in AnySlot :
        /\ slots' = [i \in DOMAIN slots \cup {s} |-> IF i = s THEN n ELSE slots[i]]
        /\ ref' = [x \in DOMAIN ref \cup {n} |-> IF x = n THEN s ELSE ref[x]]
  BY DEF NewRef
<1>2. /\ L.alive \subseteq K.alive \cup {n}
      /\ L.gone \subseteq (IF n \in Victims THEN K.gone \ {n} ELSE {})
      /\ n # Free /\ n \notin K.read
      /\ (IF IsInput(n) THEN K.read \cup {n} ELSE K.read) \subseteq L.read
  BY DEF CallLeads, NewRef
<1> HIDE DEF n
<1>3. s \in DOMAIN slots => slots[s] = Free
  BY SlotFacts
<1>4. DOMAIN slots' = DOMAIN slots \cup {s} /\ DOMAIN ref' = DOMAIN ref \cup {n}
  BY <1>1
<1>5. slots'[s] = n /\ \A i \in DOMAIN slots : i # s => slots'[i] = slots[i]
  BY <1>1
<1>6. ref'[n] = s /\ \A x \in DOMAIN ref : x # n => ref'[x] = ref[x]
  BY <1>1
<1>7. \A x \in DOMAIN ref : ref[x] \in DOMAIN slots
  BY DEF TypeOK
<1>8. ASSUME NEW x \in L.alive
      PROVE  x # Free /\ x \in DOMAIN ref' /\ slots'[ref'[x]] = x
  <2>1. CASE x = n
    BY <1>2, <1>4, <1>5, <1>6, <2>1
  <2>2. CASE x # n
    <3>1. x # Free /\ x \in DOMAIN ref /\ slots[ref[x]] = x
      BY <1>2, <2>2 DEF Holds, IsAlive
    <3>2. ref[x] # s
      BY <1>3, <1>7, <3>1
    <3> QED BY <1>4, <1>5, <1>6, <1>7, <2>2, <3>1, <3>2
  <2> QED BY <2>1, <2>2
<1>9. ASSUME NEW x \in L.gone
      PROVE  x \in DOMAIN ref' /\ slots'[ref'[x]] \in {Free} \cup Victims
  <2>1. n \in Victims /\ x \in K.gone /\ x # n
    BY <1>2
  <2>2. x \in DOMAIN ref /\ slots[ref[x]] \in {Free} \cup Victims
    BY <2>1 DEF Holds
  <2>3. ref'[x] = ref[x] /\ ref[x] \in DOMAIN slots
    BY <1>6, <1>7, <2>1, <2>2
  <2> QED BY <1>4, <1>5, <2>1, <2>2, <2>3
<1>10. ASSUME NEW t \in DOMAIN slots', IsInput(slots'[t])
       PROVE  slots'[t] \in L.read /\ slots'[t] \in DOMAIN ref' /\ ref'[slots'[t]] = t
  <2>1. CASE t = s
    <3>1. slots'[t] = n
      BY <1>5, <2>1
    <3>2. n \in L.read
      BY <1>2, <1>10, <3>1
    <3> QED BY <1>4, <1>6, <2>1, <3>1, <3>2
  <2>2. CASE t # s
    <3>1. t \in DOMAIN slots /\ slots'[t] = slots[t]
      BY <1>4, <1>5, <2>2
    <3>2. slots[t] \in K.read /\ slots[t] \in DOMAIN ref /\ ref[slots[t]] = t
      BY <1>10, <3>1 DEF Holds
    <3>3. slots[t] \in L.read /\ slots[t] # n
      BY <1>2, <3>2
    <3> QED BY <1>4, <1>6, <3>1, <3>2, <3>3
  <2> QED BY <2>1, <2>2
<1>11. Holds(L)'
  BY <1>8, <1>9, <1>10 DEF Holds, IsAlive
<1>12. slots' \in Seq(DOMAIN ref' \cup {Free})
  <2>1. \A i \in DOMAIN slots : slots[i] \in DOMAIN ref \cup {Free}
    BY DEF TypeOK
  <2>2. PICK h \in Nat : DOMAIN slots \cup {s} = 1 .. h
    <3>1. CASE s \in DOMAIN slots
      BY <3>1, SlotFacts
    <3>2. CASE s = Len(slots) + 1
      BY <3>2, SlotFacts
    <3> QED BY <3>1, <3>2, SlotFacts
  <2>3. slots' \in [1 .. h -> DOMAIN ref' \cup {Free}]
    <3>1. \A i \in 1 .. h : slots'[i] \in DOMAIN ref' \cup {Free}
      BY <1>4, <1>5, <2>1, <2>2
    <3>2. slots' = [i \in 1 .. h |-> IF i = s THEN n ELSE slots[i]]
      BY <1>1, <2>2
    <3> QED BY <3>1, <3>2
  <2> QED BY <2>3, SeqOfElements
<1>13. \A x \in DOMAIN ref' : ref'[x] \in DOMAIN slots'
  BY <1>4, <1>6, <1>7
<1> QED BY <1>11, <1>12, <1>13

LEMMA DeleteRefHolds ==
  ASSUME NEW K, NEW L, TypeOK, Holds(K), CallLeads(K, Call, L), DeleteRef
  PROVE  Holds(L)' /\ slots' \in Seq(DOMAIN ref' \cup {Free})
         /\ \A x \in DOMAIN ref' : ref'[x] \in DOMAIN slots'
<1> DEFINE n == Call.name
           t == ref[n]
<1>1. slots' = [slots EXCEPT ![t] = Free] /\ ref' = ref
  BY DEF DeleteRef
<1>2. \/ /\ n \in K.alive /\ L.alive \subseteq K.alive \ {n}
         /\ L.gone \subseteq K.gone \cup {n} /\ K.read \ {n} \subseteq L.read
      \/ /\ n \in K.gone /\ L.alive \subseteq K.alive \ Victims
         /\ L.gone \subseteq K.gone /\ K.read \subseteq L.read
  BY DEF CallLeads, DeleteRef, Implies, Known
<1> HIDE DEF n
<1>3. n \in DOMAIN ref
  BY <1>2 DEF Holds, IsAlive
<1>4. \A x \in DOMAIN ref : ref[x] \in DOMAIN slots
  BY DEF TypeOK
<1>5. /\ DOMAIN slots' = DOMAIN slots /\ t \in DOMAIN slots
      /\ slots'[t] = Free
      /\ \A i \in DOMAIN slots : i # t => slots'[i] = slots[i]
  BY <1>1, <1>3, <1>4
<1>6. ~IsInput(Free) /\ \A x \in Victims : ~IsInput(x)
  <2>1. ~IsInput(Free)
    BY DEF IsInput, Free
  <2> QED BY <2>1, NameFacts DEF Victims
<1>7. \A x \in K.alive : x # Free /\ x \in DOMAIN ref /\ slots[ref[x]] = x
  BY DEF Holds, IsAlive
<1>8. \A x \in K.gone : x \in DOMAIN ref /\ slots[ref[x]] \in {Free} \cup Victims
  BY DEF Holds
<1>9. \A i \in DOMAIN slots : IsInput(slots[i]) =>
        slots[i] \in K.read /\ slots[i] \in DOMAIN ref /\ ref[slots[i]] = i
  BY DEF Holds
<1>10. \A x \in K.gone : slots'[ref[x]] \in {Free} \cup Victims
  BY <1>4, <1>5, <1>8
<1>11. ASSUME n \in K.alive, L.alive \subseteq K.alive \ {n},
              L.gone \subseteq K.gone \cup {n}, K.read \ {n} \subseteq L.read
       PROVE  Holds(L)'
  <2>1. \A x \in L.alive : x # Free /\ x \in DOMAIN ref' /\ slots'[ref'[x]] = x
    BY <1>1, <1>4, <1>5, <1>7, <1>11
  <2>2. \A x \in L.gone : x \in DOMAIN ref' /\ slots'[ref'[x]] \in {Free} \cup Victims
    BY <1>1, <1>3, <1>5, <1>8, <1>10, <1>11
  <2>3. ASSUME NEW i \in DOMAIN slots', IsInput(slots'[i])
        PROVE  slots'[i] \in L.read /\ slots'[i] \in DOMAIN ref' /\ ref'[slots'[i]] = i
    <3>1. i # t /\ i \in DOMAIN slots /\ slots'[i] = slots[i]
      BY <1>5, <1>6, <2>3
    <3>2. slots[i] # n
      BY <1>5, <1>9, <2>3, <3>1
    <3> QED BY <1>1, <1>9, <1>11, <2>3, <3>1, <3>2
  <2> QED BY <2>1, <2>2, <2>3 DEF Holds, IsAlive
<1>12. ASSUME n \in K.gone, L.alive \subseteq K.alive \ Victims,
              L.gone \subseteq K.gone, K.read \subseteq L.read
       PROVE  Holds(L)'
  <2>1. slots[t] \in {Free} \cup Victims
    BY <1>8, <1>12
  <2>2. \A x \in L.alive : x # Free /\ x \in DOMAIN ref' /\ slots'[ref'[x]] = x
    BY <1>1, <1>4, <1>5, <1>7, <1>12, <2>1
  <2>3. \A x \in L.gone : x \in DOMAIN ref' /\ slots'[ref'[x]] \in {Free} \cup Victims
    BY <1>1, <1>8, <1>10, <1>12
  <2>4. \A i \in DOMAIN slots' : IsInput(slots'[i]) =>
          slots'[i] \in L.read /\ slots'[i] \in DOMAIN ref' /\ ref'[slots'[i]] = i
    BY <1>1, <1>5, <1>6, <1>9, <1>12
  <2> QED BY <2>2, <2>3, <2>4 DEF Holds, IsAlive
<1>13. Holds(L)'
  BY <1>2, <1>11, <1>12
<1>14. slots' \in Seq(DOMAIN ref' \cup {Free})
  <2>1. slots \in [1 .. Len(slots) -> DOMAIN ref \cup {Free}]
    BY LenProperties DEF TypeOK
  <2>2. slots' \in [1 .. Len(slots) -> DOMAIN ref \cup {Free}]
    BY <1>1, <2>1
  <2>3. Len(slots) \in Nat
    BY SlotFacts
  <2> QED BY <1>1, <2>2, <2>3, SeqOfElements
<1> QED BY <1>1, <1>4, <1>5, <1>13, <1>14

(* A call moves the method to the next point of its outline.               *)
LEMMA NextInv ==
  ASSUME IInv, [Next]_vars
  PROVE  IInv'
<1>1. PICK k : Outlined(k)
  BY DEF IInv
<1>2. TypeOK
  BY DEF IInv
<1>3. Len(method.calls) \in Nat /\ next \in Nat
  BY <1>1, <1>2, LenProperties DEF Outlined, TypeOK
<1>4. CASE UNCHANGED vars
  BY <1>1, <1>2, <1>4 DEF vars, IInv, Outlined, TypeOK, Holds, IsAlive
<1>5. CASE Next
  <2>0. PICK K, L : K = k[next] /\ L = k[next + 1]
    OBVIOUS
  <2>1. /\ Running /\ method' = method /\ next' = next + 1
    BY <1>5 DEF Next, NewRef, UseRefs, DeleteRef
  <2>2. next \in 1 .. Len(method.calls) /\ next' \in 1 .. Len(method.calls) + 1
    BY <1>2, <1>3, <2>1 DEF Running, TypeOK
  <2>3. CallLeads(K, Call, L) /\ OneAtMost(L.read) /\ Holds(K)
    BY <1>1, <1>3, <2>0, <2>1, <2>2 DEF Outlined, Outline, Call
  <2>4. /\ Holds(L)' /\ slots' \in Seq(DOMAIN ref' \cup {Free})
        /\ \A x \in DOMAIN ref' : ref'[x] \in DOMAIN slots'
    <3>1. CASE NewRef
      BY <1>2, <2>3, <3>1, NewRefHolds
    <3>2. CASE UseRefs
      <4>1. Implies(K, L) /\ slots' = slots /\ ref' = ref
        BY <2>3, <3>2 DEF CallLeads, UseRefs
      <4>2. Holds(L)
        BY <2>3, <4>1, HoldsWeaker
      <4> QED BY <1>2, <4>1, <4>2 DEF TypeOK, Holds, IsAlive
    <3>3. CASE DeleteRef
      BY <1>2, <2>3, <3>3, DeleteRefHolds
    <3> QED BY <1>5, <3>1, <3>2, <3>3 DEF Next
  <2>5. TypeOK'
    BY <1>2, <2>1, <2>2, <2>4 DEF TypeOK
  <2>6. Outlined(k)'
    BY <1>1, <2>0, <2>1, <2>4 DEF Outlined
  <2> QED BY <2>5, <2>6 DEF IInv
<1> QED BY <1>4, <1>5

-----------------------------------------------------------------------------
(* Every native method runs along its outline, whatever slots JNI hands    *)
(* out and however long its lists are.                                     *)
THEOREM InvariantHolds == Spec => []IInv
<1>1. Init => IInv
  BY InitInv
<1>2. IInv /\ [Next]_vars => IInv'
  BY NextInv
<1> QED BY <1>1, <1>2, PTL DEF Spec

(* Types: every variable of the native code stands for a slot in use, and  *)
(* every slot for an object of such a variable, or for none.               *)
THEOREM TypeCorrect == Spec => []TypeOK
<1>1. IInv => TypeOK
  BY DEF IInv
<1> QED BY <1>1, InvariantHolds, PTL

(* What the conversions give to JNI is what they have just made, although  *)
(* slots are handed out again and elements are deleted twice.              *)
THEOREM ArgumentsCorrect == Spec => []ArgumentsAreAlive
<1>1. ASSUME IInv
      PROVE  ArgumentsAreAlive
  <2>1. PICK k : Outlined(k)
    BY <1>1 DEF IInv
  <2>2. TypeOK
    BY <1>1 DEF IInv
  <2>3. Len(method.calls) \in Nat
    BY <2>1, LenProperties DEF Outlined
  <2>4. ASSUME Running
        PROVE  Call.args \subseteq k[next].alive \cup {Object("jLBStatus")}
    <3>1. next \in 1 .. Len(method.calls)
      BY <2>2, <2>3, <2>4 DEF TypeOK, Running
    <3> QED BY <2>1, <3>1 DEF Outlined, Outline, CallLeads, Call
  <2> QED BY <2>1, <2>4 DEF ArgumentsAreAlive, Outlined, Holds
<1> QED BY <1>1, InvariantHolds, PTL

(* The list of a method, and the object of the others that return one, are *)
(* alive at its end, after the second deletion of the elements.            *)
THEOREM ListsCorrect == Spec => []ListIsAlive
<1>1. ASSUME IInv
      PROVE  ListIsAlive
  <2>1. PICK k : Outlined(k)
    BY <1>1 DEF IInv
  <2>2. Len(method.calls) \in Nat
    BY <2>1, LenProperties DEF Outlined
  <2>3. ASSUME ~Running
        PROVE  next = Len(method.calls) + 1
    BY <1>1, <2>2, <2>3 DEF IInv, TypeOK, Running
  <2> QED BY <2>1, <2>3 DEF ListIsAlive, Outlined, Holds, ResultNames
<1> QED BY <1>1, InvariantHolds, PTL

(* However long a list that a method reads is, no two of its elements hold *)
(* a slot at once.                                                         *)
THEOREM InputsCorrect == Spec => []OneElementAtATime
<1>1. ASSUME IInv
      PROVE  OneElementAtATime
  <2>1. PICK k : Outlined(k)
    BY <1>1 DEF IInv
  <2>2. next \in 1 .. Len(method.calls) + 1
    BY <1>1 DEF IInv, TypeOK
  <2>3. OneAtMost(k[next].read)
    BY <2>1, <2>2 DEF Outlined, Outline
  <2>4. \A s \in DOMAIN slots : slots[s][2] = "input" =>
          slots[s] \in k[next].read /\ ref[slots[s]] = s
    BY <2>1 DEF Outlined, Holds, IsInput
  <2> QED BY <2>3, <2>4 DEF OneElementAtATime, OneAtMost
<1> QED BY <1>1, InvariantHolds, PTL
=============================================================================
