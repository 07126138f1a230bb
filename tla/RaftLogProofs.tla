--------------------------- MODULE RaftLogProofs ---------------------------
(***************************************************************************)
(* The logs of the peers and of the leaders of all terms, and what a step  *)
(* does to them, for any number of peers, elections, losses and restarts.  *)
(***************************************************************************)
EXTENDS RaftFacts

\* Leaves are first-order unless they say otherwise.
USE ZenonT(60)

-----------------------------------------------------------------------------
(* Logs that agree.                                                        *)

\* The entries of a log have terms.
LEMMA EntryTerm ==
  ASSUME NEW l \in Seq(Entry), NEW k \in 0..LastIndex(l)
  PROVE  /\ k \in Nat /\ k < Len(l) /\ Len(l) \in Nat
         /\ At(l, k) \in Entry /\ At(l, k).term \in Nat
  <1>1. k \in Nat /\ k < Len(l) /\ Len(l) \in Nat
    BY SMTT(60) DEF LastIndex
  <1>2. At(l, k) \in Entry
    BY <1>1, AtType
  <1>3. QED  BY <1>1, <1>2 DEF Entry

\* A log agrees with itself.
LEMMA AgreeRefl ==
  ASSUME NEW l, NEW k, k < Len(l)
  PROVE  Agree(l, l, k)
  BY DEF Agree

\* Agreement goes both ways.
LEMMA AgreeSym ==
  ASSUME NEW l, NEW m, NEW k, Agree(l, m, k)
  PROVE  Agree(m, l, k)
  BY DEF Agree

\* Logs that agree up to k agree up to any earlier index.
LEMMA AgreeDown ==
  ASSUME NEW l \in Seq(Entry), NEW m \in Seq(Entry), NEW k \in Int, NEW j \in Int,
         j <= k, Agree(l, m, k)
  PROVE  Agree(l, m, j)
  BY SMTT(60) DEF Agree

\* Two logs that agree with a third one agree as far as both do.
LEMMA AgreeVia ==
  ASSUME NEW l \in Seq(Entry), NEW m \in Seq(Entry), NEW n \in Seq(Entry),
         NEW k \in Int, NEW j \in Int, j <= k, Agree(l, m, j), Agree(m, n, k)
  PROVE  Agree(l, n, j)
  <1>1. Agree(m, n, j)
    BY AgreeDown
  <1>2. QED  BY <1>1 DEF Agree

\* Where they agree their entries are the same.
LEMMA AgreeAt ==
  ASSUME NEW l, NEW m, NEW k, Agree(l, m, k), NEW x \in 0..k
  PROVE  At(l, x) = At(m, x)
  BY DEF Agree

\* Logs agree up to k when their first k + 1 entries are the same.
LEMMA AgreeUpto ==
  ASSUME NEW l \in Seq(Entry), NEW m \in Seq(Entry), NEW k \in Nat
  PROVE  Agree(l, m, k) =>
           k <= LastIndex(l) /\ k <= LastIndex(m) /\ Upto(l, k + 1) = Upto(m, k + 1)
  <1> SUFFICES ASSUME Agree(l, m, k)
               PROVE  k <= LastIndex(l) /\ k <= LastIndex(m)
                      /\ Upto(l, k + 1) = Upto(m, k + 1)
    OBVIOUS
  <1>1. Len(l) \in Nat /\ Len(m) \in Nat /\ k < Len(l) /\ k < Len(m)
    BY SMTT(60) DEF Agree
  <1>2. \A x \in 1..(k + 1) : l[x] = m[x]
    <2> SUFFICES ASSUME NEW x \in 1..(k + 1) PROVE l[x] = m[x]
      OBVIOUS
    <2>1. x - 1 \in 0..k /\ (x - 1) + 1 = x
      BY SMTT(60)
    <2>2. At(l, x - 1) = At(m, x - 1)
      BY <2>1 DEF Agree
    <2>3. QED  BY <2>1, <2>2 DEF At
  <1>3. Upto(l, k + 1) = Upto(m, k + 1)
    <2>1. /\ Upto(l, k + 1) = [x \in 1..(k + 1) |-> l[x]]
          /\ Upto(m, k + 1) = [x \in 1..(k + 1) |-> m[x]]
      BY <1>1, SMTT(60) DEF Upto
    <2>2. QED  BY <1>2, <2>1
  <1>4. QED  BY <1>1, <1>3, SMTT(60) DEF LastIndex

\* A log that is cut off agrees with what it was.
LEMMA CutAgrees ==
  ASSUME NEW l \in Seq(Entry), NEW k \in Nat, k >= 1, k <= Len(l)
  PROVE  /\ Upto(l, k) \in Seq(Entry) /\ Len(Upto(l, k)) = k
         /\ Agree(Upto(l, k), l, k - 1)
  BY SMTT(60) DEF Upto, Agree, At

\* So does one that is extended.
LEMMA AppendAgrees ==
  ASSUME NEW l \in Seq(Entry), NEW e \in Entry
  PROVE  /\ Append(l, e) \in Seq(Entry) /\ Len(Append(l, e)) = Len(l) + 1
         /\ At(Append(l, e), Len(l)) = e
         /\ \A k \in Int : k < Len(l) => Agree(Append(l, e), l, k)
  BY SMTT(60) DEF Agree, At

\* A log cut off behind entry k, where it agrees with m, and continued with
\* the next entries of m agrees with m to its end.
LEMMA SpliceAgrees ==
  ASSUME NEW l \in Seq(Entry), NEW m \in Seq(Entry), NEW k \in Nat, Agree(l, m, k),
         NEW s \in Seq(Entry), k + Len(s) < Len(m),
         \A x \in 1..Len(s) : s[x] = At(m, k + x)
  PROVE  /\ Upto(l, k + 1) \o s \in Seq(Entry)
         /\ Len(Upto(l, k + 1) \o s) = k + 1 + Len(s)
         /\ Agree(Upto(l, k + 1) \o s, m, k + Len(s))
  <1> DEFINE c == Upto(l, k + 1)
  <1>1. Len(l) \in Nat /\ k < Len(l) /\ Len(s) \in Nat /\ Len(m) \in Nat
    BY SMTT(60) DEF Agree
  <1>2. /\ c \in Seq(Entry) /\ Len(c) = k + 1 /\ Agree(c, l, k)
    BY <1>1, CutAgrees, SMTT(60)
  <1>3. Agree(c, m, k)
    BY <1>2, AgreeVia, SMTT(60)
  <1> HIDE DEF c
  <1>4. c \o s \in Seq(Entry) /\ Len(c \o s) = k + 1 + Len(s)
    BY <1>1, <1>2, SMTT(60)
  <1>5. ASSUME NEW x \in 0..(k + Len(s))
        PROVE  At(c \o s, x) = At(m, x)
    <2>1. CASE x <= k
      <3>1. x \in 0..k /\ x + 1 \in 1..Len(c)
        BY <1>1, <1>2, <2>1, SMTT(60)
      <3>2. At(c \o s, x) = At(c, x)
        BY <1>1, <1>2, <3>1, SMTT(60) DEF At
      <3>3. QED  BY <1>3, <3>1, <3>2 DEF Agree
    <2>2. CASE x > k
      <3>1. x - k \in 1..Len(s) /\ k + (x - k) = x /\ x + 1 - Len(c) = x - k
        BY <1>1, <1>2, <2>2, SMTT(60)
      <3>2. At(c \o s, x) = s[x - k]
        BY <1>1, <1>2, <2>2, <3>1, SMTT(60) DEF At
      <3>3. s[x - k] = At(m, x)
        BY <3>1
      <3>4. QED  BY <3>2, <3>3
    <2>3. QED  BY <1>1, <2>1, <2>2, SMTT(60)
  <1>6. Agree(c \o s, m, k + Len(s))
    <2>1. k + Len(s) < Len(c \o s)
      BY <1>1, <1>4, SMTT(60)
    <2>2. QED  BY <1>5, <2>1 DEF Agree
  <1>7. QED  BY <1>4, <1>6 DEF c
-----------------------------------------------------------------------------
(* Logs and the history.                                                   *)

\* The parts of a history.
LEMMA HistoryType ==
  ASSUME NEW h \in Histories, NEW t \in Nat
  PROVE  /\ h.leader[t] \in Server \cup {Nil}
         /\ h.base[t] \in Seq(Entry) /\ h.log[t] \in Seq(Entry)
         /\ h.ack[t] \in [Server -> Nat]
  BY DEF Histories

\* A log that is a part of a genuine one is genuine.
LEMMA GenuinePart ==
  ASSUME NEW h \in Histories, NEW l \in Seq(Entry), NEW m \in Seq(Entry),
         Genuine(h, m), Len(l) >= 1, Agree(l, m, LastIndex(l))
  PROVE  Genuine(h, l)
  <1>1. Len(l) \in Nat /\ Len(m) \in Nat /\ LastIndex(l) <= LastIndex(m)
        /\ LastIndex(l) \in Nat /\ LastIndex(l) \in Int /\ LastIndex(m) \in Nat
    BY SMTT(60) DEF Agree, LastIndex
  <1>2. At(l, 0) = Dummy
    <2>1. 0 \in 0..LastIndex(l)
      BY <1>1, SMTT(60)
    <2>2. QED  BY <2>1 DEF Agree, Genuine
  <1>3. ASSUME NEW k \in 1..LastIndex(l)
        PROVE  Led(h, At(l, k).term) /\ Agree(l, h.log[At(l, k).term], k)
    <2>1. k \in 0..LastIndex(l) /\ k \in 1..LastIndex(m) /\ k \in 0..LastIndex(m)
          /\ k <= LastIndex(l) /\ k \in Int
      BY <1>1, SMTT(60)
    <2>2. At(l, k) = At(m, k)
      BY <2>1 DEF Agree
    <2>3. At(m, k).term \in Nat
      BY <2>1, EntryTerm
    <2>4. Led(h, At(m, k).term) /\ Agree(m, h.log[At(m, k).term], k)
      BY <2>1 DEF Genuine
    <2>5. Agree(l, m, k)
      BY <1>1, <2>1, AgreeDown
    <2>6. h.log[At(m, k).term] \in Seq(Entry)
      BY <2>3, HistoryType
    <2>7. Agree(l, h.log[At(m, k).term], k)
      BY <2>1, <2>4, <2>5, <2>6, AgreeVia, SMTT(60)
    <2>8. QED  BY <2>2, <2>4, <2>7
  <1>4. QED  BY <1>2, <1>3 DEF Genuine

\* Genuine logs with entries of the same index and term agree up to them.
LEMMA GenuineMeet ==
  ASSUME NEW h \in Histories, NEW l \in Seq(Entry), NEW m \in Seq(Entry),
         Genuine(h, l), Genuine(h, m), NEW k \in 0..LastIndex(l), k <= LastIndex(m),
         At(l, k).term = At(m, k).term
  PROVE  Agree(l, m, k)
  <1>1. k \in Nat /\ k < Len(l) /\ k < Len(m) /\ k \in 0..LastIndex(m)
    BY SMTT(60) DEF LastIndex
  <1>2. CASE k = 0
    <2>1. \A x \in 0..0 : x = 0
      BY SMTT(60)
    <2>2. QED  BY <1>1, <1>2, <2>1 DEF Agree, Genuine
  <1>3. CASE k # 0
    <2>1. k \in 1..LastIndex(l) /\ k \in 1..LastIndex(m) /\ k \in Int /\ k <= k
      BY <1>1, <1>3, SMTT(60) DEF LastIndex
    <2> DEFINE u == At(l, k).term
    <2>2. u \in Nat
      BY EntryTerm
    <2>3. Agree(l, h.log[u], k) /\ Agree(m, h.log[u], k)
      BY <2>1 DEF Genuine
    <2>4. h.log[u] \in Seq(Entry)
      BY <2>2, HistoryType
    <2> HIDE DEF u
    <2>5. QED  BY <2>1, <2>3, <2>4, AgreeSym, AgreeVia
  <1>4. QED  BY <1>2, <1>3

\* What agreed with a leader's log still does.
LEMMA ContinuesAgree ==
  ASSUME NEW h \in Histories, NEW g \in Histories, Continues(h, g), NEW t \in Nat,
         Led(h, t)
  PROVE  /\ Led(g, t) /\ g.leader[t] = h.leader[t] /\ g.base[t] = h.base[t]
         /\ \A l \in Seq(Entry), k \in Int :
              Agree(l, h.log[t], k) => Agree(l, g.log[t], k)
         /\ \A k \in 0..LastIndex(h.log[t]) : At(g.log[t], k) = At(h.log[t], k)
         /\ LastIndex(h.log[t]) <= LastIndex(g.log[t])
  <1>1. /\ h.log[t] \in Seq(Entry) /\ g.log[t] \in Seq(Entry)
    BY HistoryType
  <1>2. /\ g.leader[t] = h.leader[t] /\ g.base[t] = h.base[t]
        /\ Agree(h.log[t], g.log[t], LastIndex(h.log[t]))
    BY DEF Continues
  <1>3. ASSUME NEW l \in Seq(Entry), NEW k \in Int, Agree(l, h.log[t], k)
        PROVE  Agree(l, g.log[t], k)
    <2>1. k <= LastIndex(h.log[t]) /\ LastIndex(h.log[t]) \in Int
      BY <1>1, <1>3, SMTT(60) DEF Agree, LastIndex
    <2>2. QED  BY <1>1, <1>2, <1>3, <2>1, AgreeVia
  <1>4. \A k \in 0..LastIndex(h.log[t]) : At(g.log[t], k) = At(h.log[t], k)
    BY <1>2 DEF Agree
  <1>5. LastIndex(h.log[t]) <= LastIndex(g.log[t])
    BY <1>1, <1>2, SMTT(60) DEF Agree, LastIndex
  <1>6. QED  BY <1>2, <1>3, <1>4, <1>5 DEF Led

\* A genuine log stays genuine.
LEMMA GenuineStays ==
  ASSUME NEW h \in Histories, NEW g \in Histories, Continues(h, g),
         NEW l \in Seq(Entry), Genuine(h, l)
  PROVE  Genuine(g, l)
  <1>1. ASSUME NEW k \in 1..LastIndex(l)
        PROVE  Led(g, At(l, k).term) /\ Agree(l, g.log[At(l, k).term], k)
    <2>1. k \in 0..LastIndex(l) /\ k \in Int
      BY SMTT(60) DEF LastIndex
    <2>2. At(l, k).term \in Nat
      BY <2>1, EntryTerm
    <2>3. Led(h, At(l, k).term) /\ Agree(l, h.log[At(l, k).term], k)
      BY DEF Genuine
    <2>4. QED  BY <2>1, <2>2, <2>3, ContinuesAgree
  <1>2. QED  BY <1>1 DEF Genuine

\* A leader's own entry stays its own.
LEMMA OwnStays ==
  ASSUME NEW h \in Histories, NEW g \in Histories, Continues(h, g), NEW u, NEW k,
         Own(h, u, k)
  PROVE  Own(g, u, k)
  <1>1. u \in Nat /\ k \in Nat /\ Led(h, u) /\ k <= LastIndex(h.log[u])
        /\ At(h.log[u], k).term = u
    BY DEF Own
  <1>2. h.log[u] \in Seq(Entry) /\ g.log[u] \in Seq(Entry)
    BY <1>1, HistoryType
  <1>3. k \in 0..LastIndex(h.log[u])
    BY <1>1, <1>2, SMTT(60) DEF LastIndex
  <1>4. Led(g, u) /\ At(g.log[u], k) = At(h.log[u], k)
        /\ LastIndex(h.log[u]) <= LastIndex(g.log[u])
    BY <1>1, <1>3, ContinuesAgree
  <1>5. k <= LastIndex(g.log[u])
    BY <1>1, <1>2, <1>4, SMTT(60) DEF LastIndex
  <1>6. QED  BY <1>1, <1>4, <1>5 DEF Own

\* And was, if it was there.
LEMMA OwnWas ==
  ASSUME NEW h \in Histories, NEW g \in Histories, Continues(h, g), NEW u, NEW k,
         Own(g, u, k), Led(h, u), k <= LastIndex(h.log[u])
  PROVE  Own(h, u, k)
  <1>1. u \in Nat /\ k \in Nat /\ At(g.log[u], k).term = u
    BY DEF Own
  <1>2. h.log[u] \in Seq(Entry)
    BY <1>1, HistoryType
  <1>3. k \in 0..LastIndex(h.log[u])
    BY <1>1, <1>2, SMTT(60) DEF LastIndex
  <1>4. At(g.log[u], k) = At(h.log[u], k)
    BY <1>1, <1>3, ContinuesAgree
  <1>5. QED  BY <1>1, <1>4 DEF Own

\* An entry that is blocked stays blocked.
LEMMA BlockedStays ==
  ASSUME StructInv, StructInv', NEW h \in Histories, NEW g \in Histories,
         Frozen(h, g), Rising, NEW u \in Nat, NEW k \in Nat, Blocked(h, u, k)
  PROVE  Blocked(g, u, k)'
  <1>1. PICK Q \in Quorums : \A p \in Q : currentTerm[p] > u /\ h.ack[u][p] < k
    BY DEF Blocked
  <1>2. ASSUME NEW p \in Q
        PROVE  currentTerm'[p] > u /\ g.ack[u][p] < k
    <2>1. p \in Server
      BY DEF Quorums
    <2>2. currentTerm[p] \in Nat /\ currentTerm'[p] \in Nat
          /\ currentTerm'[p] >= currentTerm[p]
      BY <2>1, FieldTypes, FieldTypesPrime DEF Rising
    <2>3. currentTerm[p] > u /\ h.ack[u][p] < k
      BY <1>1
    <2>4. g.ack[u][p] = h.ack[u][p]
      BY <2>1, <2>3 DEF Frozen
    <2>5. QED  BY <2>2, <2>3, <2>4, SMTT(60)
  <1>3. QED  BY <1>2 DEF Blocked, Quorums, Majority

\* What is chosen stays chosen.
LEMMA ChosenStays ==
  ASSUME NEW h \in Histories, NEW g \in Histories, Continues(h, g), NEW u, NEW n,
         Chosen(h, u, n)
  PROVE  Chosen(g, u, n)
  <1>1. PICK Q \in Quorums : \A p \in Q : h.ack[u][p] >= n
    BY DEF Chosen
  <1>2. Own(h, u, n) /\ u \in Nat /\ n \in Nat /\ Led(h, u)
    BY DEF Chosen, Own
  <1>3. ASSUME NEW p \in Q
        PROVE  g.ack[u][p] >= n
    <2>1. p \in Server
      BY DEF Quorums
    <2>2. h.ack[u][p] \in Nat /\ g.ack[u][p] \in Nat
      BY <1>2, <2>1, HistoryType
    <2>3. h.ack[u][p] <= g.ack[u][p] /\ h.ack[u][p] >= n
      BY <1>1, <1>2, <2>1 DEF Continues
    <2>4. QED  BY <1>2, <2>2, <2>3, SMTT(60)
  <1>4. Own(g, u, n)
    BY <1>2, OwnStays
  <1>5. QED  BY <1>3, <1>4 DEF Chosen

\* What is chosen is not blocked.
LEMMA ChosenOpen ==
  ASSUME QuorumsMeet, NEW h \in Histories, NEW u, NEW n, Chosen(h, u, n)
  PROVE  ~Blocked(h, u, n)
  <1> SUFFICES ASSUME Blocked(h, u, n) PROVE FALSE
    OBVIOUS
  <1>1. PICK Q \in Quorums : \A p \in Q : h.ack[u][p] >= n
    BY DEF Chosen
  <1>2. PICK R \in Quorums : \A p \in R : currentTerm[p] > u /\ h.ack[u][p] < n
    BY DEF Blocked
  <1>3. PICK p \in Q : p \in R
    BY DEF QuorumsMeet
  <1>4. h.ack[u][p] >= n /\ h.ack[u][p] < n
    BY <1>1, <1>2, <1>3
  <1>5. h.ack[u][p] \in Nat /\ n \in Nat
    BY HistoryType DEF Chosen, Own, Quorums
  <1>6. QED  BY <1>4, <1>5, SMTT(60)

\* What is committed stays committed.
LEMMA CommittedStaysSo ==
  ASSUME NEW h \in Histories, NEW g \in Histories, Continues(h, g),
         NEW l \in Seq(Entry), NEW k \in Nat, NEW t \in Nat, Committed(h, l, k, t)
  PROVE  Committed(g, l, k, t)
  <1>1. CASE k = 0
    BY <1>1 DEF Committed
  <1>2. CASE k # 0
    <2>1. PICK u, n \in Nat :
            u <= t /\ k <= n /\ Chosen(h, u, n) /\ Agree(l, h.log[u], k)
      BY <1>2 DEF Committed
    <2>2. Led(h, u) /\ k \in Int
      BY <2>1, SMTT(60) DEF Chosen, Own
    <2>3. Agree(l, g.log[u], k) /\ Chosen(g, u, n)
      BY <2>1, <2>2, ContinuesAgree, ChosenStays
    <2>4. QED  BY <2>1, <2>3 DEF Committed
  <1>3. QED  BY <1>1, <1>2
-----------------------------------------------------------------------------
(* What the peers hold.                                                    *)

\* A leader's own entry is not the dummy entry.
LEMMA OwnIndex ==
  ASSUME NEW V, NEW h \in Histories, Elected(V, h), LeaderLogs(h), NEW u, NEW k,
         Own(h, u, k)
  PROVE  u \in Nat /\ u >= 1 /\ k \in Nat /\ k >= 1 /\ Led(h, u)
  <1>1. u \in Nat /\ k \in Nat /\ Led(h, u) /\ At(h.log[u], k).term = u
    BY DEF Own
  <1>2. u >= 1
    BY <1>1 DEF Elected
  <1>3. At(h.log[u], 0) = Dummy
    BY <1>1 DEF LeaderLogs, LeaderLog, Genuine
  <1>4. k # 0
    BY <1>1, <1>2, <1>3, SMTT(60) DEF Dummy
  <1>5. QED  BY <1>1, <1>2, <1>4, SMTT(60)

\* Every log, and every leader's, begins with the dummy entry.
LEMMA GenuineDummy ==
  ASSUME NEW h, NEW l \in Seq(Entry), NEW m \in Seq(Entry), Genuine(h, l), Genuine(h, m)
  PROVE  Agree(l, m, 0)
  <1>1. \A x \in 0..0 : x = 0
    BY SMTT(60)
  <1>2. 0 < Len(l) /\ 0 < Len(m)
    BY SMTT(60) DEF Genuine
  <1>3. QED  BY <1>1, <1>2 DEF Agree, Genuine

\* What a peer took over was there.
LEMMA OwnTaken ==
  ASSUME NEW V, NEW h \in Histories, NEW g \in Histories, Continues(h, g),
         Elected(V, h), LeaderLogs(h), NEW W, Elected(W, g)', LeaderLogs(g),
         NEW p \in Server, AckAt(h, p), NEW u, NEW k, Own(g, u, k), k <= h.ack[u][p]
  PROVE  /\ Own(h, u, k) /\ u <= currentTerm[p] /\ h.ack[u][p] > 0
         /\ u \in Nat /\ k \in Nat /\ k >= 1 /\ Led(h, u)
  <1>1. u \in Nat /\ k \in Nat /\ Led(g, u) /\ At(g.log[u], k).term = u
    BY DEF Own
  <1>2. u >= 1
    BY <1>1 DEF Elected, Led
  <1>3. At(g.log[u], 0) = Dummy
    BY <1>1 DEF LeaderLogs, LeaderLog, Genuine
  <1>4. k >= 1
    BY <1>1, <1>2, <1>3, SMTT(60) DEF Dummy
  <1>5. h.ack[u][p] \in Nat
    BY <1>1, HistoryType
  <1>6. h.ack[u][p] > 0
    BY <1>1, <1>4, <1>5, SMTT(60)
  <1>7. u <= currentTerm[p] /\ Led(h, u) /\ h.ack[u][p] <= LastIndex(h.log[u])
    BY <1>1, <1>6 DEF AckAt
  <1>8. k <= LastIndex(h.log[u])
    <2>1. Len(h.log[u]) \in Nat
      BY <1>1, HistoryType, SMTT(60)
    <2>2. QED  BY <1>1, <1>5, <1>7, <2>1, SMTT(60) DEF LastIndex
  <1>9. QED  BY <1>1, <1>4, <1>6, <1>7, <1>8, OwnWas

\* A peer that takes nothing over, and whose log stays, holds what it held.
LEMMA PeerStays ==
  ASSUME StructInv, StructInv', NEW h, NEW g, Evolves(h, g), NEW V, PeersInv(V, h),
         NEW W, Elected(W, g)', LeaderLogs(g), PeerLogs(g)', NEW p \in Server,
         log'[p] = log[p], \A u \in Nat : g.ack[u][p] = h.ack[u][p]
  PROVE  AckAt(g, p)' /\ KeptAt(g, p)'
  <1>1. /\ h \in Histories /\ g \in Histories /\ Continues(h, g) /\ Frozen(h, g) /\ Rising
        /\ Elected(V, h) /\ LeaderLogs(h) /\ AckAt(h, p) /\ KeptAt(h, p)
    BY DEF Evolves, PeersInv, Holds
  <1>2. /\ log[p] \in Seq(Entry) /\ currentTerm[p] \in Nat /\ currentTerm'[p] \in Nat
        /\ currentTerm'[p] >= currentTerm[p]
    BY <1>1, FieldTypes, FieldTypesPrime DEF Rising
  <1>3. ASSUME NEW u \in Nat
        PROVE  /\ h.ack[u][p] \in Nat /\ g.ack[u][p] = h.ack[u][p]
               /\ h.log[u] \in Seq(Entry) /\ g.log[u] \in Seq(Entry)
    BY <1>1, HistoryType
  <1>4. ASSUME NEW u \in Nat, h.ack[u][p] > 0
        PROVE  u <= currentTerm[p] /\ u <= currentTerm'[p] /\ Led(h, u) /\ Led(g, u)
    <2>1. u <= currentTerm[p] /\ Led(h, u)
      BY <1>1, <1>4 DEF AckAt
    <2>2. u <= currentTerm'[p]
      BY <1>2, <2>1, SMTT(60)
    <2>3. QED  BY <1>1, <2>1, <2>2, ContinuesAgree
  <1>5. ASSUME NEW u \in Nat, Led(g, u)
        PROVE  g.ack[u][p] <= LastIndex(g.log[u])
    <2>1. CASE h.ack[u][p] > 0
      <3>1. h.ack[u][p] <= LastIndex(h.log[u]) /\ LastIndex(h.log[u]) <= LastIndex(g.log[u])
        BY <1>1, <1>4, <2>1, ContinuesAgree DEF AckAt
      <3>2. QED  BY <1>3, <3>1, SMTT(60) DEF LastIndex
    <2>2. CASE ~(h.ack[u][p] > 0)
      <3>1. Len(g.log[u]) >= 1
        BY <1>5 DEF LeaderLogs, LeaderLog, Genuine
      <3>2. QED  BY <1>3, <2>2, <3>1, SMTT(60) DEF LastIndex
    <2>3. QED  BY <2>1, <2>2
  <1>6. ASSUME NEW u \in Nat, Led(g, u), u = currentTerm'[p]
        PROVE  Agree(log'[p], g.log[u], g.ack[u][p])
    <2>1. CASE h.ack[u][p] > 0
      <3>1. u = currentTerm[p] /\ Led(h, u)
        BY <1>2, <1>4, <1>6, <2>1, SMTT(60)
      <3>2. Agree(log[p], h.log[u], h.ack[u][p])
        BY <1>1, <3>1 DEF AckAt
      <3>3. h.ack[u][p] \in Int
        BY <1>3, SMTT(60)
      <3>4. Agree(log[p], g.log[u], h.ack[u][p])
        BY <1>1, <1>2, <3>1, <3>2, <3>3, ContinuesAgree
      <3>5. QED  BY <1>3, <3>4
    <2>2. CASE ~(h.ack[u][p] > 0)
      <3>1. g.ack[u][p] = 0
        BY <1>3, <2>2, SMTT(60)
      <3>2. Genuine(g, log'[p]) /\ Genuine(g, g.log[u])
        BY <1>6 DEF PeerLogs, LeaderLogs, LeaderLog
      <3>3. QED  BY <1>2, <1>3, <3>1, <3>2, GenuineDummy
    <2>3. QED  BY <2>1, <2>2
  <1>7. AckAt(g, p)'
    BY <1>3, <1>4, <1>5, <1>6 DEF AckAt, Led
  <1>8. ASSUME NEW u \in Nat, NEW k \in Nat, u < currentTerm'[p], Own(g, u, k),
               k <= g.ack[u][p]
        PROVE  Agree(log'[p], g.log[u], k) \/ Blocked(g, u, k)'
    <2>1. Own(h, u, k) /\ u <= currentTerm[p] /\ Led(h, u) /\ k \in Int
          /\ k <= h.ack[u][p]
      <3>1. k <= h.ack[u][p] /\ k \in Int
        BY <1>3, <1>8, SMTT(60)
      <3>2. QED  BY <1>1, <1>8, <3>1, OwnTaken
    <2>2. CASE u < currentTerm[p]
      <3>1. Agree(log[p], h.log[u], k) \/ Blocked(h, u, k)
        BY <1>1, <2>1, <2>2 DEF KeptAt
      <3>2. Agree(log[p], h.log[u], k) => Agree(log[p], g.log[u], k)
        BY <1>1, <1>2, <2>1, ContinuesAgree
      <3>3. Blocked(h, u, k) => Blocked(g, u, k)'
        BY <1>1, BlockedStays
      <3>4. QED  BY <3>1, <3>2, <3>3
    <2>3. CASE u = currentTerm[p]
      <3>1. Agree(log[p], h.log[u], h.ack[u][p])
        BY <1>1, <2>1, <2>3 DEF AckAt
      <3>2. h.ack[u][p] \in Int
        BY <1>3, SMTT(60)
      <3>3. Agree(log[p], h.log[u], k)
        BY <1>2, <1>3, <2>1, <3>1, <3>2, AgreeDown
      <3>4. QED  BY <1>1, <1>2, <2>1, <3>3, ContinuesAgree
    <2>4. QED  BY <1>2, <2>1, <2>2, <2>3, SMTT(60)
  <1>9. KeptAt(g, p)'
    BY <1>8 DEF KeptAt, Own, Led
  <1>10. QED  BY <1>7, <1>9
-----------------------------------------------------------------------------
(* Steps in which nobody is elected and no leader's log changes.           *)

\* What the leaders did is what it was.
LEMMA SameHistory ==
  ASSUME NEW h, NEW g, SameLeaders(h, g)
  PROVE  /\ \A t : Led(g, t) <=> Led(h, t)
         /\ \A u, k : Own(g, u, k) <=> Own(h, u, k)
         /\ \A l : Genuine(g, l) <=> Genuine(h, l)
         /\ LeaderLogs(h) => LeaderLogs(g)
  BY DEF SameLeaders, Led, Own, Genuine, LeaderLogs, LeaderLog

\* A history whose leaders stay is continued by one with more taken over.
LEMMA SameContinues ==
  ASSUME NEW h \in Histories, NEW g \in Histories, SameLeaders(h, g), LeaderLogs(h),
         \A t \in Nat, p \in Server : h.ack[t][p] <= g.ack[t][p]
  PROVE  Continues(h, g)
  <1>1. ASSUME NEW t \in Nat, Led(h, t)
        PROVE  Agree(h.log[t], h.log[t], LastIndex(h.log[t]))
    <2>1. h.log[t] \in Seq(Entry)
      BY HistoryType
    <2>2. LastIndex(h.log[t]) < Len(h.log[t])
      BY <2>1, SMTT(60) DEF LastIndex
    <2>3. QED  BY <2>2, AgreeRefl
  <1>2. QED  BY <1>1 DEF Continues, SameLeaders

\* The elected stay elected.
LEMMA ElectedKept ==
  ASSUME StructInv, StructInv', NEW h \in Histories, NEW g \in Histories,
         SameLeaders(h, g), Rising, NEW V, NEW U, VotesStay(V, U), OldLeaders,
         OldCandidates, Elected(V, h)
  PROVE  Elected(U, g)'
  <1>1. ASSUME NEW t \in Nat, Led(g, t)
        PROVE  /\ t >= 1 /\ t <= currentTerm'[g.leader[t]]
               /\ \E Q \in Quorums : \A p \in Q : U[t][p] = g.leader[t]
    <2>1. g.leader[t] = h.leader[t] /\ h.leader[t] # Nil
      BY <1>1 DEF SameLeaders, Led
    <2>2. PICK Q \in Quorums : \A p \in Q : V[t][p] = h.leader[t]
      BY <2>1 DEF Elected, Led
    <2>3. t >= 1 /\ t <= currentTerm[h.leader[t]]
      BY <2>1 DEF Elected, Led
    <2>4. h.leader[t] \in Server
      BY <2>1, HistoryType
    <2>5. /\ currentTerm[h.leader[t]] \in Nat /\ currentTerm'[h.leader[t]] \in Nat
          /\ currentTerm'[h.leader[t]] >= currentTerm[h.leader[t]]
      BY <2>4, FieldTypes, FieldTypesPrime DEF Rising
    <2>6. t <= currentTerm'[h.leader[t]]
      BY <2>3, <2>5, SMTT(60)
    <2>7. \A p \in Q : U[t][p] = h.leader[t]
      BY <2>1, <2>2 DEF VotesStay, Quorums
    <2>8. QED  BY <2>1, <2>3, <2>6, <2>7
  <1>2. ASSUME NEW i \in Server, state'[i] = "Leader"
        PROVE  /\ g.leader[currentTerm'[i]] = i
               /\ log'[i] = g.log[currentTerm'[i]]
    BY <1>2 DEF OldLeaders, Elected, SameLeaders
  <1>3. ASSUME NEW i \in Server, state'[i] = "Candidate"
        PROVE  g.leader[currentTerm'[i]] # i
    <2>1. CASE state[i] = "Candidate" /\ currentTerm'[i] = currentTerm[i]
      BY <2>1 DEF Elected, SameLeaders
    <2>2. CASE currentTerm'[i] > currentTerm[i]
      <3>1. currentTerm[i] \in Nat /\ currentTerm'[i] \in Nat
        BY FieldTypes, FieldTypesPrime
      <3>2. h.leader[currentTerm'[i]] = i => currentTerm'[i] <= currentTerm[i]
        BY <3>1, NilAssumption DEF Elected, Led
      <3>3. QED  BY <2>2, <3>1, <3>2, SMTT(60) DEF SameLeaders
    <2>3. QED  BY <1>3, <2>1, <2>2 DEF OldCandidates
  <1>4. QED  BY <1>1, <1>2, <1>3 DEF Elected, Led, Quorums, Majority

\* What leaders were elected with stays complete.
LEMMA CompleteKept ==
  ASSUME StructInv, StructInv', NEW h, NEW g, Evolves(h, g), SameLeaders(h, g), Complete(h)
  PROVE  Complete(g)'
  <1>1. ASSUME NEW t \in Nat, NEW u \in Nat, NEW k \in Nat, u < t, Led(g, t), Own(g, u, k)
        PROVE  Agree(g.base[t], g.log[u], k) \/ Blocked(g, u, k)'
    <2>1. Led(h, t) /\ Own(h, u, k)
      BY <1>1, SameHistory
    <2>2. Agree(h.base[t], h.log[u], k) \/ Blocked(h, u, k)
      BY <1>1, <2>1 DEF Complete
    <2>3. Blocked(h, u, k) => Blocked(g, u, k)'
      BY BlockedStays DEF Evolves
    <2>4. QED  BY <2>2, <2>3 DEF SameLeaders
  <1>2. QED  BY <1>1 DEF Complete, Led, Own

\* The votes given are still justified.
LEMMA ConvincedKept ==
  ASSUME StructInv, StructInv', NEW h, NEW g, Evolves(h, g), NEW V, Recorded(V),
         PeersInv(V, h), NEW U, NoVotes(V, U), OldRuns(h, g), Elected(U, g)',
         LeaderLogs(g)
  PROVE  Convinced(U, g)'
  <1>1. /\ h \in Histories /\ g \in Histories /\ Continues(h, g) /\ Frozen(h, g) /\ Rising
        /\ Elected(V, h) /\ LeaderLogs(h) /\ Holds(h) /\ Convinced(V, h)
    BY DEF Evolves, PeersInv
  <1>2. ASSUME NEW i \in Server, NEW p \in Server, NEW t \in Nat, NEW u \in Nat,
               NEW k \in Nat, Runs(g, i, t)', U[t][p] = i, u < t, Own(g, u, k),
               k <= g.ack[u][p]
        PROVE  Beyond(log'[i], u, k) \/ Blocked(g, u, k)'
    <2>1. Runs(h, i, t) /\ log'[i] = log[i] /\ V[t][p] = i
      <3>1. Runs(h, i, t) /\ log'[i] = log[i]
        BY <1>2 DEF OldRuns
      <3>2. V[t][p] = i
        BY <1>2 DEF NoVotes
      <3>3. QED  BY <3>1, <3>2
    <2>2. u < currentTerm[p]
      <3>1. i # Nil
        BY NilAssumption
      <3>2. ~(t > currentTerm[p]) /\ currentTerm[p] \in Nat
        BY <2>1, <3>1, FieldTypes DEF Recorded
      <3>3. QED  BY <1>2, <3>2, SMTT(60)
    <2>3. g.ack[u][p] = h.ack[u][p]
      <3>1. currentTerm[p] \in Nat
        BY FieldTypes
      <3>2. currentTerm[p] > u
        BY <2>2, <3>1, SMTT(60)
      <3>3. QED  BY <1>1, <3>2 DEF Frozen
    <2>4. AckAt(h, p) /\ k <= h.ack[u][p]
      BY <1>1, <1>2, <2>3 DEF Holds
    <2>5. Own(h, u, k)
      BY <1>1, <1>2, <2>4, OwnTaken
    <2>6. Beyond(log[i], u, k) \/ Blocked(h, u, k)
      BY <1>1, <1>2, <2>1, <2>4, <2>5 DEF Convinced
    <2>7. Blocked(h, u, k) => Blocked(g, u, k)'
      BY <1>1, BlockedStays
    <2>8. log'[i] = log[i]
      BY <2>1
    <2>9. QED  BY <2>6, <2>7, <2>8
  <1>3. ASSUME NEW i \in Server, NEW u \in Nat, NEW k \in Nat
        PROVE  /\ Own(g, u, k)' <=> Own(g, u, k)
               /\ Beyond(log[i], u, k)' <=> Beyond(log'[i], u, k)
    BY DEF Own, Led, Beyond, LastTerm, LastIndex, At
  <1>4. QED  BY <1>2, <1>3 DEF Convinced

\* Where nobody votes, nobody votes for a peer that has not reached the term.
LEMMA NoVotesKnown ==
  ASSUME NEW V, NEW U, NoVotes(V, U)
  PROVE  KnownVotes(V, U)
  BY DEF NoVotes, KnownVotes

\* No vote comes from nowhere.
LEMMA KnownKept ==
  ASSUME StructInv, StructInv', NEW V, Known(V), Rising, NEW U, KnownVotes(V, U)
  PROVE  Known(U)'
  <1>1. ASSUME NEW t \in Nat, NEW p \in Server, NEW i \in Server, U[t][p] = i
        PROVE  t <= currentTerm'[i]
    <2>1. currentTerm[i] \in Nat /\ currentTerm'[i] \in Nat /\ currentTerm'[i] >= currentTerm[i]
      BY FieldTypes, FieldTypesPrime DEF Rising
    <2>2. V[t][p] = i => t <= currentTerm[i]
      BY DEF Known
    <2>3. V[t][p] = i \/ t <= currentTerm'[i]
      BY <1>1 DEF KnownVotes
    <2>4. QED  BY <2>1, <2>2, <2>3, SMTT(60)
  <1>2. QED  BY <1>1 DEF Known

\* What a peer took over makes its log at least as up to date.
LEMMA HoldsBeyond ==
  ASSUME StructInv, LogTermsOrdered, NEW V, NEW h, PeersInv(V, h), NEW p \in Server,
         NEW u, NEW k, Own(h, u, k), k <= h.ack[u][p]
  PROVE  Beyond(log[p], u, k) \/ Blocked(h, u, k)
  <1>1. /\ h \in Histories /\ Elected(V, h) /\ LeaderLogs(h) /\ AckAt(h, p) /\ KeptAt(h, p)
    BY DEF PeersInv, Holds
  <1>2. /\ u \in Nat /\ u >= 1 /\ k \in Nat /\ k >= 1 /\ Led(h, u)
        /\ At(h.log[u], k).term = u
    BY <1>1, OwnIndex DEF Own
  <1>3. /\ h.ack[u][p] \in Nat /\ h.log[u] \in Seq(Entry)
        /\ log[p] \in Seq(Entry) /\ currentTerm[p] \in Nat
    BY <1>1, <1>2, HistoryType, FieldTypes
  <1>4. h.ack[u][p] > 0 /\ k \in Int /\ h.ack[u][p] \in Int
    BY <1>2, <1>3, SMTT(60)
  <1>5. u <= currentTerm[p]
    BY <1>1, <1>2, <1>4 DEF AckAt
  <1>6. Agree(log[p], h.log[u], k) \/ Blocked(h, u, k)
    <2>1. CASE u < currentTerm[p]
      BY <1>1, <1>2, <2>1 DEF KeptAt
    <2>2. CASE u = currentTerm[p]
      <3>1. Agree(log[p], h.log[u], h.ack[u][p])
        BY <1>1, <1>2, <2>2 DEF AckAt
      <3>2. QED  BY <1>3, <1>4, <3>1, AgreeDown
    <2>3. QED  BY <1>2, <1>3, <1>5, <2>1, <2>2, SMTT(60)
  <1>7. ASSUME Agree(log[p], h.log[u], k)
        PROVE  Beyond(log[p], u, k)
    <2>1. k < Len(log[p]) /\ At(log[p], k).term = u
      <3>1. k \in 0..k
        BY <1>2, SMTT(60)
      <3>2. QED  BY <1>2, <1>7, <3>1 DEF Agree
    <2>2. /\ LastIndex(log[p]) \in 0..LastIndex(log[p])
          /\ k \in 0..LastIndex(log[p]) /\ LastIndex(log[p]) >= k
      BY <1>2, <1>3, <2>1, SMTT(60) DEF LastIndex
    <2>3. u <= LastTerm(log[p])
      BY <2>1, <2>2 DEF LogTermsOrdered, LastTerm
    <2>4. LastTerm(log[p]) \in Nat
      BY <1>3, <2>2, EntryTerm DEF LastTerm
    <2>5. QED  BY <1>2, <2>2, <2>3, <2>4, SMTT(60) DEF Beyond
  <1>8. QED  BY <1>6, <1>7

\* A log that is at least as up to date is beyond what the other is beyond.
LEMMA BeyondAtLeast ==
  ASSUME NEW l \in Seq(Entry), NEW m \in Seq(Entry), Len(l) >= 1, Len(m) >= 1,
         AtLeast(l, m), NEW u \in Nat, NEW k \in Nat, Beyond(m, u, k)
  PROVE  Beyond(l, u, k)
  <1>1. LastIndex(l) \in 0..LastIndex(l) /\ LastIndex(m) \in 0..LastIndex(m)
    BY SMTT(60) DEF LastIndex
  <1>2. /\ LastTerm(l) \in Nat /\ LastTerm(m) \in Nat
        /\ LastIndex(l) \in Nat /\ LastIndex(m) \in Nat
    BY <1>1, EntryTerm DEF LastTerm
  <1>3. QED  BY <1>2, SMTT(60) DEF AtLeast, Beyond

\* Steps that change no log, and in which votes are given as they should.
LEMMA PeersQuiet ==
  ASSUME StructInv, StructInv', LogTermsOrdered, NEW V, NEW h, PeersInv(V, h),
         Rising, NEW U, VotesStay(V, U), FairVotes(V, U, h),
         log' = log, OldLeaders, OldCandidates
  PROVE  PeersInv(U, h)'
  <1>1. /\ h \in Histories /\ Elected(V, h) /\ LeaderLogs(h) /\ PeerLogs(h) /\ Known(V)
        /\ Complete(h) /\ Convinced(V, h)
    BY DEF PeersInv
  <1>2. SameLeaders(h, h)
    BY DEF SameLeaders
  <1>3. Evolves(h, h)
    <2>1. \A t \in Nat, p \in Server : h.ack[t][p] <= h.ack[t][p]
      <3>1. \A t \in Nat, p \in Server : h.ack[t][p] \in Nat
        BY <1>1, HistoryType
      <3>2. QED  BY <3>1, SMTT(60)
    <2>2. Continues(h, h)
      BY <1>1, <1>2, <2>1, SameContinues
    <2>3. QED  BY <1>1, <2>2 DEF Evolves, Frozen
  <1>4. Elected(U, h)'
    BY <1>1, <1>2, ElectedKept
  <1>5. LeaderLogs(h)'
    BY <1>1 DEF LeaderLogs, LeaderLog, Genuine, Led
  <1>6. PeerLogs(h)'
    BY <1>1 DEF PeerLogs, Genuine, Led, LastIndex, At, Agree
  <1>7. Holds(h)'
    <2>1. ASSUME NEW p \in Server
          PROVE  AckAt(h, p)' /\ KeptAt(h, p)'
      BY <1>1, <1>3, <1>4, <1>6, PeerStays
    <2>2. QED  BY <2>1 DEF Holds
  <1>8. Complete(h)'
    BY <1>1, <1>2, <1>3, CompleteKept
  <1>9. Known(U)'
    <2>1. KnownVotes(V, U)
      BY DEF FairVotes, KnownVotes
    <2>2. QED  BY <1>1, <2>1, KnownKept
  <1>10. Convinced(U, h)'
    <2>1. ASSUME NEW i \in Server, NEW p \in Server, NEW t \in Nat, NEW u \in Nat,
                 NEW k \in Nat, Runs(h, i, t)', U[t][p] = i, u < t, Own(h, u, k)',
                 k <= h.ack[u][p]
          PROVE  Beyond(log[i], u, k)' \/ Blocked(h, u, k)'
      <3>5. Own(h, u, k)
        BY <2>1 DEF Own, Led
      <3>6. Beyond(log[i], u, k)' <=> Beyond(log[i], u, k)
        BY DEF Beyond, LastTerm, LastIndex
      <3>1. Blocked(h, u, k) => Blocked(h, u, k)'
        BY <1>3, BlockedStays DEF Evolves
      <3>2. CASE V[t][p] = i /\ Runs(h, i, t)
        <4>1. Beyond(log[i], u, k) \/ Blocked(h, u, k)
          BY <1>1, <2>1, <3>2, <3>5 DEF Convinced
        <4>2. QED  BY <3>1, <3>6, <4>1
      <3>3. CASE AtLeast(log[i], log[p])
        <4>1. Beyond(log[p], u, k) \/ Blocked(h, u, k)
          BY <2>1, <3>5, HoldsBeyond
        <4>2. /\ log[i] \in Seq(Entry) /\ log[p] \in Seq(Entry)
              /\ Len(log[i]) >= 1 /\ Len(log[p]) >= 1
          BY LogAnchored DEF Anchored
        <4>3. Beyond(log[p], u, k) => Beyond(log[i], u, k)
          BY <3>3, <4>2, BeyondAtLeast
        <4>4. QED  BY <3>1, <3>6, <4>1, <4>3
      <3>4. QED  BY <2>1, <3>2, <3>3 DEF FairVotes
    <2>2. QED  BY <2>1 DEF Convinced
  <1>11. QED  BY <1>1, <1>4, <1>5, <1>6, <1>7, <1>8, <1>9, <1>10 DEF PeersInv
-----------------------------------------------------------------------------
(* Votes.                                                                  *)

\* In a calm step nobody breaks a promise, and nobody votes.
LEMMA CalmVotes ==
  ASSUME StructInv, StructInv', NEW V, Recorded(V), Calm, NEW U, U = Recall(V)
  PROVE  /\ \A p \in Server : Promise(p)
         /\ NoVotes(V, U) /\ OldCandidates
  <1>1. \A p \in Server : Promise(p)
    BY DEF Calm, Promise
  <1>2. ASSUME NEW t \in Nat, NEW p \in Server, NEW i \in Server, U[t][p] = i
        PROVE  V[t][p] = i
    <2>1. U[t][p] = IF t = currentTerm'[p] THEN votedFor'[p] ELSE V[t][p]
      BY DEF Recall
    <2>2. V[currentTerm[p]][p] = votedFor[p] /\ i # Nil
      BY NilAssumption DEF Recorded
    <2>3. QED  BY <1>2, <2>1, <2>2 DEF Calm
  <1>3. OldCandidates
    BY DEF Calm, Settled, OldCandidates
  <1>4. QED  BY <1>1, <1>2, <1>3 DEF NoVotes

\* In a calm step that changes no log, leaders and logs stay as they are.
LEMMA PeersCalm ==
  ASSUME StructInv, StructInv', LogTermsOrdered, NEW V, NEW h, Recorded(V),
         PeersInv(V, h), Calm, log' = log, NEW U, U = Recall(V)
  PROVE  PeersInv(U, h)'
  <1>1. /\ VotesStay(V, U) /\ Rising /\ NoVotes(V, U) /\ OldCandidates
    BY CalmVotes, VotesRecalled
  <1>2. OldLeaders
    BY DEF Calm, Settled, OldLeaders
  <1>3. FairVotes(V, U, h)
    <2>1. ASSUME NEW i \in Server, NEW t \in Nat, Runs(h, i, t)'
          PROVE  Runs(h, i, t)
      BY <2>1 DEF Calm, Settled, Runs, Led
    <2>2. QED  BY <1>1, <2>1 DEF FairVotes, NoVotes
  <1>4. QED  BY <1>1, <1>2, <1>3, PeersQuiet

\* A peer that goes on as before is no new leader and no new candidate.
LEMMA SettledRuns ==
  ASSUME StructInv, StructInv', \A i \in Server : Settled(i), NEW h
  PROVE  /\ OldCandidates
         /\ log' = log => OldLeaders
         /\ \A i \in Server, t \in Nat : Runs(h, i, t)' => Runs(h, i, t)
  BY DEF Settled, OldCandidates, OldLeaders, Runs, Led

\* becomeCandidate: the candidate votes for itself.
LEMMA PeersCandidate ==
  ASSUME StructInv, StructInv', LogTermsOrdered, NEW V, NEW h, Recorded(V),
         PeersInv(V, h), \A p \in Server : Promise(p), NEW U, U = Recall(V),
         NEW i \in Server, becomeCandidate(i)
  PROVE  PeersInv(U, h)'
  <1>1. VotesStay(V, U) /\ Rising
    BY VotesRecalled
  <1>2. /\ state' = [state EXCEPT ![i] = "Candidate"]
        /\ currentTerm' = [currentTerm EXCEPT ![i] = @ + 1]
        /\ votedFor' = [votedFor EXCEPT ![i] = i]
        /\ log' = log
    BY DEF becomeCandidate
  <1>3. /\ currentTerm \in [Server -> Nat] /\ state \in [Server -> {"Follower", "Candidate", "Leader"}]
        /\ votedFor \in [Server -> Server \cup {Nil}]
    BY FieldTypes DEF StructInv, TypeOK
  <1>4. currentTerm'[i] = currentTerm[i] + 1 /\ currentTerm'[i] > currentTerm[i]
        /\ currentTerm[i] \in Nat /\ currentTerm'[i] \in Nat
    BY <1>2, <1>3, SMTT(60)
  <1>5. \A p \in Server : p # i =>
          /\ currentTerm'[p] = currentTerm[p] /\ state'[p] = state[p]
          /\ votedFor'[p] = votedFor[p]
    BY <1>2, <1>3
  <1>6. OldLeaders /\ OldCandidates
    <2>1. state'[i] = "Candidate"
      BY <1>2, <1>3
    <2>2. QED  BY <1>2, <1>4, <1>5, <2>1 DEF OldLeaders, OldCandidates
  <1>7. ASSUME NEW t \in Nat, NEW p \in Server, NEW j \in Server, U[t][p] = j
        PROVE  \/ V[t][p] = j /\ (Runs(h, j, t)' => Runs(h, j, t))
               \/ t <= currentTerm'[j] /\ (Runs(h, j, t)' => AtLeast(log[j], log[p]))
    <2>1. U[t][p] = IF t = currentTerm'[p] THEN votedFor'[p] ELSE V[t][p]
      BY DEF Recall
    <2>2. CASE p = i /\ t = currentTerm'[i]
      <3>1. j = i
        BY <1>2, <1>3, <1>7, <2>1, <2>2
      <3>2. t <= currentTerm'[j]
        BY <2>2, <3>1, SMTT(60)
      <3>3. Len(log[i]) \in Nat
        BY FieldTypes, SMTT(60)
      <3>4. AtLeast(log[j], log[p])
        BY <2>2, <3>1, <3>3, SMTT(60) DEF AtLeast, LastIndex
      <3>5. QED  BY <3>2, <3>4
    <2>3. CASE ~(p = i /\ t = currentTerm'[i])
      <3>1. V[t][p] = j
        <4>1. CASE t = currentTerm'[p]
          <5>1. p # i
            BY <2>3, <4>1
          <5>2. currentTerm'[p] = currentTerm[p] /\ votedFor'[p] = votedFor[p]
            BY <1>5, <5>1
          <5>3. V[currentTerm[p]][p] = votedFor[p]
            BY DEF Recorded
          <5>4. V[t][p] = votedFor'[p]
            BY <4>1, <5>2, <5>3
          <5>5. QED  BY <1>7, <2>1, <4>1, <5>4
        <4>2. CASE t # currentTerm'[p]
          BY <1>7, <2>1, <4>2
        <4>3. QED  BY <4>1, <4>2
      <3>2. CASE j = i
        <4>1. t <= currentTerm[i]
          BY <3>1, <3>2 DEF PeersInv, Known
        <4>2. currentTerm'[i] # t
          BY <1>4, <4>1, SMTT(60)
        <4>3. QED  BY <3>1, <3>2, <4>2 DEF Runs
      <3>3. CASE j # i
        BY <1>5, <3>1, <3>3 DEF Runs, Led
      <3>4. QED  BY <3>2, <3>3
    <2>4. QED  BY <2>2, <2>3
  <1>8. FairVotes(V, U, h)
    BY <1>7 DEF FairVotes
  <1>9. QED  BY <1>1, <1>2, <1>6, <1>8, PeersQuiet

\* RequestVote: the log of whom a peer votes for is at least as up to date.
LEMMA PeersVote ==
  ASSUME StructInv, StructInv', LogTermsOrdered, NEW V, NEW h, Recorded(V),
         PeersInv(V, h), \A p \in Server : Promise(p), NEW U, U = Recall(V),
         NEW r \in CallsIn(requests), r.rpc = "RequestVote", Asked(h, r),
         DecideVote(r), log' = log
  PROVE  PeersInv(U, h)' /\ \A i \in Server : Settled(i)
  <1>1. VotesStay(V, U) /\ Rising
    BY VotesRecalled
  <1> DEFINE d == r.dst
  <1>2. /\ r.term >= currentTerm[d]
        /\ currentTerm' = [currentTerm EXCEPT ![d] = r.term]
        /\ state' = [state EXCEPT
             ![d] = IF r.term > currentTerm[d] THEN "Follower" ELSE @]
        /\ votedFor' = [votedFor EXCEPT
             ![d] = IF GrantVote(d, r) THEN r.candidateId
                    ELSE IF r.term > currentTerm[d] THEN Nil ELSE @]
    BY DEF DecideVote
  <1>3. /\ currentTerm \in [Server -> Nat] /\ state \in [Server -> {"Follower", "Candidate", "Leader"}]
        /\ votedFor \in [Server -> Server \cup {Nil}]
        /\ d \in Server /\ r.term \in Nat
    BY FieldTypes, RequestType DEF StructInv, TypeOK
  <1> HIDE DEF d
  <1>4. \A p \in Server : p # d =>
          /\ currentTerm'[p] = currentTerm[p] /\ state'[p] = state[p]
          /\ votedFor'[p] = votedFor[p]
    BY <1>2, <1>3
  <1>5. /\ currentTerm'[d] = r.term /\ currentTerm[d] \in Nat
        /\ r.term > currentTerm[d] => state'[d] = "Follower"
        /\ ~(r.term > currentTerm[d]) => state'[d] = state[d]
        /\ GrantVote(d, r) => votedFor'[d] = r.candidateId
        /\ ~GrantVote(d, r) /\ r.term > currentTerm[d] => votedFor'[d] = Nil
        /\ ~GrantVote(d, r) /\ ~(r.term > currentTerm[d]) => votedFor'[d] = votedFor[d]
    BY <1>2, <1>3
  <1>6. ~(r.term > currentTerm[d]) => currentTerm'[d] = currentTerm[d]
    BY <1>2, <1>3, <1>5, SMTT(60)
  <1>7. \A i \in Server : Settled(i)
    BY <1>4, <1>5, <1>6 DEF Settled
  <1>8. /\ OldLeaders /\ OldCandidates
        /\ \A i \in Server, t \in Nat : Runs(h, i, t)' => Runs(h, i, t)
    BY <1>7, SettledRuns
  <1>9. ASSUME NEW t \in Nat, NEW p \in Server, NEW j \in Server, U[t][p] = j
        PROVE  \/ V[t][p] = j /\ (Runs(h, j, t)' => Runs(h, j, t))
               \/ t <= currentTerm'[j] /\ (Runs(h, j, t)' => AtLeast(log[j], log[p]))
    <2>1. U[t][p] = IF t = currentTerm'[p] THEN votedFor'[p] ELSE V[t][p]
      BY DEF Recall
    <2>2. CASE p = d /\ t = r.term /\ GrantVote(d, r)
      <3>1. j = r.candidateId
        BY <1>5, <1>9, <2>1, <2>2
      <3>2. t <= currentTerm'[j]
        <4>1. t <= currentTerm[j] /\ currentTerm[j] \in Nat /\ currentTerm'[j] \in Nat
              /\ currentTerm'[j] >= currentTerm[j]
          BY <1>1, <1>3, <2>2, <3>1, FieldTypesPrime DEF Asked, Rising
        <4>2. QED  BY <4>1, SMTT(60)
      <3>3. ASSUME Runs(h, j, t)'
            PROVE  AtLeast(log[j], log[p])
        <4>1. /\ r.lastLogIndex = LastIndex(log[j]) /\ r.lastLogTerm = LastTerm(log[j])
          BY <1>8, <2>2, <3>1, <3>3 DEF Asked
        <4>2. UpToDate(r, log[p])
          BY <2>2 DEF GrantVote
        <4>3. QED  BY <4>1, <4>2 DEF UpToDate, AtLeast, LastTerm
      <3>4. QED  BY <3>2, <3>3
    <2>3. CASE ~(p = d /\ t = r.term /\ GrantVote(d, r))
      <3>1. V[t][p] = j
        <4>1. V[currentTerm[p]][p] = votedFor[p] /\ j # Nil
          BY NilAssumption DEF Recorded
        <4>2. QED  BY <1>4, <1>5, <1>6, <1>9, <2>1, <2>3, <4>1
      <3>2. QED  BY <1>8, <3>1
    <2>4. QED  BY <2>2, <2>3
  <1>10. FairVotes(V, U, h)
    BY <1>9 DEF FairVotes
  <1>11. PeersInv(U, h)'
    BY <1>1, <1>8, <1>10, PeersQuiet
  <1>12. QED  BY <1>7, <1>11
-----------------------------------------------------------------------------
(* AppendEntries.                                                          *)

\* What agrees with the log a leader was elected with agrees with its log.
LEMMA BaseLog ==
  ASSUME NEW h \in Histories, LeaderLogs(h), NEW t \in Nat, Led(h, t),
         NEW m \in Seq(Entry), NEW k \in Nat, Agree(h.base[t], m, k)
  PROVE  Agree(h.log[t], m, k) /\ k <= LastIndex(h.base[t])
  <1>1. h.base[t] \in Seq(Entry) /\ h.log[t] \in Seq(Entry)
    BY HistoryType
  <1>2. k <= LastIndex(h.base[t]) /\ LastIndex(h.base[t]) \in Int /\ k \in Int /\ k <= k
    BY <1>1, SMTT(60) DEF Agree, LastIndex
  <1>3. Agree(h.base[t], h.log[t], LastIndex(h.base[t]))
    BY DEF LeaderLogs, LeaderLog
  <1>4. Agree(h.log[t], h.base[t], k)
    BY <1>1, <1>2, <1>3, AgreeDown, AgreeSym
  <1>5. QED  BY <1>1, <1>2, <1>4, AgreeVia

\* What a peer took over before, and is not blocked, is in the log of a leader
\* that it has not outrun.
LEMMA KeptOrBase ==
  ASSUME StructInv, NEW V, NEW h, PeersInv(V, h), NEW p \in Server,
         NEW t \in Nat, Led(h, t), t >= currentTerm[p], NEW u, NEW k, Own(h, u, k),
         u < t, k <= h.ack[u][p]
  PROVE  \/ Blocked(h, u, k)
         \/ /\ Agree(log[p], h.log[u], k) /\ Agree(h.log[t], h.log[u], k)
            /\ Agree(log[p], h.log[t], k) /\ k <= LastIndex(h.base[t])
  <1>1. /\ h \in Histories /\ Elected(V, h) /\ LeaderLogs(h) /\ AckAt(h, p) /\ KeptAt(h, p)
        /\ Complete(h)
    BY DEF PeersInv, Holds
  <1>2. u \in Nat /\ u >= 1 /\ k \in Nat /\ k >= 1 /\ Led(h, u)
    BY <1>1, OwnIndex
  <1>3. /\ h.ack[u][p] \in Nat /\ h.log[u] \in Seq(Entry) /\ h.log[t] \in Seq(Entry)
        /\ log[p] \in Seq(Entry) /\ currentTerm[p] \in Nat
    BY <1>1, <1>2, HistoryType, FieldTypes
  <1>4. h.ack[u][p] > 0 /\ k \in Int /\ h.ack[u][p] \in Int /\ k <= k
    BY <1>2, <1>3, SMTT(60)
  <1>5. u <= currentTerm[p]
    BY <1>1, <1>2, <1>4 DEF AckAt
  <1>6. Agree(log[p], h.log[u], k) \/ Blocked(h, u, k)
    <2>1. CASE u < currentTerm[p]
      BY <1>1, <1>2, <2>1 DEF KeptAt
    <2>2. CASE u = currentTerm[p]
      <3>1. Agree(log[p], h.log[u], h.ack[u][p])
        BY <1>1, <1>2, <2>2 DEF AckAt
      <3>2. QED  BY <1>3, <1>4, <3>1, AgreeDown
    <2>3. QED  BY <1>2, <1>3, <1>5, <2>1, <2>2, SMTT(60)
  <1>7. Agree(h.base[t], h.log[u], k) \/ Blocked(h, u, k)
    BY <1>1, <1>2 DEF Complete
  <1>8. ASSUME Agree(log[p], h.log[u], k), Agree(h.base[t], h.log[u], k)
        PROVE  /\ Agree(h.log[t], h.log[u], k) /\ Agree(log[p], h.log[t], k)
               /\ k <= LastIndex(h.base[t])
    <2>1. Agree(h.log[t], h.log[u], k) /\ k <= LastIndex(h.base[t])
      BY <1>1, <1>2, <1>3, <1>8, BaseLog
    <2>2. Agree(h.log[u], h.log[t], k)
      BY <2>1, AgreeSym
    <2>3. QED  BY <1>3, <1>4, <1>8, <2>1, <2>2, AgreeVia
  <1>9. QED  BY <1>6, <1>7, <1>8

\* One peer's log changes, and it may take something over.
LEMMA PeersEntries ==
  ASSUME StructInv, StructInv', NEW V, NEW h, Recorded(V), PeersInv(V, h), Calm,
         NEW U, U = Recall(V), NEW g, Evolves(h, g), SameLeaders(h, g),
         NEW p \in Server,
         OnlyAt(h, g, p), NotElected(g, p), Genuine(g, log'[p]), AckAt(g, p)', KeptAt(g, p)'
  PROVE  PeersInv(U, g)'
  <1>1. /\ h \in Histories /\ Elected(V, h) /\ LeaderLogs(h) /\ PeerLogs(h) /\ Known(V)
        /\ Complete(h) /\ Rising /\ g \in Histories
    BY DEF PeersInv, Evolves
  <1>2. /\ VotesStay(V, U) /\ NoVotes(V, U) /\ OldCandidates
    BY CalmVotes, VotesRecalled
  <1>3. OldLeaders
    BY DEF Calm, Settled, OldLeaders, OnlyAt, NotElected
  <1>4. Elected(U, g)'
    BY <1>1, <1>2, <1>3, ElectedKept
  <1>5. LeaderLogs(g) /\ \A l : Genuine(h, l) => Genuine(g, l)
    BY <1>1, SameHistory
  <1>6. \A i \in Server : Genuine(g, log'[i])
    BY <1>1, <1>5 DEF PeerLogs, OnlyAt
  <1>7. PeerLogs(g)'
    BY <1>6 DEF PeerLogs, Genuine, Led, Agree, At, LastIndex
  <1>8. LeaderLogs(g)'
    BY <1>5 DEF LeaderLogs, LeaderLog, Genuine, Led
  <1>9. Holds(g)'
    <2>1. ASSUME NEW q \in Server, q # p
          PROVE  AckAt(g, q)' /\ KeptAt(g, q)'
      <3>1. log'[q] = log[q] /\ \A u \in Nat : g.ack[u][q] = h.ack[u][q]
        BY <2>1 DEF OnlyAt
      <3>2. QED  BY <1>4, <1>5, <1>7, <3>1, PeerStays
    <2>2. QED  BY <2>1 DEF Holds
  <1>10. Complete(g)'
    BY <1>1, CompleteKept
  <1>11. Known(U)'
    <2>1. KnownVotes(V, U)
      BY <1>2, NoVotesKnown
    <2>2. QED  BY <1>1, <2>1, KnownKept
  <1>12. OldRuns(h, g)
    <2>1. \A t : Led(g, t) <=> Led(h, t)
      BY SameHistory
    <2>2. ASSUME NEW i \in Server, NEW t \in Nat, Runs(g, i, t)'
          PROVE  Runs(h, i, t) /\ log'[i] = log[i]
      <3>1. i # p
        BY <2>2 DEF NotElected
      <3>2. state'[i] = "Candidate" /\ currentTerm'[i] = t /\ ~Led(g, t)
        BY <2>2 DEF Runs, Led
      <3>3. QED  BY <2>1, <3>1, <3>2 DEF Calm, Settled, Runs, OnlyAt
    <2>3. QED  BY <2>2 DEF OldRuns
  <1>13. Convinced(U, g)'
    BY <1>2, <1>4, <1>5, <1>12, ConvincedKept
  <1>14. QED  BY <1>1, <1>4, <1>7, <1>8, <1>9, <1>10, <1>11, <1>13 DEF PeersInv

\* What a peer that does not refuse an AppendEntries makes of its term.
LEMMA Observed ==
  ASSUME StructInv, StructInv', NEW r \in CallsIn(requests), Current(r),
         ObserveTerm(r.dst, r.term)
  PROVE  /\ Calm /\ r.dst \in Server /\ r.term \in Nat
         /\ currentTerm[r.dst] \in Nat /\ r.term >= currentTerm[r.dst]
         /\ currentTerm'[r.dst] = r.term
         /\ \/ state'[r.dst] = "Follower"
            \/ state'[r.dst] = state[r.dst] /\ currentTerm[r.dst] = r.term
  <1> DEFINE d == r.dst
             t == r.term
  <1>1. /\ currentTerm \in [Server -> Nat] /\ state \in [Server -> {"Follower", "Candidate", "Leader"}]
        /\ votedFor \in [Server -> Server \cup {Nil}]
        /\ d \in Server /\ t \in Nat
    BY FieldTypes, RequestType DEF StructInv, TypeOK
  <1>2. t >= currentTerm[d] /\ ObserveTerm(d, t)
    BY DEF Current
  <1> HIDE DEF d, t
  <1>3. CASE t > currentTerm[d]
    <2>1. /\ currentTerm' = [currentTerm EXCEPT ![d] = t]
          /\ state' = [state EXCEPT ![d] = "Follower"]
          /\ votedFor' = [votedFor EXCEPT ![d] = Nil]
      BY <1>2, <1>3 DEF ObserveTerm, StepDown
    <2>2. /\ currentTerm'[d] = t /\ state'[d] = "Follower" /\ votedFor'[d] = Nil
          /\ \A i \in Server : i # d =>
               /\ currentTerm'[i] = currentTerm[i] /\ state'[i] = state[i]
               /\ votedFor'[i] = votedFor[i]
      BY <1>1, <2>1
    <2>3. Calm
      BY <1>3, <2>2 DEF Calm, Settled
    <2>4. QED  BY <1>1, <1>2, <2>2, <2>3 DEF d, t
  <1>4. CASE ~(t > currentTerm[d])
    <2>1. UNCHANGED electionVars
      BY <1>2, <1>4 DEF ObserveTerm
    <2>2. t = currentTerm[d]
      BY <1>1, <1>2, <1>4, SMTT(60)
    <2>3. Calm
      BY <2>1 DEF Calm, Settled, electionVars
    <2>4. QED  BY <1>1, <1>2, <2>1, <2>2, <2>3 DEF d, t, electionVars
  <1>5. QED  BY <1>3, <1>4

\* The history may stay as it is.
LEMMA EvolvesSelf ==
  ASSUME NEW h \in Histories, LeaderLogs(h), Rising
  PROVE  Evolves(h, h) /\ SameLeaders(h, h)
  <1>1. \A t \in Nat, p \in Server : h.ack[t][p] <= h.ack[t][p]
    <2>1. \A t \in Nat, p \in Server : h.ack[t][p] \in Nat
      BY HistoryType
    <2>2. QED  BY <2>1, SMTT(60)
  <1>2. SameLeaders(h, h)
    BY DEF SameLeaders
  <1>3. Continues(h, h)
    BY <1>1, <1>2, SameContinues
  <1>4. QED  BY <1>2, <1>3 DEF Evolves, Frozen

\* A peer that takes a heartbeat is not leader, nor may it be elected.
LEMMA EntriesNotOwn ==
  ASSUME StructInv, StructInv', NEW V, NEW h, PeersInv(V, h),
         NEW r \in CallsIn(requests), Current(r), ObserveTerm(r.dst, r.term),
         Carries(h, r)
  PROVE  NotElected(h, r.dst)
  <1>1. /\ r.dst \in Server /\ currentTerm'[r.dst] = r.term
        /\ \/ state'[r.dst] = "Follower"
           \/ state'[r.dst] = state[r.dst] /\ currentTerm[r.dst] = r.term
    BY Observed
  <1>2. Led(h, r.term) /\ r.dst # h.leader[r.term]
    BY DEF Carries
  <1>3. state'[r.dst] # "Leader"
    BY <1>1, <1>2 DEF PeersInv, Elected
  <1>4. ASSUME NEW t \in Nat, Runs(h, r.dst, t)'
        PROVE  FALSE
    <2>1. t = currentTerm'[r.dst] /\ ~Led(h, t)
      BY <1>4 DEF Runs, Led
    <2>2. QED  BY <1>1, <1>2, <2>1
  <1>5. QED  BY <1>3, <1>4 DEF NotElected

\* AppendEntries, a conflict: what is deleted was not taken over from anybody,
\* or is blocked.
LEMMA PeersConflict ==
  ASSUME StructInv, StructInv', NEW V, NEW h, Recorded(V), PeersInv(V, h),
         NEW U, U = Recall(V), NEW r \in CallsIn(requests),
         r.rpc = "AppendEntries", Carries(h, r), ConflictEntries(r)
  PROVE  PeersInv(U, h)'
  <1> DEFINE d == r.dst
             t == r.term
             k0 == r.prevLogIndex
             m == h.log[t]
             cut == Upto(log[d], k0)
  <1>1. /\ Calm /\ d \in Server /\ t \in Nat /\ currentTerm[d] \in Nat
        /\ t >= currentTerm[d] /\ currentTerm'[d] = t
    BY Observed DEF ConflictEntries
  <1>2. NotElected(h, d)
    BY EntriesNotOwn DEF ConflictEntries
  <1>3. /\ h \in Histories /\ Elected(V, h) /\ LeaderLogs(h) /\ PeerLogs(h)
        /\ AckAt(h, d) /\ Led(h, t)
    BY <1>1 DEF PeersInv, Holds, Carries
  <1>4. /\ k0 \in Nat /\ k0 < Len(log[d]) /\ log[d] \in Seq(Entry) /\ m \in Seq(Entry)
        /\ Genuine(h, log[d]) /\ Genuine(h, m)
        /\ At(m, k0).term # At(log[d], k0).term
        /\ log' = [log EXCEPT ![d] = cut]
    BY <1>1, <1>3, RequestType, HistoryType, FieldTypes
       DEF ConflictEntries, Fits, Carries, PeerLogs, LeaderLogs, LeaderLog
  <1>5. \A q \in Server : q # d => log'[q] = log[q]
    BY <1>4, FieldTypes
  <1>6. log'[d] = cut
    BY <1>1, <1>4, FieldTypes
  <1> HIDE DEF d, t, k0, m
  <1>7. ASSUME NEW k \in Int, Agree(log[d], m, k)
        PROVE  k < k0
    <2>1. ~(k0 \in 0..k)
      BY <1>4, <1>7 DEF Agree
    <2>2. QED  BY <1>4, <2>1, SMTT(60)
  <1>8. Agree(log[d], m, 0) /\ 0 < k0
    <2>1. Agree(log[d], m, 0) /\ 0 \in Int
      BY <1>4, GenuineDummy, SMTT(60)
    <2>2. QED  BY <1>7, <2>1
  <1>9. /\ cut \in Seq(Entry) /\ Len(cut) = k0 /\ Agree(cut, log[d], k0 - 1)
    <2>1. k0 >= 1 /\ k0 <= Len(log[d])
      BY <1>4, <1>8, SMTT(60)
    <2>2. QED  BY <1>4, <2>1, CutAgrees
  <1> HIDE DEF cut
  <1>10. ASSUME NEW k \in Int, k < k0, NEW n \in Seq(Entry), Agree(log[d], n, k)
         PROVE  Agree(cut, n, k)
    <2>1. k0 - 1 \in Int /\ k <= k0 - 1 /\ k <= k
      BY <1>4, <1>10, SMTT(60)
    <2>2. Agree(cut, log[d], k)
      BY <1>4, <1>9, <2>1, AgreeDown
    <2>3. QED  BY <1>4, <1>9, <1>10, <2>1, <2>2, AgreeVia
  <1>11. Genuine(h, cut)
    <2>1. Len(cut) >= 1 /\ LastIndex(cut) = k0 - 1
      BY <1>4, <1>8, <1>9, SMTT(60) DEF LastIndex
    <2>2. QED  BY <1>3, <1>4, <1>9, <2>1, GenuinePart
  <1>12. Rising
    BY <1>1, CalmVotes, VotesRecalled
  <1>13. Evolves(h, h) /\ SameLeaders(h, h)
    BY <1>3, <1>12, EvolvesSelf
  <1>14. ASSUME NEW u \in Nat
         PROVE  /\ h.ack[u][d] > 0 => u <= t /\ Led(h, u)
                /\ Led(h, u) => h.ack[u][d] <= LastIndex(h.log[u])
                /\ u = t => Agree(cut, m, h.ack[u][d])
    <2>1. /\ h.ack[u][d] > 0 => u <= currentTerm[d] /\ Led(h, u)
          /\ Led(h, u) => h.ack[u][d] <= LastIndex(h.log[u])
          /\ Led(h, u) /\ u = currentTerm[d] => Agree(log[d], h.log[u], h.ack[u][d])
      BY <1>3 DEF AckAt
    <2>2. h.ack[u][d] \in Nat /\ h.ack[u][d] \in Int /\ 0 \in Int
      <3>1. h.ack[u][d] \in Nat
        BY <1>1, <1>3, HistoryType
      <3>2. QED  BY <3>1, SMTT(60)
    <2>3. h.ack[u][d] > 0 => u <= t
      BY <1>1, <2>1, SMTT(60)
    <2>4. CASE u = t /\ currentTerm[d] = t
      <3>1. Agree(log[d], m, h.ack[u][d])
        BY <1>3, <2>1, <2>4 DEF m
      <3>2. QED  BY <1>4, <1>7, <1>10, <2>1, <2>2, <2>3, <3>1
    <2>5. CASE u = t /\ currentTerm[d] # t
      <3>1. h.ack[u][d] = 0
        BY <1>1, <2>1, <2>2, <2>5, SMTT(60)
      <3>2. Agree(cut, m, 0)
        BY <1>4, <1>8, <1>10, <2>2
      <3>3. QED  BY <2>1, <2>3, <3>1, <3>2
    <2>6. QED  BY <2>1, <2>3, <2>4, <2>5
  <1>15. AckAt(h, d)'
    BY <1>1, <1>6, <1>14 DEF AckAt, Led, m
  <1>16. ASSUME NEW u \in Nat, NEW k \in Nat, u < t, Own(h, u, k), k <= h.ack[u][d]
         PROVE  Agree(cut, h.log[u], k) \/ Blocked(h, u, k)'
    <2>1. \/ Blocked(h, u, k)
          \/ Agree(log[d], h.log[u], k) /\ Agree(log[d], m, k)
      BY <1>1, <1>3, <1>16, KeptOrBase DEF m
    <2>2. Blocked(h, u, k) => Blocked(h, u, k)'
      BY <1>13, BlockedStays DEF Evolves
    <2>3. k \in Int /\ h.log[u] \in Seq(Entry)
      BY <1>3, HistoryType, SMTT(60)
    <2>4. QED  BY <1>7, <1>10, <2>1, <2>2, <2>3
  <1>17. KeptAt(h, d)'
    BY <1>1, <1>6, <1>16 DEF KeptAt, Own, Led
  <1>18. OnlyAt(h, h, d)
    BY <1>5 DEF OnlyAt
  <1>19. Genuine(h, log'[d])
    BY <1>6, <1>11
  <1>20. QED  BY <1>1, <1>2, <1>13, <1>15, <1>17, <1>18, <1>19, PeersEntries

\* AppendEntries, the logs agree at prevLogIndex: then up to it, and the new
\* log is the leader's as far as the heartbeat carries it.
LEMMA AcceptedLog ==
  ASSUME StructInv, NEW V, NEW h, PeersInv(V, h), NEW r \in CallsIn(requests),
         r.rpc = "AppendEntries", Carries(h, r), r.prevLogIndex < Len(log[r.dst]),
         r.prevLogTerm = At(log[r.dst], r.prevLogIndex).term,
         NEW l, l = NewLog(r)
  PROVE  /\ l \in Seq(Entry) /\ Replicated(r) \in Nat
         /\ LastIndex(l) = Replicated(r) /\ Agree(l, h.log[r.term], Replicated(r))
         /\ Genuine(h, l)
  <1> DEFINE d == r.dst
             t == r.term
             k0 == r.prevLogIndex
             m == h.log[t]
             s == r.entries
  <1>1. /\ d \in Server /\ t \in Nat /\ k0 \in Nat /\ s \in Seq(Entry)
    BY RequestType
  <1>2. /\ h \in Histories /\ LeaderLogs(h) /\ PeerLogs(h) /\ Led(h, t)
    BY DEF PeersInv, Carries
  <1>3. /\ k0 < Len(log[d]) /\ log[d] \in Seq(Entry) /\ m \in Seq(Entry)
        /\ Genuine(h, log[d]) /\ Genuine(h, m)
        /\ At(log[d], k0).term = At(m, k0).term
        /\ Replicated(r) = Len(s) + k0 /\ Replicated(r) <= LastIndex(m)
        /\ \A x \in 1..Len(s) : s[x] = At(m, k0 + x)
    BY <1>1, <1>2, HistoryType, FieldTypes
       DEF Carries, PeerLogs, LeaderLogs, LeaderLog, Replicated
  <1> HIDE DEF d, t, k0, m, s
  <1>4. /\ Len(s) \in Nat /\ Replicated(r) \in Nat /\ Replicated(r) = k0 + Len(s)
        /\ k0 + Len(s) < Len(m) /\ k0 <= LastIndex(m) /\ k0 \in 0..LastIndex(log[d])
    BY <1>1, <1>3, SMTT(60) DEF LastIndex
  <1>5. Agree(log[d], m, k0)
    BY <1>2, <1>3, <1>4, GenuineMeet
  <1>6. /\ l \in Seq(Entry) /\ Len(l) = k0 + 1 + Len(s) /\ Agree(l, m, Replicated(r))
    <2>1. l = Upto(log[d], k0 + 1) \o s
      BY DEF NewLog, d, k0, s
    <2>2. /\ Upto(log[d], k0 + 1) \o s \in Seq(Entry)
          /\ Len(Upto(log[d], k0 + 1) \o s) = k0 + 1 + Len(s)
          /\ Agree(Upto(log[d], k0 + 1) \o s, m, k0 + Len(s))
      BY <1>1, <1>3, <1>4, <1>5, SpliceAgrees
    <2>3. QED  BY <1>4, <2>1, <2>2
  <1>7. LastIndex(l) = Replicated(r) /\ Len(l) >= 1
    BY <1>1, <1>4, <1>6, SMTT(60) DEF LastIndex
  <1>8. Genuine(h, l)
    BY <1>2, <1>3, <1>6, <1>7, GenuinePart
  <1>9. QED  BY <1>4, <1>6, <1>7, <1>8 DEF m, t

\* What the history becomes.
LEMMA TakenHistory ==
  ASSUME StructInv, NEW V, NEW h, PeersInv(V, h), Rising, NEW r \in CallsIn(requests),
         r.term >= currentTerm[r.dst], Replicated(r) \in Nat,
         h.ack[r.term][r.dst] <= Replicated(r), NEW g, TakesOver(h, g, r)
  PROVE  Evolves(h, g) /\ SameLeaders(h, g) /\ Took(h, g, r)
  <1>1. /\ h \in Histories /\ LeaderLogs(h)
    BY DEF PeersInv
  <1>2. r.term \in Nat /\ r.dst \in Server
    BY RequestType
  <1>3. /\ h.leader \in [Nat -> Server \cup {Nil}] /\ h.base \in [Nat -> Seq(Entry)]
        /\ h.log \in [Nat -> Seq(Entry)] /\ h.ack \in [Nat -> [Server -> Nat]]
    BY <1>1 DEF Histories
  <1> DEFINE A == [u \in Nat |-> [q \in Server |->
                     IF u = r.term /\ q = r.dst THEN Replicated(r) ELSE h.ack[u][q]]]
  <1>4. /\ Made(g, h.leader, h.base, h.log, A)
        /\ A \in [Nat -> [Server -> Nat]]
        /\ \A u \in Nat, q \in Server : A[u][q] =
             IF u = r.term /\ q = r.dst THEN Replicated(r) ELSE h.ack[u][q]
    BY <1>3 DEF TakesOver
  <1> HIDE DEF A
  <1>5. /\ g \in Histories /\ g.ack = A
        /\ g.leader = h.leader /\ g.base = h.base /\ g.log = h.log
    BY <1>3, <1>4 DEF Made, Histories
  <1>6. SameLeaders(h, g)
    BY <1>5 DEF SameLeaders
  <1>7. g.ack[r.term][r.dst] = Replicated(r)
    BY <1>2, <1>4, <1>5
  <1>8. ASSUME NEW u \in Nat, NEW q \in Server, u # r.term \/ q # r.dst
        PROVE  g.ack[u][q] = h.ack[u][q]
    BY <1>4, <1>5, <1>8
  <1>9. ASSUME NEW u \in Nat, NEW q \in Server
        PROVE  h.ack[u][q] <= g.ack[u][q]
    <2>1. h.ack[u][q] \in Nat
      BY <1>1, HistoryType
    <2>2. h.ack[u][q] <= h.ack[u][q]
      BY <2>1, SMTT(60)
    <2>3. QED  BY <1>7, <1>8, <2>2
  <1>10. Continues(h, g)
    BY <1>1, <1>5, <1>6, <1>9, SameContinues
  <1>11. Frozen(h, g)
    <2>1. ASSUME NEW u \in Nat, NEW q \in Server, currentTerm[q] > u
          PROVE  u # r.term \/ q # r.dst
      <3>1. currentTerm[q] \in Nat
        BY FieldTypes
      <3>2. QED  BY <1>2, <2>1, <3>1, SMTT(60)
    <2>2. QED  BY <1>8, <2>1 DEF Frozen
  <1>12. QED  BY <1>1, <1>5, <1>6, <1>7, <1>8, <1>10, <1>11 DEF Evolves, Took

\* AppendEntries, the entries of a heartbeat are taken over.
LEMMA PeersAccept ==
  ASSUME StructInv, StructInv', NEW V, NEW h, Recorded(V), PeersInv(V, h),
         NEW U, U = Recall(V), NEW r \in CallsIn(requests),
         r.rpc = "AppendEntries", Carries(h, r),
         h.ack[r.term][r.dst] <= Replicated(r), AcceptEntries(r),
         NEW g, TakesOver(h, g, r)
  PROVE  PeersInv(U, g)' /\ Evolves(h, g)
  <1> DEFINE d == r.dst
             t == r.term
             R == Replicated(r)
             m == h.log[t]
             l == NewLog(r)
  <1>1. /\ Calm /\ d \in Server /\ t \in Nat /\ currentTerm[d] \in Nat
        /\ t >= currentTerm[d] /\ currentTerm'[d] = t
    BY Observed DEF AcceptEntries
  <1>2. NotElected(h, d)
    BY EntriesNotOwn DEF AcceptEntries
  <1>3. /\ h \in Histories /\ LeaderLogs(h) /\ AckAt(h, d) /\ Led(h, t)
        /\ R <= LastIndex(m) /\ LastIndex(h.base[t]) <= R
    BY <1>1 DEF PeersInv, Holds, Carries
  <1>4. log' = [log EXCEPT ![d] = l]
    BY DEF AcceptEntries
  <1>5. /\ l \in Seq(Entry) /\ R \in Nat /\ LastIndex(l) = R /\ Agree(l, m, R)
        /\ Genuine(h, l)
    BY AcceptedLog DEF AcceptEntries, Fits
  <1>6. Rising
    BY <1>1, CalmVotes, VotesRecalled
  <1>7. /\ Evolves(h, g) /\ SameLeaders(h, g) /\ g \in Histories /\ g.ack[t][d] = R
        /\ \A u \in Nat, q \in Server : u # t \/ q # d => g.ack[u][q] = h.ack[u][q]
    <2>1. Replicated(r) \in Nat /\ r.term >= currentTerm[r.dst]
      BY <1>1, <1>5
    <2>2. Evolves(h, g) /\ SameLeaders(h, g) /\ Took(h, g, r)
      BY <1>6, <2>1, TakenHistory
    <2>3. QED  BY <2>2 DEF Took, Evolves
  <1> HIDE DEF d, t, R, m, l
  <1>8. log'[d] = l /\ \A q \in Server : q # d => log'[q] = log[q]
    BY <1>1, <1>4, FieldTypes
  <1>9. /\ g.log = h.log
        /\ \A u : Led(g, u) <=> Led(h, u)
        /\ \A u, k : Own(g, u, k) <=> Own(h, u, k)
        /\ Genuine(g, l)
    BY <1>5, <1>7, SameHistory DEF SameLeaders
  <1>10. ASSUME NEW u \in Nat
         PROVE  /\ g.ack[u][d] > 0 => u <= t /\ Led(g, u)
                /\ Led(g, u) => g.ack[u][d] <= LastIndex(g.log[u])
                /\ u = t => Agree(l, g.log[u], g.ack[u][d])
    <2>1. CASE u = t
      <3>1. u <= t
        BY <1>1, <2>1, SMTT(60)
      <3>2. QED  BY <1>3, <1>5, <1>7, <1>9, <2>1, <3>1 DEF m
    <2>2. CASE u # t
      <3>1. /\ h.ack[u][d] > 0 => u <= currentTerm[d] /\ Led(h, u)
            /\ Led(h, u) => h.ack[u][d] <= LastIndex(h.log[u])
        BY <1>3 DEF AckAt
      <3>2. h.ack[u][d] > 0 => u <= t
        BY <1>1, <3>1, SMTT(60)
      <3>3. g.ack[u][d] = h.ack[u][d]
        BY <1>1, <1>7, <2>2
      <3>4. QED  BY <1>9, <2>2, <3>1, <3>2, <3>3
    <2>3. QED  BY <2>1, <2>2
  <1>11. AckAt(g, d)'
    BY <1>1, <1>8, <1>10 DEF AckAt, Led
  <1>12. ASSUME NEW u \in Nat, NEW k \in Nat, u < t, Own(g, u, k), k <= g.ack[u][d]
         PROVE  Agree(l, g.log[u], k) \/ Blocked(g, u, k)'
    <2>1. u # t
      BY <1>1, <1>12, SMTT(60)
    <2>2. Own(h, u, k) /\ k <= h.ack[u][d]
      BY <1>1, <1>7, <1>9, <1>12, <2>1
    <2>3. \/ Blocked(h, u, k)
          \/ Agree(m, h.log[u], k) /\ k <= LastIndex(h.base[t])
      BY <1>1, <1>3, <1>12, <2>2, KeptOrBase DEF m
    <2>4. Blocked(h, u, k) => Blocked(g, u, k)'
      BY <1>3, <1>7, BlockedStays DEF Evolves
    <2>5. ASSUME Agree(m, h.log[u], k), k <= LastIndex(h.base[t])
          PROVE  Agree(l, h.log[u], k)
      <3>1. h.log[u] \in Seq(Entry) /\ m \in Seq(Entry) /\ h.base[t] \in Seq(Entry)
        BY <1>1, <1>3, HistoryType DEF m
      <3>2. k \in Int /\ R \in Int /\ k <= R /\ k <= k
        BY <1>3, <1>5, <2>5, <3>1, SMTT(60) DEF LastIndex
      <3>3. Agree(l, m, k)
        BY <1>5, <3>1, <3>2, AgreeDown
      <3>4. QED  BY <1>5, <2>5, <3>1, <3>2, <3>3, AgreeVia
    <2>6. QED  BY <1>9, <2>3, <2>4, <2>5
  <1>13. KeptAt(g, d)'
    BY <1>1, <1>8, <1>12 DEF KeptAt, Own, Led
  <1>14. OnlyAt(h, g, d)
    BY <1>7, <1>8 DEF OnlyAt
  <1>15. NotElected(g, d)
    BY <1>2, <1>9 DEF NotElected, Runs, Led
  <1>16. Genuine(g, log'[d])
    BY <1>8, <1>9
  <1>17. PeersInv(U, g)'
    BY <1>1, <1>7, <1>11, <1>13, <1>14, <1>15, <1>16, PeersEntries
  <1>18. QED  BY <1>7, <1>17
-----------------------------------------------------------------------------
(* Start.                                                                  *)

\* The leader's log is longer by one entry, and the rest of the history stays.
LEMMA StartHistory ==
  ASSUME StructInv, StructInv', NEW V, NEW h, PeersInv(V, h), NEW i \in Server,
         NEW command \in Command, Start(i, command), NEW g, Appends(h, g, i),
         NEW t, t = currentTerm[i], NEW l, l = log'[i]
  PROVE  Appended(h, g, t, l, i)
  <1> DEFINE e == [term |-> currentTerm[i], command |-> command]
  <1>1. log' = [log EXCEPT ![i] = Append(@, e)] /\ state[i] = "Leader"
    BY DEF Start
  <1>2. t \in Nat /\ log[i] \in Seq(Entry) /\ log \in [Server -> Seq(Entry)]
    BY FieldTypes
  <1>3. e \in Entry /\ e.term = t
    BY <1>2 DEF Entry
  <1> HIDE DEF e
  <1>4. l = Append(log[i], e) /\ \A q \in Server : q # i => log'[q] = log[q]
    BY <1>1, <1>2
  <1>5. /\ l \in Seq(Entry) /\ Len(l) = Len(log[i]) + 1 /\ At(l, Len(log[i])) = e
        /\ \A k \in Int : k < Len(log[i]) => Agree(l, log[i], k)
    BY <1>2, <1>3, <1>4, AppendAgrees
  <1>6. Len(log[i]) \in Nat /\ Len(log[i]) >= 1
    BY <1>2, LogAnchored, SMTT(60) DEF Anchored
  <1>7. LastIndex(l) = Len(log[i]) /\ LastIndex(l) \in Nat
    BY <1>5, <1>6, SMTT(60) DEF LastIndex
  <1>8. h \in Histories /\ Led(h, t) /\ h.leader[t] = i /\ log[i] = h.log[t]
    <2>1. h \in Histories /\ Elected(V, h)
      BY DEF PeersInv
    <2>2. h.leader[currentTerm[i]] = i /\ log[i] = h.log[currentTerm[i]]
      BY <1>1, <2>1 DEF Elected
    <2>3. i # Nil
      BY NilAssumption
    <2>4. QED  BY <2>1, <2>2, <2>3 DEF Led
  <1>9. /\ h.leader \in [Nat -> Server \cup {Nil}] /\ h.base \in [Nat -> Seq(Entry)]
        /\ h.log \in [Nat -> Seq(Entry)] /\ h.ack \in [Nat -> [Server -> Nat]]
    BY <1>8 DEF Histories
  <1> DEFINE G == [u \in Nat |-> IF u = t THEN l ELSE h.log[u]]
             A == [u \in Nat |-> [q \in Server |->
                     IF u = t /\ q = i THEN LastIndex(l) ELSE h.ack[u][q]]]
  <1>10. G \in [Nat -> Seq(Entry)] /\ A \in [Nat -> [Server -> Nat]]
    BY <1>5, <1>7, <1>9
  <1>11. /\ G[t] = l /\ \A u \in Nat : u # t => G[u] = h.log[u]
         /\ A[t][i] = LastIndex(l)
         /\ \A u \in Nat, q \in Server : u # t \/ q # i => A[u][q] = h.ack[u][q]
    BY <1>2
  <1>12. Made(g, h.leader, h.base, G, A)
    BY DEF Appends
  <1> HIDE DEF G, A
  <1>13. /\ g \in Histories /\ g.leader = h.leader /\ g.base = h.base
         /\ g.log = G /\ g.ack = A
    BY <1>9, <1>10, <1>12 DEF Made, Histories
  <1>14. /\ g.log[t] = l /\ \A u \in Nat : u # t => g.log[u] = h.log[u]
         /\ g.ack[t][i] = LastIndex(l)
         /\ \A u \in Nat, q \in Server : u # t \/ q # i => g.ack[u][q] = h.ack[u][q]
    BY <1>11, <1>13
  <1>15. At(l, LastIndex(l)).term = t
    BY <1>3, <1>5, <1>7
  <1>16. QED
    BY <1>2, <1>4, <1>5, <1>6, <1>7, <1>8, <1>13, <1>14, <1>15 DEF Appended

\* It continues the history.
LEMMA AppendEvolves ==
  ASSUME StructInv, StructInv', NEW V, NEW h, PeersInv(V, h), Rising, NEW i \in Server,
         NEW g, NEW t, NEW l, Appended(h, g, t, l, i)
  PROVE  Evolves(h, g)
  <1>1. h \in Histories /\ g \in Histories /\ AckAt(h, i)
    BY DEF PeersInv, Holds, Appended
  <1>2. ASSUME NEW u \in Nat, Led(h, u)
        PROVE  /\ Agree(h.log[u], g.log[u], LastIndex(h.log[u]))
               /\ \A p \in Server : h.ack[u][p] <= g.ack[u][p]
    <2>1. h.log[u] \in Seq(Entry) /\ h.ack[u] \in [Server -> Nat]
      BY <1>1, HistoryType
    <2>2. LastIndex(h.log[u]) \in Int /\ LastIndex(h.log[u]) < Len(h.log[u])
      BY <2>1, SMTT(60) DEF LastIndex
    <2>3. \A p \in Server : h.ack[u][p] <= h.ack[u][p]
      BY <2>1, SMTT(60)
    <2>4. CASE u # t
      <3>1. g.log[u] = h.log[u] /\ \A p \in Server : g.ack[u][p] = h.ack[u][p]
        BY <2>4 DEF Appended
      <3>2. QED  BY <2>2, <2>3, <3>1, AgreeRefl
    <2>5. CASE u = t
      <3>1. Agree(l, h.log[t], LastIndex(h.log[t]))
        BY <2>2, <2>5 DEF Appended
      <3>2. Agree(h.log[t], g.log[t], LastIndex(h.log[t]))
        BY <3>1, AgreeSym DEF Appended
      <3>3. h.ack[t][i] <= g.ack[t][i]
        <4>1. h.ack[t][i] <= LastIndex(log[i]) /\ h.ack[t][i] \in Nat
          BY <1>1, <1>2, <2>1, <2>5 DEF AckAt, Appended
        <4>2. g.ack[t][i] = Len(log[i]) /\ Len(log[i]) \in Nat
          BY DEF Appended
        <4>3. QED  BY <4>1, <4>2, SMTT(60) DEF LastIndex
      <3>4. \A p \in Server : p # i => g.ack[t][p] = h.ack[t][p]
        BY <2>5 DEF Appended
      <3>5. QED  BY <2>3, <2>5, <3>2, <3>3, <3>4
    <2>6. QED  BY <2>4, <2>5
  <1>3. Continues(h, g)
    BY <1>2 DEF Continues, Appended
  <1>4. Frozen(h, g)
    <2>1. ASSUME NEW u \in Nat, NEW q \in Server, currentTerm[q] > u
          PROVE  u # t \/ q # i
      <3>1. currentTerm[q] \in Nat /\ (q = i => t = currentTerm[q])
        BY FieldTypes DEF Appended
      <3>2. QED  BY <2>1, <3>1, SMTT(60)
    <2>2. QED  BY <2>1 DEF Frozen, Appended
  <1>5. QED  BY <1>1, <1>3, <1>4 DEF Evolves

\* Every log, and every leader's, is still genuine.
LEMMA AppendGenuine ==
  ASSUME StructInv, NEW V, NEW h, PeersInv(V, h), NEW i \in Server,
         NEW g, NEW t, NEW l, Appended(h, g, t, l, i), Continues(h, g)
  PROVE  LeaderLogs(g) /\ \A q \in Server : Genuine(g, log'[q])
  <1>1. /\ h \in Histories /\ g \in Histories /\ LeaderLogs(h) /\ PeerLogs(h)
    BY DEF PeersInv, Appended
  <1>2. \A m \in Seq(Entry) : Genuine(h, m) => Genuine(g, m)
    BY <1>1, GenuineStays
  <1>3. /\ t \in Nat /\ l \in Seq(Entry) /\ log[i] \in Seq(Entry)
        /\ Len(log[i]) \in Nat /\ Len(log[i]) >= 1 /\ LastIndex(l) = Len(log[i])
        /\ At(l, LastIndex(l)).term = t /\ g.log[t] = l /\ Led(g, t)
        /\ \A k \in Int : k < Len(log[i]) => Agree(l, log[i], k)
    BY DEF Appended, Led
  <1>4. Genuine(g, log[i])
    BY <1>1, <1>2, <1>3 DEF PeerLogs
  <1>5. Genuine(g, l)
    <2>1. Len(l) >= 1 /\ Len(l) = Len(log[i]) + 1
      BY <1>3, SMTT(60) DEF LastIndex
    <2>2. At(l, 0) = Dummy
      <3>1. Agree(l, log[i], 0) /\ 0 \in 0..0
        BY <1>3, SMTT(60)
      <3>2. QED  BY <1>4, <3>1 DEF Agree, Genuine
    <2>3. ASSUME NEW k \in 1..LastIndex(l)
          PROVE  Led(g, At(l, k).term) /\ Agree(l, g.log[At(l, k).term], k)
      <3>1. k \in Nat /\ k \in Int /\ k <= k /\ k \in 0..k
        BY SMTT(60) DEF LastIndex
      <3>2. CASE k = LastIndex(l)
        <4>1. k < Len(l)
          BY <1>3, <2>1, <3>2, SMTT(60)
        <4>2. QED  BY <1>3, <3>2, <4>1, AgreeRefl
      <3>3. CASE k # LastIndex(l)
        <4>1. k < Len(log[i]) /\ k \in 1..LastIndex(log[i]) /\ k \in 0..LastIndex(log[i])
          BY <1>3, <3>1, <3>3, SMTT(60) DEF LastIndex
        <4>2. Agree(l, log[i], k)
          BY <1>3, <3>1, <4>1
        <4>3. At(l, k) = At(log[i], k)
          BY <3>1, <4>2 DEF Agree
        <4>4. /\ Led(g, At(log[i], k).term) /\ Agree(log[i], g.log[At(log[i], k).term], k)
          BY <1>4, <4>1 DEF Genuine
        <4>5. g.log[At(log[i], k).term] \in Seq(Entry)
          BY <1>1, <1>3, <4>1, EntryTerm, HistoryType
        <4>6. Agree(l, g.log[At(log[i], k).term], k)
          BY <1>3, <3>1, <4>2, <4>4, <4>5, AgreeVia
        <4>7. QED  BY <4>3, <4>4, <4>6
      <3>4. QED  BY <3>2, <3>3
    <2>4. QED  BY <2>1, <2>2, <2>3 DEF Genuine
  <1>6. ASSUME NEW u \in Nat, Led(g, u)
        PROVE  LeaderLog(g, u)
    <2>1. Led(h, u) /\ g.base[u] = h.base[u]
      BY <1>6 DEF Led, Appended
    <2>2. LeaderLog(h, u) /\ h.log[u] \in Seq(Entry) /\ h.base[u] \in Seq(Entry)
      BY <1>1, <2>1, HistoryType DEF LeaderLogs
    <2>3. LastIndex(h.base[u]) \in Int
      BY <2>2, SMTT(60) DEF LastIndex
    <2>4. Agree(h.base[u], g.log[u], LastIndex(h.base[u]))
      BY <1>1, <2>1, <2>2, <2>3, ContinuesAgree DEF LeaderLog
    <2>5. Genuine(g, g.log[u])
      <3>1. CASE u = t
        BY <1>3, <1>5, <3>1
      <3>2. CASE u # t
        <4>1. g.log[u] = h.log[u]
          BY <3>2 DEF Appended
        <4>2. QED  BY <1>2, <2>2, <4>1 DEF LeaderLog
      <3>3. QED  BY <3>1, <3>2
    <2>6. QED  BY <2>1, <2>2, <2>4, <2>5 DEF LeaderLog
  <1>7. ASSUME NEW q \in Server
        PROVE  Genuine(g, log'[q])
    <2>1. CASE q = i
      BY <1>5, <2>1 DEF Appended
    <2>2. CASE q # i
      <3>1. log'[q] = log[q] /\ Genuine(h, log[q]) /\ log[q] \in Seq(Entry)
        BY <1>1, <2>2, FieldTypes DEF Appended, PeerLogs
      <3>2. QED  BY <1>2, <3>1
    <2>3. QED  BY <2>1, <2>2
  <1>8. QED  BY <1>6, <1>7 DEF LeaderLogs

\* Start: the new entry is blocked if there are leaders of later terms.
LEMMA PeersStart ==
  ASSUME StructInv, StructInv', NEW V, NEW h, Recorded(V), PeersInv(V, h), Calm,
         NEW U, U = Recall(V), NEW i \in Server, UNCHANGED electionVars,
         state[i] = "Leader", NEW g, NEW t, NEW l, Appended(h, g, t, l, i)
  PROVE  PeersInv(U, g)' /\ Evolves(h, g)
  <1>1. /\ h \in Histories /\ g \in Histories /\ Elected(V, h) /\ LeaderLogs(h)
        /\ PeerLogs(h) /\ Known(V) /\ Complete(h) /\ Holds(h)
    BY DEF PeersInv, Appended
  <1>2. /\ VotesStay(V, U) /\ NoVotes(V, U) /\ OldCandidates /\ Rising
    BY CalmVotes, VotesRecalled
  <1>3. Evolves(h, g) /\ Continues(h, g) /\ Frozen(h, g)
    BY <1>2, AppendEvolves DEF Evolves
  <1>4. LeaderLogs(g) /\ \A q \in Server : Genuine(g, log'[q])
    BY <1>3, AppendGenuine
  <1>5. PeerLogs(g)'
    BY <1>4 DEF PeerLogs, Genuine, Led, Agree, At, LastIndex
  <1>6. LeaderLogs(g)'
    BY <1>4 DEF LeaderLogs, LeaderLog, Genuine, Led
  <1>7. state' = state /\ currentTerm' = currentTerm
    BY DEF electionVars
  <1>8. Elected(U, g)'
    <2>1. ASSUME NEW u \in Nat, Led(g, u)
          PROVE  /\ u >= 1 /\ u <= currentTerm[g.leader[u]]
                 /\ \E Q \in Quorums : \A p \in Q : U[u][p] = g.leader[u]
      <3>1. g.leader[u] = h.leader[u] /\ Led(h, u) /\ h.leader[u] # Nil
        BY <2>1 DEF Led, Appended
      <3>2. PICK Q \in Quorums : \A p \in Q : V[u][p] = h.leader[u]
        BY <1>1, <3>1 DEF Elected
      <3>3. \A p \in Q : U[u][p] = h.leader[u]
        BY <1>2, <3>1, <3>2 DEF VotesStay, Quorums
      <3>4. QED  BY <1>1, <3>1, <3>3 DEF Elected
    <2>2. ASSUME NEW j \in Server, state[j] = "Leader"
          PROVE  g.leader[currentTerm[j]] = j /\ log'[j] = g.log[currentTerm[j]]
      <3>1. h.leader[currentTerm[j]] = j /\ log[j] = h.log[currentTerm[j]]
            /\ currentTerm[j] \in Nat
        BY <1>1, <2>2, FieldTypes DEF Elected
      <3>2. CASE j = i
        BY <3>1, <3>2 DEF Appended
      <3>3. CASE j # i
        <4>1. currentTerm[j] # t
          BY <3>1, <3>3 DEF Appended
        <4>2. QED  BY <3>1, <3>3, <4>1 DEF Appended
      <3>4. QED  BY <3>2, <3>3
    <2>3. ASSUME NEW j \in Server, state[j] = "Candidate"
          PROVE  g.leader[currentTerm[j]] # j
      BY <1>1, <2>3 DEF Elected, Appended
    <2>4. QED  BY <1>7, <2>1, <2>2, <2>3 DEF Elected, Led, Quorums, Majority
  <1>9. Holds(g)'
    <2>1. ASSUME NEW q \in Server, q # i
          PROVE  AckAt(g, q)' /\ KeptAt(g, q)'
      <3>1. log'[q] = log[q] /\ \A u \in Nat : g.ack[u][q] = h.ack[u][q]
        BY <2>1 DEF Appended
      <3>2. QED  BY <1>3, <1>4, <1>5, <1>8, <3>1, PeerStays
    <2>2. AckAt(h, i) /\ KeptAt(h, i)
      BY <1>1 DEF Holds
    <2>3. ASSUME NEW u \in Nat
          PROVE  /\ g.ack[u][i] > 0 => u <= t /\ Led(g, u)
                 /\ Led(g, u) => g.ack[u][i] <= LastIndex(g.log[u])
                 /\ u = t => Agree(l, g.log[u], g.ack[u][i])
      <3>1. CASE u = t
        <4>1. g.log[u] = l /\ g.ack[u][i] = LastIndex(l) /\ Led(g, u) /\ l \in Seq(Entry)
          BY <3>1 DEF Appended, Led
        <4>2. u <= t /\ LastIndex(l) <= LastIndex(l) /\ LastIndex(l) < Len(l)
          BY <3>1, <4>1, SMTT(60) DEF LastIndex
        <4>3. QED  BY <4>1, <4>2, AgreeRefl
      <3>2. CASE u # t
        <4>1. /\ g.log[u] = h.log[u] /\ g.ack[u][i] = h.ack[u][i] /\ (Led(g, u) <=> Led(h, u))
              /\ t = currentTerm[i]
          BY <3>2 DEF Appended, Led
        <4>2. QED  BY <2>2, <3>2, <4>1 DEF AckAt
      <3>3. QED  BY <3>1, <3>2
    <2>4. AckAt(g, i)'
      <3>1. log'[i] = l /\ currentTerm'[i] = t
        BY <1>7 DEF Appended
      <3>2. QED  BY <2>3, <3>1 DEF AckAt, Led
    <2>5. ASSUME NEW u \in Nat, NEW k \in Nat, u < t, Own(g, u, k), k <= g.ack[u][i]
          PROVE  Agree(l, g.log[u], k) \/ Blocked(g, u, k)'
      <3>1. u # t /\ k \in Int /\ k <= k
        BY <2>5, SMTT(60) DEF Appended
      <3>2. /\ g.log[u] = h.log[u] /\ g.ack[u][i] = h.ack[u][i] /\ (Led(g, u) <=> Led(h, u))
            /\ t = currentTerm[i] /\ h.log[u] \in Seq(Entry) /\ log[i] \in Seq(Entry)
            /\ l \in Seq(Entry)
        BY <1>1, <3>1, HistoryType DEF Appended, Led
      <3>3. Own(h, u, k)
        BY <2>5, <3>2 DEF Own
      <3>4. Agree(log[i], h.log[u], k) \/ Blocked(h, u, k)
        BY <2>2, <2>5, <3>2, <3>3 DEF KeptAt
      <3>5. Blocked(h, u, k) => Blocked(g, u, k)'
        BY <1>1, <1>2, <1>3, BlockedStays
      <3>6. ASSUME Agree(log[i], h.log[u], k)
            PROVE  Agree(l, h.log[u], k)
        <4>1. k < Len(log[i])
          BY <3>6 DEF Agree
        <4>2. Agree(l, log[i], k)
          BY <3>1, <4>1 DEF Appended
        <4>3. QED  BY <3>1, <3>2, <3>6, <4>2, AgreeVia
      <3>7. QED  BY <3>2, <3>4, <3>5, <3>6
    <2>6. KeptAt(g, i)'
      <3>1. log'[i] = l /\ currentTerm'[i] = t
        BY <1>7 DEF Appended
      <3>2. QED  BY <2>5, <3>1 DEF KeptAt, Own, Led
    <2>7. QED  BY <2>1, <2>4, <2>6 DEF Holds
  <1>10. ASSUME NEW x \in Nat, NEW u \in Nat, NEW k \in Nat, u < x, Led(g, x), Own(g, u, k)
         PROVE  Agree(g.base[x], g.log[u], k) \/ Blocked(g, u, k)'
    <2>1. Led(h, x) /\ Led(h, u) /\ g.base[x] = h.base[x] /\ h.base[x] \in Seq(Entry)
          /\ h.log[u] \in Seq(Entry) /\ g.log[u] \in Seq(Entry)
      BY <1>1, <1>10, HistoryType DEF Appended, Led, Own
    <2>2. CASE k <= LastIndex(h.log[u])
      <3>1. Own(h, u, k)
        BY <1>1, <1>3, <1>10, <2>1, <2>2, OwnWas
      <3>2. Agree(h.base[x], h.log[u], k) \/ Blocked(h, u, k)
        BY <1>1, <1>10, <2>1, <3>1 DEF Complete
      <3>3. Blocked(h, u, k) => Blocked(g, u, k)'
        BY <1>1, <1>2, <1>3, BlockedStays
      <3>4. k \in Int
        BY SMTT(60)
      <3>5. Agree(h.base[x], h.log[u], k) => Agree(h.base[x], g.log[u], k)
        BY <1>1, <1>3, <2>1, <3>4, ContinuesAgree
      <3>6. QED  BY <2>1, <3>2, <3>3, <3>5
    <2>3. CASE ~(k <= LastIndex(h.log[u]))
      <3>1. u = t
        BY <1>10, <2>3 DEF Own, Appended
      <3>2. PICK Q \in Quorums : \A p \in Q : V[x][p] = h.leader[x]
        BY <1>1, <2>1 DEF Elected
      <3>3. ASSUME NEW p \in Q
            PROVE  currentTerm[p] > u /\ g.ack[u][p] < k
        <4>1. p \in Server /\ V[x][p] # Nil /\ currentTerm[p] \in Nat
          BY <2>1, <3>2, FieldTypes DEF Quorums, Led
        <4>2. ~(x > currentTerm[p])
          BY <4>1 DEF Recorded
        <4>3. currentTerm[p] > u
          BY <1>10, <4>1, <4>2, SMTT(60)
        <4>4. p # i
          BY <3>1, <4>1, <4>3, SMTT(60) DEF Appended
        <4>5. g.ack[u][p] = h.ack[u][p] /\ h.ack[u][p] <= LastIndex(h.log[u])
              /\ h.ack[u][p] \in Nat
          BY <1>1, <2>1, <4>1, <4>4, HistoryType DEF Appended, Holds, AckAt
        <4>6. g.ack[u][p] < k
          BY <2>1, <2>3, <4>5, SMTT(60) DEF LastIndex
        <4>7. QED  BY <4>3, <4>6
      <3>4. QED  BY <1>7, <3>3 DEF Blocked, Quorums, Majority
    <2>4. QED  BY <2>2, <2>3
  <1>11. Complete(g)'
    BY <1>10 DEF Complete, Led, Own
  <1>12. Known(U)'
    <2>1. KnownVotes(V, U)
      BY <1>2, NoVotesKnown
    <2>2. QED  BY <1>1, <1>2, <2>1, KnownKept
  <1>13. OldRuns(h, g)
    <2>1. ASSUME NEW j \in Server, NEW x \in Nat, Runs(g, j, x)'
          PROVE  Runs(h, j, x) /\ log'[j] = log[j]
      <3>1. state[j] = "Candidate" /\ currentTerm[j] = x /\ ~Led(g, x)
        BY <1>7, <2>1 DEF Runs, Led
      <3>2. j # i
        BY <3>1
      <3>3. QED  BY <3>1, <3>2 DEF Appended, Runs, Led
    <2>2. QED  BY <2>1 DEF OldRuns
  <1>14. Convinced(U, g)'
    BY <1>2, <1>3, <1>4, <1>8, <1>13, ConvincedKept
  <1>15. PeersInv(U, g)'
    BY <1>1, <1>5, <1>6, <1>8, <1>9, <1>11, <1>12, <1>14 DEF PeersInv
  <1>16. QED  BY <1>3, <1>15
-----------------------------------------------------------------------------
(* An election.                                                            *)

\* Nobody else is elected in the term, so that no log has an entry of it.
LEMMA ElectHistory ==
  ASSUME StructInv, LogTermsOrdered, QuorumsMeet, NEW V, NEW h, PeersInv(V, h),
         NEW i \in Server, state[i] = "Candidate", NEW t, t = currentTerm[i], t >= 1,
         WonBy(V, t, i), NEW g, Elects(h, g, i)
  PROVE  Installed(h, g, t, i)
  <1>1. /\ h \in Histories /\ Elected(V, h) /\ PeerLogs(h) /\ Holds(h)
    BY DEF PeersInv
  <1>2. t \in Nat /\ log[i] \in Seq(Entry) /\ Len(log[i]) \in Nat /\ Len(log[i]) >= 1
    <2>1. t \in Nat /\ log[i] \in Seq(Entry) /\ Len(log[i]) >= 1
      BY FieldTypes, LogAnchored DEF Anchored
    <2>2. QED  BY <2>1, SMTT(60)
  <1>3. ~Led(h, t)
    <2>1. SUFFICES ASSUME Led(h, t) PROVE FALSE
      OBVIOUS
    <2>2. PICK Q \in Quorums : \A p \in Q : V[t][p] = h.leader[t]
      BY <1>1, <1>2, <2>1 DEF Elected
    <2>3. PICK R \in Quorums : \A p \in R : V[t][p] = i
      BY DEF WonBy
    <2>4. PICK p \in Q : p \in R
      BY DEF QuorumsMeet
    <2>5. h.leader[t] = i
      BY <2>2, <2>3, <2>4
    <2>6. QED  BY <1>1, <2>5 DEF Elected
  <1>4. ASSUME NEW q \in Server
        PROVE  h.ack[t][q] = 0
    <2>1. ~(h.ack[t][q] > 0)
      BY <1>1, <1>2, <1>3 DEF Holds, AckAt
    <2>2. h.ack[t][q] \in Nat
      BY <1>1, <1>2, HistoryType
    <2>3. QED  BY <2>1, <2>2, SMTT(60)
  <1>5. ASSUME NEW k \in 0..LastIndex(log[i])
        PROVE  At(log[i], k).term < t
    <2>1. At(log[i], k).term \in Nat /\ At(log[i], k).term <= t
      BY <1>2, EntryTerm DEF LogTermsOrdered
    <2>2. At(log[i], k).term # t
      <3>1. CASE k = 0
        <4>1. At(log[i], k) = Dummy
          BY <1>1, <3>1 DEF PeerLogs, Genuine
        <4>2. QED  BY <1>2, <4>1, SMTT(60) DEF Dummy
      <3>2. CASE k # 0
        <4>1. k \in 1..LastIndex(log[i])
          BY <1>2, <3>2, SMTT(60) DEF LastIndex
        <4>2. Led(h, At(log[i], k).term)
          BY <1>1, <4>1 DEF PeerLogs, Genuine
        <4>3. QED  BY <1>3, <4>2
      <3>3. QED  BY <3>1, <3>2
    <2>3. QED  BY <1>2, <2>1, <2>2, SMTT(60)
  <1>6. /\ h.leader \in [Nat -> Server \cup {Nil}] /\ h.base \in [Nat -> Seq(Entry)]
        /\ h.log \in [Nat -> Seq(Entry)] /\ h.ack \in [Nat -> [Server -> Nat]]
        /\ LastIndex(log[i]) \in Nat
    <2>1. LastIndex(log[i]) \in Nat
      BY <1>2, SMTT(60) DEF LastIndex
    <2>2. QED  BY <1>1, <2>1 DEF Histories
  <1> DEFINE L == [u \in Nat |-> IF u = t THEN i ELSE h.leader[u]]
             B == [u \in Nat |-> IF u = t THEN log[i] ELSE h.base[u]]
             G == [u \in Nat |-> IF u = t THEN log[i] ELSE h.log[u]]
             A == [u \in Nat |-> [q \in Server |->
                     IF u = t /\ q = i THEN LastIndex(log[i]) ELSE h.ack[u][q]]]
  <1>7. /\ L \in [Nat -> Server \cup {Nil}] /\ B \in [Nat -> Seq(Entry)]
        /\ G \in [Nat -> Seq(Entry)] /\ A \in [Nat -> [Server -> Nat]]
    BY <1>2, <1>6
  <1>8. /\ L[t] = i /\ B[t] = log[i] /\ G[t] = log[i]
        /\ \A u \in Nat : u # t => L[u] = h.leader[u] /\ B[u] = h.base[u] /\ G[u] = h.log[u]
        /\ A[t][i] = LastIndex(log[i])
        /\ \A u \in Nat, q \in Server : u # t \/ q # i => A[u][q] = h.ack[u][q]
    BY <1>2
  <1>9. Made(g, L, B, G, A)
    BY DEF Elects
  <1> HIDE DEF L, B, G, A
  <1>10. g \in Histories /\ g.leader = L /\ g.base = B /\ g.log = G /\ g.ack = A
    BY <1>7, <1>9 DEF Made, Histories
  <1>11. /\ g.leader[t] = i /\ g.base[t] = log[i] /\ g.log[t] = log[i]
         /\ \A u \in Nat : u # t => /\ g.leader[u] = h.leader[u]
                                    /\ g.base[u] = h.base[u] /\ g.log[u] = h.log[u]
         /\ g.ack[t][i] = LastIndex(log[i])
         /\ \A u \in Nat, q \in Server : u # t \/ q # i => g.ack[u][q] = h.ack[u][q]
    BY <1>8, <1>10
  <1>12. QED
    BY <1>1, <1>2, <1>3, <1>4, <1>5, <1>10, <1>11 DEF Installed

\* It continues the history, and all logs are genuine.
LEMMA ElectEvolves ==
  ASSUME StructInv, NEW V, NEW h, PeersInv(V, h), Rising, NEW i \in Server,
         NEW g, NEW t, Installed(h, g, t, i)
  PROVE  /\ Evolves(h, g) /\ LeaderLogs(g) /\ \A q \in Server : Genuine(g, log[q])
  <1>1. h \in Histories /\ g \in Histories /\ LeaderLogs(h) /\ PeerLogs(h) /\ t \in Nat
    BY DEF PeersInv, Installed
  <1>2. ASSUME NEW u \in Nat, Led(h, u)
        PROVE  /\ u # t /\ g.leader[u] = h.leader[u]
               /\ g.base[u] = h.base[u] /\ g.log[u] = h.log[u]
               /\ Agree(h.log[u], h.log[u], LastIndex(h.log[u]))
               /\ \A p \in Server : h.ack[u][p] <= g.ack[u][p]
    <2>1. u # t
      BY <1>2 DEF Installed
    <2>2. h.log[u] \in Seq(Entry) /\ h.ack[u] \in [Server -> Nat]
      BY <1>1, HistoryType
    <2>3. LastIndex(h.log[u]) < Len(h.log[u]) /\ \A p \in Server : h.ack[u][p] <= h.ack[u][p]
      BY <2>2, SMTT(60) DEF LastIndex
    <2>4. QED  BY <2>1, <2>3, AgreeRefl DEF Installed
  <1>3. Continues(h, g)
    BY <1>2 DEF Continues
  <1>4. Frozen(h, g)
    <2>1. ASSUME NEW u \in Nat, NEW q \in Server, currentTerm[q] > u
          PROVE  u # t \/ q # i
      <3>1. currentTerm[q] \in Nat /\ (q = i => t = currentTerm[q])
        BY FieldTypes DEF Installed
      <3>2. QED  BY <2>1, <3>1, SMTT(60)
    <2>2. QED  BY <2>1 DEF Frozen, Installed
  <1>5. \A m \in Seq(Entry) : Genuine(h, m) => Genuine(g, m)
    BY <1>1, <1>3, GenuineStays
  <1>6. \A q \in Server : Genuine(g, log[q])
    BY <1>1, <1>5, FieldTypes DEF PeerLogs
  <1>7. ASSUME NEW u \in Nat, Led(g, u)
        PROVE  LeaderLog(g, u)
    <2>1. CASE u = t
      <3>1. log[i] \in Seq(Entry) /\ Len(log[i]) >= 1
        BY LogAnchored DEF Anchored
      <3>2. LastIndex(log[i]) < Len(log[i])
        BY <3>1, SMTT(60) DEF LastIndex
      <3>3. Agree(log[i], log[i], LastIndex(log[i]))
        BY <3>2, AgreeRefl
      <3>4. g.base[u] = log[i] /\ g.log[u] = log[i]
            /\ \A k \in 0..LastIndex(log[i]) : At(log[i], k).term < u
        BY <2>1 DEF Installed
      <3>5. QED  BY <1>6, <3>1, <3>3, <3>4 DEF LeaderLog
    <2>2. CASE u # t
      <3>1. Led(h, u) /\ g.base[u] = h.base[u] /\ g.log[u] = h.log[u]
        BY <1>7, <2>2 DEF Installed, Led
      <3>2. LeaderLog(h, u) /\ h.log[u] \in Seq(Entry)
        BY <1>1, <3>1, HistoryType DEF LeaderLogs
      <3>3. QED  BY <1>5, <3>1, <3>2 DEF LeaderLog
    <2>3. QED  BY <2>1, <2>2
  <1>8. QED  BY <1>1, <1>3, <1>4, <1>6, <1>7 DEF Evolves, LeaderLogs

\* A log beyond an entry that is not blocked has it.
LEMMA BeyondHas ==
  ASSUME StructInv, NEW V, NEW h, PeersInv(V, h), NEW i \in Server, NEW u, NEW k,
         Own(h, u, k), Beyond(log[i], u, k)
  PROVE  Agree(log[i], h.log[u], k) \/ Blocked(h, u, k)
  <1> DEFINE l == log[i]
             n == LastIndex(l)
             w == LastTerm(l)
  <1>1. /\ h \in Histories /\ Elected(V, h) /\ LeaderLogs(h) /\ Genuine(h, l)
        /\ Complete(h)
    BY DEF PeersInv, PeerLogs
  <1>2. u \in Nat /\ u >= 1 /\ k \in Nat /\ k >= 1 /\ Led(h, u)
    BY <1>1, OwnIndex
  <1>3. l \in Seq(Entry) /\ Len(l) >= 1
    BY LogAnchored DEF Anchored
  <1>4. n \in Nat /\ n \in Int /\ n \in 0..n /\ k \in Int /\ k <= k
    BY <1>2, <1>3, SMTT(60) DEF LastIndex
  <1>5. w \in Nat /\ w = At(l, n).term /\ (w > u \/ (w = u /\ n >= k))
    BY <1>3, <1>4, EntryTerm DEF LastTerm, Beyond
  <1> HIDE DEF n, w, l
  <1>6. n # 0
    <2>1. SUFFICES ASSUME n = 0 PROVE FALSE
      OBVIOUS
    <2>2. At(l, n) = Dummy
      BY <1>1, <2>1 DEF Genuine
    <2>3. w = 0
      <3>1. Dummy.term = 0
        BY DEF Dummy
      <3>2. QED  BY <1>5, <2>2, <3>1
    <2>4. QED  BY <1>2, <1>5, <2>3, SMTT(60)
  <1>7. n \in 1..LastIndex(l)
    BY <1>4, <1>6, SMTT(60) DEF n
  <1>8. Led(h, w) /\ Agree(l, h.log[w], n)
    BY <1>1, <1>5, <1>7 DEF Genuine
  <1>9. h.log[u] \in Seq(Entry) /\ h.log[w] \in Seq(Entry) /\ h.base[w] \in Seq(Entry)
    BY <1>1, <1>2, <1>5, HistoryType
  <1>10. CASE w = u /\ n >= k
    <2>1. k <= n
      BY <1>4, <1>10, SMTT(60)
    <2>2. QED  BY <1>3, <1>4, <1>8, <1>9, <1>10, <2>1, AgreeDown DEF l
  <1>11. CASE w > u
    <2>1. u < w
      BY <1>2, <1>5, <1>11, SMTT(60)
    <2>2. Agree(h.base[w], h.log[u], k) \/ Blocked(h, u, k)
      BY <1>1, <1>2, <1>5, <1>8, <2>1 DEF Complete
    <2>3. ASSUME Agree(h.base[w], h.log[u], k)
          PROVE  Agree(l, h.log[u], k)
      <3>1. Agree(h.log[w], h.log[u], k) /\ k <= LastIndex(h.base[w])
        BY <1>1, <1>2, <1>5, <1>8, <1>9, <2>3, BaseLog
      <3>2. ~(n \in 0..LastIndex(h.base[w]))
        <4>1. SUFFICES ASSUME n \in 0..LastIndex(h.base[w]) PROVE FALSE
          OBVIOUS
        <4>2. LeaderLog(h, w)
          BY <1>1, <1>5, <1>8 DEF LeaderLogs
        <4>3. At(h.base[w], n) = At(h.log[w], n) /\ At(h.base[w], n).term < w
          BY <4>1, <4>2 DEF LeaderLog, Agree
        <4>4. At(l, n) = At(h.log[w], n)
          BY <1>4, <1>8 DEF Agree
        <4>5. At(l, n).term < At(l, n).term /\ At(l, n).term \in Nat
          BY <1>5, <4>3, <4>4
        <4>6. QED  BY <4>5, SMTT(60)
      <3>3. k <= n
        BY <1>2, <1>4, <1>9, <3>1, <3>2, SMTT(60) DEF LastIndex
      <3>4. Agree(l, h.log[w], k)
        BY <1>3, <1>4, <1>8, <1>9, <3>3, AgreeDown
      <3>5. QED  BY <1>3, <1>4, <1>9, <3>1, <3>4, AgreeVia
    <2>4. QED  BY <2>2, <2>3 DEF l
  <1>12. QED  BY <1>5, <1>10, <1>11

\* What may be chosen is in the log of the candidate that a quorum votes for.
LEMMA ElectComplete ==
  ASSUME StructInv, NEW V, NEW h, Recorded(V), PeersInv(V, h), NEW i \in Server,
         NEW t \in Nat, Runs(h, i, t), WonBy(V, t, i), NEW u, NEW k, Own(h, u, k), u < t
  PROVE  Agree(log[i], h.log[u], k) \/ Blocked(h, u, k)
  <1>1. PICK Q \in Quorums : \A p \in Q : V[t][p] = i
    BY DEF WonBy
  <1>2. /\ h \in Histories /\ Convinced(V, h) /\ u \in Nat /\ k \in Nat
    BY DEF PeersInv, Own
  <1>3. ASSUME NEW p \in Q
        PROVE  p \in Server /\ currentTerm[p] > u /\ h.ack[u][p] \in Nat
    <2>1. p \in Server /\ V[t][p] # Nil /\ currentTerm[p] \in Nat
      BY <1>1, FieldTypes, NilAssumption DEF Quorums
    <2>2. ~(t > currentTerm[p])
      BY <2>1 DEF Recorded
    <2>3. currentTerm[p] > u
      BY <1>2, <2>1, <2>2, SMTT(60)
    <2>4. QED  BY <1>2, <2>1, <2>3, HistoryType
  <1>4. CASE \A p \in Q : h.ack[u][p] < k
    BY <1>3, <1>4 DEF Blocked
  <1>5. ASSUME NEW p \in Q, ~(h.ack[u][p] < k)
        PROVE  Agree(log[i], h.log[u], k) \/ Blocked(h, u, k)
    <2>1. k <= h.ack[u][p] /\ p \in Server /\ V[t][p] = i
      BY <1>1, <1>2, <1>3, <1>5, SMTT(60)
    <2>2. Beyond(log[i], u, k) \/ Blocked(h, u, k)
      BY <1>2, <2>1 DEF Convinced
    <2>3. QED  BY <2>2, BeyondHas
  <1>6. QED  BY <1>4, <1>5

\* An election: the new leader has all that may be chosen.
LEMMA PeersElect ==
  ASSUME StructInv, StructInv', NEW V, NEW h, Recorded(V), PeersInv(V, h), NEW U,
         VotesStay(V, U), NoVotes(V, U), Rising,
         NEW i \in Server, state[i] = "Candidate",
         state' = [state EXCEPT ![i] = "Leader"], currentTerm' = currentTerm,
         log' = log, NEW t, WonBy(V, t, i), NEW g, Installed(h, g, t, i)
  PROVE  PeersInv(U, g)' /\ Evolves(h, g)
  <1>1. /\ h \in Histories /\ g \in Histories /\ Elected(V, h) /\ LeaderLogs(h)
        /\ PeerLogs(h) /\ Known(V) /\ Complete(h) /\ Holds(h)
        /\ t \in Nat /\ t >= 1 /\ t = currentTerm[i] /\ ~Led(h, t) /\ Led(g, t)
    BY NilAssumption DEF PeersInv, Installed, Led
  <1>2. Evolves(h, g) /\ LeaderLogs(g) /\ \A q \in Server : Genuine(g, log[q])
    BY ElectEvolves
  <1>3. Continues(h, g) /\ Frozen(h, g)
    BY <1>2 DEF Evolves
  <1>4. PeerLogs(g)'
    BY <1>2 DEF PeerLogs, Genuine, Led, Agree, At, LastIndex
  <1>5. LeaderLogs(g)'
    BY <1>2 DEF LeaderLogs, LeaderLog, Genuine, Led
  <1>6. /\ state \in [Server -> {"Follower", "Candidate", "Leader"}]
        /\ state'[i] = "Leader" /\ \A j \in Server : j # i => state'[j] = state[j]
    <2>1. state \in [Server -> {"Follower", "Candidate", "Leader"}]
      BY DEF StructInv, TypeOK
    <2>2. QED  BY <2>1
  <1>7. Elected(U, g)'
    <2>1. ASSUME NEW u \in Nat, Led(g, u)
          PROVE  /\ u >= 1 /\ u <= currentTerm[g.leader[u]]
                 /\ \E Q \in Quorums : \A p \in Q : U[u][p] = g.leader[u]
      <3>1. CASE u = t
        <4>1. PICK Q \in Quorums : \A p \in Q : V[t][p] = i
          BY DEF WonBy
        <4>2. \A p \in Q : U[t][p] = i
          BY <1>1, <4>1, NilAssumption DEF VotesStay, Quorums
        <4>3. g.leader[t] = i
          BY DEF Installed
        <4>4. t <= t
          BY <1>1, SMTT(60)
        <4>5. QED  BY <1>1, <3>1, <4>2, <4>3, <4>4
      <3>2. CASE u # t
        <4>1. g.leader[u] = h.leader[u] /\ Led(h, u) /\ h.leader[u] # Nil
          BY <2>1, <3>2 DEF Led, Installed
        <4>2. PICK Q \in Quorums : \A p \in Q : V[u][p] = h.leader[u]
          BY <1>1, <4>1 DEF Elected
        <4>3. \A p \in Q : U[u][p] = h.leader[u]
          BY <4>1, <4>2 DEF VotesStay, Quorums
        <4>4. QED  BY <1>1, <4>1, <4>3 DEF Elected
      <3>3. QED  BY <3>1, <3>2
    <2>2. ASSUME NEW j \in Server, state'[j] = "Leader"
          PROVE  g.leader[currentTerm[j]] = j /\ log[j] = g.log[currentTerm[j]]
      <3>1. CASE j = i
        BY <3>1 DEF Installed
      <3>2. CASE j # i
        <4>1. h.leader[currentTerm[j]] = j /\ log[j] = h.log[currentTerm[j]]
              /\ currentTerm[j] \in Nat /\ j # Nil
          BY <1>1, <1>6, <2>2, <3>2, FieldTypes, NilAssumption DEF Elected
        <4>2. currentTerm[j] # t
          BY <1>1, <4>1 DEF Led
        <4>3. QED  BY <4>1, <4>2 DEF Installed
      <3>3. QED  BY <3>1, <3>2
    <2>3. ASSUME NEW j \in Server, state'[j] = "Candidate"
          PROVE  g.leader[currentTerm[j]] # j
      <3>1. j # i /\ state[j] = "Candidate"
        BY <1>6, <2>3
      <3>2. h.leader[currentTerm[j]] # j /\ currentTerm[j] \in Nat
        BY <1>1, <3>1, FieldTypes DEF Elected
      <3>3. QED  BY <3>1, <3>2 DEF Installed
    <2>4. QED  BY <2>1, <2>2, <2>3 DEF Elected, Led, Quorums, Majority
  <1>8. Holds(g)'
    <2>1. ASSUME NEW q \in Server, q # i
          PROVE  AckAt(g, q)' /\ KeptAt(g, q)'
      <3>1. log'[q] = log[q] /\ \A u \in Nat : g.ack[u][q] = h.ack[u][q]
        BY <2>1 DEF Installed
      <3>2. QED  BY <1>2, <1>4, <1>7, <3>1, PeerStays
    <2>2. AckAt(h, i) /\ KeptAt(h, i)
      BY <1>1 DEF Holds
    <2>3. ASSUME NEW u \in Nat
          PROVE  /\ g.ack[u][i] > 0 => u <= t /\ Led(g, u)
                 /\ Led(g, u) => g.ack[u][i] <= LastIndex(g.log[u])
                 /\ u = t => Agree(log[i], g.log[u], g.ack[u][i])
      <3>1. CASE u = t
        <4>1. g.log[u] = log[i] /\ g.ack[u][i] = LastIndex(log[i])
              /\ log[i] \in Seq(Entry)
          BY <3>1, FieldTypes DEF Installed
        <4>2. /\ u <= t /\ LastIndex(log[i]) <= LastIndex(log[i])
              /\ LastIndex(log[i]) < Len(log[i])
          <5>1. u <= t
            BY <3>1, SMTT(60)
          <5>2. ASSUME NEW l \in Seq(Entry)
                PROVE  LastIndex(l) <= LastIndex(l) /\ LastIndex(l) < Len(l)
            BY SMTT(60) DEF LastIndex
          <5>3. QED  BY <4>1, <5>1, <5>2
        <4>3. QED  BY <1>1, <3>1, <4>1, <4>2, AgreeRefl
      <3>2. CASE u # t
        <4>1. g.log[u] = h.log[u] /\ g.ack[u][i] = h.ack[u][i] /\ (Led(g, u) <=> Led(h, u))
          BY <3>2 DEF Installed, Led
        <4>2. QED  BY <1>1, <2>2, <3>2, <4>1 DEF AckAt
      <3>3. QED  BY <3>1, <3>2
    <2>4. AckAt(g, i)'
      BY <1>1, <2>3 DEF AckAt, Led
    <2>5. ASSUME NEW u \in Nat, NEW k \in Nat, u < t, Own(g, u, k), k <= g.ack[u][i]
          PROVE  Agree(log[i], g.log[u], k) \/ Blocked(g, u, k)'
      <3>1. u # t
        BY <1>1, <2>5, SMTT(60)
      <3>2. g.log[u] = h.log[u] /\ g.ack[u][i] = h.ack[u][i] /\ (Led(g, u) <=> Led(h, u))
        BY <3>1 DEF Installed, Led
      <3>3. Own(h, u, k)
        BY <2>5, <3>2 DEF Own
      <3>4. Agree(log[i], h.log[u], k) \/ Blocked(h, u, k)
        BY <1>1, <2>2, <2>5, <3>2, <3>3 DEF KeptAt
      <3>5. Blocked(h, u, k) => Blocked(g, u, k)'
        BY <1>1, <1>3, BlockedStays
      <3>6. QED  BY <3>2, <3>4, <3>5
    <2>6. KeptAt(g, i)'
      BY <1>1, <2>5 DEF KeptAt, Own, Led
    <2>7. QED  BY <2>1, <2>4, <2>6 DEF Holds
  <1>9. ASSUME NEW x \in Nat, NEW u \in Nat, NEW k \in Nat, u < x, Led(g, x), Own(g, u, k)
        PROVE  Agree(g.base[x], g.log[u], k) \/ Blocked(g, u, k)'
    <2>1. u # t
      <3>1. SUFFICES ASSUME u = t PROVE FALSE
        OBVIOUS
      <3>2. k <= LastIndex(log[i]) /\ At(log[i], k).term = t /\ log[i] \in Seq(Entry)
        BY <1>9, <3>1, FieldTypes DEF Own, Installed
      <3>3. k \in 0..LastIndex(log[i])
        BY <3>2, SMTT(60) DEF LastIndex
      <3>4. At(log[i], k).term < t
        BY <3>3 DEF Installed
      <3>5. QED  BY <1>1, <3>2, <3>4, SMTT(60)
    <2>2. Own(h, u, k) /\ g.log[u] = h.log[u]
      BY <1>9, <2>1 DEF Installed, Own, Led
    <2>3. Blocked(h, u, k) => Blocked(g, u, k)'
      BY <1>1, <1>3, BlockedStays
    <2>4. CASE x = t
      <3>1. Runs(h, i, t)
        BY <1>1 DEF Runs
      <3>2. Agree(log[i], h.log[u], k) \/ Blocked(h, u, k)
        BY <1>1, <1>9, <2>2, <2>4, <3>1, ElectComplete
      <3>3. g.base[x] = log[i]
        BY <2>4 DEF Installed
      <3>4. QED  BY <2>2, <2>3, <3>2, <3>3
    <2>5. CASE x # t
      <3>1. Led(h, x) /\ g.base[x] = h.base[x]
        BY <1>9, <2>5 DEF Installed, Led
      <3>2. Agree(h.base[x], h.log[u], k) \/ Blocked(h, u, k)
        BY <1>1, <1>9, <2>2, <3>1 DEF Complete
      <3>3. QED  BY <2>2, <2>3, <3>1, <3>2
    <2>6. QED  BY <2>4, <2>5
  <1>10. Complete(g)'
    BY <1>9 DEF Complete, Led, Own
  <1>11. Known(U)'
    <2>1. KnownVotes(V, U)
      BY NoVotesKnown
    <2>2. QED  BY <1>1, <2>1, KnownKept
  <1>12. OldRuns(h, g)
    <2>1. ASSUME NEW j \in Server, NEW x \in Nat, Runs(g, j, x)'
          PROVE  Runs(h, j, x) /\ log'[j] = log[j]
      <3>1. state'[j] = "Candidate" /\ currentTerm[j] = x /\ ~Led(g, x)
        BY <2>1 DEF Runs, Led
      <3>2. state[j] = "Candidate" /\ x # t
        BY <1>1, <1>6, <3>1
      <3>3. QED  BY <3>1, <3>2 DEF Installed, Runs, Led
    <2>2. QED  BY <2>1 DEF OldRuns
  <1>13. Convinced(U, g)'
    BY <1>2, <1>7, <1>12, ConvincedKept
  <1>14. PeersInv(U, g)'
    BY <1>1, <1>4, <1>5, <1>7, <1>8, <1>10, <1>11, <1>13 DEF PeersInv
  <1>15. QED  BY <1>2, <1>14

=============================================================================
