--------------------------- MODULE EventLogProofs ---------------------------
(***************************************************************************)
(* The event path (module EventLog), for every number of publishers and    *)
(* browsers and every bound: the journal follows the tape, what a browser  *)
(* showed is durable and survives a restart, the path implements Feed, and *)
(* the live copies of the session are the fold of its log.                 *)
(***************************************************************************)
EXTENDS EventLog, WellFoundedInduction, TLAPS

-----------------------------------------------------------------------------
(* The inductive invariant                                                  *)

Cursors == Nat \X Nat
TapeRecs == [n : Nat, pred : Cursors, end : Nat]
Patches == [prev : Cursors, cur : Cursors, n : Nat]
StoreRecs == [init : BOOLEAN, cur : Cursors, recs : Seq(Nat)]
ClientRecs == [pc : {"off", "cut", "on"}, conn : Nat, cut : Cursors, closed : BOOLEAN, queue : Seq(Patches),
               cur : Cursors, recs : Seq(Nat), fetch : {"none", "asked", "answered"}, gotCur : Cursors,
               gotRecs : Seq(Nat)]

\* A publisher's record has the fields of where it is in publish.
Rotated(r) == r = [pc |-> "rotated", first |-> FALSE, to |-> {}, pred |-> r.pred] /\ r.pred \in Cursors
Publishing(r) ==
  /\ r = [pc |-> r.pc, n |-> r.n, lost |-> r.lost, first |-> r.first, to |-> r.to, cur |-> r.cur, pred |-> r.pred]
  /\ r.pc \in {"write", "failed", "apply", "send"} /\ r.n \in Nat /\ r.cur \in Cursors /\ r.pred \in Cursors

PubOK(r) == r = Idle \/ Rotated(r) \/ Publishing(r)

EventTypes ==
  /\ seq \in Nat /\ size \in Nat /\ fails \in Nat
  /\ tape \in Seq(Seq(TapeRecs)) /\ tape # <<>>
  /\ journal \in Seq(Nat) /\ chat \in {"none", "whole", "torn"}
  /\ store \in StoreRecs /\ source \in Cursors
  /\ client \in [Clients -> ClientRecs]
  /\ pub = [p \in Publishers |-> pub[p]]
  /\ \A p \in Publishers : PubOK(pub[p])

\* A generation names an earlier one, or none.
Backward(c, g) == c[2] # 0 => c[1] \in 1 .. g - 1
PredsBackward ==
  /\ \A g \in 1 .. Len(tape) : \A i \in 1 .. Len(tape[g]) : Backward(tape[g][i].pred, g)
  /\ \A p \in Publishers : pub[p].pc \in {"rotated", "write"} => Backward(pub[p].pred, Len(tape))

\* A number that is not written yet is in no file, and is nobody else's.
NumbersNew ==
  /\ \A n \in Logged : n <= seq
  /\ \A p \in Publishers : pub[p].pc = "write" =>
       /\ pub[p].n <= seq /\ pub[p].n \notin Logged
       /\ \A q \in Publishers : pub[q].pc = "write" /\ pub[q].n = pub[p].n => q = p

\* A browser's cut is of a generation there is; what it holds is on the tape.
ClientHolds(r) ==
  /\ r.pc = "cut" => r.cut[1] \in 1 .. Len(tape)
  /\ Range(r.recs) \subseteq Logged /\ Range(r.gotRecs) \subseteq Logged
  /\ \A i \in 1 .. Len(r.queue) : r.queue[i].n \in Logged

\* What was written before it is applied, served, sent and shown.
ShownDurable ==
  /\ \A p \in Publishers : pub[p].pc = "apply" => pub[p].n \in Logged
  /\ Range(store.recs) \subseteq Logged
  /\ \A c \in Clients : ClientHolds(client[c])

JournalFollows ==
  /\ Range(journal) \subseteq Logged
  /\ \A k, m \in 1 .. Len(journal) : k < m => Before(journal[k], journal[m])

\* As long as the process lives and no append failed half way the journal is complete.
JournalComplete ==
  /\ ~partial /\ boot = "up" => Logged \subseteq Range(journal)
  /\ fails = 0 => ~partial /\ boot = "up"
  /\ chat = "none" => journal = <<>>
  /\ chat = "torn" => partial \/ boot \in {"killed", "refused"}

ShownKept ==
  ~partial => \A c \in Clients :
    /\ Range(client[c].recs) \subseteq Range(journal)
    /\ boot = "restored" => Range(client[c].recs) \subseteq Range(store.recs)

EventInv ==
  /\ EventTypes /\ PredsBackward /\ NumbersNew /\ ShownDurable /\ JournalFollows /\ JournalComplete
  /\ ShownKept

-----------------------------------------------------------------------------
(* Numbers and sequences                                                    *)

LEMMA LeastOf ==
  ASSUME NEW T, T \subseteq Nat, T # {}
  PROVE  \E t \in T : \A u \in T : ~(u < t)
<1> DEFINE R == OpToRel(<, Nat)
<1> HIDE DEF R
<1>1. IsWellFoundedOn(R, Nat)
  BY NatLessThanWellFounded, Zenon DEF R
<1>2. PICK t \in T : \A u \in T : ~(<<u, t>> \in R)
  BY <1>1, WFMin
<1>3. \A u \in T : u < t => <<u, t>> \in R
  BY DEF R, OpToRel
<1>4. QED  BY <1>2, <1>3

\* A set of numbers with a bound has a greatest element.
LEMMA GreatestOf ==
  ASSUME NEW S, S \subseteq Nat, S # {}, NEW n \in Nat, \A x \in S : x <= n
  PROVE  Max(S) \in S /\ \A y \in S : Max(S) >= y
<1> DEFINE T == {n - x : x \in S}
<1>0. \A x \in S : x \in Nat /\ x <= n /\ n - x \in Nat
  OBVIOUS
<1>1. T \subseteq Nat /\ T # {}
  BY <1>0
<1>2. PICK t \in T : \A u \in T : ~(u < t)
  <2> HIDE DEF T
  <2>1. QED  BY <1>1, LeastOf
<1>3. PICK x \in S : t = n - x
  BY <1>2
<1>4. \A y \in S : x >= y
  <2>1. TAKE y \in S
  <2>2. n - y \in T
    OBVIOUS
  <2>3. ~(n - y < n - x)
    BY <1>2, <1>3, <2>2
  <2>4. QED  BY <1>0, <2>3
<1>5. QED  BY <1>3, <1>4 DEF Max

LEMMA RangeOf ==
  ASSUME NEW S, NEW s \in Seq(S)
  PROVE  Range(s) = {s[i] : i \in 1 .. Len(s)} /\ Range(s) \subseteq S
  BY DEF Range

LEMMA RangeEmpty == Range(<<>>) = {}
<1>1. DOMAIN <<>> = {}
  OBVIOUS
<1>2. QED  BY <1>1 DEF Range

LEMMA RangeAppend ==
  ASSUME NEW S, NEW s \in Seq(S), NEW x \in S
  PROVE  Append(s, x) \in Seq(S) /\ Range(Append(s, x)) = Range(s) \cup {x}
<1>1. /\ Append(s, x) \in Seq(S) /\ Len(Append(s, x)) = Len(s) + 1 /\ Len(s) \in Nat
      /\ \A i \in 1 .. Len(s) : Append(s, x)[i] = s[i]
      /\ Append(s, x)[Len(s) + 1] = x
  OBVIOUS
<1>2. Range(Append(s, x)) = {Append(s, x)[i] : i \in 1 .. Len(s) + 1}
  BY <1>1, RangeOf
<1>3. 1 .. Len(s) + 1 = (1 .. Len(s)) \cup {Len(s) + 1}
  BY <1>1
<1>4. Range(Append(s, x)) = {Append(s, x)[i] : i \in 1 .. Len(s)} \cup {x}
  BY <1>1, <1>2, <1>3
<1>5. QED  BY <1>1, <1>4, RangeOf

LEMMA RangeConcat ==
  ASSUME NEW S, NEW s \in Seq(S), NEW t \in Seq(S)
  PROVE  s \o t \in Seq(S) /\ Range(s \o t) \subseteq Range(s) \cup Range(t)
<1>1. /\ s \o t \in Seq(S) /\ Len(s \o t) = Len(s) + Len(t) /\ Len(s) \in Nat /\ Len(t) \in Nat
      /\ \A i \in 1 .. Len(s) + Len(t) : (s \o t)[i] = IF i <= Len(s) THEN s[i] ELSE t[i - Len(s)]
  OBVIOUS
<1>2. ASSUME NEW i \in 1 .. Len(s) + Len(t) PROVE (s \o t)[i] \in Range(s) \cup Range(t)
  <2>1. CASE i <= Len(s)
    BY <1>1, <2>1, RangeOf
  <2>2. CASE i > Len(s)
    <3>1. i - Len(s) \in 1 .. Len(t) /\ (s \o t)[i] = t[i - Len(s)]
      BY <1>1, <2>2
    <3>2. QED  BY <3>1, RangeOf
  <2>3. QED  BY <1>1, <2>1, <2>2
<1>3. Range(s \o t) = {(s \o t)[i] : i \in 1 .. Len(s) + Len(t)}
  BY <1>1, RangeOf
<1>4. QED  BY <1>1, <1>2, <1>3

-----------------------------------------------------------------------------
(* What is read from the files                                              *)

TapeTypes == tape \in Seq(Seq(TapeRecs)) /\ tape # <<>>

LEMMA TapeAt ==
  ASSUME TapeTypes
  PROVE  /\ Len(tape) \in Nat /\ Len(tape) >= 1
         /\ \A g \in 1 .. Len(tape) :
              /\ tape[g] \in Seq(TapeRecs) /\ Len(tape[g]) \in Nat
              /\ \A i \in 1 .. Len(tape[g]) : /\ tape[g][i] \in TapeRecs /\ tape[g][i].n \in Nat
                                              /\ tape[g][i].end \in Nat /\ tape[g][i].pred \in Cursors
<1>1. Len(tape) \in Nat /\ Len(tape) >= 1 /\ \A g \in 1 .. Len(tape) : tape[g] \in Seq(TapeRecs)
  BY DEF TapeTypes
<1>2. \A r \in TapeRecs : r.n \in Nat /\ r.end \in Nat /\ r.pred \in Cursors
  BY DEF TapeRecs
<1>3. ASSUME NEW s \in Seq(TapeRecs) PROVE Len(s) \in Nat /\ \A i \in 1 .. Len(s) : s[i] \in TapeRecs
  OBVIOUS
<1>4. QED  BY <1>1, <1>2, <1>3

LEMMA NumbersIn ==
  ASSUME NEW t \in Seq(Seq(TapeRecs)), NEW n
  PROVE  n \in {r.n : r \in UNION {Range(t[g]) : g \in 1 .. Len(t)}}
           <=> \E g \in 1 .. Len(t) : \E i \in 1 .. Len(t[g]) : t[g][i].n = n
<1>1. \A g \in 1 .. Len(t) : Range(t[g]) = {t[g][i] : i \in 1 .. Len(t[g])}
  <2>1. TAKE g \in 1 .. Len(t)
  <2>2. t[g] \in Seq(TapeRecs)
    OBVIOUS
  <2>3. QED  BY <2>2, RangeOf
<1>2. n \in {r.n : r \in UNION {Range(t[g]) : g \in 1 .. Len(t)}} <=> \E g \in 1 .. Len(t) : \E r \in Range(t[g]) : r.n = n
  OBVIOUS
<1>3. ASSUME NEW g \in 1 .. Len(t) PROVE (\E r \in Range(t[g]) : r.n = n) <=> \E i \in 1 .. Len(t[g]) : t[g][i].n = n
  <2>1. Range(t[g]) = {t[g][i] : i \in 1 .. Len(t[g])}
    BY <1>1
  <2>2. QED  BY <2>1
<1>4. QED  BY <1>2, <1>3

LEMMA LoggedAt ==
  ASSUME TapeTypes
  PROVE  /\ Logged \subseteq Nat
         /\ \A n : n \in Logged <=> \E g \in 1 .. Len(tape) : \E i \in 1 .. Len(tape[g]) : tape[g][i].n = n
<1>1. \A n : n \in Logged <=> \E g \in 1 .. Len(tape) : \E i \in 1 .. Len(tape[g]) : tape[g][i].n = n
  <2>1. TAKE n
  <2>2. tape \in Seq(Seq(TapeRecs))
    BY DEF TapeTypes
  <2>3. QED  BY <2>2, NumbersIn, Zenon DEF Logged
<1>2. QED  BY <1>1, TapeAt

LEMMA LoggedNext ==
  ASSUME TapeTypes'
  PROVE  \A n : n \in Logged' <=> \E g \in 1 .. Len(tape') : \E i \in 1 .. Len(tape'[g]) : tape'[g][i].n = n
<1>1. TAKE n
<1>2. tape' \in Seq(Seq(TapeRecs))
  BY DEF TapeTypes
<1>3. QED  BY <1>2, NumbersIn, Zenon DEF Logged

LEMMA LoggedNextTo ==
  ASSUME TapeTypes', NEW l, Len(tape') = l
  PROVE  \A n : n \in Logged' <=> \E g \in 1 .. l : \E i \in 1 .. Len(tape'[g]) : tape'[g][i].n = n
<1>1. \A n : n \in Logged' <=> \E g \in 1 .. Len(tape') : \E i \in 1 .. Len(tape'[g]) : tape'[g][i].n = n
  BY LoggedNext, Zenon
<1>2. QED  BY <1>1, Zenon

\* A prefix of a generation has its records, and their numbers.
LEMMA PrefixOf ==
  ASSUME TapeTypes, NEW g \in 1 .. Len(tape), NEW off
  PROVE  \E m \in 0 .. Len(tape[g]) : /\ Prefix(g, off) = SubSeq(tape[g], 1, m)
                                      /\ Prefix(g, off) \in Seq(TapeRecs) /\ Len(Prefix(g, off)) = m
                                      /\ \A i \in 1 .. m : Prefix(g, off)[i] = tape[g][i]
<1>1. PICK S : S = {0} \cup {i \in 1 .. Len(tape[g]) : tape[g][i].end <= off}
  OBVIOUS
<1>2. S \subseteq Nat /\ S # {} /\ Len(tape[g]) \in Nat /\ \A x \in S : x <= Len(tape[g])
  BY <1>1, TapeAt
<1>3. Max(S) \in S
  BY <1>2, GreatestOf
<1>4. Max(S) \in 0 .. Len(tape[g])
  <2>1. \A x \in S : x \in Nat /\ x <= Len(tape[g])
    BY <1>2
  <2>2. PICK x \in S : x = Max(S)
    BY <1>3
  <2>3. x \in Nat /\ x <= Len(tape[g]) /\ Len(tape[g]) \in Nat
    BY <1>2, <2>1
  <2>4. x \in 0 .. Len(tape[g])
    BY <2>3
  <2>5. QED  BY <2>2, <2>4
<1>5. Prefix(g, off) = SubSeq(tape[g], 1, Max(S))
  BY <1>1 DEF Prefix
<1>6. tape[g] \in Seq(TapeRecs)
  BY TapeAt
<1>7. ASSUME NEW m \in 0 .. Len(tape[g])
      PROVE  /\ SubSeq(tape[g], 1, m) \in Seq(TapeRecs) /\ Len(SubSeq(tape[g], 1, m)) = m
             /\ \A i \in 1 .. m : SubSeq(tape[g], 1, m)[i] = tape[g][i]
  BY <1>2, <1>6
<1>8. QED  BY <1>4, <1>5, <1>7

LEMMA UptoOf ==
  ASSUME TapeTypes, NEW g \in 1 .. Len(tape), NEW off
  PROVE  /\ Upto(g, off) \in Seq(TapeRecs) /\ Len(Upto(g, off)) \in 0 .. Len(tape[g])
         /\ \A i \in 1 .. Len(Upto(g, off)) : Upto(g, off)[i] = tape[g][i]
<1>1. CASE off = 0
  BY <1>1, TapeAt DEF Upto
<1>2. CASE off # 0
  BY <1>2, PrefixOf DEF Upto
<1>3. QED  BY <1>1, <1>2

\* The numbers of records that are all on the tape.
LEMMA RecordsLogged ==
  ASSUME TapeTypes, NEW g \in 1 .. Len(tape), NEW rs \in Seq(TapeRecs), Len(rs) <= Len(tape[g]),
         \A i \in 1 .. Len(rs) : rs[i] = tape[g][i]
  PROVE  Records(rs) \in Seq(Nat) /\ Len(Records(rs)) = Len(rs) /\ Range(Records(rs)) \subseteq Logged
<1>1. Len(rs) \in Nat /\ Len(tape[g]) \in Nat
  BY TapeAt
<1>2. \A i \in 1 .. Len(rs) : i \in 1 .. Len(tape[g]) /\ rs[i].n = tape[g][i].n /\ rs[i].n \in Nat
  BY <1>1, TapeAt
<1>3. Records(rs) = [i \in 1 .. Len(rs) |-> rs[i].n]
  BY DEF Records
<1>4. Records(rs) \in Seq(Nat) /\ Len(Records(rs)) = Len(rs)
  BY <1>1, <1>2, <1>3
<1>5. ASSUME NEW i \in 1 .. Len(rs) PROVE Records(rs)[i] \in Logged
  <2>1. i \in 1 .. Len(tape[g]) /\ Records(rs)[i] = tape[g][i].n
    BY <1>2, <1>3
  <2>2. \E h \in 1 .. Len(tape) : \E k \in 1 .. Len(tape[h]) : tape[h][k].n = Records(rs)[i]
    BY <2>1, Zenon
  <2>3. QED  BY <2>2, LoggedAt, Zenon
<1>6. QED  BY <1>4, <1>5, RangeOf

LEMMA UptoLogged ==
  ASSUME TapeTypes, NEW g \in 1 .. Len(tape), NEW off
  PROVE  Records(Upto(g, off)) \in Seq(Nat) /\ Range(Records(Upto(g, off))) \subseteq Logged
<1>1. PICK rs : rs = Upto(g, off)
  OBVIOUS
<1>2. rs \in Seq(TapeRecs) /\ Len(rs) \in 0 .. Len(tape[g]) /\ \A i \in 1 .. Len(rs) : rs[i] = tape[g][i]
  BY <1>1, UptoOf
<1>3. Len(rs) <= Len(tape[g])
  BY <1>2, TapeAt
<1>4. QED  BY <1>1, <1>2, <1>3, RecordsLogged

-----------------------------------------------------------------------------
(* What is folded: the recursion over the generations is well defined, and  *)
(* all it folds is on the tape                                              *)

CarriedStep(f, g) ==
  IF g = 0 \/ Pred(g) = NoCursor THEN [ok |-> TRUE, recs |-> <<>>]
  ELSE [ok |-> f[Pred(g)[1]].ok /\ Boundary(Pred(g)[1], Pred(g)[2]) /\ Pred(g)[1] \notin gone,
        recs |-> f[Pred(g)[1]].recs \o Records(Upto(Pred(g)[1], Pred(g)[2]))]

LEMMA CarriedChosen == Carried = CHOOSE f : f = [g \in 0 .. Len(tape) |-> CarriedStep(f, g)]
  BY Zenon DEF Carried, CarriedStep

LEMMA PredEarlier ==
  ASSUME TapeTypes, PredsBackward, NEW g \in 1 .. Len(tape), Pred(g) # NoCursor
  PROVE  Pred(g)[1] \in 1 .. g - 1 /\ Pred(g)[2] \in Nat /\ Pred(g)[2] # 0
<1>1. tape[g] # <<>> /\ tape[g][1].pred[2] # 0 /\ Pred(g) = tape[g][1].pred
  BY DEF Pred
<1>2. 1 \in 1 .. Len(tape[g])
  <2>1. tape[g] \in Seq(TapeRecs)
    BY TapeAt
  <2>2. QED  BY <1>1, <2>1
<1>3. tape[g][1].pred \in Cursors /\ Backward(tape[g][1].pred, g)
  BY <1>2, TapeAt DEF PredsBackward
<1>4. QED  BY <1>1, <1>3 DEF Backward, Cursors

LEMMA CarriedUnfolds ==
  ASSUME TapeTypes, PredsBackward
  PROVE  Carried = [g \in 0 .. Len(tape) |-> CarriedStep(Carried, g)]
<1> DEFINE Unfolds(h, n) == h = [g \in 0 .. n |-> CarriedStep(h, g)]
           T == {n \in 0 .. Len(tape) : ~ \E h : Unfolds(h, n)}
<1>0. Len(tape) \in Nat
  BY TapeAt
<1>1. SUFFICES T = {}
  <2>1. Len(tape) \in 0 .. Len(tape)
    BY <1>0
  <2>2. T = {} => \E h : Unfolds(h, Len(tape))
    BY <2>1
  <2>3. (\E h : Unfolds(h, Len(tape))) => Unfolds(Carried, Len(tape))
    BY CarriedChosen, Zenon
  <2>4. QED  BY <2>2, <2>3
<1>2. SUFFICES ASSUME T # {} PROVE FALSE
  OBVIOUS
<1>3. T \subseteq Nat
  BY <1>0
<1>4. PICK n \in T : \A u \in T : ~(u < n)
  <2> HIDE DEF T
  <2>1. QED  BY <1>2, <1>3, LeastOf
<1>5. n \in 0 .. Len(tape) /\ n \in Nat
  BY <1>3, <1>4
<1>6. n # 0
  <2>1. SUFFICES ASSUME n = 0 PROVE FALSE
    OBVIOUS
  <2>2. PICK h : h = [g \in 0 .. 0 |-> [ok |-> TRUE, recs |-> <<>>]]
    OBVIOUS
  <2>3. \A g \in 0 .. 0 : CarriedStep(h, g) = [ok |-> TRUE, recs |-> <<>>]
    BY DEF CarriedStep
  <2>4. Unfolds(h, 0)
    BY <2>2, <2>3
  <2>5. QED  BY <1>4, <2>1, <2>4
<1>7. n - 1 \in 0 .. Len(tape) /\ n - 1 < n
  BY <1>0, <1>5, <1>6
<1>8. PICK h : Unfolds(h, n - 1)
  BY <1>4, <1>7
<1>9. PICK e : e = [g \in 0 .. n |-> IF g < n THEN h[g] ELSE CarriedStep(h, n)]
  OBVIOUS
<1>10. \A g \in 0 .. n - 1 : e[g] = h[g]
  BY <1>5, <1>9
<1>11. ASSUME NEW g \in 0 .. n PROVE CarriedStep(e, g) = CarriedStep(h, g)
  <2>1. CASE g = 0 \/ Pred(g) = NoCursor
    BY <2>1 DEF CarriedStep
  <2>2. CASE ~(g = 0 \/ Pred(g) = NoCursor)
    <3>1. g \in 1 .. Len(tape)
      BY <1>0, <1>5, <2>2
    <3>2. Pred(g)[1] \in 1 .. g - 1
      BY <3>1, <2>2, PredEarlier
    <3>3. Pred(g)[1] \in 0 .. n - 1
      BY <1>5, <3>1, <3>2
    <3>4. e[Pred(g)[1]] = h[Pred(g)[1]]
      BY <1>10, <3>3
    <3>5. QED  BY <3>4, Zenon DEF CarriedStep
  <2>3. QED  BY <2>1, <2>2
<1>12. ASSUME NEW g \in 0 .. n PROVE e[g] = CarriedStep(e, g)
  <2>1. CASE g < n
    <3>1. g \in 0 .. n - 1
      BY <1>5, <2>1
    <3>2. h[g] = CarriedStep(h, g)
      BY <1>8, <3>1
    <3>3. QED  BY <1>10, <1>11, <3>1, <3>2
  <2>2. CASE g = n
    <3>1. e[g] = CarriedStep(h, n)
      BY <1>5, <1>9, <2>2
    <3>2. QED  BY <1>11, <2>2, <3>1
  <2>3. QED  BY <1>5, <2>1, <2>2
<1>13. DOMAIN e = 0 .. n /\ e = [g \in 0 .. n |-> e[g]]
  BY <1>9
<1>14. Unfolds(e, n)
  BY <1>12, <1>13
<1>15. QED  BY <1>4, <1>14

LEMMA CarriedAt ==
  ASSUME TapeTypes, PredsBackward
  PROVE  \A g \in 0 .. Len(tape) : Carried[g] = CarriedStep(Carried, g)
<1>1. PICK f : f = Carried
  OBVIOUS
<1>2. f = [g \in 0 .. Len(tape) |-> CarriedStep(f, g)]
  BY <1>1, CarriedUnfolds
<1>3. QED  BY <1>1, <1>2

LEMMA CarriedLogged ==
  ASSUME TapeTypes, PredsBackward
  PROVE  \A g \in 0 .. Len(tape) : Carried[g].recs \in Seq(Nat) /\ Range(Carried[g].recs) \subseteq Logged
<1> DEFINE Good(g) == Carried[g].recs \in Seq(Nat) /\ Range(Carried[g].recs) \subseteq Logged
           T == {g \in 0 .. Len(tape) : ~Good(g)}
<1>0. Len(tape) \in Nat
  BY TapeAt
<1>1. SUFFICES ASSUME T # {} PROVE FALSE
  OBVIOUS
<1>2. PICK g \in T : \A u \in T : ~(u < g)
  <2>1. T \subseteq Nat
    BY <1>0
  <2> HIDE DEF T
  <2>2. QED  BY <1>1, <2>1, LeastOf
<1>3. g \in 0 .. Len(tape) /\ g \in Nat /\ ~Good(g)
  BY <1>0, <1>2
<1>4. Carried[g] = CarriedStep(Carried, g)
  BY <1>3, CarriedAt
<1>5. CASE g = 0 \/ Pred(g) = NoCursor
  <2>1. Carried[g].recs = <<>>
    BY <1>4, <1>5 DEF CarriedStep
  <2>2. <<>> \in Seq(Nat)
    OBVIOUS
  <2>3. QED  BY <1>3, <2>1, <2>2, RangeEmpty
<1>6. CASE ~(g = 0 \/ Pred(g) = NoCursor)
  <2>1. PICK a, b : a = Carried[Pred(g)[1]].recs /\ b = Records(Upto(Pred(g)[1], Pred(g)[2]))
    OBVIOUS
  <2>2. Carried[g].recs = a \o b
    <3>1. PICK o : o = (Carried[Pred(g)[1]].ok /\ Boundary(Pred(g)[1], Pred(g)[2]) /\ Pred(g)[1] \notin gone)
      OBVIOUS
    <3>2. CarriedStep(Carried, g) = [ok |-> o, recs |-> a \o b]
      BY <1>6, <2>1, <3>1, Zenon DEF CarriedStep
    <3>3. QED  BY <1>4, <3>2
  <2>3. g \in 1 .. Len(tape)
    BY <1>3, <1>6
  <2>4. Pred(g)[1] \in 1 .. g - 1
    BY <1>6, <2>3, PredEarlier
  <2>5. Pred(g)[1] \in 1 .. Len(tape) /\ Pred(g)[1] \in 0 .. Len(tape) /\ Pred(g)[1] < g
    BY <1>0, <1>3, <2>3, <2>4
  <2>6. Good(Pred(g)[1])
    BY <1>2, <2>5
  <2>7. a \in Seq(Nat) /\ Range(a) \subseteq Logged
    BY <2>1, <2>6
  <2>8. b \in Seq(Nat) /\ Range(b) \subseteq Logged
    BY <2>1, <2>5, UptoLogged
  <2>9. a \o b \in Seq(Nat) /\ Range(a \o b) \subseteq Range(a) \cup Range(b)
    BY <2>7, <2>8, RangeConcat
  <2>10. QED  BY <1>3, <2>2, <2>7, <2>8, <2>9
<1>7. QED  BY <1>5, <1>6

LEMMA ProjectedLogged ==
  ASSUME TapeTypes, PredsBackward, NEW c \in Cursors, c[1] \in 1 .. Len(tape)
  PROVE  /\ ProjectFile(c).cur \in Cursors /\ ProjectFile(c).recs \in Seq(Nat)
         /\ Range(ProjectFile(c).recs) \subseteq Logged
<1>1. PICK rs : rs = Upto(c[1], c[2])
  OBVIOUS
<1>2. ProjectFile(c).cur = <<c[1], IF rs = <<>> THEN c[2] ELSE Last(rs).end>>
  BY <1>1 DEF ProjectFile
<1>3. ProjectFile(c).recs = Carried[c[1]].recs \o Records(rs)
  BY <1>1 DEF ProjectFile
<1>4. rs \in Seq(TapeRecs) /\ Records(rs) \in Seq(Nat) /\ Range(Records(rs)) \subseteq Logged
  BY <1>1, UptoOf, UptoLogged
<1>5. c[1] \in Nat /\ c[2] \in Nat /\ c[1] \in 0 .. Len(tape)
  BY TapeAt DEF Cursors
<1>6. ProjectFile(c).cur \in Cursors
  <2>1. CASE rs = <<>>
    BY <1>2, <1>5, <2>1 DEF Cursors
  <2>2. CASE rs # <<>>
    <3>1. Last(rs) \in TapeRecs
      BY <1>4, <2>2 DEF Last
    <3>2. Last(rs).end \in Nat
      BY <3>1 DEF TapeRecs
    <3>3. QED  BY <1>2, <1>5, <2>2, <3>2 DEF Cursors
  <2>3. QED  BY <2>1, <2>2
<1>7. PICK a, b : a = Carried[c[1]].recs /\ b = Records(rs)
  OBVIOUS
<1>8. a \in Seq(Nat) /\ Range(a) \subseteq Logged /\ b \in Seq(Nat) /\ Range(b) \subseteq Logged
  BY <1>4, <1>5, <1>7, CarriedLogged
<1>9. a \o b \in Seq(Nat) /\ Range(a \o b) \subseteq Range(a) \cup Range(b)
  BY <1>8, RangeConcat
<1>10. QED  BY <1>3, <1>6, <1>7, <1>8, <1>9

\* Whatever the store serves is on the tape.
LEMMA ServedLogged ==
  ASSUME EventInv, NEW cut \in Cursors, cut[1] \in 1 .. Len(tape)
  PROVE  /\ SourceAfter(cut) \in Cursors
         /\ Served(cut).ok => /\ Served(cut).cur \in Cursors /\ Served(cut).recs \in Seq(Nat)
                              /\ Range(Served(cut).recs) \subseteq Logged
<1>1. TapeTypes /\ PredsBackward /\ source \in Cursors /\ store \in StoreRecs /\ Range(store.recs) \subseteq Logged
  BY DEF EventInv, EventTypes, TapeTypes, ShownDurable
<1>2. PICK src : src = SourceAfter(cut)
  OBVIOUS
<1>3. src \in Cursors /\ src[1] = cut[1]
  BY <1>1, <1>2 DEF SourceAfter
<1>4. CASE Fresh(src)
  <2>1. Served(cut).cur = store.cur /\ Served(cut).recs = store.recs
    BY <1>2, <1>4 DEF Served
  <2>2. QED  BY <1>1, <1>2, <1>3, <2>1 DEF StoreRecs
<1>5. CASE ~Fresh(src)
  <2>1. Served(cut) = ProjectFile(src)
    BY <1>2, <1>5 DEF Served
  <2>2. QED  BY <1>1, <1>2, <1>3, <2>1, ProjectedLogged
<1>6. QED  BY <1>4, <1>5

-----------------------------------------------------------------------------
(* What a step changes                                                      *)

LEMMA PubIs ==
  ASSUME NEW r, PubOK(r)
  PROVE  /\ r.pc \in {"write", "failed", "apply", "send"} => Publishing(r)
         /\ r.pc = "rotated" => Rotated(r)
         /\ r.pc = "idle" => r = Idle
<1>1. Idle.pc = "idle"
  BY DEF Idle
<1>2. Rotated(r) => r.pc = "rotated"
  BY DEF Rotated
<1>3. Publishing(r) => r.pc \in {"write", "failed", "apply", "send"}
  BY DEF Publishing
<1>4. QED  BY <1>1, <1>2, <1>3 DEF PubOK

LEMMA IdleIs == PubOK(Idle) /\ Idle.pc = "idle"
  BY DEF PubOK, Idle

\* The fields of a publisher that a step sets.
LEMMA FailedSet ==
  ASSUME NEW r, Publishing(r), NEW q, q = [r EXCEPT !.pc = "failed"]
  PROVE  PubOK(q) /\ q.pc = "failed"
<1>1. /\ r = [pc |-> r.pc, n |-> r.n, lost |-> r.lost, first |-> r.first, to |-> r.to, cur |-> r.cur, pred |-> r.pred]
      /\ r.n \in Nat /\ r.cur \in Cursors /\ r.pred \in Cursors
  BY DEF Publishing
<1>2. q = [pc |-> "failed", n |-> r.n, lost |-> r.lost, first |-> r.first, to |-> r.to, cur |-> r.cur, pred |-> r.pred]
  BY <1>1
<1>3. QED  BY <1>1, <1>2 DEF PubOK, Publishing

\* A publisher whose record is written, and has its cursor.
Written(r, x) == [r EXCEPT !.pc = "apply", !.cur = x]

LEMMA ApplySet ==
  ASSUME NEW r, Publishing(r), NEW x \in Cursors
  PROVE  PubOK(Written(r, x)) /\ Written(r, x).pc = "apply" /\ Written(r, x).n = r.n
<1>1. /\ r = [pc |-> r.pc, n |-> r.n, lost |-> r.lost, first |-> r.first, to |-> r.to, cur |-> r.cur, pred |-> r.pred]
      /\ r.n \in Nat /\ r.cur \in Cursors /\ r.pred \in Cursors
  BY DEF Publishing
<1>2. PICK q : q = [r EXCEPT !.pc = "apply", !.cur = x]
  OBVIOUS
<1>3. q = [pc |-> "apply", n |-> r.n, lost |-> r.lost, first |-> r.first, to |-> r.to, cur |-> x, pred |-> r.pred]
  BY <1>1, <1>2
<1>4. PubOK(q) /\ q.pc = "apply" /\ q.n = r.n
  BY <1>1, <1>3 DEF PubOK, Publishing
<1>5. QED  BY <1>2, <1>4, Zenon DEF Written

LEMMA NoCursorIs == NoCursor \in Cursors /\ NoCursor[1] = 0 /\ NoCursor[2] = 0
  BY DEF NoCursor, Cursors

LEMMA RestIs == \A q : PubOK(q) /\ q.pc = "send" => PubOK(Rest(q)) /\ Rest(q).pc \in {"send", "idle"}
  BY IdleIs DEF Rest

LEMMA SendSet ==
  ASSUME NEW r, Publishing(r), NEW q, q = [r EXCEPT !.pc = "send", !.cur = NoCursor, !.pred = NoCursor]
  PROVE  PubOK(Rest(q)) /\ Rest(q).pc \in {"send", "idle"}
<1>1. /\ r = [pc |-> r.pc, n |-> r.n, lost |-> r.lost, first |-> r.first, to |-> r.to, cur |-> r.cur, pred |-> r.pred]
      /\ r.n \in Nat /\ r.cur \in Cursors /\ r.pred \in Cursors
  BY DEF Publishing
<1>2. q = [pc |-> "send", n |-> r.n, lost |-> r.lost, first |-> r.first, to |-> r.to, cur |-> NoCursor, pred |-> NoCursor]
  BY <1>1
<1>3. PubOK(q) /\ q.pc = "send"
  BY <1>1, <1>2, NoCursorIs DEF PubOK, Publishing
<1>4. QED  BY <1>3, RestIs

LEMMA LostSet ==
  ASSUME NEW r, Publishing(r), NEW q, q = [r EXCEPT !.pc = "send", !.lost = TRUE]
  PROVE  PubOK(q) /\ q.pc = "send"
<1>1. /\ r = [pc |-> r.pc, n |-> r.n, lost |-> r.lost, first |-> r.first, to |-> r.to, cur |-> r.cur, pred |-> r.pred]
      /\ r.n \in Nat /\ r.cur \in Cursors /\ r.pred \in Cursors
  BY DEF Publishing
<1>2. q = [pc |-> "send", n |-> r.n, lost |-> TRUE, first |-> r.first, to |-> r.to, cur |-> r.cur, pred |-> r.pred]
  BY <1>1
<1>3. QED  BY <1>1, <1>2 DEF PubOK, Publishing

LEMMA SentSet ==
  ASSUME NEW r, Publishing(r), r.pc = "send", NEW l, NEW t, NEW q, q = [r EXCEPT !.lost = l, !.to = t]
  PROVE  PubOK(Rest(q)) /\ Rest(q).pc \in {"send", "idle"}
<1>1. /\ r = [pc |-> "send", n |-> r.n, lost |-> r.lost, first |-> r.first, to |-> r.to, cur |-> r.cur, pred |-> r.pred]
      /\ r.n \in Nat /\ r.cur \in Cursors /\ r.pred \in Cursors
  BY DEF Publishing
<1>2. q = [pc |-> "send", n |-> r.n, lost |-> l, first |-> r.first, to |-> t, cur |-> r.cur, pred |-> r.pred]
  BY <1>1
<1>3. PubOK(q) /\ q.pc = "send"
  BY <1>1, <1>2 DEF PubOK, Publishing
<1>4. QED  BY <1>3, RestIs

LEMMA PubSet ==
  ASSUME EventTypes, NEW p \in Publishers, NEW r, PubOK(r), pub' = [pub EXCEPT ![p] = r]
  PROVE  /\ pub' = [k \in Publishers |-> pub'[k]] /\ \A k \in Publishers : PubOK(pub'[k])
         /\ pub'[p] = r /\ \A k \in Publishers \ {p} : pub'[k] = pub[k]
<1>1. pub = [k \in Publishers |-> pub[k]]
  BY DEF EventTypes
<1>2. pub' = [k \in Publishers |-> IF k = p THEN r ELSE pub[k]]
  BY <1>1
<1>3. \A k \in Publishers : pub'[k] = IF k = p THEN r ELSE pub[k]
  BY <1>2
<1>4. pub' = [k \in Publishers |-> pub'[k]]
  BY <1>2
<1>5. QED  BY <1>3, <1>4 DEF EventTypes

\* The tape does not change, a record is added, a generation is added.
LEMMA TapeStays == UNCHANGED tape => Logged' = Logged /\ \A a, b : Before(a, b)' <=> Before(a, b)
  BY DEF Logged, Before

LEMMA TapeGrows ==
  ASSUME TapeTypes, NEW r \in TapeRecs, tape' = [tape EXCEPT ![Len(tape)] = Append(@, r)]
  PROVE  /\ TapeTypes' /\ Len(tape') = Len(tape)
         /\ \A g \in 1 .. Len(tape) - 1 : tape'[g] = tape[g]
         /\ tape'[Len(tape)] = Append(tape[Len(tape)], r)
         /\ Logged' = Logged \cup {r.n}
         /\ \A a, b : Before(a, b) => Before(a, b)'
         /\ \A a \in Logged : Before(a, r.n)'
<1> DEFINE l == Len(tape)
           m == Len(tape[l])
<1>1. l \in 1 .. l /\ l \in Nat /\ l # 0 /\ tape[l] \in Seq(TapeRecs) /\ m \in Nat /\ tape \in Seq(Seq(TapeRecs))
  BY TapeAt DEF TapeTypes
<1>2. /\ Append(tape[l], r) \in Seq(TapeRecs) /\ Len(Append(tape[l], r)) = m + 1
      /\ \A i \in 1 .. m : Append(tape[l], r)[i] = tape[l][i]
      /\ Append(tape[l], r)[m + 1] = r
  BY <1>1
<1>3. /\ tape' \in Seq(Seq(TapeRecs)) /\ Len(tape') = l
      /\ \A g \in 1 .. l - 1 : tape'[g] = tape[g]
      /\ tape'[l] = Append(tape[l], r)
  BY <1>1, <1>2
<1>4. TapeTypes'
  <2>1. tape' # <<>>
    <3>1. Len(<<>>) = 0
      OBVIOUS
    <3>2. Len(tape') # 0
      BY <1>1, <1>3
    <3>3. QED  BY <3>1, <3>2
  <2>2. QED  BY <1>3, <2>1 DEF TapeTypes
<1>5. /\ \A g \in 1 .. l : \A i \in 1 .. Len(tape[g]) : i \in 1 .. Len(tape'[g]) /\ tape'[g][i] = tape[g][i]
      /\ m + 1 \in 1 .. Len(tape'[l]) /\ tape'[l][m + 1] = r
      /\ \A g \in 1 .. l : \A i \in 1 .. Len(tape'[g]) :
           (g = l /\ i = m + 1) \/ (i \in 1 .. Len(tape[g]) /\ tape'[g][i] = tape[g][i])
  <2>1. \A g \in 1 .. l : g = l \/ g \in 1 .. l - 1
    BY <1>1
  <2>2. Len(tape'[l]) = m + 1 /\ tape'[l][m + 1] = r /\ \A i \in 1 .. m : tape'[l][i] = tape[l][i]
    BY <1>2, <1>3
  <2>3. \A i \in 1 .. m + 1 : i = m + 1 \/ i \in 1 .. m
    BY <1>1
  <2>4. \A i \in 1 .. m : i \in 1 .. m + 1
    BY <1>1
  <2>5. m + 1 \in 1 .. m + 1
    BY <1>1
  <2>6. QED  BY <1>3, <2>1, <2>2, <2>3, <2>4, <2>5, Zenon
<1>6. Logged' = Logged \cup {r.n}
  <2>1. \A n : n \in Logged' <=> \E g \in 1 .. l : \E i \in 1 .. Len(tape'[g]) : tape'[g][i].n = n
    <3>1. PICK k : k = l
      OBVIOUS
    <3>2. TapeTypes' /\ Len(tape') = k
      BY <1>3, <1>4, <3>1, Zenon
    <3>3. \A n : n \in Logged' <=> \E g \in 1 .. k : \E i \in 1 .. Len(tape'[g]) : tape'[g][i].n = n
      BY <3>2, LoggedNextTo, SMTT(20)
    <3>4. QED  BY <3>1, <3>3, Zenon
  <2>2. \A n : n \in Logged => n \in Logged'
    BY <1>5, <2>1, LoggedAt
  <2>3. r.n \in Logged'
    <3>1. \E i \in 1 .. Len(tape'[l]) : tape'[l][i].n = r.n
      BY <1>5
    <3>2. \E g \in 1 .. l : \E i \in 1 .. Len(tape'[g]) : tape'[g][i].n = r.n
      BY <1>1, <3>1
    <3>3. QED  BY <2>1, <3>2
  <2>4. \A n : n \in Logged' => n \in Logged \/ n = r.n
    BY <1>5, <2>1, LoggedAt
  <2>5. QED  BY <2>2, <2>3, <2>4
<1>7. ASSUME NEW a, NEW b, Before(a, b) PROVE Before(a, b)'
  <2>1. PICK g \in 1 .. l, h \in 1 .. l : \E i \in 1 .. Len(tape[g]), j \in 1 .. Len(tape[h]) :
            tape[g][i].n = a /\ tape[h][j].n = b /\ (g < h \/ (g = h /\ i < j))
    BY <1>7 DEF Before
  <2>2. PICK i \in 1 .. Len(tape[g]), j \in 1 .. Len(tape[h]) :
            tape[g][i].n = a /\ tape[h][j].n = b /\ (g < h \/ (g = h /\ i < j))
    BY <2>1
  <2>3. /\ i \in 1 .. Len(tape'[g]) /\ j \in 1 .. Len(tape'[h]) /\ g \in 1 .. Len(tape') /\ h \in 1 .. Len(tape')
        /\ tape'[g][i].n = a /\ tape'[h][j].n = b
    BY <1>3, <1>5, <2>2
  <2>4. QED  BY <2>2, <2>3 DEF Before
<1>8. ASSUME NEW a \in Logged PROVE Before(a, r.n)'
  <2>1. PICK g \in 1 .. l : \E i \in 1 .. Len(tape[g]) : tape[g][i].n = a
    BY LoggedAt
  <2>2. PICK i \in 1 .. Len(tape[g]) : tape[g][i].n = a
    BY <2>1
  <2>3. /\ i \in 1 .. Len(tape'[g]) /\ m + 1 \in 1 .. Len(tape'[l]) /\ g \in 1 .. Len(tape') /\ l \in 1 .. Len(tape')
        /\ tape'[g][i].n = a /\ tape'[l][m + 1].n = r.n
    BY <1>1, <1>3, <1>5, <2>2
  <2>4. g < l \/ (g = l /\ i < m + 1)
    BY <1>1, TapeAt
  <2>5. QED  BY <2>3, <2>4 DEF Before
<1>9. QED  BY <1>3, <1>4, <1>6, <1>7, <1>8

LEMMA TapeRotates ==
  ASSUME TapeTypes, tape' = Append(tape, <<>>)
  PROVE  /\ TapeTypes' /\ Len(tape') = Len(tape) + 1
         /\ \A g \in 1 .. Len(tape) : tape'[g] = tape[g]
         /\ tape'[Len(tape) + 1] = <<>>
         /\ Logged' = Logged
         /\ \A a, b : Before(a, b) => Before(a, b)'
<1> DEFINE l == Len(tape)
<1>1. l \in Nat /\ l >= 1 /\ tape \in Seq(Seq(TapeRecs)) /\ <<>> \in Seq(TapeRecs)
  BY TapeAt DEF TapeTypes
<1>2. /\ tape' \in Seq(Seq(TapeRecs)) /\ Len(tape') = l + 1
      /\ \A g \in 1 .. l : tape'[g] = tape[g]
      /\ tape'[l + 1] = <<>>
  BY <1>1
<1>3. TapeTypes'
  BY <1>1, <1>2 DEF TapeTypes
<1>4. 1 .. Len(<<>>) = {}
  OBVIOUS
<1>5. Logged' = Logged
  <2>1. \A n : n \in Logged' <=> \E g \in 1 .. l + 1 : \E i \in 1 .. Len(tape'[g]) : tape'[g][i].n = n
    BY <1>2, <1>3, LoggedNext
  <2>2. \A n : n \in Logged' <=> \E g \in 1 .. l : \E i \in 1 .. Len(tape'[g]) : tape'[g][i].n = n
    <3>1. \A g \in 1 .. l + 1 : g \in 1 .. l \/ g = l + 1
      BY <1>1
    <3>2. \A g \in 1 .. l : g \in 1 .. l + 1
      BY <1>1
    <3>3. QED  BY <1>2, <1>4, <2>1, <3>1, <3>2
  <2>3. \A n : n \in Logged' <=> n \in Logged
    BY <1>2, <2>2, LoggedAt, SMTT(20)
  <2>4. QED  BY <2>3
<1>6. ASSUME NEW a, NEW b, Before(a, b) PROVE Before(a, b)'
  <2>1. PICK g \in 1 .. l, h \in 1 .. l : \E i \in 1 .. Len(tape[g]), j \in 1 .. Len(tape[h]) :
            tape[g][i].n = a /\ tape[h][j].n = b /\ (g < h \/ (g = h /\ i < j))
    BY <1>6 DEF Before
  <2>2. PICK i \in 1 .. Len(tape[g]), j \in 1 .. Len(tape[h]) :
            tape[g][i].n = a /\ tape[h][j].n = b /\ (g < h \/ (g = h /\ i < j))
    BY <2>1
  <2>3. g \in 1 .. Len(tape') /\ h \in 1 .. Len(tape') /\ tape'[g] = tape[g] /\ tape'[h] = tape[h]
    BY <1>1, <1>2
  <2>4. QED  BY <2>2, <2>3 DEF Before
<1>7. QED  BY <1>2, <1>3, <1>5, <1>6

-----------------------------------------------------------------------------
(* The steps of a publisher                                                 *)

LEMMA InvTape == EventInv => TapeTypes
  BY DEF EventInv, EventTypes, TapeTypes

\* A publisher goes on, without the files, the store or a browser.
LEMMA PubStep ==
  ASSUME EventInv, NEW p \in Publishers, NEW r, PubOK(r), pub' = [pub EXCEPT ![p] = r],
         seq' \in {seq, seq + 1},
         r.pc \in {"rotated", "write"} => Backward(r.pred, Len(tape)),
         r.pc = "write" => r.n = seq + 1 /\ seq' = seq + 1,
         r.pc # "apply",
         UNCHANGED <<tape, size, journal, chat, boot, store, source, client, partial, fails>>
  PROVE  EventInv'
<1>1. /\ \A k \in Publishers : PubOK(pub'[k])
      /\ pub' = [k \in Publishers |-> pub'[k]]
      /\ pub'[p] = r /\ \A k \in Publishers \ {p} : pub'[k] = pub[k]
  BY PubSet DEF EventInv
<1>2. Logged' = Logged /\ \A a, b : Before(a, b)' <=> Before(a, b)
  BY TapeStays
<1>3. EventTypes'
  BY <1>1 DEF EventInv, EventTypes
<1>4. PredsBackward'
  BY <1>1 DEF EventInv, PredsBackward
<1>5. NumbersNew'
  <2>1. seq \in Nat /\ (\A n \in Logged : n <= seq) /\ Logged \subseteq Nat
    BY InvTape, LoggedAt DEF EventInv, EventTypes, NumbersNew
  <2>2. seq' \in Nat /\ seq' >= seq /\ \A n \in Logged : n <= seq' /\ n # seq + 1
    BY <2>1
  <2>3. \A k \in Publishers : pub[k].pc = "write" => pub[k].n <= seq /\ pub[k].n \notin Logged
    BY DEF EventInv, NumbersNew
  <2>4. \A k \in Publishers : pub[k].pc = "write" => pub[k].n \in Nat
    BY PubIs DEF EventInv, EventTypes, Publishing
  <2>5. \A k \in Publishers : pub'[k].pc = "write" => pub'[k].n <= seq' /\ pub'[k].n \notin Logged
    BY <1>1, <2>1, <2>2, <2>3, <2>4
  <2>6. ASSUME NEW k \in Publishers, NEW q \in Publishers, pub'[k].pc = "write", pub'[q].pc = "write", pub'[q].n = pub'[k].n
        PROVE  q = k
    <3>1. CASE k # p /\ q # p
      BY <1>1, <2>6, <3>1 DEF EventInv, NumbersNew
    <3>2. CASE k = p /\ q # p
      BY <1>1, <2>1, <2>3, <2>4, <2>6, <3>2
    <3>3. CASE k # p /\ q = p
      BY <1>1, <2>1, <2>3, <2>4, <2>6, <3>3
    <3>4. QED  BY <3>1, <3>2, <3>3
  <2>7. QED  BY <1>2, <2>2, <2>5, <2>6 DEF NumbersNew
<1>6. ShownDurable'
  BY <1>1, <1>2 DEF EventInv, ShownDurable, ClientHolds
<1>7. JournalFollows' /\ JournalComplete' /\ ShownKept'
  BY <1>2 DEF EventInv, JournalFollows, JournalComplete, ShownKept
<1>8. QED  BY <1>3, <1>4, <1>5, <1>6, <1>7 DEF EventInv

LEMMA PublishStep1 ==
  ASSUME EventInv, NEW p \in Publishers, Publish(p) PROVE EventInv'
<1>1. PICK r : r = [pc |-> "write", n |-> seq + 1, lost |-> FALSE, first |-> seq = 0, to |-> subs,
                    cur |-> NoCursor, pred |-> NoCursor]
  OBVIOUS
<1>2. /\ pub' = [pub EXCEPT ![p] = r] /\ seq' = seq + 1
      /\ UNCHANGED <<tape, size, journal, chat, boot, store, source, client, partial, fails>>
  BY <1>1 DEF Publish, busVars, fileVars, keptVars, storeVars, faultVars
<1>3. seq \in Nat
  BY DEF EventInv, EventTypes
<1>4. PubOK(r) /\ r.pc = "write" /\ r.n = seq + 1 /\ r.pred = NoCursor
  BY <1>1, <1>3, NoCursorIs DEF PubOK, Publishing
<1>5. Backward(r.pred, Len(tape))
  BY <1>4, NoCursorIs DEF Backward
<1>6. QED  BY <1>2, <1>4, <1>5, PubStep

LEMMA PublishResetStep ==
  ASSUME EventInv, NEW p \in Publishers, PublishReset(p) PROVE EventInv'
<1>1. PICK r : r = [pc |-> "write", n |-> seq + 1, lost |-> FALSE, first |-> FALSE, to |-> subs,
                    cur |-> NoCursor, pred |-> pub[p].pred]
  OBVIOUS
<1>2. /\ pub[p].pc = "rotated"
      /\ pub' = [pub EXCEPT ![p] = r] /\ seq' = seq + 1
      /\ UNCHANGED <<tape, size, journal, chat, boot, store, source, client, partial, fails>>
  BY <1>1 DEF PublishReset, busVars, fileVars, keptVars, storeVars, faultVars
<1>3. seq \in Nat /\ PubOK(pub[p])
  BY DEF EventInv, EventTypes
<1>4. pub[p].pred \in Cursors
  BY <1>2, <1>3, PubIs DEF Rotated
<1>5. PubOK(r) /\ r.pc = "write" /\ r.n = seq + 1 /\ r.pred = pub[p].pred
  BY <1>1, <1>3, <1>4, NoCursorIs DEF PubOK, Publishing
<1>6. Backward(r.pred, Len(tape))
  BY <1>2, <1>5 DEF EventInv, PredsBackward
<1>7. QED  BY <1>2, <1>5, <1>6, PubStep

LEMMA SendStep ==
  ASSUME EventInv, NEW p \in Publishers, (\E ch \in pub[p].to : Send(p, ch)) \/ PublishError(p) PROVE EventInv'
<1>1. PICK l, t, q : /\ q = [pub[p] EXCEPT !.lost = l, !.to = t] /\ pub[p].pc = "send"
                     /\ pub' = [pub EXCEPT ![p] = Rest(q)]
                     /\ UNCHANGED <<seq, tape, size, journal, chat, boot, store, source, client, partial, fails>>
  <2>1. CASE PublishError(p)
    <3>1. PICK l, t, q : l = FALSE /\ t = subs /\ q = [pub[p] EXCEPT !.lost = l, !.to = t]
      OBVIOUS
    <3>2. /\ pub[p].pc = "send" /\ pub' = [pub EXCEPT ![p] = Rest(q)]
          /\ UNCHANGED <<seq, tape, size, journal, chat, boot, store, source, client, partial, fails>>
      BY <2>1, <3>1 DEF PublishError, busVars, fileVars, keptVars, storeVars, faultVars
    <3>3. QED  BY <3>1, <3>2
  <2>2. ASSUME NEW ch \in pub[p].to, Send(p, ch)
        PROVE  \E l, t, q : /\ q = [pub[p] EXCEPT !.lost = l, !.to = t] /\ pub[p].pc = "send"
                            /\ pub' = [pub EXCEPT ![p] = Rest(q)]
                            /\ UNCHANGED <<seq, tape, size, journal, chat, boot, store, source, client, partial, fails>>
    <3>1. PICK q : q = [pub[p] EXCEPT !.to = pub[p].to \ {ch}]
      OBVIOUS
    <3>2. /\ pub[p].pc = "send"
          /\ pub' = [pub EXCEPT ![p] = Rest(q)]
          /\ UNCHANGED <<seq, tape, size, journal, chat, boot, store, source, client, partial, fails>>
      <4>1. pub[p].pc = "send" /\ pub' = [pub EXCEPT ![p] = Rest([pub[p] EXCEPT !.to = pub[p].to \ {ch}])]
        BY <2>2, Zenon DEF Send
      <4>2. UNCHANGED <<seq, tape, size, journal, chat, boot, store, source, client, partial, fails>>
        BY <2>2 DEF Send, fileVars, keptVars, storeVars
      <4>3. QED  BY <3>1, <4>1, <4>2
    <3>3. pub[p] = [pc |-> pub[p].pc, n |-> pub[p].n, lost |-> pub[p].lost, first |-> pub[p].first,
                    to |-> pub[p].to, cur |-> pub[p].cur, pred |-> pub[p].pred]
      BY <3>2, PubIs DEF EventInv, EventTypes, Publishing
    <3>4. PICK l, t : l = pub[p].lost /\ t = pub[p].to \ {ch}
      OBVIOUS
    <3>5. q = [pub[p] EXCEPT !.lost = l, !.to = t]
      <4>1. q = [pc |-> pub[p].pc, n |-> pub[p].n, lost |-> l, first |-> pub[p].first,
                 to |-> t, cur |-> pub[p].cur, pred |-> pub[p].pred]
        BY <3>1, <3>3, <3>4
      <4>2. \A u : u = [pub[p] EXCEPT !.lost = l, !.to = t] =>
                 u = [pc |-> pub[p].pc, n |-> pub[p].n, lost |-> l, first |-> pub[p].first,
                      to |-> t, cur |-> pub[p].cur, pred |-> pub[p].pred]
        <5>1. PICK r : r = pub[p]
          OBVIOUS
        <5>2. r = [pc |-> r.pc, n |-> r.n, lost |-> r.lost, first |-> r.first, to |-> r.to, cur |-> r.cur, pred |-> r.pred]
          BY <3>3, <5>1
        <5>3. TAKE u
        <5>4. u = [r EXCEPT !.lost = l, !.to = t] =>
                u = [pc |-> r.pc, n |-> r.n, lost |-> l, first |-> r.first, to |-> t, cur |-> r.cur, pred |-> r.pred]
          BY <5>2
        <5>5. QED  BY <5>1, <5>4
      <4>3. QED  BY <4>1, <4>2
    <3>6. QED  BY <3>2, <3>5
  <2>3. QED  BY <2>1, <2>2
<1>2. Publishing(pub[p])
  BY <1>1, PubIs DEF EventInv, EventTypes
<1>3. PubOK(Rest(q)) /\ Rest(q).pc \in {"send", "idle"}
  BY <1>1, <1>2, SentSet
<1>4. PICK r : r = Rest(q)
  OBVIOUS
<1>5. PubOK(r) /\ r.pc # "apply" /\ r.pc # "write" /\ r.pc # "rotated" /\ pub' = [pub EXCEPT ![p] = r] /\ seq' \in {seq, seq + 1}
  BY <1>1, <1>3, <1>4
<1>6. QED  BY <1>1, <1>5, PubStep

LEMMA RotateStep ==
  ASSUME EventInv, NEW p \in Publishers, Rotate(p) PROVE EventInv'
<1>1. PICK r : r = [pc |-> "rotated", first |-> FALSE, to |-> {}, pred |-> Cursor]
  OBVIOUS
<1>2. /\ pub' = [pub EXCEPT ![p] = r] /\ tape' = Append(tape, <<>>) /\ size' = 0
      /\ UNCHANGED <<seq, journal, chat, boot, store, source, client, partial, fails>>
  BY <1>1 DEF Rotate, busVars, keptVars, storeVars, faultVars
<1>3. TapeTypes /\ Len(tape) \in Nat /\ Len(tape) >= 1 /\ size \in Nat
  BY InvTape, TapeAt DEF EventInv, EventTypes
<1>4. r.pred = <<Len(tape), size>> /\ r.pred \in Cursors /\ r.pc = "rotated"
  BY <1>1, <1>3 DEF Cursor, Cursors
<1>5. PubOK(r)
  BY <1>1, <1>4 DEF PubOK, Rotated
<1>6. /\ pub' = [k \in Publishers |-> pub'[k]] /\ \A k \in Publishers : PubOK(pub'[k])
      /\ pub'[p] = r /\ \A k \in Publishers \ {p} : pub'[k] = pub[k]
  BY <1>2, <1>5, PubSet DEF EventInv
<1>7. /\ TapeTypes' /\ Len(tape') = Len(tape) + 1
      /\ \A g \in 1 .. Len(tape) : tape'[g] = tape[g]
      /\ tape'[Len(tape) + 1] = <<>> /\ Logged' = Logged
      /\ \A a, b : Before(a, b) => Before(a, b)'
  BY <1>2, <1>3, TapeRotates
<1>8. EventTypes'
  <2>1. 0 \in Nat
    OBVIOUS
  <2>2. QED  BY <1>2, <1>6, <1>7, <2>1 DEF EventInv, EventTypes, TapeTypes
<1>9. PredsBackward'
  <2>1. ASSUME NEW g \in 1 .. Len(tape'), NEW i \in 1 .. Len(tape'[g]) PROVE Backward(tape'[g][i].pred, g)
    <3>1. 1 .. Len(<<>>) = {}
      OBVIOUS
    <3>2. g \in 1 .. Len(tape) /\ tape'[g] = tape[g]
      BY <1>3, <1>7, <3>1
    <3>3. QED  BY <3>2 DEF EventInv, PredsBackward
  <2>2. ASSUME NEW k \in Publishers, pub'[k].pc \in {"rotated", "write"} PROVE Backward(pub'[k].pred, Len(tape'))
    <3>1. CASE k = p
      BY <1>3, <1>4, <1>6, <1>7, <3>1 DEF Backward
    <3>2. CASE k # p
      <4>1. pub'[k] = pub[k]
        BY <1>6, <3>2
      <4>2. Backward(pub[k].pred, Len(tape))
        BY <2>2, <4>1 DEF EventInv, PredsBackward
      <4>3. QED  BY <1>3, <1>7, <4>1, <4>2 DEF Backward
    <3>3. QED  BY <3>1, <3>2
  <2>3. QED  BY <2>1, <2>2 DEF PredsBackward
<1>10. NumbersNew'
  <2>1. \A k \in Publishers : pub'[k].pc = "write" => k # p /\ pub'[k] = pub[k]
    BY <1>4, <1>6
  <2>2. QED  BY <1>2, <1>7, <2>1 DEF EventInv, NumbersNew
<1>11. ShownDurable'
  <2>1. \A k \in Publishers : pub'[k].pc = "apply" => k # p /\ pub'[k] = pub[k]
    BY <1>4, <1>6
  <2>2. 1 .. Len(tape) \subseteq 1 .. Len(tape')
    BY <1>3, <1>7
  <2>3. \A c \in Clients : ClientHolds(client[c])'
    BY <1>2, <1>7, <2>2 DEF EventInv, ShownDurable, ClientHolds
  <2>4. QED  BY <1>2, <1>7, <2>1, <2>3 DEF EventInv, ShownDurable
<1>12. JournalFollows' /\ JournalComplete' /\ ShownKept'
  BY <1>2, <1>7 DEF EventInv, JournalFollows, JournalComplete, ShownKept
<1>13. QED  BY <1>8, <1>9, <1>10, <1>11, <1>12 DEF EventInv

LEMMA RecordIs ==
  ASSUME EventInv, NEW p \in Publishers, pub[p].pc = "write"
  PROVE  /\ Publishing(pub[p]) /\ Record(p) \in TapeRecs /\ Record(p).n = pub[p].n /\ Record(p).pred = pub[p].pred
         /\ Backward(pub[p].pred, Len(tape)) /\ pub[p].n \in Nat /\ pub[p].n <= seq /\ RecordLen(pub[p].n) \in Nat
<1>1. Publishing(pub[p])
  BY PubIs DEF EventInv, EventTypes
<1>2. pub[p].n \in Nat /\ pub[p].pred \in Cursors
  BY <1>1 DEF Publishing
<1>3. RecordLen(pub[p].n) \in Nat
  BY <1>2 DEF RecordLen
<1>4. LastEnd(Len(tape)) \in Nat
  <2>1. TapeTypes /\ Len(tape) \in 1 .. Len(tape)
    BY InvTape, TapeAt
  <2>2. PICK s : s = tape[Len(tape)]
    OBVIOUS
  <2>3. s \in Seq(TapeRecs)
    BY <2>1, <2>2, TapeAt
  <2>4. CASE s = <<>>
    BY <2>2, <2>4 DEF LastEnd
  <2>5. CASE s # <<>>
    <3>1. Last(s) \in TapeRecs
      BY <2>3, <2>5 DEF Last
    <3>2. LastEnd(Len(tape)) = Last(s).end
      BY <2>2, <2>5 DEF LastEnd
    <3>3. QED  BY <3>1, <3>2 DEF TapeRecs
  <2>6. QED  BY <2>4, <2>5
<1>5. Record(p) \in TapeRecs /\ Record(p).n = pub[p].n /\ Record(p).pred = pub[p].pred
  BY <1>2, <1>3, <1>4 DEF Record, TapeRecs
<1>6. Backward(pub[p].pred, Len(tape)) /\ pub[p].n <= seq
  BY DEF EventInv, PredsBackward, NumbersNew
<1>7. QED  BY <1>1, <1>2, <1>3, <1>5, <1>6

\* A record that is added keeps what is said of the tape.
LEMMA OnTapeKeeps ==
  ASSUME EventInv, NEW p \in Publishers, pub[p].pc = "write", OnTape(p), NEW n, n = pub[p].n
  PROVE  /\ TapeTypes' /\ Len(tape') = Len(tape)
         /\ \A g \in 1 .. Len(tape') : \A i \in 1 .. Len(tape'[g]) : Backward(tape'[g][i].pred, g)
         /\ Logged' = Logged \cup {n}
         /\ \A a, b : Before(a, b) => Before(a, b)'
         /\ \A a \in Logged : Before(a, n)'
<1> DEFINE l == Len(tape)
<1>0. PICK r : r = Record(p)
  OBVIOUS
<1>1. TapeTypes /\ l \in Nat /\ l \in 1 .. l /\ tape[l] \in Seq(TapeRecs)
  BY InvTape, TapeAt
<1>2. r \in TapeRecs /\ r.n = n /\ r.pred = pub[p].pred /\ Backward(pub[p].pred, l)
  BY <1>0, RecordIs
<1>3. tape' = [tape EXCEPT ![Len(tape)] = Append(@, r)]
  BY <1>0 DEF OnTape
<1>4. /\ TapeTypes' /\ Len(tape') = l
      /\ \A g \in 1 .. l - 1 : tape'[g] = tape[g]
      /\ tape'[l] = Append(tape[l], r)
      /\ Logged' = Logged \cup {r.n}
      /\ \A a, b : Before(a, b) => Before(a, b)'
      /\ \A a \in Logged : Before(a, r.n)'
  BY <1>1, <1>2, <1>3, TapeGrows
<1>5. ASSUME NEW g \in 1 .. l, NEW i \in 1 .. Len(tape'[g]) PROVE Backward(tape'[g][i].pred, g)
  <2>1. CASE g # l
    <3>1. g \in 1 .. l - 1
      BY <1>1, <2>1
    <3>2. tape'[g] = tape[g]
      BY <1>4, <3>1
    <3>3. QED  BY <1>5, <3>2 DEF EventInv, PredsBackward
  <2>2. CASE g = l
    <3>1. /\ Len(Append(tape[l], r)) = Len(tape[l]) + 1 /\ Len(tape[l]) \in Nat
          /\ \A k \in 1 .. Len(tape[l]) : Append(tape[l], r)[k] = tape[l][k]
          /\ Append(tape[l], r)[Len(tape[l]) + 1] = r
      BY <1>1, <1>2
    <3>2. i = Len(tape[l]) + 1 \/ i \in 1 .. Len(tape[l])
      BY <1>4, <2>2, <3>1
    <3>3. tape'[g][i] = r \/ (i \in 1 .. Len(tape[l]) /\ tape'[g][i] = tape[l][i])
      BY <1>4, <2>2, <3>1, <3>2
    <3>4. \A k \in 1 .. Len(tape[l]) : Backward(tape[l][k].pred, l)
      BY <1>1 DEF EventInv, PredsBackward
    <3>5. QED  BY <1>2, <2>2, <3>3, <3>4
  <2>3. QED  BY <2>1, <2>2
<1>6. PICK m : m = r.n
  OBVIOUS
<1>7. m = n /\ \A a \in Logged : Before(a, m)'
  BY <1>2, <1>4, <1>6
<1>8. QED  BY <1>2, <1>4, <1>5, <1>7

\* The numbers of the others stay new when a publisher has written its own.
LEMMA OthersNew ==
  ASSUME EventInv, NEW p \in Publishers, pub[p].pc = "write", NEW k \in Publishers \ {p}, pub[k].pc = "write"
  PROVE  pub[k].n # pub[p].n /\ pub[k].n \notin Logged /\ pub[k].n <= seq
  BY DEF EventInv, NumbersNew

\* An append, whatever it reaches: the tape, the tape and the journal, or neither.
LEMMA WriteStep ==
  ASSUME EventInv, NEW p \in Publishers, pub[p].pc = "write", boot = "up",
         NEW r, PubOK(r), pub' = [pub EXCEPT ![p] = r],
         r.pc \in {"failed", "apply"}, r.pc = "apply" => OnTape(p) /\ r.n = pub[p].n,
         \/ UNCHANGED <<tape, journal>> /\ partial' \in {partial, TRUE}
         \/ OnTape(p) /\ UNCHANGED journal /\ partial' = TRUE
         \/ OnTape(p) /\ OnJournal(p) /\ partial' \in {partial, TRUE},
         chat' \in {"none", "whole", "torn"}, chat' = "torn" => partial' \/ chat = "torn",
         chat' = "none" => chat = "none" /\ UNCHANGED journal,
         fails' \in {fails, fails + 1}, fails' = fails => partial' = partial,
         size' \in Nat, UNCHANGED <<seq, boot, store, source, client>>
  PROVE  EventInv'
<1>0. PICK n : n = pub[p].n
  OBVIOUS
<1>1. /\ pub' = [k \in Publishers |-> pub'[k]] /\ \A k \in Publishers : PubOK(pub'[k])
      /\ pub'[p] = r /\ \A k \in Publishers \ {p} : pub'[k] = pub[k]
  BY PubSet DEF EventInv
<1>2. /\ TapeTypes' /\ Len(tape') = Len(tape)
      /\ \A g \in 1 .. Len(tape') : \A i \in 1 .. Len(tape'[g]) : Backward(tape'[g][i].pred, g)
      /\ \A a, b : Before(a, b) => Before(a, b)'
      /\ Logged' \in {Logged, Logged \cup {n}} /\ (OnTape(p) => Logged' = Logged \cup {n})
  <2>1. CASE OnTape(p)
    BY <1>0, <2>1, OnTapeKeeps
  <2>2. CASE ~OnTape(p)
    <3>1. UNCHANGED tape
      BY <2>2
    <3>2. Logged' = Logged /\ \A a, b : Before(a, b)' <=> Before(a, b)
      BY <3>1, TapeStays
    <3>3. TapeTypes /\ PredsBackward
      BY InvTape DEF EventInv
    <3>4. TapeTypes' /\ Len(tape') = Len(tape)
          /\ \A g \in 1 .. Len(tape') : \A i \in 1 .. Len(tape'[g]) : Backward(tape'[g][i].pred, g)
      BY <3>1, <3>3 DEF TapeTypes, PredsBackward
    <3>5. QED  BY <2>2, <3>2, <3>4
  <2>3. QED  BY <2>1, <2>2
<1>3. Publishing(pub[p]) /\ n \in Nat /\ n <= seq /\ n \notin Logged /\ pub[p].n = n
  BY <1>0, RecordIs DEF EventInv, NumbersNew
<1>4. journal \in Seq(Nat) /\ (journal' = journal \/ (OnTape(p) /\ journal' = Append(journal, n)))
  BY <1>0 DEF EventInv, EventTypes, OnJournal
<1>5. journal' \in Seq(Nat) /\ (\/ journal' = journal
                                \/ /\ OnTape(p) /\ journal' = Append(journal, n)
                                   /\ Range(journal') = Range(journal) \cup {n})
  <2>1. Append(journal, n) \in Seq(Nat) /\ Range(Append(journal, n)) = Range(journal) \cup {n}
    BY <1>3, <1>4, RangeAppend
  <2>2. QED  BY <1>4, <2>1
<1>6. EventTypes'
  <2>1. fails' \in Nat
    BY DEF EventInv, EventTypes
  <2>2. QED  BY <1>1, <1>2, <1>5, <2>1 DEF EventInv, EventTypes, TapeTypes
<1>7. PredsBackward'
  <2>1. ASSUME NEW k \in Publishers, pub'[k].pc \in {"rotated", "write"} PROVE Backward(pub'[k].pred, Len(tape'))
    <3>1. k # p /\ pub'[k] = pub[k]
      BY <1>1, <2>1
    <3>2. QED  BY <1>2, <2>1, <3>1 DEF EventInv, PredsBackward
  <2>2. QED  BY <1>2, <2>1 DEF PredsBackward
<1>8. NumbersNew'
  <2>1. \A k \in Publishers : pub'[k].pc = "write" => k # p /\ pub'[k] = pub[k]
    BY <1>1
  <2>2. \A x \in Logged' : x <= seq
    BY <1>2, <1>3 DEF EventInv, NumbersNew
  <2>3. ASSUME NEW k \in Publishers, pub'[k].pc = "write"
        PROVE  /\ pub'[k].n <= seq /\ pub'[k].n \notin Logged'
               /\ \A q \in Publishers : pub'[q].pc = "write" /\ pub'[q].n = pub'[k].n => q = k
    <3>1. pub[k].n # n /\ pub[k].n \notin Logged /\ pub[k].n <= seq
      BY <1>0, <2>1, <2>3, OthersNew
    <3>2. QED  BY <1>2, <2>1, <2>3, <3>1 DEF EventInv, NumbersNew
  <2>4. QED  BY <2>2, <2>3 DEF NumbersNew
<1>9. ShownDurable'
  <2>1. ASSUME NEW k \in Publishers, pub'[k].pc = "apply" PROVE pub'[k].n \in Logged'
    <3>1. CASE k = p
      BY <1>1, <1>2, <1>3, <2>1, <3>1
    <3>2. CASE k # p
      BY <1>1, <1>2, <2>1, <3>2 DEF EventInv, ShownDurable
    <3>3. QED  BY <3>1, <3>2
  <2>2. \A c \in Clients : ClientHolds(client[c])'
    BY <1>2 DEF EventInv, ShownDurable, ClientHolds
  <2>3. QED  BY <1>2, <2>1, <2>2 DEF EventInv, ShownDurable
<1>10. JournalFollows'
  <2>1. /\ Range(journal) \subseteq Logged
        /\ \A k, m \in 1 .. Len(journal) : k < m => Before(journal[k], journal[m])
    BY DEF EventInv, JournalFollows
  <2>2. CASE journal' = journal
    BY <1>2, <2>1, <2>2 DEF JournalFollows
  <2>3. CASE OnTape(p) /\ journal' = Append(journal, n) /\ Range(journal') = Range(journal) \cup {n}
    <3>1. Range(journal') \subseteq Logged'
      BY <1>2, <2>1, <2>3
    <3>2. \A a \in Logged : Before(a, n)'
      BY <1>0, <2>3, OnTapeKeeps
    <3>3. /\ Len(journal') = Len(journal) + 1 /\ Len(journal) \in Nat
          /\ \A k \in 1 .. Len(journal) : journal'[k] = journal[k]
          /\ journal'[Len(journal) + 1] = n
      BY <1>3, <1>4, <2>3
    <3>4. \A k \in 1 .. Len(journal) : journal[k] \in Logged
      BY <1>4, <2>1, RangeOf
    <3>5. ASSUME NEW k \in 1 .. Len(journal'), NEW m \in 1 .. Len(journal'), k < m PROVE Before(journal[k], journal[m])'
      <4>1. k \in 1 .. Len(journal)
        BY <3>3, <3>5
      <4>2. CASE m \in 1 .. Len(journal)
        <5>1. Before(journal[k], journal[m])
          BY <2>1, <3>5, <4>1, <4>2
        <5>2. journal'[k] = journal[k] /\ journal'[m] = journal[m]
          BY <3>3, <4>1, <4>2
        <5>3. PICK a, b : a = journal[k] /\ b = journal[m]
          OBVIOUS
        <5>4. Before(a, b)'
          BY <1>2, <5>1, <5>3
        <5>5. QED  BY <5>2, <5>3, <5>4
      <4>3. CASE m = Len(journal) + 1
        <5>1. PICK a : a = journal[k]
          OBVIOUS
        <5>2. Before(a, n)'
          BY <3>2, <3>4, <4>1, <5>1
        <5>3. journal'[k] = a /\ journal'[m] = n
          BY <3>3, <4>1, <4>3, <5>1
        <5>4. QED  BY <5>2, <5>3
      <4>4. m = Len(journal) + 1 \/ m \in 1 .. Len(journal)
        BY <3>3
      <4>5. QED  BY <4>2, <4>3, <4>4
    <3>6. QED  BY <3>1, <3>5 DEF JournalFollows
  <2>4. QED  BY <1>5, <2>2, <2>3
<1>11. JournalComplete'
  <2>1. /\ ~partial => Logged \subseteq Range(journal)
        /\ fails = 0 => ~partial
        /\ chat = "torn" => partial
        /\ chat = "none" => journal = <<>>
    BY DEF EventInv, JournalComplete
  <2>2. ~partial' /\ boot' = "up" => Logged' \subseteq Range(journal')
    <3>1. CASE UNCHANGED <<tape, journal, partial>>
      BY <2>1, <3>1, TapeStays
    <3>2. CASE OnTape(p) /\ OnJournal(p) /\ partial' \in {partial, TRUE}
      <4>1. Logged' = Logged \cup {n} /\ Range(journal') = Range(journal) \cup {n}
        BY <1>2, <1>3, <1>4, <3>2, RangeAppend DEF OnJournal
      <4>2. CASE partial' = partial
        BY <2>1, <4>1, <4>2
      <4>3. CASE partial' = TRUE
        BY <4>3
      <4>4. QED  BY <3>2, <4>2, <4>3
    <3>3. QED  BY <3>1, <3>2
  <2>3. fails' = 0 => ~partial' /\ boot' = "up"
    <3>1. fails \in Nat
      BY DEF EventInv, EventTypes
    <3>2. fails' = 0 => fails' = fails
      BY <3>1
    <3>3. QED  BY <2>1, <3>2
  <2>4. chat' = "torn" => partial'
    BY <2>1
  <2>5. chat' = "none" => journal' = <<>>
    BY <2>1
  <2>6. QED  BY <2>2, <2>3, <2>4, <2>5 DEF JournalComplete
<1>12. ShownKept'
  BY <1>5 DEF EventInv, ShownKept
<1>13. QED  BY <1>6, <1>7, <1>8, <1>9, <1>10, <1>11, <1>12 DEF EventInv

LEMMA AppendStep ==
  ASSUME EventInv, boot = "up", NEW p \in Publishers,
         AppendTapeFails(p) \/ AppendJournalFails(p) \/ AppendSyncFails(p) \/ Appended(p)
  PROVE  EventInv'
<1>1. pub[p].pc = "write" /\ pub[p] \in {pub[p]}
  BY DEF AppendTapeFails, AppendJournalFails, AppendSyncFails, Appended, Fails, FailsWith
<1>2. Publishing(pub[p]) /\ RecordLen(pub[p].n) \in Nat /\ pub[p].n \in Nat
  BY <1>1, RecordIs
<1>3. size \in Nat /\ fails \in Nat /\ chat \in {"none", "whole", "torn"} /\ Len(tape) \in Nat
  BY InvTape, TapeAt DEF EventInv, EventTypes
<1>4. Opened \in {"whole", "torn"} /\ (Opened = "torn" => chat = "torn")
  BY <1>3 DEF Opened
<1>5. CASE Appended(p)
  <2>1. PICK x : x = <<Len(tape), size + RecordLen(pub[p].n)>>
    OBVIOUS
  <2>2. PICK r : r = Written(pub[p], x)
    OBVIOUS
  <2>3. /\ OnTape(p) /\ OnJournal(p) /\ size' = size + RecordLen(pub[p].n) /\ chat' = Opened
        /\ pub' = [pub EXCEPT ![p].pc = "apply", ![p].cur = x]
        /\ UNCHANGED <<seq, boot, store, source, client, partial, fails>>
    BY <1>5, <2>1 DEF Appended, keptVars, storeVars, faultVars
  <2>4. pub' = [pub EXCEPT ![p] = r]
    <3>1. pub = [k \in Publishers |-> pub[k]]
      BY DEF EventInv, EventTypes
    <3>2. r = [pub[p] EXCEPT !.pc = "apply", !.cur = x]
      BY <2>2, Zenon DEF Written
    <3>3. QED  BY <2>3, <3>1, <3>2
  <2>5. x \in Cursors
    BY <1>2, <1>3, <2>1 DEF Cursors
  <2>6. PubOK(r) /\ r.pc = "apply" /\ r.n = pub[p].n
    BY <1>2, <2>2, <2>5, ApplySet, Zenon
  <2>7. size' \in Nat
    BY <1>2, <1>3, <2>3
  <2>8. QED  BY <1>1, <1>4, <2>3, <2>4, <2>6, <2>7, WriteStep
<1>6. CASE ~Appended(p)
  <2>1. PICK r : r = [pub[p] EXCEPT !.pc = "failed"]
    OBVIOUS
  <2>2. PubOK(r) /\ r.pc = "failed"
    BY <1>2, <2>1, FailedSet
  <2>3. pub' = [pub EXCEPT ![p].pc = "failed"] /\ fails' = fails + 1 /\ UNCHANGED <<seq, boot, store, source, client>>
    BY <1>6 DEF AppendTapeFails, AppendJournalFails, AppendSyncFails, Fails, FailsWith, keptVars, storeVars
  <2>4. pub' = [pub EXCEPT ![p] = r]
    <3>1. pub = [k \in Publishers |-> pub[k]]
      BY DEF EventInv, EventTypes
    <3>2. QED  BY <2>1, <2>3, <3>1
  <2>5. /\ \/ UNCHANGED <<tape, journal, partial>> /\ chat' \in {chat, Opened} /\ UNCHANGED size
           \/ UNCHANGED <<tape, journal, size>> /\ partial' = TRUE /\ chat' \in {Opened, "torn"}
           \/ OnTape(p) /\ UNCHANGED <<journal, size>> /\ partial' = TRUE /\ chat' \in {Opened, "torn"}
           \/ OnTape(p) /\ OnJournal(p) /\ partial' = TRUE /\ chat' = Opened /\ size' = size + RecordLen(pub[p].n)
    <3>1. CASE AppendTapeFails(p)
      BY <3>1 DEF AppendTapeFails, Fails, FailsWith
    <3>2. CASE AppendJournalFails(p)
      BY <3>2 DEF AppendJournalFails, OnTapeOnly, FailsWith
    <3>3. CASE AppendSyncFails(p)
      BY <3>3 DEF AppendSyncFails, Fails, FailsWith
    <3>4. QED  BY <1>6, <3>1, <3>2, <3>3
  <2>6. size' \in Nat /\ fails' # fails
    BY <1>2, <1>3, <2>3, <2>5
  <2>7. /\ chat' \in {"none", "whole", "torn"} /\ (chat' = "torn" => partial' \/ chat = "torn")
        /\ chat' = "none" => chat = "none" /\ UNCHANGED journal
    BY <1>3, <1>4, <2>5
  <2>8. \/ UNCHANGED <<tape, journal>> /\ partial' \in {partial, TRUE}
        \/ OnTape(p) /\ UNCHANGED journal /\ partial' = TRUE
        \/ OnTape(p) /\ OnJournal(p) /\ partial' \in {partial, TRUE}
    BY <2>5
  <2>9. QED  BY <1>1, <2>2, <2>3, <2>4, <2>6, <2>7, <2>8, WriteStep
<1>7. QED  BY <1>5, <1>6

-----------------------------------------------------------------------------
(* The store and the browsers                                               *)

\* The store and the browsers go on, without the files.
LEMMA ViewStep ==
  ASSUME EventInv, boot = "up", UNCHANGED <<seq, size, tape, journal, chat, boot, partial, fails>>,
         \/ UNCHANGED pub
         \/ \E p \in Publishers : \E r : PubOK(r) /\ pub' = [pub EXCEPT ![p] = r] /\ r.pc \in {"send", "idle"},
         store' \in StoreRecs, Range(store'.recs) \subseteq Logged, source' \in Cursors,
         client' \in [Clients -> ClientRecs], \A c \in Clients : ClientHolds(client'[c])
  PROVE  EventInv'
<1>1. /\ pub' = [k \in Publishers |-> pub'[k]] /\ \A k \in Publishers : PubOK(pub'[k])
      /\ \A k \in Publishers : pub'[k].pc \in {"rotated", "write", "apply"} => pub'[k] = pub[k]
  <2>1. CASE UNCHANGED pub
    BY <2>1 DEF EventInv, EventTypes
  <2>2. ASSUME NEW p \in Publishers, NEW r, PubOK(r), pub' = [pub EXCEPT ![p] = r], r.pc \in {"send", "idle"}
        PROVE  /\ pub' = [k \in Publishers |-> pub'[k]] /\ \A k \in Publishers : PubOK(pub'[k])
               /\ \A k \in Publishers : pub'[k].pc \in {"rotated", "write", "apply"} => pub'[k] = pub[k]
    <3>1. /\ pub' = [k \in Publishers |-> pub'[k]] /\ \A k \in Publishers : PubOK(pub'[k])
          /\ pub'[p] = r /\ \A k \in Publishers \ {p} : pub'[k] = pub[k]
      BY <2>2, PubSet DEF EventInv
    <3>2. QED  BY <2>2, <3>1
  <2>3. QED  BY <2>1, <2>2
<1>2. Logged' = Logged /\ \A a, b : Before(a, b)' <=> Before(a, b)
  BY TapeStays
<1>3. EventTypes'
  BY <1>1 DEF EventInv, EventTypes
<1>4. PredsBackward' /\ NumbersNew'
  BY <1>1, <1>2 DEF EventInv, PredsBackward, NumbersNew
<1>5. ShownDurable'
  <2>1. \A c \in Clients : ClientHolds(client[c])'
    BY <1>2 DEF ClientHolds
  <2>2. QED  BY <1>1, <1>2, <2>1 DEF EventInv, ShownDurable
<1>6. JournalFollows' /\ JournalComplete'
  BY <1>2 DEF EventInv, JournalFollows, JournalComplete
<1>7. ShownKept'
  <2>1. ~partial => Logged \subseteq Range(journal)
    BY DEF EventInv, JournalComplete
  <2>2. \A c \in Clients : Range(client'[c].recs) \subseteq Logged
    BY DEF ClientHolds
  <2>3. QED  BY <2>1, <2>2 DEF ShownKept
<1>8. QED  BY <1>3, <1>4, <1>5, <1>6, <1>7 DEF EventInv

\* One browser's record changes.
LEMMA ClientSet ==
  ASSUME EventInv, NEW c \in Clients, NEW r \in ClientRecs, ClientHolds(r), client' = [client EXCEPT ![c] = r]
  PROVE  client' \in [Clients -> ClientRecs] /\ \A k \in Clients : ClientHolds(client'[k])
<1>1. client \in [Clients -> ClientRecs] /\ \A k \in Clients : ClientHolds(client[k])
  BY DEF EventInv, EventTypes, ShownDurable
<1>2. client' \in [Clients -> ClientRecs] /\ client'[c] = r /\ \A k \in Clients \ {c} : client'[k] = client[k]
  BY <1>1
<1>3. QED  BY <1>1, <1>2

LEMMA ClientIs ==
  ASSUME EventInv, NEW c \in Clients
  PROVE  client[c] \in ClientRecs /\ ClientHolds(client[c])
  BY DEF EventInv, EventTypes, ShownDurable

\* A browser step that changes nothing but its own record.
LEMMA OwnStep ==
  ASSUME EventInv, boot = "up", NEW c \in Clients, NEW r \in ClientRecs, ClientHolds(r), client' = [client EXCEPT ![c] = r],
         UNCHANGED <<seq, pub, size, tape, journal, chat, boot, partial, fails, store, source>>
  PROVE  EventInv'
<1>1. client' \in [Clients -> ClientRecs] /\ \A k \in Clients : ClientHolds(client'[k])
  BY ClientSet
<1>2. store' \in StoreRecs /\ Range(store'.recs) \subseteq Logged /\ source' \in Cursors
  BY DEF EventInv, EventTypes, ShownDurable
<1>3. QED  BY <1>1, <1>2, ViewStep

\* A patch goes to every browser that listens, or its channel is closed.
LEMMA BroadcastHolds ==
  ASSUME EventInv, NEW patch \in Patches, patch.n \in Logged, Broadcast(patch)
  PROVE  /\ client' \in [Clients -> ClientRecs] /\ \A c \in Clients : ClientHolds(client'[c])
         /\ \A c \in Clients : client'[c].recs = client[c].recs
<1>1. ASSUME NEW c \in Clients, NEW d, d = client'[c] PROVE d \in ClientRecs /\ ClientHolds(d) /\ d.recs = client[c].recs
  <2>0. PICK r : r = client[c]
    OBVIOUS
  <2>1. r \in ClientRecs /\ ClientHolds(r)
    BY <2>0, ClientIs
  <2>2. \/ d = r
        \/ d = [r EXCEPT !.queue = Append(r.queue, patch)]
        \/ d = [r EXCEPT !.closed = TRUE]
    BY <1>1, <2>0 DEF Broadcast
  <2>3. CASE d = [r EXCEPT !.queue = Append(r.queue, patch)]
    <3>1. PICK q : q = r.queue
      OBVIOUS
    <3>2. q \in Seq(Patches)
      BY <2>1, <3>1 DEF ClientRecs
    <3>3. /\ Append(q, patch) \in Seq(Patches) /\ Len(Append(q, patch)) = Len(q) + 1 /\ Len(q) \in Nat
          /\ \A i \in 1 .. Len(q) : Append(q, patch)[i] = q[i]
          /\ Append(q, patch)[Len(q) + 1] = patch
      BY <3>2
    <3>4. \A i \in 1 .. Len(Append(q, patch)) : Append(q, patch)[i].n \in Logged
      <4>1. TAKE i \in 1 .. Len(Append(q, patch))
      <4>2. i \in 1 .. Len(q) \/ i = Len(q) + 1
        BY <3>3
      <4>3. QED  BY <2>1, <3>1, <3>3, <4>2 DEF ClientHolds
    <3>5. /\ d \in ClientRecs /\ d.queue = Append(q, patch) /\ d.recs = r.recs /\ d.gotRecs = r.gotRecs
          /\ d.pc = r.pc /\ d.cut = r.cut
      BY <2>1, <2>3, <3>1, <3>3 DEF ClientRecs
    <3>6. QED  BY <2>0, <2>1, <3>4, <3>5 DEF ClientHolds
  <2>4. CASE d = [r EXCEPT !.closed = TRUE]
    <3>1. /\ d \in ClientRecs /\ d.queue = r.queue /\ d.recs = r.recs /\ d.gotRecs = r.gotRecs
          /\ d.pc = r.pc /\ d.cut = r.cut
      BY <2>1, <2>4 DEF ClientRecs
    <3>2. QED  BY <2>0, <2>1, <3>1 DEF ClientHolds
  <2>5. QED  BY <2>0, <2>1, <2>2, <2>3, <2>4
<1>2. client' = [c \in Clients |-> client'[c]]
  BY DEF Broadcast
<1>3. \A c \in Clients : client'[c] \in ClientRecs /\ ClientHolds(client'[c]) /\ client'[c].recs = client[c].recs
  BY <1>1
<1>4. QED  BY <1>2, <1>3

LEMMA StaleHolds ==
  ASSUME EventInv, MarkStale
  PROVE  /\ client' \in [Clients -> ClientRecs] /\ \A c \in Clients : ClientHolds(client'[c])
         /\ \A c \in Clients : client'[c].recs = client[c].recs
<1>1. ASSUME NEW c \in Clients, NEW d, d = client'[c] PROVE d \in ClientRecs /\ ClientHolds(d) /\ d.recs = client[c].recs
  <2>0. PICK r : r = client[c]
    OBVIOUS
  <2>1. r \in ClientRecs /\ ClientHolds(r)
    BY <2>0, ClientIs
  <2>2. d = r \/ d = [r EXCEPT !.closed = TRUE]
    BY <1>1, <2>0 DEF MarkStale
  <2>3. CASE d = [r EXCEPT !.closed = TRUE]
    <3>1. /\ d \in ClientRecs /\ d.queue = r.queue /\ d.recs = r.recs /\ d.gotRecs = r.gotRecs
          /\ d.pc = r.pc /\ d.cut = r.cut
      BY <2>1, <2>3 DEF ClientRecs
    <3>2. QED  BY <2>0, <2>1, <3>1 DEF ClientHolds
  <2>4. QED  BY <2>0, <2>1, <2>2, <2>3
<1>2. client' = [c \in Clients |-> client'[c]]
  BY DEF MarkStale
<1>3. \A c \in Clients : client'[c] \in ClientRecs /\ ClientHolds(client'[c]) /\ client'[c].recs = client[c].recs
  BY <1>1
<1>4. QED  BY <1>2, <1>3

\* Apply folds a record of the tape, and shows it to nobody by itself.
LEMMA ApplyHolds ==
  ASSUME EventInv, NEW n, n \in Logged, NEW cur \in Cursors, Apply(n, cur)
  PROVE  /\ store' \in StoreRecs /\ Range(store'.recs) \subseteq Logged /\ source' \in Cursors
         /\ client' \in [Clients -> ClientRecs] /\ \A c \in Clients : ClientHolds(client'[c])
         /\ \A c \in Clients : client'[c].recs = client[c].recs
<1>1. n \in Nat /\ store \in StoreRecs /\ Range(store.recs) \subseteq Logged
  BY InvTape, LoggedAt DEF EventInv, EventTypes, ShownDurable
<1>2. PICK base : /\ base \in {[init |-> TRUE, cur |-> NoCursor, recs |-> <<>>], store}
                  /\ source' = cur
                  /\ \/ /\ store' = [init |-> TRUE, cur |-> cur, recs |-> Append(base.recs, n)]
                        /\ Broadcast([prev |-> base.cur, cur |-> cur, n |-> n])
                     \/ UNCHANGED <<store, client>>
  <2>1. PICK base : base = IF ~store.init /\ Listening # {} /\ n = 1
                           THEN [init |-> TRUE, cur |-> NoCursor, recs |-> <<>>] ELSE store
    OBVIOUS
  <2>2. /\ source' = cur
        /\ \/ /\ store' = [init |-> TRUE, cur |-> cur, recs |-> Append(base.recs, n)]
              /\ Broadcast([prev |-> base.cur, cur |-> cur, n |-> n])
           \/ UNCHANGED <<store, client>>
    <3>1. source' = cur
      BY Zenon DEF Apply
    <3>2. CASE base.init /\ ((~store.init /\ Listening # {} /\ n = 1) \/ Applies(cur))
      BY <2>1, <3>1, <3>2, Zenon DEF Apply
    <3>3. CASE ~(base.init /\ ((~store.init /\ Listening # {} /\ n = 1) \/ Applies(cur)))
      <4>1. UNCHANGED <<store, stale, client>>
        BY <2>1, <3>3, Zenon DEF Apply
      <4>2. QED  BY <3>1, <4>1
    <3>4. QED  BY <3>2, <3>3
  <2>3. base \in {[init |-> TRUE, cur |-> NoCursor, recs |-> <<>>], store}
    BY <2>1
  <2>4. QED  BY <2>2, <2>3
<1>3. base \in StoreRecs /\ Range(base.recs) \subseteq Logged
  <2>1. PICK new : new = [init |-> TRUE, cur |-> NoCursor, recs |-> <<>>]
    OBVIOUS
  <2>2. <<>> \in Seq(Nat)
    OBVIOUS
  <2>3. new \in StoreRecs /\ new.recs = <<>>
    BY <2>1, <2>2, NoCursorIs DEF StoreRecs
  <2>4. QED  BY <1>1, <1>2, <2>1, <2>3, RangeEmpty
<1>4. CASE UNCHANGED <<store, client>>
  <2>1. client \in [Clients -> ClientRecs] /\ \A c \in Clients : ClientHolds(client[c])
    BY DEF EventInv, EventTypes, ShownDurable
  <2>2. QED  BY <1>1, <1>2, <1>4, <2>1
<1>5. CASE /\ store' = [init |-> TRUE, cur |-> cur, recs |-> Append(base.recs, n)]
           /\ Broadcast([prev |-> base.cur, cur |-> cur, n |-> n])
  <2>1. PICK patch : patch = [prev |-> base.cur, cur |-> cur, n |-> n]
    OBVIOUS
  <2>2. patch \in Patches /\ patch.n \in Logged
    BY <1>1, <1>3, <2>1 DEF Patches, StoreRecs
  <2>3. Broadcast(patch)
    BY <1>5, <2>1
  <2>4. base.recs \in Seq(Nat)
    BY <1>3 DEF StoreRecs
  <2>5. Append(base.recs, n) \in Seq(Nat) /\ Range(Append(base.recs, n)) = Range(base.recs) \cup {n}
    BY <1>1, <2>4, RangeAppend
  <2>6. store' \in StoreRecs /\ store'.recs = Append(base.recs, n)
    BY <1>5, <2>5 DEF StoreRecs
  <2>7. Range(store'.recs) \subseteq Logged
    BY <1>3, <2>5, <2>6
  <2>8. QED  BY <1>2, <2>2, <2>3, <2>6, <2>7, BroadcastHolds
<1>6. QED  BY <1>2, <1>4, <1>5

LEMMA NotifyStep ==
  ASSUME EventInv, boot = "up", NEW p \in Publishers, Notify(p)
  PROVE  EventInv' /\ \A c \in Clients : client'[c].recs = client[c].recs
<1>1. PICK r : r = Rest([pub[p] EXCEPT !.pc = "send", !.cur = NoCursor, !.pred = NoCursor])
  OBVIOUS
<1>2. /\ pub[p].pc = "apply" /\ Apply(pub[p].n, pub[p].cur)
      /\ pub' = [pub EXCEPT ![p] = r]
      /\ UNCHANGED <<seq, size, tape, journal, chat, boot, partial, fails>>
  BY <1>1 DEF Notify, fileVars
<1>3. Publishing(pub[p]) /\ pub[p].n \in Logged
  BY <1>2, PubIs DEF EventInv, EventTypes, ShownDurable
<1>4. PubOK(r) /\ r.pc \in {"send", "idle"} /\ pub[p].cur \in Cursors
  BY <1>1, <1>3, SendSet DEF Publishing
<1>5. PICK n, cur : n = pub[p].n /\ cur = pub[p].cur /\ Apply(n, cur)
  BY <1>2
<1>6. /\ store' \in StoreRecs /\ Range(store'.recs) \subseteq Logged /\ source' \in Cursors
      /\ client' \in [Clients -> ClientRecs] /\ \A c \in Clients : ClientHolds(client'[c])
      /\ \A c \in Clients : client'[c].recs = client[c].recs
  BY <1>3, <1>4, <1>5, ApplyHolds
<1>7. QED  BY <1>2, <1>4, <1>6, ViewStep

LEMMA NotifyFailedStep ==
  ASSUME EventInv, boot = "up", NEW p \in Publishers, NotifyFailed(p)
  PROVE  EventInv' /\ \A c \in Clients : client'[c].recs = client[c].recs
<1>1. PICK r : r = [pub[p] EXCEPT !.pc = "send", !.lost = TRUE]
  OBVIOUS
<1>2. /\ pub[p].pc = "failed" /\ MarkStale
      /\ pub' = [pub EXCEPT ![p].pc = "send", ![p].lost = TRUE]
      /\ UNCHANGED <<seq, size, tape, journal, chat, boot, partial, fails, store, source>>
  BY DEF NotifyFailed, MarkStale, fileVars, faultVars
<1>3. Publishing(pub[p]) /\ pub = [k \in Publishers |-> pub[k]]
  BY <1>2, PubIs DEF EventInv, EventTypes
<1>4. pub' = [pub EXCEPT ![p] = r]
  BY <1>1, <1>2, <1>3
<1>5. PubOK(r) /\ r.pc = "send"
  BY <1>1, <1>3, LostSet
<1>6. store' \in StoreRecs /\ Range(store'.recs) \subseteq Logged /\ source' \in Cursors
  BY <1>2 DEF EventInv, EventTypes, ShownDurable
<1>7. /\ client' \in [Clients -> ClientRecs] /\ \A c \in Clients : ClientHolds(client'[c])
      /\ \A c \in Clients : client'[c].recs = client[c].recs
  BY <1>2, StaleHolds
<1>8. QED  BY <1>2, <1>4, <1>5, <1>6, <1>7, ViewStep

LEMMA CursorIs == EventInv => Cursor \in Cursors /\ Cursor[1] \in 1 .. Len(tape)
<1> SUFFICES ASSUME EventInv PROVE Cursor \in Cursors /\ Cursor[1] \in 1 .. Len(tape)
  OBVIOUS
<1>1. Len(tape) \in Nat /\ Len(tape) >= 1 /\ size \in Nat
  BY InvTape, TapeAt DEF EventInv, EventTypes
<1>2. QED  BY <1>1 DEF Cursor, Cursors

\* A snapshot leaves durable records in the store.
LEMMA SnapshotHolds ==
  ASSUME EventInv, NEW cut \in Cursors, cut[1] \in 1 .. Len(tape), SnapshotLocked(cut)
  PROVE  store' \in StoreRecs /\ Range(store'.recs) \subseteq Logged /\ source' \in Cursors
<1>1. PICK v : v = Served(cut)
  OBVIOUS
<1>2. /\ source' = SourceAfter(cut)
      /\ store' = IF v.ok THEN [init |-> TRUE, cur |-> v.cur, recs |-> v.recs] ELSE store
  BY <1>1, Zenon DEF SnapshotLocked
<1>3. SourceAfter(cut) \in Cursors /\ (v.ok => v.cur \in Cursors /\ v.recs \in Seq(Nat) /\ Range(v.recs) \subseteq Logged)
  BY <1>1, ServedLogged
<1>4. CASE v.ok
  <2>1. store' = [init |-> TRUE, cur |-> v.cur, recs |-> v.recs]
    BY <1>2, <1>4
  <2>2. QED  BY <1>2, <1>3, <1>4, <2>1 DEF StoreRecs
<1>5. CASE ~v.ok
  BY <1>2, <1>3, <1>5 DEF EventInv, EventTypes, ShownDurable
<1>6. QED  BY <1>4, <1>5

\* A browser's step, with the record it is left with.
LEMMA ConnectIs ==
  ASSUME EventInv, NEW c \in Clients, Connect(c)
  PROVE  /\ \E r \in ClientRecs : ClientHolds(r) /\ client' = [client EXCEPT ![c] = r]
         /\ UNCHANGED <<seq, pub, size, tape, journal, chat, boot, partial, fails, store, source>>
<1>1. PICK d, x : d = client[c] /\ x = Cursor
  OBVIOUS
<1>2. PICK r : r = [d EXCEPT !.pc = "cut", !.conn = d.conn + 1, !.cut = x]
  OBVIOUS
<1>3. /\ client' = [client EXCEPT ![c] = r]
      /\ UNCHANGED <<seq, pub, size, tape, journal, chat, boot, partial, fails, store, source>>
  BY <1>1, <1>2 DEF Connect, fileVars, storeVars, faultVars
<1>4. d \in ClientRecs /\ ClientHolds(d) /\ x \in Cursors /\ x[1] \in 1 .. Len(tape)
  BY <1>1, ClientIs, CursorIs
<1>5. d.conn + 1 \in Nat
  BY <1>4 DEF ClientRecs
<1>6. r \in ClientRecs /\ r.cut = x /\ r.recs = d.recs /\ r.gotRecs = d.gotRecs /\ r.queue = d.queue
  BY <1>2, <1>4, <1>5 DEF ClientRecs
<1>7. ClientHolds(r)
  BY <1>4, <1>6 DEF ClientHolds
<1>8. QED  BY <1>3, <1>6, <1>7

LEMMA SubscribeIs ==
  ASSUME EventInv, NEW c \in Clients, SubscribeSnapshot(c)
  PROVE  /\ \E r \in ClientRecs : ClientHolds(r) /\ client' = [client EXCEPT ![c] = r]
         /\ store' \in StoreRecs /\ Range(store'.recs) \subseteq Logged /\ source' \in Cursors
         /\ UNCHANGED <<seq, pub, size, tape, journal, chat, boot, partial, fails>>
<1>1. PICK v : v = Served(client[c].cut)
  OBVIOUS
<1>2. /\ client[c].pc = "cut" /\ SnapshotLocked(client[c].cut)
      /\ UNCHANGED <<seq, pub, size, tape, journal, chat, boot, partial, fails>>
  BY DEF SubscribeSnapshot, fileVars
<1>3. \/ v.ok /\ client' = [client EXCEPT ![c] =
             [client[c] EXCEPT !.pc = "on", !.closed = FALSE, !.queue = <<>>,
                       !.cur = v.cur, !.recs = v.recs, !.cut = NoCursor]]
      \/ client' = [client EXCEPT ![c].pc = "off", ![c].cut = NoCursor]
  BY <1>1, Zenon DEF SubscribeSnapshot
<1>4. client[c] \in ClientRecs /\ ClientHolds(client[c]) /\ client = [k \in Clients |-> client[k]]
  BY ClientIs DEF EventInv, EventTypes
<1>5. PICK d : d = client[c]
  OBVIOUS
<1>6. d \in ClientRecs /\ ClientHolds(d) /\ d.cut \in Cursors /\ d.cut[1] \in 1 .. Len(tape)
  BY <1>2, <1>4, <1>5 DEF ClientRecs, ClientHolds
<1>7. store' \in StoreRecs /\ Range(store'.recs) \subseteq Logged /\ source' \in Cursors
  BY <1>2, <1>5, <1>6, SnapshotHolds
<1>8. <<>> \in Seq(Patches) /\ 1 .. Len(<<>>) = {}
  <2>1. <<>> \in Seq(Patches)
    OBVIOUS
  <2>2. 1 .. Len(<<>>) = {}
    OBVIOUS
  <2>3. QED  BY <2>1, <2>2
<1>9. CASE v.ok /\ client' = [client EXCEPT ![c] =
             [client[c] EXCEPT !.pc = "on", !.closed = FALSE, !.queue = <<>>,
                       !.cur = v.cur, !.recs = v.recs, !.cut = NoCursor]]
  <2>1. PICK r : r = [d EXCEPT !.pc = "on", !.closed = FALSE, !.queue = <<>>, !.cur = v.cur, !.recs = v.recs, !.cut = NoCursor]
    OBVIOUS
  <2>2. v.cur \in Cursors /\ v.recs \in Seq(Nat) /\ Range(v.recs) \subseteq Logged
    BY <1>1, <1>5, <1>6, <1>9, ServedLogged
  <2>3. r \in ClientRecs /\ r.pc = "on" /\ r.recs = v.recs /\ r.gotRecs = d.gotRecs /\ r.queue = <<>>
    BY <1>6, <1>8, <2>1, <2>2, NoCursorIs DEF ClientRecs
  <2>4. ClientHolds(r)
    BY <1>6, <1>8, <2>2, <2>3 DEF ClientHolds
  <2>5. client' = [client EXCEPT ![c] = r]
    BY <1>5, <1>9, <2>1
  <2>6. QED  BY <1>2, <1>7, <2>3, <2>4, <2>5
<1>10. CASE client' = [client EXCEPT ![c].pc = "off", ![c].cut = NoCursor]
  <2>1. PICK r : r = [d EXCEPT !.pc = "off", !.cut = NoCursor]
    OBVIOUS
  <2>2. r \in ClientRecs /\ r.pc = "off" /\ r.recs = d.recs /\ r.gotRecs = d.gotRecs /\ r.queue = d.queue
    BY <1>6, <2>1, NoCursorIs DEF ClientRecs
  <2>3. ClientHolds(r)
    BY <1>6, <2>2 DEF ClientHolds
  <2>4. client' = [client EXCEPT ![c] = r]
    BY <1>4, <1>5, <1>10, <2>1
  <2>5. QED  BY <1>2, <1>7, <2>2, <2>3, <2>4
<1>11. QED  BY <1>3, <1>9, <1>10

\* The head of a queue and the rest of it.
LEMMA QueueRest ==
  ASSUME NEW q \in Seq(Patches), q # <<>>, \A i \in 1 .. Len(q) : q[i].n \in Logged
  PROVE  /\ Head(q) \in Patches /\ Head(q).n \in Logged /\ Tail(q) \in Seq(Patches)
         /\ \A i \in 1 .. Len(Tail(q)) : Tail(q)[i].n \in Logged
<1>1. /\ Head(q) \in Patches /\ Head(q) = q[1] /\ 1 \in 1 .. Len(q) /\ Len(q) \in Nat
      /\ Tail(q) \in Seq(Patches) /\ Len(Tail(q)) = Len(q) - 1
      /\ \A i \in 1 .. Len(q) - 1 : Tail(q)[i] = q[i + 1]
  OBVIOUS
<1>2. \A i \in 1 .. Len(q) - 1 : i + 1 \in 1 .. Len(q)
  BY <1>1
<1>3. QED  BY <1>1, <1>2

LEMMA TakePatchIs ==
  ASSUME EventInv, NEW c \in Clients, TakePatch(c)
  PROVE  /\ \E r \in ClientRecs : ClientHolds(r) /\ client' = [client EXCEPT ![c] = r]
         /\ UNCHANGED <<seq, pub, size, tape, journal, chat, boot, partial, fails, store, source>>
<1>1. PICK d, q, m : d = client[c] /\ q = d.queue /\ m = Head(q)
  OBVIOUS
<1>2. d \in ClientRecs /\ ClientHolds(d)
  BY <1>1, ClientIs
<1>3. q # <<>> /\ UNCHANGED <<seq, pub, size, tape, journal, chat, boot, partial, fails, store, source>>
  BY <1>1 DEF TakePatch, fileVars, storeVars, faultVars
<1>4. q \in Seq(Patches) /\ \A i \in 1 .. Len(q) : q[i].n \in Logged
  BY <1>1, <1>2 DEF ClientRecs, ClientHolds
<1>5. /\ m \in Patches /\ m.n \in Logged /\ Tail(q) \in Seq(Patches)
      /\ \A i \in 1 .. Len(Tail(q)) : Tail(q)[i].n \in Logged
  BY <1>1, <1>3, <1>4, QueueRest
<1>6. PICK r : client' = [client EXCEPT ![c] = r] /\
               \/ r = [d EXCEPT !.queue = Tail(q), !.cur = m.cur, !.recs = Append(d.recs, m.n)]
               \/ r = [d EXCEPT !.queue = Tail(q), !.fetch = "asked"]
               \/ r = [d EXCEPT !.queue = Tail(q)]
  <2>1. PICK r : r = IF Fits(c, m)
                     THEN [d EXCEPT !.queue = Tail(q), !.cur = m.cur, !.recs = Append(d.recs, m.n)]
                     ELSE IF d.fetch = "none"
                     THEN [d EXCEPT !.queue = Tail(q), !.fetch = "asked"]
                     ELSE [d EXCEPT !.queue = Tail(q)]
    OBVIOUS
  <2>2. client' = [client EXCEPT ![c] = r]
    BY <1>1, <2>1, Zenon DEF TakePatch
  <2>3. QED  BY <2>1, <2>2
<1>7. CASE r = [d EXCEPT !.queue = Tail(q), !.cur = m.cur, !.recs = Append(d.recs, m.n)]
  <2>1. d.recs \in Seq(Nat) /\ m.n \in Nat /\ m.cur \in Cursors
    BY <1>2, <1>5 DEF ClientRecs, Patches
  <2>2. Append(d.recs, m.n) \in Seq(Nat) /\ Range(Append(d.recs, m.n)) = Range(d.recs) \cup {m.n}
    BY <2>1, RangeAppend
  <2>3. /\ r \in ClientRecs /\ r.pc = d.pc /\ r.cut = d.cut /\ r.recs = Append(d.recs, m.n)
        /\ r.gotRecs = d.gotRecs /\ r.queue = Tail(q)
    BY <1>2, <1>5, <1>7, <2>1, <2>2 DEF ClientRecs
  <2>4. ClientHolds(r)
    BY <1>2, <1>5, <2>2, <2>3 DEF ClientHolds
  <2>5. QED  BY <1>3, <1>6, <2>3, <2>4
<1>8. CASE r = [d EXCEPT !.queue = Tail(q), !.fetch = "asked"] \/ r = [d EXCEPT !.queue = Tail(q)]
  <2>1. r \in ClientRecs /\ r.pc = d.pc /\ r.cut = d.cut /\ r.recs = d.recs /\ r.gotRecs = d.gotRecs /\ r.queue = Tail(q)
    BY <1>2, <1>5, <1>8 DEF ClientRecs
  <2>2. ClientHolds(r)
    BY <1>2, <1>5, <2>1 DEF ClientHolds
  <2>3. QED  BY <1>3, <1>6, <2>1, <2>2
<1>9. QED  BY <1>6, <1>7, <1>8

LEMMA ServeStateIs ==
  ASSUME EventInv, NEW c \in Clients, ServeState(c)
  PROVE  /\ \E r \in ClientRecs : ClientHolds(r) /\ client' = [client EXCEPT ![c] = r]
         /\ store' \in StoreRecs /\ Range(store'.recs) \subseteq Logged /\ source' \in Cursors
         /\ UNCHANGED <<seq, pub, size, tape, journal, chat, boot, partial, fails>>
<1>1. PICK v, x, d : v = Served(x) /\ x = Cursor /\ d = client[c]
  OBVIOUS
<1>2. /\ SnapshotLocked(x)
      /\ UNCHANGED <<seq, pub, size, tape, journal, chat, boot, partial, fails>>
  BY <1>1 DEF ServeState, fileVars
<1>3. d \in ClientRecs /\ ClientHolds(d) /\ x \in Cursors /\ x[1] \in 1 .. Len(tape)
  BY <1>1, ClientIs, CursorIs
<1>4. store' \in StoreRecs /\ Range(store'.recs) \subseteq Logged /\ source' \in Cursors
  BY <1>2, <1>3, SnapshotHolds
<1>5. v.ok => v.cur \in Cursors /\ v.recs \in Seq(Nat) /\ Range(v.recs) \subseteq Logged
  BY <1>1, <1>3, ServedLogged
<1>6. PICK r : r = IF v.ok THEN [d EXCEPT !.fetch = "answered", !.gotCur = v.cur, !.gotRecs = v.recs]
                   ELSE [d EXCEPT !.fetch = "none"]
  OBVIOUS
<1>7. client' = [client EXCEPT ![c] = r]
  BY <1>1, <1>6, Zenon DEF ServeState
<1>8. /\ r \in ClientRecs /\ r.pc = d.pc /\ r.cut = d.cut /\ r.recs = d.recs /\ r.queue = d.queue
      /\ Range(r.gotRecs) \subseteq Logged
  <2>1. CASE v.ok
    BY <1>3, <1>5, <1>6, <2>1 DEF ClientRecs, ClientHolds
  <2>2. CASE ~v.ok
    BY <1>3, <1>6, <2>2 DEF ClientRecs, ClientHolds
  <2>3. QED  BY <2>1, <2>2
<1>9. ClientHolds(r)
  BY <1>3, <1>8 DEF ClientHolds
<1>10. QED  BY <1>2, <1>4, <1>7, <1>8, <1>9

LEMMA TakeStateIs ==
  ASSUME EventInv, NEW c \in Clients, TakeState(c) \/ Hangup(c)
  PROVE  /\ \E r \in ClientRecs : ClientHolds(r) /\ client' = [client EXCEPT ![c] = r]
         /\ UNCHANGED <<seq, pub, size, tape, journal, chat, boot, partial, fails, store, source>>
<1>1. PICK d : d = client[c]
  OBVIOUS
<1>2. d \in ClientRecs /\ ClientHolds(d)
  BY <1>1, ClientIs
<1>3. <<>> \in Seq(Patches) /\ <<>> \in Seq(Nat) /\ 1 .. Len(<<>>) = {}
  <2>1. <<>> \in Seq(Patches) /\ <<>> \in Seq(Nat)
    OBVIOUS
  <2>2. 1 .. Len(<<>>) = {}
    OBVIOUS
  <2>3. QED  BY <2>1, <2>2
<1>4. CASE TakeState(c)
  <2>1. PICK r : r = [d EXCEPT !.fetch = "none", !.cur = d.gotCur, !.recs = d.gotRecs, !.gotCur = NoCursor, !.gotRecs = <<>>]
    OBVIOUS
  <2>2. /\ client' = [client EXCEPT ![c] = r]
        /\ UNCHANGED <<seq, pub, size, tape, journal, chat, boot, partial, fails, store, source>>
    BY <1>1, <1>4, <2>1 DEF TakeState, fileVars, storeVars, faultVars
  <2>3. r \in ClientRecs /\ r.pc = d.pc /\ r.cut = d.cut /\ r.recs = d.gotRecs /\ r.gotRecs = <<>> /\ r.queue = d.queue
    BY <1>2, <1>3, <2>1, NoCursorIs DEF ClientRecs
  <2>4. ClientHolds(r)
    BY <1>2, <2>3, RangeEmpty DEF ClientHolds
  <2>5. QED  BY <2>2, <2>3, <2>4
<1>5. CASE Hangup(c)
  <2>1. PICK r : r = [d EXCEPT !.pc = "off", !.queue = <<>>]
    OBVIOUS
  <2>2. /\ client' = [client EXCEPT ![c] = r]
        /\ UNCHANGED <<seq, pub, size, tape, journal, chat, boot, partial, fails, store, source>>
    BY <1>1, <1>5, <2>1 DEF Hangup, fileVars, storeVars, faultVars
  <2>3. r \in ClientRecs /\ r.pc = "off" /\ r.recs = d.recs /\ r.gotRecs = d.gotRecs /\ r.queue = <<>>
    BY <1>2, <1>3, <2>1 DEF ClientRecs
  <2>4. ClientHolds(r)
    BY <1>2, <1>3, <2>3 DEF ClientHolds
  <2>5. QED  BY <2>2, <2>3, <2>4
<1>6. QED  BY <1>4, <1>5

LEMMA BrowserStep ==
  ASSUME EventInv, boot = "up", NEW c \in Clients, Connect(c) \/ ClientStep(c)
  PROVE  EventInv' /\ UNCHANGED tape /\ (UNCHANGED client \/ \E r \in ClientRecs : client' = [client EXCEPT ![c] = r])
<1>1. CASE SubscribeSnapshot(c) \/ ServeState(c)
  <2>1. PICK r \in ClientRecs : ClientHolds(r) /\ client' = [client EXCEPT ![c] = r]
    BY <1>1, SubscribeIs, ServeStateIs
  <2>2. /\ store' \in StoreRecs /\ Range(store'.recs) \subseteq Logged /\ source' \in Cursors
        /\ UNCHANGED <<seq, pub, size, tape, journal, chat, boot, partial, fails>>
    BY <1>1, SubscribeIs, ServeStateIs
  <2>3. client' \in [Clients -> ClientRecs] /\ \A k \in Clients : ClientHolds(client'[k])
    BY <2>1, ClientSet
  <2>4. EventInv'
    BY <2>2, <2>3, ViewStep
  <2>5. QED  BY <2>1, <2>2, <2>4
<1>2. CASE Connect(c) \/ TakePatch(c) \/ TakeState(c) \/ Hangup(c)
  <2>1. PICK r \in ClientRecs : ClientHolds(r) /\ client' = [client EXCEPT ![c] = r]
    BY <1>2, ConnectIs, TakePatchIs, TakeStateIs
  <2>2. UNCHANGED <<seq, pub, size, tape, journal, chat, boot, partial, fails, store, source>>
    BY <1>2, ConnectIs, TakePatchIs, TakeStateIs
  <2>3. EventInv'
    BY <2>1, <2>2, OwnStep
  <2>4. QED  BY <2>1, <2>2, <2>3
<1>3. CASE TakeRaw(c)
  <2>1. UNCHANGED <<seq, pub, size, tape, journal, chat, boot, partial, fails, store, source, client>>
    BY <1>3 DEF TakeRaw, fileVars, storeVars, faultVars
  <2>2. /\ store' \in StoreRecs /\ Range(store'.recs) \subseteq Logged /\ source' \in Cursors
        /\ client' \in [Clients -> ClientRecs] /\ \A k \in Clients : ClientHolds(client'[k])
    BY <2>1 DEF EventInv, EventTypes, ShownDurable
  <2>3. EventInv'
    BY <2>1, <2>2, ViewStep
  <2>4. QED  BY <2>1, <2>3
<1>4. QED  BY <1>1, <1>2, <1>3 DEF ClientStep

LEMMA SnapshotStep ==
  ASSUME EventInv, boot = "up", Snapshot
  PROVE  EventInv' /\ UNCHANGED <<tape, client>>
<1>1. PICK x : x = Cursor /\ SnapshotLocked(x)
  BY DEF Snapshot
<1>2. UNCHANGED <<seq, pub, size, tape, journal, chat, boot, partial, fails, client>>
  BY DEF Snapshot, fileVars
<1>3. store' \in StoreRecs /\ Range(store'.recs) \subseteq Logged /\ source' \in Cursors
  BY <1>1, CursorIs, SnapshotHolds
<1>4. client' \in [Clients -> ClientRecs] /\ \A k \in Clients : ClientHolds(client'[k])
  BY <1>2 DEF EventInv, EventTypes, ShownDurable
<1>5. EventInv'
  BY <1>2, <1>3, <1>4, ViewStep
<1>6. QED  BY <1>2, <1>5

\* Nothing of the invariant changes: retention, and stuttering.
LEMMA FrameStep ==
  ASSUME EventInv, UNCHANGED <<seq, pub, size, tape, journal, chat, boot, partial, fails, store, source, client>>
  PROVE  EventInv'
<1>1. Logged' = Logged /\ \A a, b : Before(a, b)' <=> Before(a, b)
  BY TapeStays
<1>2. EventTypes'
  BY DEF EventInv, EventTypes
<1>3. PredsBackward' /\ NumbersNew'
  BY <1>1 DEF EventInv, PredsBackward, NumbersNew
<1>4. ShownDurable'
  BY <1>1 DEF EventInv, ShownDurable, ClientHolds
<1>5. JournalFollows' /\ JournalComplete' /\ ShownKept'
  BY <1>1 DEF EventInv, JournalFollows, JournalComplete, ShownKept
<1>6. QED  BY <1>2, <1>3, <1>4, <1>5 DEF EventInv

-----------------------------------------------------------------------------
(* Crash and restart                                                        *)

NoStore == [init |-> FALSE, cur |-> NoCursor, recs |-> <<>>]

LEMMA NoStoreIs == NoStore \in StoreRecs /\ NoStore.recs = <<>>
<1>1. <<>> \in Seq(Nat)
  OBVIOUS
<1>2. QED  BY <1>1, NoCursorIs DEF NoStore, StoreRecs

\* A page that lost its connection keeps what it shows.
LEMMA AwayHolds ==
  ASSUME EventInv, NEW c \in Clients, NEW d, d = [Away EXCEPT !.recs = client[c].recs]
  PROVE  /\ d \in ClientRecs /\ d.recs = client[c].recs /\ d.pc = "off" /\ d.gotRecs = <<>>
         /\ \A i \in 1 .. Len(d.queue) : FALSE
<1>1. PICK rs : rs = client[c].recs
  OBVIOUS
<1>2. rs \in Seq(Nat)
  BY <1>1, ClientIs DEF ClientRecs
<1>3. d = [pc |-> "off", conn |-> 0, cut |-> NoCursor, closed |-> FALSE, queue |-> <<>>,
           cur |-> NoCursor, recs |-> rs, fetch |-> "none", gotCur |-> NoCursor, gotRecs |-> <<>>]
  BY <1>1 DEF Away
<1>4. <<>> \in Seq(Patches) /\ <<>> \in Seq(Nat)
  OBVIOUS
<1>5. 1 .. Len(<<>>) = {}
  OBVIOUS
<1>6. d \in ClientRecs
  <2>1. PICK e, x : e = <<>> /\ x = NoCursor
    OBVIOUS
  <2>2. e \in Seq(Patches) /\ e \in Seq(Nat) /\ x \in Cursors /\ 0 \in Nat
    BY <1>4, <2>1, NoCursorIs
  <2>3. PICK f : f = [pc |-> "off", conn |-> 0, cut |-> x, closed |-> FALSE, queue |-> e,
                      cur |-> x, recs |-> rs, fetch |-> "none", gotCur |-> x, gotRecs |-> e]
    OBVIOUS
  <2>4. f \in ClientRecs
    BY <1>2, <2>2, <2>3 DEF ClientRecs
  <2>5. QED  BY <1>3, <2>1, <2>3, <2>4
<1>7. d.recs = rs /\ d.pc = "off" /\ d.gotRecs = <<>> /\ d.queue = <<>>
  BY <1>3
<1>8. QED  BY <1>1, <1>5, <1>6, <1>7

LEMMA CrashStep ==
  ASSUME EventInv, boot = "up", Crash
  PROVE  EventInv' /\ \A c \in Clients : client'[c].recs = client[c].recs
<1>1. /\ fails' = fails + 1 /\ pub' = [p \in Publishers |-> Idle] /\ size' = 0
      /\ store' = NoStore /\ source' = NoCursor
      /\ client' = [c \in Clients |-> [Away EXCEPT !.recs = client[c].recs]]
      /\ UNCHANGED <<seq, journal, partial>>
  BY DEF Crash, NoStore
<1>2. \/ boot' = "down" /\ UNCHANGED <<tape, chat>>
      \/ boot' = "killed" /\ chat' \in {Opened, "torn"} /\
         (UNCHANGED tape \/ \E p \in Publishers : pub[p].pc = "write" /\ OnTape(p))
  BY DEF Crash, OnTapeOnly
<1>3. /\ TapeTypes' /\ Len(tape') = Len(tape)
      /\ \A g \in 1 .. Len(tape') : \A i \in 1 .. Len(tape'[g]) : Backward(tape'[g][i].pred, g)
      /\ \A a, b : Before(a, b) => Before(a, b)'
      /\ Logged \subseteq Logged' /\ \A n \in Logged' : n <= seq
  <2>0. \A n \in Logged : n <= seq
    BY DEF EventInv, NumbersNew
  <2>1. CASE UNCHANGED tape
    <3>1. Logged' = Logged /\ \A a, b : Before(a, b)' <=> Before(a, b)
      BY <2>1, TapeStays
    <3>2. TapeTypes /\ PredsBackward
      BY InvTape DEF EventInv
    <3>3. TapeTypes' /\ Len(tape') = Len(tape)
          /\ \A g \in 1 .. Len(tape') : \A i \in 1 .. Len(tape'[g]) : Backward(tape'[g][i].pred, g)
      BY <2>1, <3>2 DEF TapeTypes, PredsBackward
    <3>4. QED  BY <2>0, <3>1, <3>3
  <2>2. ASSUME NEW p \in Publishers, pub[p].pc = "write", OnTape(p)
        PROVE  /\ TapeTypes' /\ Len(tape') = Len(tape)
               /\ \A g \in 1 .. Len(tape') : \A i \in 1 .. Len(tape'[g]) : Backward(tape'[g][i].pred, g)
               /\ \A a, b : Before(a, b) => Before(a, b)'
               /\ Logged \subseteq Logged' /\ \A n \in Logged' : n <= seq
    <3>1. PICK n : n = pub[p].n
      OBVIOUS
    <3>2. n <= seq
      BY <2>2, <3>1, RecordIs
    <3>3. Logged' = Logged \cup {n}
      BY <2>2, <3>1, OnTapeKeeps
    <3>4. QED  BY <2>0, <2>2, <3>1, <3>2, <3>3, OnTapeKeeps
  <2>3. QED  BY <1>2, <2>1, <2>2
<1>4. ASSUME NEW c \in Clients
      PROVE  client'[c] \in ClientRecs /\ client'[c].recs = client[c].recs /\ ClientHolds(client[c])'
  <2>1. PICK d : d = [Away EXCEPT !.recs = client[c].recs]
    OBVIOUS
  <2>2. /\ d \in ClientRecs /\ d.recs = client[c].recs /\ d.pc = "off" /\ d.gotRecs = <<>>
        /\ \A i \in 1 .. Len(d.queue) : FALSE
    BY <2>1, AwayHolds
  <2>3. client'[c] = d
    BY <1>1, <2>1
  <2>4. Range(d.recs) \subseteq Logged'
    BY <1>3, <2>2, ClientIs DEF ClientHolds
  <2>5. QED  BY <2>2, <2>3, <2>4, RangeEmpty DEF ClientHolds
<1>5. EventTypes'
  <2>1. /\ \A p \in Publishers : pub'[p] = Idle /\ PubOK(pub'[p])
        /\ pub' = [p \in Publishers |-> pub'[p]]
    BY <1>1, IdleIs
  <2>2. fails' \in Nat /\ size' \in Nat
    BY <1>1 DEF EventInv, EventTypes
  <2>3. client' \in [Clients -> ClientRecs]
    BY <1>1, <1>4
  <2>4. store' \in StoreRecs /\ source' \in Cursors
    BY <1>1, NoStoreIs, NoCursorIs
  <2>5. chat' \in {"none", "whole", "torn"}
    BY <1>2 DEF EventInv, EventTypes, Opened
  <2>6. QED  BY <1>1, <1>3, <2>1, <2>2, <2>3, <2>4, <2>5 DEF EventInv, EventTypes, TapeTypes
<1>6. \A p \in Publishers : pub'[p].pc = "idle"
  BY <1>1, IdleIs
<1>7. PredsBackward' /\ NumbersNew'
  BY <1>1, <1>3, <1>6 DEF PredsBackward, NumbersNew
<1>8. ShownDurable'
  BY <1>1, <1>4, <1>6, NoStoreIs, RangeEmpty DEF ShownDurable
<1>9. JournalFollows'
  BY <1>1, <1>3 DEF EventInv, JournalFollows
<1>10. JournalComplete'
  <2>1. fails' # 0
    BY <1>1 DEF EventInv, EventTypes
  <2>2. /\ chat = "none" => journal = <<>>
        /\ chat = "torn" => partial
    BY DEF EventInv, JournalComplete
  <2>3. boot' \in {"down", "killed"} /\ (chat' = "none" => chat = "none") /\ (chat' = "torn" => chat = "torn" \/ boot' = "killed")
    BY <1>2 DEF Opened
  <2>4. QED  BY <1>1, <2>1, <2>2, <2>3 DEF JournalComplete
<1>11. ShownKept'
  <2>1. boot' # "restored"
    BY <1>2
  <2>2. ~partial => \A c \in Clients : Range(client[c].recs) \subseteq Range(journal)
    BY DEF EventInv, ShownKept
  <2>3. QED  BY <1>1, <1>4, <2>1, <2>2 DEF ShownKept
<1>12. QED  BY <1>4, <1>5, <1>7, <1>8, <1>9, <1>10, <1>11 DEF EventInv

LEMMA RestartStep ==
  ASSUME EventInv, Restart
  PROVE  EventInv' /\ UNCHANGED <<tape, client>>
<1>1. PICK s : s = IF chat = "none" THEN Records(Last(tape)) ELSE journal
  OBVIOUS
<1>2. /\ boot \in {"down", "killed"} /\ boot' = IF LoadReplayOK THEN "restored" ELSE "refused"
      /\ store' = IF ~LoadReplayOK THEN NoStore ELSE [init |-> TRUE, cur |-> NoCursor, recs |-> s]
      /\ UNCHANGED <<seq, pub, size, tape, journal, chat, partial, fails, source, client>>
  BY <1>1 DEF Restart, NoStore, faultVars
<1>3. s \in Seq(Nat) /\ Range(s) \subseteq Logged
  <2>1. CASE chat = "none"
    <3>1. TapeTypes /\ Len(tape) \in 1 .. Len(tape) /\ tape \in Seq(Seq(TapeRecs))
      BY InvTape, TapeAt DEF TapeTypes
    <3>2. PICK rs : rs = tape[Len(tape)]
      OBVIOUS
    <3>3. Last(tape) = rs
      BY <3>1, <3>2 DEF Last
    <3>4. rs \in Seq(TapeRecs) /\ Len(rs) <= Len(tape[Len(tape)])
      BY <3>1, <3>2, TapeAt
    <3>5. Records(rs) \in Seq(Nat) /\ Range(Records(rs)) \subseteq Logged
      BY <3>1, <3>2, <3>4, RecordsLogged
    <3>6. QED  BY <1>1, <2>1, <3>3, <3>5
  <2>2. CASE chat # "none"
    BY <1>1, <2>2 DEF EventInv, EventTypes, JournalFollows
  <2>3. QED  BY <2>1, <2>2
<1>4. store' \in StoreRecs /\ Range(store'.recs) \subseteq Logged /\ (LoadReplayOK => store'.recs = s)
  <2>1. CASE LoadReplayOK
    <3>1. store' = [init |-> TRUE, cur |-> NoCursor, recs |-> s]
      BY <1>2, <2>1
    <3>2. QED  BY <1>3, <3>1, NoCursorIs DEF StoreRecs
  <2>2. CASE ~LoadReplayOK
    <3>1. store' = NoStore
      BY <1>2, <2>2
    <3>2. QED  BY <2>2, <3>1, NoStoreIs, RangeEmpty
  <2>3. QED  BY <2>1, <2>2
<1>5. Logged' = Logged /\ \A a, b : Before(a, b)' <=> Before(a, b)
  BY <1>2, TapeStays
<1>6. EventTypes'
  BY <1>2, <1>4 DEF EventInv, EventTypes
<1>7. PredsBackward' /\ NumbersNew'
  BY <1>2, <1>5 DEF EventInv, PredsBackward, NumbersNew
<1>8. ShownDurable'
  BY <1>2, <1>4, <1>5 DEF EventInv, ShownDurable, ClientHolds
<1>9. JournalFollows'
  BY <1>2, <1>5 DEF EventInv, JournalFollows
<1>10. JournalComplete'
  <2>1. /\ fails # 0
        /\ chat = "none" => journal = <<>>
    BY <1>2 DEF EventInv, JournalComplete
  <2>2. chat = "torn" => boot' = "refused"
    BY <1>2 DEF LoadReplayOK
  <2>3. boot' # "up"
    BY <1>2
  <2>4. QED  BY <1>2, <2>1, <2>2, <2>3 DEF JournalComplete
<1>11. ShownKept'
  <2>1. ~partial => \A c \in Clients : Range(client[c].recs) \subseteq Range(journal)
    BY DEF EventInv, ShownKept
  <2>2. ASSUME ~partial, boot' = "restored", NEW c \in Clients PROVE Range(client[c].recs) \subseteq Range(store'.recs)
    <3>1. store'.recs = s
      BY <1>2, <1>4, <2>2
    <3>2. CASE chat = "none"
      <4>1. Range(journal) = {}
        BY <3>2, RangeEmpty DEF EventInv, JournalComplete
      <4>2. QED  BY <2>1, <2>2, <4>1
    <3>3. CASE chat # "none"
      BY <1>1, <2>1, <2>2, <3>1, <3>3
    <3>4. QED  BY <3>2, <3>3
  <2>3. QED  BY <1>2, <2>1, <2>2 DEF ShownKept
<1>12. QED  BY <1>2, <1>6, <1>7, <1>8, <1>9, <1>10, <1>11 DEF EventInv

-----------------------------------------------------------------------------
(* Theorems                                                                 *)

LEMMA StartOfLog ==
  ASSUME tape = << <<>> >>
  PROVE  /\ TapeTypes /\ Len(tape) = 1 /\ tape[1] = <<>>
         /\ (\A g \in 1 .. Len(tape) : \A i \in 1 .. Len(tape[g]) : FALSE) /\ Logged = {}
<1>1. <<>> \in Seq(TapeRecs)
  OBVIOUS
<1>2. tape \in Seq(Seq(TapeRecs)) /\ Len(tape) = 1 /\ tape[1] = <<>>
  BY <1>1
<1>3. TapeTypes
  <2>1. Len(<<>>) = 0
    OBVIOUS
  <2>2. tape # <<>>
    BY <1>2, <2>1
  <2>3. QED  BY <1>2, <2>2 DEF TapeTypes
<1>4. 1 .. Len(<<>>) = {}
  OBVIOUS
<1>5. \A g \in 1 .. Len(tape) : \A i \in 1 .. Len(tape[g]) : FALSE
  BY <1>2, <1>4
<1>6. Logged = {}
  BY <1>3, <1>5, LoggedAt
<1>7. QED  BY <1>2, <1>3, <1>5, <1>6

LEMMA EventInit == Init => EventInv
<1> SUFFICES ASSUME Init PROVE EventInv
  OBVIOUS
<1>1. /\ TapeTypes /\ Len(tape) = 1
      /\ (\A g \in 1 .. Len(tape) : \A i \in 1 .. Len(tape[g]) : FALSE) /\ Logged = {}
  BY StartOfLog DEF Init
<1>2. /\ seq = 0 /\ size = 0 /\ fails = 0 /\ journal = <<>> /\ chat = "none" /\ boot = "up" /\ partial = FALSE
      /\ store = NoStore /\ source = NoCursor /\ client = [c \in Clients |-> Away] /\ pub = [p \in Publishers |-> Idle]
  BY DEF Init, NoStore
<1>3. \A p \in Publishers : pub[p] = Idle /\ pub[p].pc = "idle" /\ PubOK(pub[p])
  BY <1>2, IdleIs
<1>4. <<>> \in Seq(Patches) /\ <<>> \in Seq(Nat)
  OBVIOUS
<1>5. 1 .. Len(<<>>) = {}
  OBVIOUS
<1>6. Away \in ClientRecs /\ ClientHolds(Away)
  <2>1. PICK e, x : e = <<>> /\ x = NoCursor
    OBVIOUS
  <2>2. e \in Seq(Patches) /\ e \in Seq(Nat) /\ x \in Cursors /\ 0 \in Nat
    BY <1>4, <2>1, NoCursorIs
  <2>3. PICK d : d = [pc |-> "off", conn |-> 0, cut |-> x, closed |-> FALSE, queue |-> e,
                      cur |-> x, recs |-> e, fetch |-> "none", gotCur |-> x, gotRecs |-> e]
    OBVIOUS
  <2>4. d = Away
    BY <2>1, <2>3 DEF Away
  <2>5. d \in ClientRecs
    BY <2>2, <2>3 DEF ClientRecs
  <2>6. d.pc = "off" /\ d.queue = <<>> /\ d.recs = <<>> /\ d.gotRecs = <<>>
    BY <2>1, <2>3
  <2>7. ClientHolds(d)
    BY <1>5, <2>6, RangeEmpty DEF ClientHolds
  <2>8. QED  BY <2>4, <2>5, <2>7
<1>7. EventTypes
  <2>1. pub = [p \in Publishers |-> pub[p]] /\ client \in [Clients -> ClientRecs]
    BY <1>2, <1>6
  <2>2. journal \in Seq(Nat) /\ seq \in Nat /\ size \in Nat /\ fails \in Nat
    BY <1>2, <1>4
  <2>3. QED  BY <1>1, <1>2, <1>3, <2>1, <2>2, NoStoreIs, NoCursorIs DEF EventTypes, TapeTypes
<1>8. PredsBackward /\ NumbersNew
  BY <1>1, <1>3 DEF PredsBackward, NumbersNew
<1>9. ShownDurable
  BY <1>1, <1>2, <1>3, <1>6, NoStoreIs, RangeEmpty DEF ShownDurable
<1>10. JournalFollows /\ JournalComplete
  BY <1>1, <1>2, <1>5, RangeEmpty DEF JournalFollows, JournalComplete
<1>11. ShownKept
  <2>1. Away.recs = <<>>
    BY DEF Away
  <2>2. \A c \in Clients : Range(client[c].recs) = {}
    BY <1>2, <2>1, RangeEmpty
  <2>3. QED  BY <1>2, <2>2 DEF ShownKept
<1>12. QED  BY <1>7, <1>8, <1>9, <1>10, <1>11 DEF EventInv

LEMMA EventStep == EventInv /\ [Next]_vars => EventInv'
<1> SUFFICES ASSUME EventInv, [Next]_vars PROVE EventInv'
  OBVIOUS
<1>1. CASE UNCHANGED vars
  BY <1>1, FrameStep DEF vars
<1>2. ASSUME boot = "up", NEW p \in Publishers, PublisherStep(p) \/ PublishStep(p) PROVE EventInv'
  <2>1. CASE PublisherStep(p)
    BY <2>1, PublishStep1, RotateStep DEF PublisherStep
  <2>2. CASE AppendTapeFails(p) \/ AppendJournalFails(p) \/ AppendSyncFails(p) \/ Appended(p)
    BY <1>2, <2>2, AppendStep
  <2>3. CASE PublishReset(p)
    BY <2>3, PublishResetStep
  <2>4. CASE Notify(p) \/ NotifyFailed(p)
    BY <1>2, <2>4, NotifyStep, NotifyFailedStep
  <2>5. CASE PublishError(p) \/ \E ch \in pub[p].to : Send(p, ch)
    BY <2>5, SendStep
  <2>6. QED  BY <1>2, <2>1, <2>2, <2>3, <2>4, <2>5 DEF PublishStep
<1>3. ASSUME NEW g \in 1 .. Len(tape), ApplyRetention(g) PROVE EventInv'
  BY <1>3, FrameStep DEF ApplyRetention, storeVars, faultVars
<1>4. QED
  BY <1>1, <1>2, <1>3, BrowserStep, SnapshotStep, CrashStep, RestartStep DEF Next

\* The invariant of the event path, for any number of publishers and browsers:
\* a number is written once, and nothing is applied, served, sent or shown that
\* is not on the tape.
THEOREM EventsHold == Spec => []EventInv
<1>1. QED  BY EventInit, EventStep, PTL DEF Spec

\* What a browser has ever shown is in the journal, and in the chat rebuilt from
\* it, unless an append failed half way (bus.go publish, jsonl.go WriteRecord,
\* restoreRetainedChats).
THEOREM ShownSurvivesAlways == Spec => []ShownSurvives
<1>1. EventInv => ShownSurvives
  BY DEF EventInv, ShownKept, ShownSurvives
<1>2. QED  BY <1>1, EventsHold, PTL

\* A process that died between two appends starts again (replay.go LoadReplay).
THEOREM StartsAgainAlways == Spec => []StartsAgain
<1>1. EventInv => StartsAgain
  BY DEF EventInv, EventTypes, JournalComplete, StartsAgain, LoadReplayOK
<1>2. QED  BY <1>1, EventsHold, PTL

-----------------------------------------------------------------------------
(* The event path implements Feed                                           *)

LogOf(t) == [g \in 1 .. Len(t) |-> Records(t[g])]
ViewOf(cl) == [c \in Clients |-> Range(cl[c].recs)]

LEMMA RecordsIs ==
  ASSUME NEW s \in Seq(TapeRecs)
  PROVE  Records(s) \in Seq(Nat) /\ Len(Records(s)) = Len(s) /\ \A i \in 1 .. Len(s) : Records(s)[i] = s[i].n
<1>1. Len(s) \in Nat /\ \A i \in 1 .. Len(s) : s[i] \in TapeRecs
  OBVIOUS
<1>2. \A i \in 1 .. Len(s) : s[i].n \in Nat
  BY <1>1 DEF TapeRecs
<1>3. Records(s) = [i \in 1 .. Len(s) |-> s[i].n]
  BY DEF Records
<1>4. QED  BY <1>1, <1>2, <1>3

LEMMA RecordsGrow ==
  ASSUME NEW s \in Seq(TapeRecs), NEW r \in TapeRecs
  PROVE  Records(Append(s, r)) = Append(Records(s), r.n)
<1>1. PICK t, a, b : t = Append(s, r) /\ a = Records(t) /\ b = Append(Records(s), r.n)
  OBVIOUS
<1>2. r.n \in Nat
  BY DEF TapeRecs
<1>3. /\ t \in Seq(TapeRecs) /\ Len(t) = Len(s) + 1 /\ Len(s) \in Nat /\ t[Len(s) + 1] = r
      /\ \A i \in 1 .. Len(s) : t[i] = s[i]
  BY <1>1
<1>4. a \in Seq(Nat) /\ Len(a) = Len(s) + 1 /\ \A i \in 1 .. Len(s) + 1 : a[i] = t[i].n
  BY <1>1, <1>3, RecordsIs
<1>5. PICK u : u = Records(s)
  OBVIOUS
<1>6. u \in Seq(Nat) /\ Len(u) = Len(s) /\ \A i \in 1 .. Len(s) : u[i] = s[i].n
  BY <1>5, RecordsIs
<1>7. b \in Seq(Nat) /\ Len(b) = Len(s) + 1 /\ b[Len(s) + 1] = r.n /\ \A i \in 1 .. Len(s) : b[i] = u[i]
  BY <1>1, <1>2, <1>5, <1>6
<1>8. \A i \in 1 .. Len(s) + 1 : i \in 1 .. Len(s) \/ i = Len(s) + 1
  BY <1>3
<1>9. \A i \in 1 .. Len(s) + 1 : a[i] = b[i]
  BY <1>3, <1>4, <1>6, <1>7, <1>8
<1>10. a = [i \in 1 .. Len(s) + 1 |-> a[i]] /\ b = [i \in 1 .. Len(s) + 1 |-> b[i]]
  BY <1>4, <1>7
<1>11. a = b
  BY <1>9, <1>10
<1>12. QED  BY <1>1, <1>11

\* The durable records of Feed are the numbers on the tape.
LEMMA LogIs ==
  ASSUME NEW t \in Seq(Seq(TapeRecs))
  PROVE  /\ LogOf(t) \in Seq(Seq(Nat)) /\ Len(LogOf(t)) = Len(t)
         /\ \A g \in 1 .. Len(t) : LogOf(t)[g] = Records(t[g])
         /\ \A n : n \in UNION {Range(LogOf(t)[g]) : g \in 1 .. Len(LogOf(t))}
                     <=> \E g \in 1 .. Len(t) : \E i \in 1 .. Len(t[g]) : t[g][i].n = n
<1>1. Len(t) \in Nat /\ \A g \in 1 .. Len(t) : t[g] \in Seq(TapeRecs)
  OBVIOUS
<1>2. \A g \in 1 .. Len(t) : /\ Records(t[g]) \in Seq(Nat) /\ Len(Records(t[g])) = Len(t[g])
                             /\ \A i \in 1 .. Len(t[g]) : Records(t[g])[i] = t[g][i].n
  BY <1>1, RecordsIs
<1> DEFINE L == LogOf(t)
<1>4. L \in Seq(Seq(Nat)) /\ Len(L) = Len(t) /\ \A g \in 1 .. Len(t) : L[g] = Records(t[g])
  BY <1>1, <1>2 DEF LogOf
<1> HIDE DEF L
<1>5. ASSUME NEW n
      PROVE  n \in UNION {Range(L[g]) : g \in 1 .. Len(L)} <=> \E g \in 1 .. Len(t) : \E i \in 1 .. Len(t[g]) : t[g][i].n = n
  <2>1. n \in UNION {Range(L[g]) : g \in 1 .. Len(L)} <=> \E g \in 1 .. Len(t) : n \in Range(L[g])
    BY <1>4
  <2>2. ASSUME NEW g \in 1 .. Len(t) PROVE n \in Range(L[g]) <=> \E i \in 1 .. Len(t[g]) : t[g][i].n = n
    <3>1. PICK s : s = L[g]
      OBVIOUS
    <3>2. s \in Seq(Nat) /\ Len(s) = Len(t[g]) /\ \A i \in 1 .. Len(t[g]) : s[i] = t[g][i].n
      BY <1>2, <1>4, <3>1
    <3>3. Range(s) = {s[i] : i \in 1 .. Len(s)}
      BY <3>2, RangeOf
    <3>4. n \in Range(s) <=> \E i \in 1 .. Len(s) : s[i] = n
      BY <3>3
    <3>5. n \in Range(s) <=> \E i \in 1 .. Len(t[g]) : t[g][i].n = n
      BY <3>2, <3>4
    <3>6. QED  BY <3>1, <3>5
  <2>3. QED  BY <2>1, <2>2
<1>6. QED  BY <1>4, <1>5, Zenon DEF L

LEMMA DurableIs ==
  /\ TapeTypes => Feed!Durable = Logged
  /\ TapeTypes' => Feed!Durable' = Logged'
<1>1. Feed!Durable = UNION {Range(LogOf(tape)[g]) : g \in 1 .. Len(LogOf(tape))}
  BY Zenon DEF Feed!Durable, Feed!Range, Range, LogOf
<1>2. Feed!Durable' = UNION {Range(LogOf(tape')[g]) : g \in 1 .. Len(LogOf(tape'))}
  BY Zenon DEF Feed!Durable, Feed!Range, Range, LogOf
<1>3. ASSUME TapeTypes PROVE Feed!Durable = Logged
  <2>1. PICK D : D = UNION {Range(LogOf(tape)[g]) : g \in 1 .. Len(LogOf(tape))}
    OBVIOUS
  <2>2. \A n : n \in D <=> \E g \in 1 .. Len(tape) : \E i \in 1 .. Len(tape[g]) : tape[g][i].n = n
    BY <1>3, <2>1, LogIs DEF TapeTypes
  <2>3. QED  BY <1>1, <1>3, <2>1, <2>2, LoggedAt
<1>4. ASSUME TapeTypes' PROVE Feed!Durable' = Logged'
  <2>1. PICK t : t = tape'
    OBVIOUS
  <2>2. PICK D : D = UNION {Range(LogOf(t)[g]) : g \in 1 .. Len(LogOf(t))}
    OBVIOUS
  <2>3. t \in Seq(Seq(TapeRecs))
    BY <1>4, <2>1 DEF TapeTypes
  <2>4. \A n : n \in D <=> \E g \in 1 .. Len(t) : \E i \in 1 .. Len(t[g]) : t[g][i].n = n
    BY <2>2, <2>3, LogIs
  <2>5. \A n : n \in Logged' <=> \E g \in 1 .. Len(t) : \E i \in 1 .. Len(t[g]) : t[g][i].n = n
    BY <1>4, <2>1, LoggedNext
  <2>6. Feed!Durable' = D
    BY <1>2, <2>1, <2>2
  <2>7. QED  BY <2>4, <2>5, <2>6
<1>5. QED  BY <1>3, <1>4

\* A record is added to the tape: it becomes durable.
LEMMA FeedRecord ==
  ASSUME EventInv, NEW p \in Publishers, pub[p].pc = "write", OnTape(p),
         \A c \in Clients : client'[c].recs = client[c].recs
  PROVE  \E n \in Feed!Durable' : Feed!Record(n)
<1>0. PICK n, r, l : n = pub[p].n /\ r = Record(p) /\ l = Len(tape)
  OBVIOUS
<1>1. /\ TapeTypes /\ tape \in Seq(Seq(TapeRecs)) /\ l \in Nat /\ l >= 1 /\ tape[l] \in Seq(TapeRecs)
      /\ r \in TapeRecs /\ r.n = n /\ n \notin Logged
      /\ tape' = [tape EXCEPT ![Len(tape)] = Append(@, r)]
  <2>1. TapeTypes /\ tape \in Seq(Seq(TapeRecs)) /\ l \in Nat /\ l >= 1 /\ tape[l] \in Seq(TapeRecs)
    BY <1>0, InvTape, TapeAt DEF TapeTypes
  <2>2. r \in TapeRecs /\ r.n = n /\ n \notin Logged
    BY <1>0, RecordIs DEF EventInv, NumbersNew
  <2>3. QED  BY <1>0, <2>1, <2>2 DEF OnTape
<1>2. /\ TapeTypes' /\ Len(tape') = l
      /\ \A g \in 1 .. l - 1 : tape'[g] = tape[g]
      /\ tape'[l] = Append(tape[l], r)
      /\ Logged' = Logged \cup {n}
  BY <1>0, <1>1, TapeGrows
<1>3. n \notin Feed!Durable /\ n \in Feed!Durable'
  BY <1>1, <1>2, DurableIs
<1>4. PICK t, a, b : t = tape' /\ a = LogOf(tape) /\ b = LogOf(t)
  OBVIOUS
<1>5. /\ a = [g \in 1 .. l |-> Records(tape[g])] /\ b = [g \in 1 .. l |-> Records(t[g])]
      /\ a \in Seq(Seq(Nat)) /\ Len(a) = l /\ a[l] = Records(tape[l])
  <2>1. a = [g \in 1 .. l |-> Records(tape[g])] /\ b = [g \in 1 .. l |-> Records(t[g])]
    BY <1>0, <1>2, <1>4 DEF LogOf
  <2>2. a \in Seq(Seq(Nat)) /\ Len(a) = l
    BY <1>0, <1>1, <1>4, LogIs
  <2>3. l \in 1 .. l
    BY <1>1
  <2>4. QED  BY <2>1, <2>2, <2>3
<1>6. \A g \in 1 .. l : g = l \/ g \in 1 .. l - 1
  BY <1>1
<1>7. b[l] = Append(a[l], n)
  <2>1. Records(Append(tape[l], r)) = Append(Records(tape[l]), n)
    BY <1>1, RecordsGrow
  <2>2. b[l] = Records(t[l])
    BY <1>1, <1>5
  <2>3. QED  BY <1>2, <1>4, <1>5, <2>1, <2>2
<1>8. b = [a EXCEPT ![Len(a)] = Append(@, n)]
  <2>1. PICK x : x = Append(a[l], n)
    OBVIOUS
  <2>2. [a EXCEPT ![Len(a)] = Append(@, n)] = [g \in 1 .. l |-> IF g = l THEN x ELSE a[g]]
    BY <1>5, <2>1
  <2>3. \A g \in 1 .. l - 1 : g \in 1 .. l /\ b[g] = a[g]
    <3>1. TAKE g \in 1 .. l - 1
    <3>2. g \in 1 .. l /\ t[g] = tape[g]
      BY <1>1, <1>2, <1>4
    <3>3. QED  BY <1>5, <3>2
  <2>4. \A g \in 1 .. l : b[g] = IF g = l THEN x ELSE a[g]
    BY <1>6, <1>7, <2>1, <2>3
  <2>5. b = [g \in 1 .. l |-> b[g]]
    BY <1>5
  <2>6. b = [g \in 1 .. l |-> IF g = l THEN x ELSE a[g]]
    BY <2>4, <2>5
  <2>7. QED  BY <2>2, <2>6
<1>9. ViewOf(client') = ViewOf(client)
  BY DEF ViewOf
<1>10. Feed!Record(n)
  <2>1. LogOf(tape') = [LogOf(tape) EXCEPT ![Len(LogOf(tape))] = Append(@, n)]
    BY <1>4, <1>8
  <2>2. QED  BY <1>3, <1>9, <2>1 DEF Feed!Record, LogOf, ViewOf, Feed!Range, Range
<1>11. QED  BY <1>3, <1>10

LEMMA FeedRotate ==
  ASSUME EventInv, NEW p \in Publishers, Rotate(p)
  PROVE  Feed!Rotate
<1>1. tape' = Append(tape, <<>>) /\ client' = client
  BY DEF Rotate
<1>2. TapeTypes /\ tape \in Seq(Seq(TapeRecs)) /\ Len(tape) \in Nat
  BY InvTape, TapeAt DEF TapeTypes
<1>3. PICK l, t, a, b : l = Len(tape) /\ t = tape' /\ a = LogOf(tape) /\ b = LogOf(t)
  OBVIOUS
<1>4. Len(t) = l + 1 /\ (\A g \in 1 .. l : t[g] = tape[g]) /\ t[l + 1] = <<>>
  BY <1>1, <1>2, <1>3, TapeRotates
<1>5. Records(<<>>) = <<>>
  <2>1. <<>> \in Seq(TapeRecs)
    OBVIOUS
  <2>2. PICK e : e = Records(<<>>)
    OBVIOUS
  <2>3. e \in Seq(Nat) /\ Len(e) = Len(<<>>)
    BY <2>1, <2>2, RecordsIs
  <2>4. Len(<<>>) = 0
    OBVIOUS
  <2>5. e = <<>>
    BY <2>3, <2>4
  <2>6. QED  BY <2>2, <2>5
<1>6. /\ a = [g \in 1 .. l |-> Records(tape[g])] /\ b = [g \in 1 .. l + 1 |-> Records(t[g])]
      /\ a \in Seq(Seq(Nat)) /\ Len(a) = l /\ l \in Nat
  BY <1>2, <1>3, <1>4, LogIs DEF LogOf
<1>7. /\ Append(a, <<>>) \in Seq(Seq(Nat)) /\ Len(Append(a, <<>>)) = l + 1
      /\ (\A g \in 1 .. l : Append(a, <<>>)[g] = a[g]) /\ Append(a, <<>>)[l + 1] = <<>>
  <2>1. <<>> \in Seq(Nat)
    OBVIOUS
  <2>2. QED  BY <1>6, <2>1
<1>8. PICK d : d = Append(a, <<>>)
  OBVIOUS
<1>9. \A g \in 1 .. l + 1 : g = l + 1 \/ g \in 1 .. l
  BY <1>6
<1>10. \A g \in 1 .. l + 1 : b[g] = d[g]
  BY <1>4, <1>5, <1>6, <1>7, <1>8, <1>9
<1>11. d = [g \in 1 .. l + 1 |-> d[g]]
  <2>1. d \in Seq(Seq(Nat)) /\ Len(d) = l + 1
    BY <1>7, <1>8
  <2>2. QED  BY <2>1
<1>12. b = d
  BY <1>6, <1>10, <1>11
<1>13. LogOf(tape') = Append(LogOf(tape), <<>>)
  BY <1>3, <1>8, <1>12
<1>14. QED  BY <1>1, <1>13 DEF Feed!Rotate, LogOf

\* At most one browser shows something else, of what is on the tape.
LEMMA FeedShow ==
  ASSUME EventInv, EventInv', UNCHANGED tape,
         \/ \A c \in Clients : client'[c].recs = client[c].recs
         \/ \E c \in Clients : \E r : client' = [client EXCEPT ![c] = r]
  PROVE  \/ UNCHANGED <<LogOf(tape), ViewOf(client)>>
         \/ \E c \in Clients : Feed!Show(c, ViewOf(client')[c])
<1>1. CASE \A c \in Clients : client'[c].recs = client[c].recs
  BY <1>1 DEF LogOf, ViewOf
<1>2. ASSUME NEW c \in Clients, NEW r, client' = [client EXCEPT ![c] = r]
      PROVE  Feed!Show(c, ViewOf(client')[c])
  <2>1. client \in [Clients -> ClientRecs]
    BY DEF EventInv, EventTypes
  <2>2. \A k \in Clients \ {c} : client'[k] = client[k]
    BY <1>2, <2>1
  <2>3. PICK v, w : v = ViewOf(client) /\ w = ViewOf(client')
    OBVIOUS
  <2>4. v = [k \in Clients |-> Range(client[k].recs)] /\ w = [k \in Clients |-> Range(client'[k].recs)]
    BY <2>3 DEF ViewOf
  <2>5. w = [v EXCEPT ![c] = w[c]]
    BY <2>2, <2>4
  <2>6. w[c] \subseteq Logged'
    BY <2>4 DEF EventInv, ShownDurable, ClientHolds
  <2>7. w[c] \subseteq Feed!Durable
    BY <2>6, InvTape, TapeStays, DurableIs
  <2>8. /\ LogOf(tape') = LogOf(tape)
        /\ ViewOf(client') = [ViewOf(client) EXCEPT ![c] = ViewOf(client')[c]]
        /\ ViewOf(client')[c] \subseteq Feed!Durable
    BY <2>3, <2>5, <2>7 DEF LogOf
  <2>9. QED  BY <2>8 DEF Feed!Show, LogOf, ViewOf
<1>3. QED  BY <1>1, <1>2

LEMMA FeedStep ==
  ASSUME EventInv, EventInv', Next
  PROVE  \/ UNCHANGED <<LogOf(tape), ViewOf(client)>>
         \/ \E n \in Feed!Durable' : Feed!Record(n)
         \/ Feed!Rotate
         \/ \E c \in Clients : Feed!Show(c, ViewOf(client')[c])
<1>1. ASSUME boot = "up", NEW p \in Publishers, PublisherStep(p) \/ PublishStep(p)
      PROVE  \/ UNCHANGED <<LogOf(tape), ViewOf(client)>>
             \/ \E n \in Feed!Durable' : Feed!Record(n)
             \/ Feed!Rotate
             \/ \E c \in Clients : Feed!Show(c, ViewOf(client')[c])
  <2>1. CASE Rotate(p)
    BY <2>1, FeedRotate
  <2>2. CASE AppendTapeFails(p) \/ AppendJournalFails(p) \/ AppendSyncFails(p) \/ Appended(p)
    <3>1. /\ client' = client /\ pub[p].pc = "write"
          /\ OnTape(p) \/ UNCHANGED tape
      BY <2>2 DEF OnTapeOnly, AppendTapeFails, AppendJournalFails, AppendSyncFails, Appended, Fails, FailsWith
    <3>2. \A c \in Clients : client'[c].recs = client[c].recs
      BY <3>1
    <3>3. CASE OnTape(p)
      BY <3>1, <3>2, <3>3, FeedRecord
    <3>4. CASE UNCHANGED tape
      BY <3>2, <3>4, FeedShow
    <3>5. QED  BY <3>1, <3>3, <3>4
  <2>3. CASE Publish(p) \/ PublishReset(p) \/ PublishError(p) \/ \E ch \in pub[p].to : Send(p, ch)
    <3>1. UNCHANGED <<tape, client>>
      BY <2>3 DEF Publish, PublishReset, PublishError, Send, fileVars
    <3>2. QED  BY <3>1, FeedShow
  <2>4. CASE Notify(p) \/ NotifyFailed(p)
    <3>1. UNCHANGED tape
      BY <2>4 DEF Notify, NotifyFailed, fileVars
    <3>2. \A c \in Clients : client'[c].recs = client[c].recs
      BY <1>1, <2>4, NotifyStep, NotifyFailedStep
    <3>3. QED  BY <3>1, <3>2, FeedShow
  <2>5. QED  BY <1>1, <2>1, <2>2, <2>3, <2>4 DEF PublisherStep, PublishStep
<1>2. ASSUME boot = "up", NEW c \in Clients, Connect(c) \/ ClientStep(c)
      PROVE  \/ UNCHANGED <<LogOf(tape), ViewOf(client)>>
             \/ \E k \in Clients : Feed!Show(k, ViewOf(client')[k])
  <2>1. UNCHANGED tape /\ (UNCHANGED client \/ \E r \in ClientRecs : client' = [client EXCEPT ![c] = r])
    BY <1>2, BrowserStep
  <2>2. QED  BY <2>1, FeedShow
<1>3. CASE (Snapshot /\ boot = "up") \/ Restart \/ \E g \in 1 .. Len(tape) : ApplyRetention(g)
  <2>1. UNCHANGED <<tape, client>>
    BY <1>3, SnapshotStep, RestartStep DEF ApplyRetention
  <2>2. QED  BY <2>1, FeedShow
<1>4. CASE Crash /\ boot = "up"
  <2>1. \A c \in Clients : client'[c].recs = client[c].recs
    BY <1>4, CrashStep
  <2>2. UNCHANGED tape \/ \E p \in Publishers : pub[p].pc = "write" /\ OnTape(p)
    BY <1>4 DEF Crash, OnTapeOnly
  <2>3. QED  BY <2>1, <2>2, FeedShow, FeedRecord
<1>5. QED  BY <1>1, <1>2, <1>3, <1>4 DEF Next

LEMMA FeedStart == Init => Feed!FeedInit
<1> SUFFICES ASSUME Init PROVE Feed!FeedInit
  OBVIOUS
<1>1. tape = << <<>> >> /\ client = [c \in Clients |-> Away]
  BY DEF Init
<1>2. Len(tape) = 1 /\ tape[1] = <<>>
  BY <1>1, StartOfLog
<1>3. Records(<<>>) = <<>>
  <2>1. <<>> \in Seq(TapeRecs)
    OBVIOUS
  <2>2. PICK e : e = Records(<<>>)
    OBVIOUS
  <2>3. e \in Seq(Nat) /\ Len(e) = Len(<<>>)
    BY <2>1, <2>2, RecordsIs
  <2>4. Len(<<>>) = 0
    OBVIOUS
  <2>5. e = <<>>
    BY <2>3, <2>4
  <2>6. QED  BY <2>2, <2>5
<1>4. [g \in 1 .. Len(tape) |-> Records(tape[g])] = << <<>> >>
  <2>1. 1 .. 1 = {1}
    OBVIOUS
  <2>2. QED  BY <1>2, <1>3, <2>1
<1>5. [c \in Clients |-> Range(client[c].recs)] = [c \in Clients |-> {}]
  <2>1. Away.recs = <<>>
    BY DEF Away
  <2>2. QED  BY <1>1, <2>1, RangeEmpty
<1>6. QED  BY <1>4, <1>5 DEF Feed!FeedInit, Feed!Range, Range

\* The event path implements Feed: whatever fails, is reordered or is re-read,
\* the log only grows at its end by a record it did not have, and a browser shows
\* durable records only (bus.go publish, store.go Apply, server_state.go).
THEOREM EventLogImplementsFeed == Spec => FeedSpec
<1>1. EventInv /\ EventInv' /\ [Next]_vars =>
        [Feed!FeedNext]_<<[g \in 1 .. Len(tape) |-> Records(tape[g])], [c \in Clients |-> Range(client[c].recs)]>>
  <2> SUFFICES ASSUME EventInv, EventInv', [Next]_vars
               PROVE  [Feed!FeedNext]_<<[g \in 1 .. Len(tape) |-> Records(tape[g])], [c \in Clients |-> Range(client[c].recs)]>>
    OBVIOUS
  <2>1. CASE UNCHANGED vars
    BY <2>1 DEF vars
  <2>2. CASE Next
    <3>1. \/ UNCHANGED <<LogOf(tape), ViewOf(client)>>
          \/ \E n \in Feed!Durable' : Feed!Record(n)
          \/ Feed!Rotate
          \/ \E c \in Clients : Feed!Show(c, ViewOf(client')[c])
      BY <2>2, FeedStep
    <3>2. QED  BY <3>1 DEF LogOf, ViewOf, Feed!FeedNext
  <2>3. QED  BY <2>1, <2>2
<1>2. QED  BY <1>1, EventsHold, FeedStart, PTL DEF Spec, FeedSpec, Feed!FeedSpec

-----------------------------------------------------------------------------
(* The fold of the log                                                      *)

\* The cursor c is the end of the first m records of its generation.
Reached(t, c, m) ==
  /\ c \in Cursors /\ c[1] \in 1 .. Len(t) /\ m \in 0 .. Len(t[c[1]])
  /\ IF m = 0 THEN c[1] = 1 /\ c[2] = 0 ELSE c[2] = t[c[1]][m].end
\* s is what the generations before c and the first records of its own hold.
Folded(k, t, c, s) ==
  \E m \in Nat : Reached(t, c, m) /\ s = k[c[1]].recs \o Records(SubSeq(t[c[1]], 1, m))
\* The ends of a generation's records increase.
Ends(t) ==
  \A g \in 1 .. Len(t) : \A i \in 1 .. Len(t[g]) :
    t[g][i].end > 0 /\ \A j \in 1 .. i - 1 : t[g][j].end < t[g][i].end

LEMMA TapeField ==
  ASSUME NEW t \in Seq(Seq(TapeRecs))
  PROVE  /\ Len(t) \in Nat
         /\ \A g \in 1 .. Len(t) : t[g] \in Seq(TapeRecs) /\ Len(t[g]) \in Nat
         /\ \A g \in 1 .. Len(t) : \A i \in 1 .. Len(t[g]) :
              /\ t[g][i] \in TapeRecs /\ t[g][i].end \in Nat /\ t[g][i].n \in Nat
              /\ t[g][i].pred \in Cursors
<1>1. Len(t) \in Nat /\ \A g \in 1 .. Len(t) : t[g] \in Seq(TapeRecs)
  OBVIOUS
<1>2. ASSUME NEW s \in Seq(TapeRecs) PROVE Len(s) \in Nat /\ \A i \in 1 .. Len(s) : s[i] \in TapeRecs
  OBVIOUS
<1>3. \A r \in TapeRecs : r.n \in Nat /\ r.end \in Nat /\ r.pred \in Cursors
  BY DEF TapeRecs
<1>4. QED  BY <1>1, <1>2, <1>3

LEMMA ReachedOnce ==
  ASSUME NEW t \in Seq(Seq(TapeRecs)), Ends(t), NEW c, NEW m, NEW n, Reached(t, c, m), Reached(t, c, n)
  PROVE  m = n
<1>1. \A g \in 1 .. Len(t) : Len(t[g]) \in Nat /\ \A i \in 1 .. Len(t[g]) : t[g][i].end \in Nat
  BY TapeField
<1>2. ASSUME NEW a, NEW b, Reached(t, c, a), Reached(t, c, b), a < b PROVE FALSE
  <2>1. c[1] \in 1 .. Len(t) /\ Len(t[c[1]]) \in Nat /\ a \in 0 .. Len(t[c[1]]) /\ b \in 0 .. Len(t[c[1]])
    BY <1>1, <1>2 DEF Reached
  <2>2. b \in 1 .. Len(t[c[1]]) /\ b # 0 /\ (a = 0 \/ a \in 1 .. b - 1)
    BY <1>2, <2>1
  <2>3. t[c[1]][b].end > 0 /\ \A j \in 1 .. b - 1 : t[c[1]][j].end < t[c[1]][b].end
    BY <2>1, <2>2 DEF Ends
  <2>4. c[2] = t[c[1]][b].end /\ c[2] = IF a = 0 THEN 0 ELSE t[c[1]][a].end
    BY <1>2, <2>2 DEF Reached
  <2>5. QED  BY <1>1, <2>1, <2>2, <2>3, <2>4
<1>3. m \in Nat /\ n \in Nat
  <2>1. c[1] \in 1 .. Len(t) /\ m \in 0 .. Len(t[c[1]]) /\ n \in 0 .. Len(t[c[1]])
    BY DEF Reached
  <2>2. Len(t[c[1]]) \in Nat
    BY <1>1, <2>1
  <2>3. QED  BY <2>1, <2>2
<1>4. ~(m < n)
  BY <1>2
<1>5. ~(n < m)
  BY <1>2
<1>6. QED  BY <1>3, <1>4, <1>5

LEMMA FoldedOnce ==
  ASSUME NEW t \in Seq(Seq(TapeRecs)), Ends(t), NEW k, NEW c, NEW s, NEW r, Folded(k, t, c, s), Folded(k, t, c, r)
  PROVE  s = r
<1>1. PICK m \in Nat : Reached(t, c, m) /\ s = k[c[1]].recs \o Records(SubSeq(t[c[1]], 1, m))
  BY DEF Folded
<1>2. PICK n \in Nat : Reached(t, c, n) /\ r = k[c[1]].recs \o Records(SubSeq(t[c[1]], 1, n))
  BY DEF Folded
<1>3. m = n
  BY <1>1, <1>2, ReachedOnce
<1>4. QED  BY <1>1, <1>2, <1>3

\* Up to the end of the first m records there are m records.
LEMMA PrefixReached ==
  ASSUME TapeTypes, Ends(tape), NEW c, NEW m, Reached(tape, c, m)
  PROVE  Prefix(c[1], c[2]) = SubSeq(tape[c[1]], 1, m)
<1>1. tape \in Seq(Seq(TapeRecs)) /\ c[1] \in 1 .. Len(tape)
  BY DEF TapeTypes, Reached
<1>2. PICK g : g = c[1]
  OBVIOUS
<1>3. /\ Len(tape[g]) \in Nat /\ \A i \in 1 .. Len(tape[g]) : tape[g][i].end \in Nat
      /\ g \in 1 .. Len(tape) /\ m \in 0 .. Len(tape[g])
  BY <1>1, <1>2, TapeField DEF Reached
<1>4. PICK S : S = {0} \cup {i \in 1 .. Len(tape[g]) : tape[g][i].end <= c[2]}
  OBVIOUS
<1>5. m \in S
  BY <1>2, <1>3, <1>4 DEF Reached
<1>6. ASSUME NEW i \in S PROVE i <= m
  <2>1. CASE i = 0
    BY <1>3, <2>1
  <2>2. CASE i # 0
    <3>1. i \in 1 .. Len(tape[g]) /\ tape[g][i].end <= c[2]
      BY <1>4, <2>2
    <3>2. tape[g][i].end > 0 /\ \A j \in 1 .. i - 1 : tape[g][j].end < tape[g][i].end
      BY <1>3, <3>1 DEF Ends
    <3>3. m # 0
      BY <1>2, <1>3, <3>1, <3>2 DEF Reached
    <3>4. m \in 1 .. Len(tape[g]) /\ c[2] = tape[g][m].end
      BY <1>2, <1>3, <3>3 DEF Reached
    <3>5. ~(m \in 1 .. i - 1)
      BY <1>3, <3>1, <3>2, <3>4
    <3>6. QED  BY <1>3, <3>1, <3>4, <3>5
  <2>3. QED  BY <2>1, <2>2
<1>7. Max(S) = m
  <2>1. S \subseteq Nat /\ S # {} /\ m \in Nat
    BY <1>3, <1>4
  <2>2. Max(S) \in S /\ \A y \in S : Max(S) >= y
    BY <1>6, <2>1, GreatestOf
  <2>3. Max(S) >= m /\ Max(S) <= m /\ Max(S) \in Nat
    BY <1>5, <1>6, <2>1, <2>2
  <2>4. QED  BY <2>1, <2>3
<1>8. QED  BY <1>2, <1>4, <1>7 DEF Prefix

LEMMA ThroughIs ==
  ASSUME TapeTypes, Ends(tape), NEW c, NEW s, Folded(Carried, tape, c, s)
  PROVE  s = Through(c)
<1>1. PICK m \in Nat : Reached(tape, c, m) /\ s = Carried[c[1]].recs \o Records(SubSeq(tape[c[1]], 1, m))
  BY DEF Folded
<1>2. Prefix(c[1], c[2]) = SubSeq(tape[c[1]], 1, m)
  BY <1>1, PrefixReached
<1>3. c[1] # 0
  BY <1>1 DEF Reached
<1>4. QED  BY <1>1, <1>2, <1>3 DEF Through

\* A log that grows keeps what was folded.
Grows(k, t, k2, t2) ==
  /\ Len(t) <= Len(t2)
  /\ \A g \in 1 .. Len(t) :
       /\ Len(t[g]) <= Len(t2[g])
       /\ \A i \in 1 .. Len(t[g]) : t2[g][i] = t[g][i]
       /\ g = 1 \/ t[g] # <<>> => k2[g].recs = k[g].recs

\* The first m records of the generation of c, and what comes before them, are the same.
SameUpTo(k, t, k2, t2, c, m) ==
  SubSeq(t2[c[1]], 1, m) = SubSeq(t[c[1]], 1, m) /\ k2[c[1]].recs = k[c[1]].recs

LEMMA SameStart ==
  ASSUME NEW s \in Seq(TapeRecs), NEW r \in Seq(TapeRecs), NEW m \in Nat, m <= Len(s), m <= Len(r),
         \A i \in 1 .. m : r[i] = s[i]
  PROVE  SubSeq(r, 1, m) = SubSeq(s, 1, m)
<1>1. SubSeq(r, 1, m) = [i \in 1 .. m |-> r[i]] /\ SubSeq(s, 1, m) = [i \in 1 .. m |-> s[i]]
  OBVIOUS
<1>2. QED  BY <1>1

LEMMA ReachedGrows ==
  ASSUME NEW t \in Seq(Seq(TapeRecs)), NEW t2 \in Seq(Seq(TapeRecs)), NEW k, NEW k2, Grows(k, t, k2, t2),
         NEW c, NEW m, Reached(t, c, m)
  PROVE  Reached(t2, c, m) /\ SameUpTo(k, t, k2, t2, c, m)
<1>1. PICK g : g = c[1]
  OBVIOUS
<1>2. /\ Len(t) \in Nat /\ Len(t2) \in Nat /\ Len(t) <= Len(t2) /\ g \in 1 .. Len(t)
      /\ c \in Cursors /\ m \in 0 .. Len(t[g])
      /\ IF m = 0 THEN g = 1 /\ c[2] = 0 ELSE c[2] = t[g][m].end
  BY <1>1, TapeField DEF Grows, Reached
<1>3. g \in 1 .. Len(t2)
  BY <1>2
<1>4. /\ t[g] \in Seq(TapeRecs) /\ t2[g] \in Seq(TapeRecs) /\ Len(t[g]) \in Nat /\ Len(t2[g]) \in Nat
      /\ Len(t[g]) <= Len(t2[g]) /\ \A i \in 1 .. Len(t[g]) : t2[g][i] = t[g][i]
      /\ g = 1 \/ t[g] # <<>> => k2[g].recs = k[g].recs
  BY <1>2, <1>3, TapeField DEF Grows
<1>5. SubSeq(t2[g], 1, m) = SubSeq(t[g], 1, m)
  <2>1. m \in Nat /\ m <= Len(t[g]) /\ m <= Len(t2[g])
    BY <1>2, <1>4, SMTT(20)
  <2>2. \A i \in 1 .. m : t2[g][i] = t[g][i]
    BY <1>2, <1>4, SMTT(20)
  <2>3. QED  BY <1>4, <2>1, <2>2, SameStart
<1>6. g = 1 \/ t[g] # <<>>
  BY <1>2, <1>4
<1>7. m \in 0 .. Len(t2[g]) /\ IF m = 0 THEN g = 1 /\ c[2] = 0 ELSE c[2] = t2[g][m].end
  <2>1. m = 0 \/ (m # 0 /\ m \in 1 .. Len(t[g]))
    BY <1>2, <1>4
  <2>2. CASE m = 0
    BY <1>2, <1>4, <2>2
  <2>3. CASE m # 0 /\ m \in 1 .. Len(t[g])
    <3>1. t2[g][m] = t[g][m] /\ m \in 0 .. Len(t2[g])
      BY <1>4, <2>3
    <3>2. QED  BY <1>2, <2>3, <3>1
  <2>4. QED  BY <2>1, <2>2, <2>3
<1>8. QED  BY <1>1, <1>2, <1>3, <1>4, <1>5, <1>6, <1>7 DEF Reached, SameUpTo

LEMMA FoldedGrows ==
  ASSUME NEW t \in Seq(Seq(TapeRecs)), NEW t2 \in Seq(Seq(TapeRecs)), NEW k, NEW k2, Grows(k, t, k2, t2),
         NEW c, NEW s, Folded(k, t, c, s)
  PROVE  Folded(k2, t2, c, s)
<1>1. PICK m \in Nat : Reached(t, c, m) /\ s = k[c[1]].recs \o Records(SubSeq(t[c[1]], 1, m))
  BY DEF Folded
<1>2. Reached(t2, c, m) /\ SameUpTo(k, t, k2, t2, c, m)
  BY <1>1, ReachedGrows, Zenon
<1>3. QED  BY <1>1, <1>2 DEF Folded, SameUpTo

LEMMA CarriedFolds ==
  TapeTypes /\ PredsBackward =>
    \A g \in 0 .. Len(tape) :
      /\ g = 0 \/ Pred(g) = NoCursor => Carried[g].recs = <<>>
      /\ \A h, off : g # 0 /\ Pred(g) # NoCursor /\ h = Pred(g)[1] /\ off = Pred(g)[2] =>
                       Carried[g].recs = Carried[h].recs \o Records(Upto(h, off))
<1>1. SUFFICES ASSUME TapeTypes, PredsBackward, NEW g \in 0 .. Len(tape)
      PROVE  /\ g = 0 \/ Pred(g) = NoCursor => Carried[g].recs = <<>>
             /\ \A h, off : g # 0 /\ Pred(g) # NoCursor /\ h = Pred(g)[1] /\ off = Pred(g)[2] =>
                              Carried[g].recs = Carried[h].recs \o Records(Upto(h, off))
  OBVIOUS
<1>2. Carried[g] = CarriedStep(Carried, g)
  BY <1>1, CarriedAt
<1>3. ASSUME g = 0 \/ Pred(g) = NoCursor PROVE Carried[g].recs = <<>>
  BY <1>2, <1>3 DEF CarriedStep
<1>4. ASSUME NEW h, NEW off, g # 0, Pred(g) # NoCursor, h = Pred(g)[1], off = Pred(g)[2]
      PROVE  Carried[g].recs = Carried[h].recs \o Records(Upto(h, off))
  <2>1. PICK o, r : /\ o = (Carried[Pred(g)[1]].ok /\ Boundary(Pred(g)[1], Pred(g)[2]) /\ Pred(g)[1] \notin gone)
                    /\ r = Carried[Pred(g)[1]].recs \o Records(Upto(Pred(g)[1], Pred(g)[2]))
    OBVIOUS
  <2>2. CarriedStep(Carried, g) = [ok |-> o, recs |-> r]
    BY <1>4, <2>1, Zenon DEF CarriedStep
  <2>3. r = Carried[h].recs \o Records(Upto(h, off))
    BY <1>4, <2>1, Zenon
  <2>4. Carried[g].recs = r
    BY <1>2, <2>2
  <2>5. QED  BY <2>3, <2>4
<1>5. QED  BY <1>3, <1>4

LEMMA CarriedFoldsNext ==
  TapeTypes' /\ PredsBackward' =>
    \A g \in 0 .. Len(tape') :
      /\ g = 0 \/ Pred(g)' = NoCursor => Carried'[g].recs = <<>>
      /\ \A h, off : g # 0 /\ Pred(g)' # NoCursor /\ h = Pred(g)'[1] /\ off = Pred(g)'[2] =>
                       Carried'[g].recs = Carried'[h].recs \o Records(Upto(h, off)')
<1>1. (TapeTypes /\ PredsBackward =>
         \A g \in 0 .. Len(tape) :
           /\ g = 0 \/ Pred(g) = NoCursor => Carried[g].recs = <<>>
           /\ \A h, off : g # 0 /\ Pred(g) # NoCursor /\ h = Pred(g)[1] /\ off = Pred(g)[2] =>
                            Carried[g].recs = Carried[h].recs \o Records(Upto(h, off)))'
  BY CarriedFolds, PTL
<1>2. QED  BY <1>1 DEF Records, NoCursor

LEMMA PredFirst ==
  TapeTypes /\ PredsBackward => Pred(1) = NoCursor
<1>1. SUFFICES ASSUME TapeTypes, PredsBackward, Pred(1) # NoCursor PROVE FALSE
  OBVIOUS
<1>2. 1 \in 1 .. Len(tape)
  BY <1>1, TapeAt
<1>3. Pred(1)[1] \in 1 .. 1 - 1
  BY <1>1, <1>2, PredEarlier
<1>4. QED  BY <1>3

LEMMA PredFirstNext ==
  TapeTypes' /\ PredsBackward' => Pred(1)' = NoCursor
<1>1. (TapeTypes /\ PredsBackward => Pred(1) = NoCursor)'
  BY PredFirst, PTL
<1>2. QED  BY <1>1 DEF NoCursor

\* Only the last generation is written to.
TapeOnlyGrows ==
  /\ Len(tape) <= Len(tape')
  /\ \A g \in 1 .. Len(tape) : Len(tape[g]) <= Len(tape'[g]) /\ \A i \in 1 .. Len(tape[g]) : tape'[g][i] = tape[g][i]
  /\ \A g \in 1 .. Len(tape) - 1 : tape'[g] = tape[g]

LEMMA CarriedKept ==
  ASSUME TapeTypes, PredsBackward, TapeTypes', PredsBackward', TapeOnlyGrows
  PROVE  \A g \in 1 .. Len(tape) : g < Len(tape) \/ g = 1 \/ tape[g] # <<>> => Carried'[g].recs = Carried[g].recs
<1> DEFINE Good(g) == g < Len(tape) \/ g = 1 \/ tape[g] # <<>> => Carried'[g].recs = Carried[g].recs
           T == {g \in 1 .. Len(tape) : ~Good(g)}
<1>0. Len(tape) \in Nat /\ Len(tape') \in Nat /\ Len(tape) <= Len(tape')
  BY TapeAt DEF TapeOnlyGrows, TapeTypes
<1>1. SUFFICES ASSUME T # {} PROVE FALSE
  OBVIOUS
<1>2. PICK g \in T : \A u \in T : ~(u < g)
  <2>1. T \subseteq Nat
    BY <1>0
  <2> HIDE DEF T
  <2>2. QED  BY <1>1, <2>1, LeastOf
<1>3. g \in 1 .. Len(tape) /\ g \in Nat /\ g # 0 /\ ~Good(g)
  BY <1>0, <1>2
<1>4. Pred(g)' = Pred(g)
  <2>1. CASE g = 1
    BY <2>1, PredFirst, PredFirstNext, Zenon
  <2>2. CASE g < Len(tape)
    <3>1. tape'[g] = tape[g]
      BY <1>0, <1>3, <2>2 DEF TapeOnlyGrows
    <3>2. QED  BY <3>1 DEF Pred, NoCursor
  <2>3. CASE tape[g] # <<>>
    <3>1. tape[g] \in Seq(TapeRecs) /\ Len(tape[g]) \in Nat
      BY <1>3, TapeAt
    <3>2. Len(tape[g]) # 0
      BY <2>3, <3>1
    <3>3. 1 \in 1 .. Len(tape[g])
      BY <3>1, <3>2
    <3>4. tape'[g][1] = tape[g][1] /\ Len(tape[g]) <= Len(tape'[g])
      BY <1>3, <3>3 DEF TapeOnlyGrows
    <3>5. tape'[g] # <<>>
      <4>1. Len(<<>>) = 0
        OBVIOUS
      <4>2. Len(tape'[g]) # 0
        <5>1. tape' \in Seq(Seq(TapeRecs)) /\ g \in 1 .. Len(tape')
          BY <1>0, <1>3 DEF TapeTypes
        <5>2. Len(tape'[g]) \in Nat
          BY <5>1, TapeField
        <5>3. QED  BY <3>1, <3>2, <3>4, <5>2
      <4>3. QED  BY <4>1, <4>2
    <3>6. QED  BY <2>3, <3>4, <3>5 DEF Pred, NoCursor
  <2>4. QED  BY <1>3, <2>1, <2>2, <2>3
<1>5. g \in 0 .. Len(tape) /\ g \in 0 .. Len(tape')
  BY <1>0, <1>3
<1>6. CASE Pred(g) = NoCursor
  <2>1. Carried[g].recs = <<>>
    BY <1>5, <1>6, CarriedFolds
  <2>2. Carried'[g].recs = <<>>
    BY <1>4, <1>5, <1>6, CarriedFoldsNext
  <2>3. QED  BY <1>3, <2>1, <2>2
<1>7. CASE Pred(g) # NoCursor
  <2>1. PICK h, off : h = Pred(g)[1] /\ off = Pred(g)[2]
    OBVIOUS
  <2>2. h \in 1 .. g - 1
    BY <1>3, <1>7, <2>1, PredEarlier
  <2>3. h \in 1 .. Len(tape) - 1 /\ h \in 1 .. Len(tape) /\ h < g /\ h < Len(tape)
    BY <1>0, <1>3, <2>2
  <2>4. Carried'[h].recs = Carried[h].recs
    BY <1>2, <2>3
  <2>5. Upto(h, off)' = Upto(h, off)
    <3>1. tape'[h] = tape[h]
      BY <2>3 DEF TapeOnlyGrows
    <3>2. QED  BY <3>1 DEF Upto, Prefix
  <2>6. Carried[g].recs = Carried[h].recs \o Records(Upto(h, off))
    BY <1>3, <1>5, <1>7, <2>1, CarriedFolds
  <2>7. Carried'[g].recs = Carried'[h].recs \o Records(Upto(h, off)')
    <3>1. Pred(g)'[1] = h /\ Pred(g)'[2] = off /\ Pred(g)' # NoCursor
      BY <1>4, <1>7, <2>1
    <3>2. QED  BY <1>3, <1>5, <3>1, CarriedFoldsNext
  <2>8. QED  BY <1>3, <2>4, <2>5, <2>6, <2>7
<1>8. QED  BY <1>6, <1>7

LEMMA LogGrows ==
  ASSUME TapeTypes, PredsBackward, TapeTypes', PredsBackward', TapeOnlyGrows
  PROVE  Grows(Carried, tape, Carried', tape')
<1>1. Len(tape) \in Nat
  BY TapeAt
<1>2. ASSUME NEW g \in 1 .. Len(tape), g = 1 \/ tape[g] # <<>> PROVE Carried'[g].recs = Carried[g].recs
  BY <1>2, CarriedKept
<1>3. QED  BY <1>1, <1>2 DEF Grows, TapeOnlyGrows

-----------------------------------------------------------------------------
(* The next record of the log                                               *)

\* The cursor c is the end of the last generation before g that has records.
Full(t, c, g) ==
  /\ c \in Cursors /\ c[1] \in 1 .. g - 1 /\ t[c[1]] # <<>> /\ c[2] = t[c[1]][Len(t[c[1]])].end
  /\ \A k \in c[1] + 1 .. g - 1 : t[k] = <<>>
Chain == \A g \in 1 .. Len(tape) : tape[g] # <<>> /\ Pred(g) # NoCursor => Full(tape, Pred(g), g)
\* A record of generation g that ends at e is after the cursor c.
Later(c, g, e) == c[1] < g \/ (c[1] = g /\ c[2] < e)

LEMMA OneMore ==
  ASSUME NEW u \in Seq(TapeRecs), NEW m \in Nat, m + 1 <= Len(u), NEW a \in Seq(Nat)
  PROVE  a \o Records(SubSeq(u, 1, m + 1)) = Append(a \o Records(SubSeq(u, 1, m)), u[m + 1].n)
<1>1. PICK v : v = SubSeq(u, 1, m)
  OBVIOUS
<1>2. v \in Seq(TapeRecs) /\ SubSeq(u, 1, m + 1) = Append(v, u[m + 1]) /\ u[m + 1] \in TapeRecs
  BY <1>1
<1>3. Records(Append(v, u[m + 1])) = Append(Records(v), u[m + 1].n) /\ Records(v) \in Seq(Nat)
  BY <1>2, RecordsGrow, RecordsIs
<1>4. ASSUME NEW b \in Seq(Nat), NEW x \in Nat PROVE a \o Append(b, x) = Append(a \o b, x)
  OBVIOUS
<1>5. u[m + 1].n \in Nat
  BY <1>2 DEF TapeRecs
<1>6. QED  BY <1>1, <1>2, <1>3, <1>4, <1>5

LEMMA NoneRead ==
  ASSUME NEW u \in Seq(TapeRecs), NEW a \in Seq(Nat)
  PROVE  a \o Records(SubSeq(u, 1, 0)) = a
<1>1. SubSeq(u, 1, 0) = <<>> /\ <<>> \in Seq(TapeRecs)
  OBVIOUS
<1>2. Records(<<>>) \in Seq(Nat) /\ Len(Records(<<>>)) = 0
  BY <1>1, RecordsIs
<1>3. ASSUME NEW b \in Seq(Nat), Len(b) = 0 PROVE a \o b = a
  BY <1>3
<1>4. QED  BY <1>1, <1>2, <1>3

\* The records of its own generation that are after the end of the first m records.
LEMMA LaterInPlace ==
  ASSUME NEW t \in Seq(Seq(TapeRecs)), Ends(t), NEW c, NEW m, Reached(t, c, m),
         NEW i \in 1 .. Len(t[c[1]])
  PROVE  Later(c, c[1], t[c[1]][i].end) <=> i > m
<1>1. PICK g : g = c[1]
  OBVIOUS
<1>2. g \in 1 .. Len(t) /\ c \in Cursors /\ m \in 0 .. Len(t[g]) /\ (IF m = 0 THEN c[2] = 0 ELSE c[2] = t[g][m].end)
  BY <1>1 DEF Reached
<1>3. Len(t[g]) \in Nat /\ \A j \in 1 .. Len(t[g]) : t[g][j].end \in Nat
  BY <1>2, TapeField
<1>10. g \in Nat /\ ~(c[1] < g)
  <2>1. Len(t) \in Nat
    BY TapeField
  <2>2. g \in Nat
    BY <1>2, <2>1
  <2>3. QED  BY <1>1, <2>2
<1>4. \A j \in 1 .. Len(t[g]) : t[g][j].end > 0 /\ \A l \in 1 .. j - 1 : t[g][l].end < t[g][j].end
  BY <1>2 DEF Ends
<1>5. i \in 1 .. Len(t[g]) /\ i \in Nat /\ m \in Nat /\ t[g][i].end \in Nat
  BY <1>1, <1>2, <1>3
<1>6. CASE m = 0
  BY <1>1, <1>2, <1>4, <1>5, <1>6 DEF Later
<1>7. CASE m # 0
  <2>1. m \in 1 .. Len(t[g]) /\ c[2] = t[g][m].end
    BY <1>2, <1>3, <1>7
  <2>2. CASE i > m
    <3>1. m \in 1 .. i - 1
      BY <1>5, <1>7, <2>2
    <3>2. t[g][m].end < t[g][i].end
      BY <1>4, <1>5, <3>1
    <3>3. QED  BY <1>1, <2>1, <2>2, <3>2 DEF Later
  <2>3. CASE i = m
    BY <1>1, <1>3, <1>5, <1>10, <2>1, <2>3 DEF Later
  <2>4. CASE i < m
    <3>1. i \in 1 .. m - 1
      BY <1>5, <2>4
    <3>2. t[g][i].end < t[g][m].end
      BY <1>4, <2>1, <3>1, SMTT(20)
    <3>3. ~(t[g][m].end < t[g][i].end)
      BY <1>3, <1>5, <2>1, <3>2, SMTT(20)
    <3>4. QED  BY <1>1, <1>5, <1>10, <2>1, <2>4, <3>3 DEF Later
  <2>5. QED  BY <1>5, <2>2, <2>3, <2>4
<1>8. QED  BY <1>6, <1>7

LEMMA NextInPlace ==
  ASSUME TapeTypes, PredsBackward, Ends(tape), NEW c, NEW s, Folded(Carried, tape, c, s),
         NEW i \in 1 .. Len(tape[c[1]]), Later(c, c[1], tape[c[1]][i].end),
         \A j \in 1 .. Len(tape[c[1]]) : Later(c, c[1], tape[c[1]][j].end) => ~(tape[c[1]][j].end < tape[c[1]][i].end)
  PROVE  Folded(Carried, tape, <<c[1], tape[c[1]][i].end>>, Append(s, tape[c[1]][i].n))
<1>1. PICK m \in Nat : Reached(tape, c, m) /\ s = Carried[c[1]].recs \o Records(SubSeq(tape[c[1]], 1, m))
  BY DEF Folded
<1>2. PICK g : g = c[1]
  OBVIOUS
<1>3. tape \in Seq(Seq(TapeRecs)) /\ g \in 1 .. Len(tape) /\ m \in 0 .. Len(tape[g])
  BY <1>1, <1>2 DEF TapeTypes, Reached
<1>4. /\ tape[g] \in Seq(TapeRecs) /\ Len(tape[g]) \in Nat /\ Len(tape) \in Nat
      /\ \A j \in 1 .. Len(tape[g]) : tape[g][j].end \in Nat
  BY <1>3, TapeField
<1>5. i > m /\ \A j \in 1 .. Len(tape[g]) : j > m => ~(tape[g][j].end < tape[g][i].end)
  BY <1>1, <1>2, <1>3, LaterInPlace
<1>6. i \in 1 .. Len(tape[g]) /\ i \in Nat
  BY <1>2, <1>4
<1>7. m + 1 \in 1 .. Len(tape[g]) /\ m + 1 > m
  BY <1>3, <1>4, <1>5, <1>6
<1>8. i = m + 1
  <2>1. SUFFICES ASSUME i # m + 1 PROVE FALSE
    OBVIOUS
  <2>2. m + 1 \in 1 .. i - 1
    BY <1>3, <1>5, <1>6, <2>1
  <2>3. tape[g][m + 1].end < tape[g][i].end
    BY <1>3, <1>6, <2>2 DEF Ends
  <2>4. QED  BY <1>5, <1>7, <2>3
<1>9. Carried[g].recs \in Seq(Nat)
  <2>1. g \in 0 .. Len(tape)
    BY <1>3, <1>4
  <2>2. QED  BY <2>1, CarriedLogged
<1>10. Carried[g].recs \o Records(SubSeq(tape[g], 1, m + 1)) = Append(s, tape[g][m + 1].n)
  <2>1. m \in Nat /\ m + 1 <= Len(tape[g])
    BY <1>4, <1>7
  <2>2. QED  BY <1>1, <1>2, <1>4, <1>9, <2>1, OneMore
<1>11. Reached(tape, <<g, tape[g][i].end>>, m + 1)
  <2>1. <<g, tape[g][i].end>> \in Cursors
    BY <1>3, <1>4, <1>6 DEF Cursors
  <2>2. m + 1 # 0 /\ m + 1 \in 0 .. Len(tape[g])
    BY <1>4, <1>7
  <2>3. QED  BY <1>3, <1>8, <2>1, <2>2 DEF Reached
<1>12. Append(s, tape[g][i].n) = Carried[g].recs \o Records(SubSeq(tape[g], 1, m + 1)) /\ m + 1 \in Nat
  <2>1. m + 1 \in Nat
    OBVIOUS
  <2>2. tape[g][m + 1].n = tape[g][i].n
    BY <1>8
  <2>3. QED  BY <1>10, <2>1, <2>2
<1>13. QED  BY <1>2, <1>11, <1>12 DEF Folded

\* The first record after c is in a later generation: c is the end of the one it continues.
LEMMA NextFirst ==
  ASSUME TapeTypes, PredsBackward, Ends(tape), Chain, Anchored,
         NEW c, NEW s, Folded(Carried, tape, c, s), NEW g \in 1 .. Len(tape), c[1] < g, tape[g] # <<>>,
         \A h \in 1 .. g - 1 : \A j \in 1 .. Len(tape[h]) : ~Later(c, h, tape[h][j].end)
  PROVE  Folded(Carried, tape, <<g, tape[g][1].end>>, Append(s, tape[g][1].n))
<1>1. PICK m \in Nat : Reached(tape, c, m) /\ s = Carried[c[1]].recs \o Records(SubSeq(tape[c[1]], 1, m))
  BY DEF Folded
<1>2. PICK b : b = c[1]
  OBVIOUS
<1>3. tape \in Seq(Seq(TapeRecs)) /\ b \in 1 .. Len(tape) /\ m \in 0 .. Len(tape[b])
  BY <1>1, <1>2 DEF TapeTypes, Reached
<1>4. Len(tape) \in Nat /\ \A h \in 1 .. Len(tape) : tape[h] \in Seq(TapeRecs) /\ Len(tape[h]) \in Nat
  BY <1>3, TapeField
<1>5. b \in 1 .. g - 1 /\ b \in Nat /\ g \in Nat
  BY <1>2, <1>3, <1>4
<1>6. m = Len(tape[b])
  <2>1. SUFFICES ASSUME m # Len(tape[b]) PROVE FALSE
    OBVIOUS
  <2>2. Len(tape[b]) \in Nat
    BY <1>3, <1>4
  <2>3. m + 1 \in 1 .. Len(tape[b]) /\ m + 1 > m
    BY <1>3, <2>1, <2>2
  <2>4. Later(c, b, tape[b][m + 1].end)
    BY <1>1, <1>2, <1>3, <2>3, LaterInPlace
  <2>5. QED  BY <1>5, <2>3, <2>4
<1>7. ASSUME NEW k \in b + 1 .. g - 1 PROVE tape[k] = <<>>
  <2>1. k \in 1 .. g - 1 /\ k \in 1 .. Len(tape) /\ b < k
    BY <1>4, <1>5
  <2>2. \A j \in 1 .. Len(tape[k]) : FALSE
    BY <1>2, <2>1 DEF Later
  <2>3. tape[k] \in Seq(TapeRecs)
    BY <1>4, <2>1
  <2>4. QED  BY <2>2, <2>3
<1>8. Carried[g].recs = s
  <2>1. g \in 0 .. Len(tape) /\ g # 0 /\ b \in 0 .. Len(tape)
    BY <1>3, <1>4, <1>5
  <2>2. CASE m = 0
    <3>1. b = 1 /\ tape[1] = <<>>
      <4>1. b = 1
        BY <1>1, <1>2, <2>2 DEF Reached
      <4>2. tape[1] \in Seq(TapeRecs) /\ Len(tape[1]) = 0
        BY <1>3, <1>4, <1>6, <2>2, <4>1
      <4>3. QED  BY <4>1, <4>2
    <3>2. \A k \in 1 .. g - 1 : tape[k] = <<>>
      <4>1. \A k \in 1 .. g - 1 : k = 1 \/ k \in b + 1 .. g - 1
        BY <1>5, <3>1
      <4>2. QED  BY <1>7, <3>1, <4>1
    <3>3. Pred(g) = NoCursor
      BY <3>2 DEF Chain, Full
    <3>4. Pred(1) = NoCursor
      BY PredFirst
    <3>5. Carried[g].recs = <<>> /\ Carried[b].recs = <<>>
      BY <2>1, <3>1, <3>3, <3>4, CarriedFolds
    <3>6. s = <<>>
      <4>1. tape[b] \in Seq(TapeRecs) /\ <<>> \in Seq(Nat)
        BY <1>3, <1>4
      <4>2. <<>> \o Records(SubSeq(tape[b], 1, 0)) = <<>>
        BY <4>1, NoneRead
      <4>3. QED  BY <1>1, <1>2, <2>2, <3>5, <4>2
    <3>7. QED  BY <3>5, <3>6
  <2>3. CASE m # 0
    <3>1. tape[b] # <<>>
      <4>1. Len(<<>>) = 0
        OBVIOUS
      <4>2. QED  BY <1>6, <2>3, <4>1
    <3>2. Pred(g) # NoCursor
      BY <1>5, <3>1 DEF Anchored
    <3>3. Full(tape, Pred(g), g)
      BY <3>2 DEF Chain
    <3>4. PICK p, off : p = Pred(g)[1] /\ off = Pred(g)[2]
      OBVIOUS
    <3>5. p \in 1 .. g - 1 /\ tape[p] # <<>> /\ off = tape[p][Len(tape[p])].end /\ \A k \in p + 1 .. g - 1 : tape[k] = <<>>
      BY <3>3, <3>4 DEF Full
    <3>6. p = b
      <4>1. ~(b \in p + 1 .. g - 1) /\ ~(p \in b + 1 .. g - 1)
        BY <1>7, <3>1, <3>5
      <4>2. QED  BY <1>5, <3>5, <4>1
    <3>7. off = c[2] /\ off # 0
      <4>1. m \in 1 .. Len(tape[b]) /\ c[2] = tape[b][m].end
        BY <1>1, <1>2, <1>3, <1>4, <2>3 DEF Reached
      <4>2. tape[b][m].end > 0 /\ tape[b][m].end \in Nat
        BY <1>3, <4>1, TapeField DEF Ends
      <4>3. QED  BY <1>6, <3>5, <3>6, <4>1, <4>2
    <3>8. Upto(b, off) = SubSeq(tape[b], 1, m)
      BY <1>1, <1>2, <3>7, PrefixReached DEF Upto
    <3>9. Carried[g].recs = Carried[b].recs \o Records(Upto(b, off))
      <4>1. b = Pred(g)[1] /\ off = Pred(g)[2]
        BY <3>4, <3>6
      <4>2. \A h, o : h = Pred(g)[1] /\ o = Pred(g)[2] => Carried[g].recs = Carried[h].recs \o Records(Upto(h, o))
        BY <2>1, <3>2, CarriedFolds
      <4>3. QED  BY <4>1, <4>2, Zenon
    <3>10. QED  BY <1>1, <1>2, <3>8, <3>9
  <2>4. QED  BY <2>2, <2>3
<1>9. 1 \in 1 .. Len(tape[g]) /\ tape[g] \in Seq(TapeRecs) /\ Len(tape[g]) \in Nat
  <2>1. tape[g] \in Seq(TapeRecs)
    BY <1>4
  <2>2. QED  BY <2>1
<1>10. Carried[g].recs \in Seq(Nat)
  <2>1. g \in 0 .. Len(tape)
    BY <1>4
  <2>2. QED  BY <2>1, CarriedLogged
<1>11. Carried[g].recs \o Records(SubSeq(tape[g], 1, 1)) = Append(s, tape[g][1].n)
  <2>1. 0 \in Nat /\ 0 + 1 = 1 /\ 0 + 1 <= Len(tape[g])
    BY <1>9
  <2>2. Carried[g].recs \o Records(SubSeq(tape[g], 1, 0 + 1))
          = Append(Carried[g].recs \o Records(SubSeq(tape[g], 1, 0)), tape[g][0 + 1].n)
    BY <1>9, <1>10, <2>1, OneMore
  <2>3. Carried[g].recs \o Records(SubSeq(tape[g], 1, 0)) = Carried[g].recs
    BY <1>9, <1>10, NoneRead
  <2>4. QED  BY <1>8, <2>1, <2>2, <2>3
<1>12. Reached(tape, <<g, tape[g][1].end>>, 1)
  <2>1. <<g, tape[g][1].end>> \in Cursors
    BY <1>3, <1>5, <1>9, TapeField DEF Cursors
  <2>2. 1 \in 0 .. Len(tape[g])
    BY <1>9
  <2>3. QED  BY <2>1, <2>2 DEF Reached
<1>13. QED  BY <1>11, <1>12 DEF Folded

LEMMA NextRecord ==
  ASSUME TapeTypes, PredsBackward, Ends(tape), Chain, Anchored,
         NEW c, NEW s, Folded(Carried, tape, c, s), NEW g \in 1 .. Len(tape), NEW i \in 1 .. Len(tape[g]),
         Later(c, g, tape[g][i].end),
         \A h \in 1 .. Len(tape) : \A j \in 1 .. Len(tape[h]) :
           Later(c, h, tape[h][j].end) => ~(h < g \/ (h = g /\ tape[h][j].end < tape[g][i].end))
  PROVE  Folded(Carried, tape, <<g, tape[g][i].end>>, Append(s, tape[g][i].n))
<1>1. tape \in Seq(Seq(TapeRecs)) /\ Len(tape) \in Nat /\ tape[g] \in Seq(TapeRecs) /\ Len(tape[g]) \in Nat
  BY TapeField DEF TapeTypes
<1>2. c[1] \in 1 .. Len(tape)
  BY DEF Folded, Reached
<1>3. CASE c[1] = g
  <2>1. \A j \in 1 .. Len(tape[c[1]]) : Later(c, c[1], tape[c[1]][j].end) => ~(tape[c[1]][j].end < tape[c[1]][i].end)
    BY <1>3
  <2>2. i \in 1 .. Len(tape[c[1]]) /\ Later(c, c[1], tape[c[1]][i].end)
    BY <1>3
  <2>3. Folded(Carried, tape, <<c[1], tape[c[1]][i].end>>, Append(s, tape[c[1]][i].n))
    BY <2>1, <2>2, NextInPlace
  <2>4. QED  BY <1>3, <2>3
<1>4. CASE c[1] # g
  <2>1. c[1] < g
    BY <1>1, <1>2, <1>4 DEF Later
  <2>2. i = 1
    <3>1. SUFFICES ASSUME i # 1 PROVE FALSE
      OBVIOUS
    <3>2. 1 \in 1 .. i - 1 /\ 1 \in 1 .. Len(tape[g])
      BY <1>1, <3>1
    <3>3. tape[g][1].end < tape[g][i].end
      BY <3>2 DEF Ends
    <3>4. Later(c, g, tape[g][1].end)
      BY <2>1 DEF Later
    <3>5. QED  BY <3>2, <3>3, <3>4
  <2>3. \A h \in 1 .. g - 1 : \A j \in 1 .. Len(tape[h]) : ~Later(c, h, tape[h][j].end)
    <3>1. \A h \in 1 .. g - 1 : h \in 1 .. Len(tape) /\ h < g
      BY <1>1
    <3>2. QED  BY <3>1
  <2>4. tape[g] # <<>>
    BY <1>1
  <2>5. Folded(Carried, tape, <<g, tape[g][1].end>>, Append(s, tape[g][1].n))
    BY <2>1, <2>3, <2>4, NextFirst
  <2>6. QED  BY <2>2, <2>5
<1>5. QED  BY <1>3, <1>4

-----------------------------------------------------------------------------
(* The live copies follow the log                                           *)

\* A publisher that is to write the session.reset of a generation that continues another.
Holds(r) == r.pc \in {"rotated", "write"} /\ r.pred[2] # 0
\* There is one at most, and the last generation is still without a record.
HoldersRight(b, t) ==
  /\ \A p \in Publishers : Holds(b[p]) => t[Len(t)] = <<>> /\ Full(t, b[p].pred, Len(t))
  /\ \A p, q \in Publishers : Holds(b[p]) /\ Holds(b[q]) => p = q

\* The publisher of the record that ends at c has still to apply it.
Waits(b, c) == \E p \in Publishers : b[p].pc = "apply" /\ b[p].cur = c
\* What is after the cursor c is still to be applied.
AllWait(b, t, c) ==
  \A g \in 1 .. Len(t) : \A i \in 1 .. Len(t[g]) :
    Later(c, g, t[g][i].end) => Waits(b, <<g, t[g][i].end>>)
Applying(b, t) ==
  \A p \in Publishers : b[p].pc = "apply" =>
    /\ \E g \in 1 .. Len(t) : \E i \in 1 .. Len(t[g]) : b[p].cur = <<g, t[g][i].end>> /\ b[p].n = t[g][i].n
    /\ AllWait(b, t, b[p].cur)
    /\ \A q \in Publishers : b[q].pc = "apply" /\ b[q].cur = b[p].cur => q = p

StoreRight(k, t, b, src, st) ==
  /\ AllWait(b, t, src)
  /\ st.init => Folded(k, t, st.cur, st.recs) /\ AllWait(b, t, st.cur)

\* A patch leads from the fold of the log through one cursor to that through another.
Follows(k, t, m) == \E s : Folded(k, t, m.prev, s) /\ Folded(k, t, m.cur, Append(s, m.n))
ClientRight(k, t, r) ==
  /\ r.pc = "on" => Folded(k, t, r.cur, r.recs)
  /\ r.fetch = "answered" => Folded(k, t, r.gotCur, r.gotRecs)
  /\ \A i \in 1 .. Len(r.queue) : Follows(k, t, r.queue[i])
ClientsRight(k, t, cl, st) == \A c \in Clients : ClientRight(k, t, cl[c]) /\ (cl[c].pc = "on" => st.init)

Exact == size = LastEnd(Len(tape)) /\ Ends(tape) /\ Chain

CopiesRight ==
  /\ Exact /\ HoldersRight(pub, tape) /\ Applying(pub, tape)
  /\ StoreRight(Carried, tape, pub, source, store)
  /\ ClientsRight(Carried, tape, client, store)

\* The inductive invariant of the live copies.
CopiesInv == Orderly => CopiesRight

\* Steps of publish that neither append nor apply.
Quiet(b, d) ==
  \A p \in Publishers :
    /\ d[p].pc = "apply" <=> b[p].pc = "apply"
    /\ b[p].pc = "apply" => d[p].cur = b[p].cur /\ d[p].n = b[p].n
    /\ Holds(d[p]) => Holds(b[p]) /\ d[p].pred = b[p].pred

LEMMA QuietWaits ==
  ASSUME NEW b, NEW d, Quiet(b, d), NEW t, NEW c, AllWait(b, t, c)
  PROVE  AllWait(d, t, c)
<1>1. \A x : Waits(b, x) => Waits(d, x)
  BY DEF Quiet, Waits
<1>2. QED  BY <1>1 DEF AllWait

LEMMA QuietApplying ==
  ASSUME NEW b, NEW d, Quiet(b, d), NEW t, Applying(b, t)
  PROVE  Applying(d, t)
<1>1. ASSUME NEW p \in Publishers, d[p].pc = "apply"
      PROVE  /\ \E g \in 1 .. Len(t) : \E i \in 1 .. Len(t[g]) : d[p].cur = <<g, t[g][i].end>> /\ d[p].n = t[g][i].n
             /\ AllWait(d, t, d[p].cur)
             /\ \A q \in Publishers : d[q].pc = "apply" /\ d[q].cur = d[p].cur => q = p
  <2>1. b[p].pc = "apply" /\ d[p].cur = b[p].cur /\ d[p].n = b[p].n
    BY <1>1 DEF Quiet
  <2>2. AllWait(b, t, b[p].cur)
    BY <2>1 DEF Applying
  <2>3. AllWait(d, t, b[p].cur)
    BY <2>2, QuietWaits
  <2>4. \A q \in Publishers : d[q].pc = "apply" /\ d[q].cur = d[p].cur => q = p
    BY <2>1 DEF Quiet, Applying
  <2>5. \E g \in 1 .. Len(t) : \E i \in 1 .. Len(t[g]) : b[p].cur = <<g, t[g][i].end>> /\ b[p].n = t[g][i].n
    BY <2>1 DEF Applying
  <2>6. QED  BY <2>1, <2>3, <2>4, <2>5
<1>2. QED  BY <1>1 DEF Applying

LEMMA QuietHolders ==
  ASSUME NEW b, NEW d, Quiet(b, d), NEW t, HoldersRight(b, t)
  PROVE  HoldersRight(d, t)
<1>1. \A p \in Publishers : Holds(d[p]) => Holds(b[p]) /\ d[p].pred = b[p].pred
  BY DEF Quiet
<1>2. QED  BY <1>1 DEF HoldersRight

LEMMA ClientGrows ==
  ASSUME NEW t \in Seq(Seq(TapeRecs)), NEW t2 \in Seq(Seq(TapeRecs)), NEW k, NEW k2, Grows(k, t, k2, t2),
         NEW r, ClientRight(k, t, r)
  PROVE  ClientRight(k2, t2, r)
<1>1. \A c, s : Folded(k, t, c, s) => Folded(k2, t2, c, s)
  BY FoldedGrows
<1>2. \A m : Follows(k, t, m) => Follows(k2, t2, m)
  BY <1>1 DEF Follows
<1>3. QED  BY <1>1, <1>2 DEF ClientRight

\* Nothing is written: what was folded stays folded.
LEMMA SameFold ==
  ASSUME UNCHANGED <<tape, torn, gone>>
  PROVE  Carried' = Carried /\ (Chain <=> Chain') /\ (Anchored <=> Anchored')
  BY DEF Carried, Chain, Anchored, Pred, Upto, Prefix, Boundary, Torn, Behind, Records, NoCursor

LEMMA QuietStep ==
  ASSUME CopiesRight, UNCHANGED <<tape, torn, gone, size, store, source>>, Quiet(pub, pub'),
         ClientsRight(Carried, tape, client', store)
  PROVE  CopiesRight'
<1>1. Exact'
  <2>1. size' = LastEnd(Len(tape))'
    BY DEF CopiesRight, Exact, LastEnd
  <2>2. Ends(tape')
    BY DEF CopiesRight, Exact
  <2>3. QED  BY <2>1, <2>2, SameFold DEF CopiesRight, Exact
<1>2. HoldersRight(pub', tape') /\ Applying(pub', tape')
  BY QuietHolders, QuietApplying DEF CopiesRight
<1>3. StoreRight(Carried', tape', pub', source', store')
  BY QuietWaits, SameFold DEF CopiesRight, StoreRight
<1>4. ClientsRight(Carried', tape', client', store')
  BY SameFold
<1>5. QED  BY <1>1, <1>2, <1>3, <1>4 DEF CopiesRight

\* The steps of a publisher that leave the files alone and apply nothing.
LEMMA QuietPublisher ==
  ASSUME EventInv, NEW p \in Publishers,
         \/ Publish(p) \/ PublishReset(p) \/ AppendTapeFails(p) \/ NotifyFailed(p) \/ PublishError(p)
         \/ \E ch \in pub[p].to : Send(p, ch)
  PROVE  /\ Quiet(pub, pub') /\ UNCHANGED <<tape, gone, boot, store, source, size, disorder, partial>>
         /\ UNCHANGED client \/ \A c \in Clients :
              client'[c] \in {client[c], [client[c] EXCEPT !.closed = TRUE]}
<1>1. pub = [k \in Publishers |-> pub[k]] /\ PubOK(pub[p])
  BY DEF EventInv, EventTypes
<1>2. ASSUME NEW r, pub' = [pub EXCEPT ![p] = r], pub[p].pc # "apply", r.pc # "apply",
             Holds(r) => Holds(pub[p]) /\ r.pred = pub[p].pred
      PROVE  Quiet(pub, pub')
  <2>1. \A k \in Publishers : pub'[k] = IF k = p THEN r ELSE pub[k]
    BY <1>1, <1>2
  <2>2. QED  BY <1>2, <2>1 DEF Quiet
<1>3. CASE Publish(p)
  <2>1. PICK r : r = [pc |-> "write", n |-> seq + 1, lost |-> FALSE, first |-> seq = 0, to |-> subs,
                      cur |-> NoCursor, pred |-> NoCursor]
    OBVIOUS
  <2>2. pub' = [pub EXCEPT ![p] = r] /\ pub[p].pc # "apply" /\ r.pc # "apply" /\ ~Holds(r)
    BY <1>3, <2>1, NoCursorIs DEF Publish, Holds
  <2>3. UNCHANGED <<tape, gone, boot, store, source, size, disorder, partial, client>>
    BY <1>3 DEF Publish, fileVars, storeVars, faultVars
  <2>4. QED  BY <1>2, <2>2, <2>3
<1>4. CASE PublishReset(p)
  <2>1. PICK r : r = [pc |-> "write", n |-> seq + 1, lost |-> FALSE, first |-> FALSE, to |-> subs,
                      cur |-> NoCursor, pred |-> pub[p].pred]
    OBVIOUS
  <2>2. /\ pub' = [pub EXCEPT ![p] = r] /\ pub[p].pc # "apply" /\ r.pc # "apply"
        /\ Holds(r) => Holds(pub[p]) /\ r.pred = pub[p].pred
    BY <1>4, <2>1 DEF PublishReset, Holds
  <2>3. UNCHANGED <<tape, gone, boot, store, source, size, disorder, partial, client>>
    BY <1>4 DEF PublishReset, fileVars, storeVars, faultVars
  <2>4. QED  BY <1>2, <2>2, <2>3
<1>5. CASE AppendTapeFails(p)
  <2>1. PICK r : r = [pub[p] EXCEPT !.pc = "failed"]
    OBVIOUS
  <2>2. pub[p].pc = "write" /\ pub' = [pub EXCEPT ![p] = r]
    BY <1>1, <1>5, <2>1 DEF AppendTapeFails, Fails, FailsWith
  <2>3. r.pc = "failed"
    BY <1>1, <2>1, <2>2, PubIs, FailedSet
  <2>4. r.pc # "apply" /\ ~Holds(r)
    BY <2>3 DEF Holds
  <2>5. UNCHANGED <<tape, gone, boot, store, source, size, disorder, partial, client>>
    BY <1>5 DEF AppendTapeFails, keptVars, storeVars
  <2>6. QED  BY <1>2, <2>2, <2>4, <2>5
<1>6. CASE NotifyFailed(p)
  <2>1. PICK r : r = [pub[p] EXCEPT !.pc = "send", !.lost = TRUE]
    OBVIOUS
  <2>2. pub[p].pc = "failed" /\ pub' = [pub EXCEPT ![p] = r] /\ MarkStale
    BY <1>1, <1>6, <2>1 DEF NotifyFailed
  <2>3. r.pc = "send"
    BY <1>1, <2>1, <2>2, PubIs, LostSet
  <2>4. r.pc # "apply" /\ ~Holds(r)
    BY <2>3 DEF Holds
  <2>5. UNCHANGED <<tape, gone, boot, store, source, size, disorder, partial>>
    BY <1>6 DEF NotifyFailed, MarkStale, fileVars, faultVars
  <2>6. \A c \in Clients : client'[c] \in {client[c], [client[c] EXCEPT !.closed = TRUE]}
    BY <2>2 DEF MarkStale
  <2>7. QED  BY <1>2, <2>2, <2>4, <2>5, <2>6
<1>7. CASE PublishError(p)
  <2>1. PICK q, r : q = [pub[p] EXCEPT !.lost = FALSE, !.to = subs] /\ r = Rest(q)
    OBVIOUS
  <2>2. pub[p].pc = "send" /\ pub' = [pub EXCEPT ![p] = r]
    BY <1>1, <1>7, <2>1 DEF PublishError
  <2>3. r.pc \in {"send", "idle"}
    BY <1>1, <2>1, <2>2, PubIs, SentSet
  <2>4. r.pc # "apply" /\ ~Holds(r)
    BY <2>3 DEF Holds
  <2>5. UNCHANGED <<tape, gone, boot, store, source, size, disorder, partial, client>>
    BY <1>7 DEF PublishError, fileVars, storeVars, faultVars
  <2>6. QED  BY <1>2, <2>2, <2>4, <2>5
<1>8. ASSUME NEW ch \in pub[p].to, Send(p, ch)
      PROVE  Quiet(pub, pub') /\ UNCHANGED <<tape, gone, boot, store, source, size, disorder, partial, client>>
  <2>1. PICK t, q, r : t = pub[p].to \ {ch} /\ q = [pub[p] EXCEPT !.to = t] /\ r = Rest(q)
    OBVIOUS
  <2>2. pub[p].pc = "send" /\ pub' = [pub EXCEPT ![p] = r]
    BY <1>1, <1>8, <2>1 DEF Send
  <2>3. Publishing(pub[p])
    BY <1>1, <2>2, PubIs
  <2>4. q = [pub[p] EXCEPT !.lost = pub[p].lost, !.to = t]
    BY <2>1, <2>3 DEF Publishing
  <2>5. r.pc \in {"send", "idle"}
    <3>1. PICK x, l : x = pub[p] /\ l = pub[p].lost
      OBVIOUS
    <3>2. Publishing(x) /\ x.pc = "send" /\ q = [x EXCEPT !.lost = l, !.to = t]
      BY <2>2, <2>3, <2>4, <3>1
    <3>3. Rest(q).pc \in {"send", "idle"}
      BY <3>2, SentSet
    <3>4. QED  BY <2>1, <3>3
  <2>6. r.pc # "apply" /\ ~Holds(r)
    BY <2>5 DEF Holds
  <2>7. UNCHANGED <<tape, gone, boot, store, source, size, disorder, partial, client>>
    BY <1>8 DEF Send, fileVars, storeVars
  <2>8. QED  BY <1>2, <2>2, <2>6, <2>7
<1>9. QED  BY <1>3, <1>4, <1>5, <1>6, <1>7, <1>8

LEMMA QuietKeeps ==
  ASSUME EventInv, CopiesRight, UNCHANGED torn, NEW p \in Publishers,
         \/ Publish(p) \/ PublishReset(p) \/ AppendTapeFails(p) \/ NotifyFailed(p) \/ PublishError(p)
         \/ \E ch \in pub[p].to : Send(p, ch)
  PROVE  CopiesRight'
<1>1. /\ Quiet(pub, pub') /\ UNCHANGED <<tape, gone, boot, store, source, size, disorder, partial>>
      /\ UNCHANGED client \/ \A c \in Clients :
           client'[c] \in {client[c], [client[c] EXCEPT !.closed = TRUE]}
  BY QuietPublisher
<1>2. ASSUME NEW c \in Clients PROVE ClientRight(Carried, tape, client'[c]) /\ (client'[c].pc = "on" => store.init)
  <2>1. ClientRight(Carried, tape, client[c]) /\ (client[c].pc = "on" => store.init)
    BY DEF CopiesRight, ClientsRight
  <2>2. PICK d : d = [client[c] EXCEPT !.closed = TRUE]
    OBVIOUS
  <2>3. client[c] \in ClientRecs
    BY ClientIs
  <2>4. d.pc = client[c].pc /\ d.fetch = client[c].fetch /\ d.queue = client[c].queue /\ d.cur = client[c].cur
        /\ d.recs = client[c].recs /\ d.gotCur = client[c].gotCur /\ d.gotRecs = client[c].gotRecs
    BY <2>2, <2>3 DEF ClientRecs
  <2>5. client'[c] = client[c] \/ client'[c] = d
    BY <1>1, <2>2
  <2>6. QED  BY <2>1, <2>4, <2>5 DEF ClientRight
<1>3. ClientsRight(Carried, tape, client', store)
  BY <1>2 DEF ClientsRight
<1>4. QED  BY <1>1, <1>3, QuietStep

-----------------------------------------------------------------------------
(* A record is written, a generation is begun                               *)

LEMMA TapeSame ==
  ASSUME EventInv, UNCHANGED tape
  PROVE  TapeOnlyGrows
<1>1. Len(tape) \in Nat /\ \A g \in 1 .. Len(tape) : Len(tape[g]) \in Nat
  BY InvTape, TapeAt
<1>2. QED  BY <1>1 DEF TapeOnlyGrows

LEMMA TapeWritten ==
  ASSUME EventInv, NEW p \in Publishers, pub[p].pc = "write", OnTape(p)
  PROVE  /\ TapeOnlyGrows /\ TapeTypes' /\ Len(tape') = Len(tape) /\ Len(tape) \in 1 .. Len(tape)
         /\ tape'[Len(tape)] = Append(tape[Len(tape)], Record(p))
         /\ Len(tape'[Len(tape)]) = Len(tape[Len(tape)]) + 1 /\ Len(tape[Len(tape)]) \in Nat
         /\ tape'[Len(tape)][Len(tape[Len(tape)]) + 1] = Record(p)
         /\ Record(p) \in TapeRecs /\ Record(p).n = pub[p].n /\ Record(p).pred = pub[p].pred
         /\ Record(p).end = LastEnd(Len(tape)) + RecordLen(pub[p].n)
         /\ RecordLen(pub[p].n) \in Nat /\ RecordLen(pub[p].n) > 0
<1> DEFINE l == Len(tape)
<1>0. PICK r : r = Record(p)
  OBVIOUS
<1>1. TapeTypes /\ l \in Nat /\ l \in 1 .. l /\ tape[l] \in Seq(TapeRecs) /\ Len(tape[l]) \in Nat
      /\ \A g \in 1 .. l : Len(tape[g]) \in Nat
  BY InvTape, TapeAt
<1>2. r \in TapeRecs /\ r.n = pub[p].n /\ r.pred = pub[p].pred
  BY <1>0, RecordIs
<1>3. tape' = [tape EXCEPT ![Len(tape)] = Append(@, r)]
  BY <1>0 DEF OnTape
<1>4. /\ TapeTypes' /\ Len(tape') = l
      /\ \A g \in 1 .. l - 1 : tape'[g] = tape[g]
      /\ tape'[l] = Append(tape[l], r)
  BY <1>1, <1>2, <1>3, TapeGrows
<1>5. /\ Len(Append(tape[l], r)) = Len(tape[l]) + 1
      /\ \A k \in 1 .. Len(tape[l]) : Append(tape[l], r)[k] = tape[l][k]
      /\ Append(tape[l], r)[Len(tape[l]) + 1] = r
  BY <1>1, <1>2
<1>6. TapeOnlyGrows
  <2>1. ASSUME NEW g \in 1 .. l
        PROVE  Len(tape[g]) <= Len(tape'[g]) /\ \A i \in 1 .. Len(tape[g]) : tape'[g][i] = tape[g][i]
    <3>1. CASE g # l
      <4>1. g \in 1 .. l - 1
        BY <1>1, <3>1
      <4>2. QED  BY <1>1, <1>4, <4>1
    <3>2. CASE g = l
      <4>1. Len(tape'[l]) = Len(tape[l]) + 1 /\ \A k \in 1 .. Len(tape[l]) : tape'[l][k] = tape[l][k]
        BY <1>4, <1>5
      <4>2. Len(tape[l]) <= Len(tape'[l])
        BY <1>1, <4>1
      <4>3. QED  BY <3>2, <4>1, <4>2
    <3>3. QED  BY <3>1, <3>2
  <2>2. QED  BY <1>1, <1>4, <2>1 DEF TapeOnlyGrows
<1>7. r.end = LastEnd(l) + RecordLen(pub[p].n)
  BY <1>0 DEF Record
<1>8. RecordLen(pub[p].n) \in Nat /\ RecordLen(pub[p].n) > 0
  <2>1. pub[p].n \in Nat
    BY <1>2 DEF TapeRecs
  <2>2. pub[p].n % 2 \in 0 .. 1
    BY <2>1
  <2>3. QED  BY <2>2 DEF RecordLen
<1>9. QED  BY <1>0, <1>1, <1>2, <1>4, <1>5, <1>6, <1>7, <1>8

LEMMA TapeBegun ==
  ASSUME EventInv, tape' = Append(tape, <<>>)
  PROVE  /\ TapeOnlyGrows /\ TapeTypes' /\ Len(tape') = Len(tape) + 1 /\ Len(tape) \in Nat
         /\ \A g \in 1 .. Len(tape) : tape'[g] = tape[g]
         /\ tape'[Len(tape) + 1] = <<>>
<1>1. TapeTypes /\ Len(tape) \in Nat /\ \A g \in 1 .. Len(tape) : Len(tape[g]) \in Nat
  BY InvTape, TapeAt
<1>2. TapeTypes' /\ Len(tape') = Len(tape) + 1 /\ tape'[Len(tape) + 1] = <<>>
      /\ \A g \in 1 .. Len(tape) : tape'[g] = tape[g]
  BY <1>1, TapeRotates
<1>3. QED  BY <1>1, <1>2 DEF TapeOnlyGrows

\* Ends and chain, when the last generation is the only one that changes.
LEMMA PredStays ==
  ASSUME EventInv, TapeOnlyGrows, TapeTypes', NEW g \in 1 .. Len(tape), tape[g] # <<>>
  PROVE  tape'[g] # <<>> /\ Pred(g)' = Pred(g)
<1>1. tape[g] \in Seq(TapeRecs) /\ Len(tape[g]) \in Nat /\ Len(tape) \in Nat
  BY InvTape, TapeAt
<1>2. 1 \in 1 .. Len(tape[g]) /\ Len(tape[g]) # 0
  BY <1>1
<1>3. tape'[g][1] = tape[g][1] /\ Len(tape[g]) <= Len(tape'[g])
  BY <1>2 DEF TapeOnlyGrows
<1>4. g \in 1 .. Len(tape') /\ tape' \in Seq(Seq(TapeRecs))
  <2>1. tape' \in Seq(Seq(TapeRecs)) /\ Len(tape) <= Len(tape')
    BY DEF TapeTypes, TapeOnlyGrows
  <2>2. Len(tape') \in Nat
    BY <2>1
  <2>3. QED  BY <1>1, <2>1, <2>2
<1>5. Len(tape'[g]) \in Nat
  BY <1>4, TapeField
<1>6. tape'[g] # <<>>
  <2>1. Len(<<>>) = 0
    OBVIOUS
  <2>2. Len(tape'[g]) # 0
    BY <1>1, <1>2, <1>3, <1>5
  <2>3. QED  BY <2>1, <2>2
<1>7. QED  BY <1>3, <1>6 DEF Pred, NoCursor

\* The end of the last generation with records before g stays that.
LEMMA FullStays ==
  ASSUME EventInv, TapeOnlyGrows, TapeTypes', NEW c, NEW g \in 1 .. Len(tape), Full(tape, c, g)
  PROVE  Full(tape', c, g)
<1>1. Len(tape) \in Nat
  BY InvTape, TapeAt
<1>2. \A k \in 1 .. g - 1 : tape'[k] = tape[k]
  <2>1. \A k \in 1 .. g - 1 : k \in 1 .. Len(tape) - 1
    BY <1>1
  <2>2. QED  BY <2>1 DEF TapeOnlyGrows
<1>3. c[1] \in 1 .. g - 1 /\ \A k \in c[1] + 1 .. g - 1 : k \in 1 .. g - 1
  BY <1>1 DEF Full
<1>4. QED  BY <1>2, <1>3 DEF Full

LEMMA AnchoredBack ==
  ASSUME EventInv, TapeOnlyGrows, TapeTypes', Anchored'
  PROVE  Anchored
<1>1. Len(tape) \in Nat /\ Len(tape') \in Nat /\ Len(tape) <= Len(tape')
  BY InvTape, TapeAt DEF TapeOnlyGrows, TapeTypes
<1>2. ASSUME NEW g \in 1 .. Len(tape), tape[g] # <<>>, Pred(g) = NoCursor, NEW h \in 1 .. g - 1
      PROVE  tape[h] = <<>>
  <2>1. tape'[g] # <<>> /\ Pred(g)' = NoCursor
    BY <1>2, PredStays
  <2>2. g \in 1 .. Len(tape') /\ h \in 1 .. Len(tape) - 1
    BY <1>1
  <2>3. tape'[h] = <<>>
    BY <2>1, <2>2 DEF Anchored, NoCursor
  <2>4. QED  BY <2>2, <2>3 DEF TapeOnlyGrows
<1>3. QED  BY <1>2 DEF Anchored

\* A publisher is woken at the end of what it has written: nothing is after it, and what
\* was to be applied still is.
LEMMA AppendedRecord ==
  ASSUME EventInv, CopiesRight, NEW p \in Publishers, pub[p].pc = "write", OnTape(p)
  PROVE  /\ Ends(tape')
         /\ Record(p).end > 0
         /\ \A g \in 1 .. Len(tape') : \A i \in 1 .. Len(tape'[g]) :
              \/ g \in 1 .. Len(tape) /\ i \in 1 .. Len(tape[g]) /\ tape'[g][i] = tape[g][i]
                 /\ (g = Len(tape) => tape[g][i].end < Record(p).end)
              \/ g = Len(tape) /\ tape'[g][i] = Record(p)
<1>1. /\ TapeOnlyGrows /\ TapeTypes' /\ Len(tape') = Len(tape) /\ Len(tape) \in 1 .. Len(tape)
      /\ Len(tape'[Len(tape)]) = Len(tape[Len(tape)]) + 1 /\ Len(tape[Len(tape)]) \in Nat
      /\ tape'[Len(tape)][Len(tape[Len(tape)]) + 1] = Record(p)
      /\ Record(p).end = LastEnd(Len(tape)) + RecordLen(pub[p].n)
      /\ RecordLen(pub[p].n) \in Nat /\ RecordLen(pub[p].n) > 0
  BY TapeWritten
<1>2. PICK l, m, e : l = Len(tape) /\ m = Len(tape[l]) /\ e = Record(p).end
  OBVIOUS
<1>3. l \in Nat /\ l \in 1 .. l /\ m \in Nat
  BY <1>1, <1>2, InvTape, TapeAt
<1>4. Ends(tape)
  BY DEF CopiesRight, Exact
<1>5. \A i \in 1 .. m : tape[l][i].end \in Nat
  BY <1>2, <1>3, InvTape, TapeAt
<1>6. LastEnd(l) \in Nat /\ \A i \in 1 .. m : tape[l][i].end <= LastEnd(l)
  <2>1. CASE m = 0
    <3>1. tape[l] \in Seq(TapeRecs)
      BY <1>2, <1>3, InvTape, TapeAt
    <3>2. tape[l] = <<>>
      <4>1. ASSUME NEW s \in Seq(TapeRecs), s # <<>> PROVE Len(s) # 0
        BY <4>1
      <4>2. Len(tape[l]) = 0
        BY <1>2, <2>1
      <4>3. QED  BY <3>1, <4>1, <4>2
    <3>3. \A i \in 1 .. m : FALSE
      BY <2>1
    <3>4. QED  BY <3>2, <3>3 DEF LastEnd
  <2>2. CASE m # 0
    <3>1. m \in 1 .. m /\ tape[l] # <<>>
      <4>1. Len(<<>>) = 0
        OBVIOUS
      <4>2. QED  BY <1>2, <1>3, <2>2, <4>1
    <3>2. LastEnd(l) = tape[l][m].end
      BY <1>2, <3>1 DEF LastEnd, Last
    <3>3. ASSUME NEW i \in 1 .. m PROVE tape[l][i].end <= tape[l][m].end
      <4>1. CASE i = m
        BY <1>5, <4>1
      <4>2. CASE i # m
        <5>1. i \in 1 .. m - 1
          BY <1>3, <4>2
        <5>2. tape[l][i].end < tape[l][m].end
          BY <1>2, <1>3, <1>4, <3>1, <5>1 DEF Ends
        <5>3. QED  BY <1>5, <3>1, <5>2
      <4>3. QED  BY <4>1, <4>2
    <3>4. QED  BY <1>5, <3>1, <3>2, <3>3
  <2>3. QED  BY <2>1, <2>2
<1>7. e \in Nat /\ e > 0 /\ \A i \in 1 .. m : tape[l][i].end < e
  <2>1. e = LastEnd(l) + RecordLen(pub[p].n)
    BY <1>1, <1>2
  <2>2. QED  BY <1>1, <1>5, <1>6, <2>1
<1>8. ASSUME NEW g \in 1 .. Len(tape'), NEW i \in 1 .. Len(tape'[g])
      PROVE  \/ g \in 1 .. l - 1 /\ i \in 1 .. Len(tape[g]) /\ tape'[g] = tape[g]
             \/ g = l /\ i \in 1 .. m /\ tape'[g][i] = tape[g][i]
             \/ g = l /\ i = m + 1 /\ tape'[g][i] = Record(p)
  <2>1. CASE g # l
    <3>1. g \in 1 .. l - 1
      BY <1>1, <1>2, <1>3, <2>1
    <3>2. tape'[g] = tape[g]
      BY <1>1, <1>2, <3>1 DEF TapeOnlyGrows
    <3>3. QED  BY <1>8, <3>1, <3>2
  <2>2. CASE g = l
    <3>1. i \in 1 .. m + 1
      BY <1>1, <1>2, <1>8, <2>2
    <3>2. i = m + 1 \/ i \in 1 .. m
      BY <1>3, <3>1
    <3>3. \A j \in 1 .. m : tape'[l][j] = tape[l][j]
      BY <1>1, <1>2, <1>3 DEF TapeOnlyGrows
    <3>4. QED  BY <1>1, <1>2, <2>2, <3>2, <3>3
  <2>3. QED  BY <2>1, <2>2
<1>9. Ends(tape')
  <2>1. ASSUME NEW g \in 1 .. Len(tape'), NEW i \in 1 .. Len(tape'[g])
        PROVE  tape'[g][i].end > 0 /\ \A j \in 1 .. i - 1 : tape'[g][j].end < tape'[g][i].end
    <3>1. CASE g \in 1 .. l - 1 /\ i \in 1 .. Len(tape[g]) /\ tape'[g] = tape[g]
      <4>1. g \in 1 .. Len(tape)
        BY <1>2, <1>3, <3>1
      <4>2. QED  BY <1>4, <3>1, <4>1 DEF Ends
    <3>2. CASE g = l /\ i \in 1 .. m /\ tape'[g][i] = tape[g][i]
      <4>1. \A j \in 1 .. i - 1 : j \in 1 .. m
        BY <1>3, <3>2
      <4>2. \A j \in 1 .. i - 1 : tape'[g][j] = tape[g][j]
        BY <1>1, <1>2, <1>3, <3>2, <4>1 DEF TapeOnlyGrows
      <4>3. tape[g][i].end > 0 /\ \A j \in 1 .. i - 1 : tape[g][j].end < tape[g][i].end
        BY <1>2, <1>3, <1>4, <3>2 DEF Ends
      <4>4. QED  BY <3>2, <4>2, <4>3
    <3>3. CASE g = l /\ i = m + 1 /\ tape'[g][i] = Record(p)
      <4>1. \A j \in 1 .. i - 1 : j \in 1 .. m
        BY <1>3, <3>3
      <4>2. \A j \in 1 .. i - 1 : tape'[g][j] = tape[g][j]
        BY <1>1, <1>2, <1>3, <3>3, <4>1 DEF TapeOnlyGrows
      <4>3. QED  BY <1>2, <1>7, <3>3, <4>1, <4>2
    <3>4. QED  BY <1>8, <3>1, <3>2, <3>3
  <2>2. QED  BY <2>1 DEF Ends
<1>10. ASSUME NEW g \in 1 .. Len(tape'), NEW i \in 1 .. Len(tape'[g])
       PROVE  \/ g \in 1 .. Len(tape) /\ i \in 1 .. Len(tape[g]) /\ tape'[g][i] = tape[g][i]
                 /\ (g = Len(tape) => tape[g][i].end < Record(p).end)
              \/ g = Len(tape) /\ tape'[g][i] = Record(p)
  <2>1. CASE g \in 1 .. l - 1 /\ i \in 1 .. Len(tape[g]) /\ tape'[g] = tape[g]
    <3>1. g \in 1 .. Len(tape) /\ g # Len(tape)
      BY <1>2, <1>3, <2>1
    <3>2. QED  BY <2>1, <3>1
  <2>2. CASE g = l /\ i \in 1 .. m /\ tape'[g][i] = tape[g][i]
    BY <1>2, <1>3, <1>7, <2>2
  <2>3. CASE g = l /\ i = m + 1 /\ tape'[g][i] = Record(p)
    BY <1>2, <2>3
  <2>4. QED  BY <1>8, <2>1, <2>2, <2>3
<1>11. QED  BY <1>2, <1>7, <1>9, <1>10

\* What a complete append does to the publishers.
LEMMA AppendedIs ==
  ASSUME EventInv, CopiesRight, NEW p \in Publishers, Appended(p)
  PROVE  /\ pub[p].pc = "write" /\ OnTape(p)
         /\ pub'[p].pc = "apply" /\ pub'[p].n = Record(p).n /\ pub'[p].cur = <<Len(tape), Record(p).end>>
         /\ \A q \in Publishers \ {p} : pub'[q] = pub[q]
         /\ size' = Record(p).end
         /\ UNCHANGED <<gone, boot, store, source, client, disorder, partial>>
<1>1. /\ pub[p].pc = "write" /\ OnTape(p) /\ size' = size + RecordLen(pub[p].n)
      /\ UNCHANGED <<gone, boot, store, source, client, disorder, partial>>
  BY DEF Appended, keptVars, storeVars, faultVars
<1>2. PICK x : x = <<Len(tape), size + RecordLen(pub[p].n)>>
  OBVIOUS
<1>3. PICK r : r = [pub[p] EXCEPT !.pc = "apply", !.cur = x]
  OBVIOUS
<1>4. /\ Record(p).n = pub[p].n /\ RecordLen(pub[p].n) \in Nat
      /\ Record(p).end = LastEnd(Len(tape)) + RecordLen(pub[p].n)
  BY <1>1, TapeWritten
<1>5. size = LastEnd(Len(tape))
  BY DEF CopiesRight, Exact
<1>6. pub = [k \in Publishers |-> pub[k]] /\ Publishing(pub[p])
  BY <1>1, PubIs DEF EventInv, EventTypes
<1>7. pub' = [pub EXCEPT ![p] = r]
  <2>1. pub' = [pub EXCEPT ![p].pc = "apply", ![p].cur = x]
    BY <1>2 DEF Appended
  <2>2. QED  BY <1>3, <1>6, <2>1
<1>8. r.pc = "apply" /\ r.cur = x /\ r.n = pub[p].n
  <2>1. PICK o : o = pub[p]
    OBVIOUS
  <2>2. o = [pc |-> o.pc, n |-> o.n, lost |-> o.lost, first |-> o.first, to |-> o.to, cur |-> o.cur, pred |-> o.pred]
    BY <1>6, <2>1 DEF Publishing
  <2>3. r = [o EXCEPT !.pc = "apply", !.cur = x]
    BY <1>3, <2>1
  <2>4. r = [pc |-> "apply", n |-> o.n, lost |-> o.lost, first |-> o.first, to |-> o.to, cur |-> x, pred |-> o.pred]
    BY <2>2, <2>3
  <2>5. QED  BY <2>1, <2>4
<1>9. \A q \in Publishers : pub'[q] = IF q = p THEN r ELSE pub[q]
  BY <1>6, <1>7
<1>10. x = <<Len(tape), Record(p).end>> /\ size' = Record(p).end
  BY <1>1, <1>2, <1>4, <1>5
<1>11. QED  BY <1>1, <1>4, <1>8, <1>9, <1>10

LEMMA AppendedExact ==
  ASSUME EventInv, CopiesRight, NEW p \in Publishers, Appended(p), Anchored'
  PROVE  Exact' /\ HoldersRight(pub', tape')
<1> DEFINE l == Len(tape)
<1>1. /\ pub[p].pc = "write" /\ OnTape(p)
      /\ pub'[p].pc = "apply" /\ \A q \in Publishers \ {p} : pub'[q] = pub[q]
      /\ size' = Record(p).end
  BY AppendedIs
<1>2. /\ TapeOnlyGrows /\ TapeTypes' /\ Len(tape') = l /\ l \in 1 .. l
      /\ tape'[l] = Append(tape[l], Record(p))
      /\ Len(tape'[l]) = Len(tape[l]) + 1 /\ Len(tape[l]) \in Nat
      /\ tape'[l][Len(tape[l]) + 1] = Record(p)
      /\ Record(p).pred = pub[p].pred
  BY <1>1, TapeWritten
<1>3. tape'[l] # <<>> /\ LastEnd(l)' = Record(p).end
  <2>1. Len(<<>>) = 0
    OBVIOUS
  <2>2. tape'[l] # <<>>
    BY <1>2, <2>1, SMTT(20)
  <2>3. Last(tape'[l]) = Record(p)
    BY <1>2 DEF Last
  <2>4. QED  BY <1>2, <2>2, <2>3 DEF LastEnd, Last
<1>4. Ends(tape')
  BY <1>1, AppendedRecord
<1>5. tape[l] = <<>> => tape'[l][1] = Record(p)
  BY <1>2
<1>6. HoldersRight(pub, tape) /\ Chain /\ l \in Nat
  BY InvTape, TapeAt DEF CopiesRight, Exact
<1>7. Chain'
  <2>1. ASSUME NEW g \in 1 .. Len(tape'), tape'[g] # <<>>, Pred(g)' # NoCursor PROVE Full(tape', Pred(g)', g)
    <3>1. g \in 1 .. l /\ (g # l => g \in 1 .. l - 1)
      BY <1>2, <1>6
    <3>2. CASE tape[g] # <<>>
      <4>1. Pred(g)' = Pred(g)
        BY <1>2, <3>1, <3>2, PredStays
      <4>2. PICK c : c = Pred(g)
        OBVIOUS
      <4>3. Full(tape, c, g)
        BY <1>6, <2>1, <3>1, <3>2, <4>1, <4>2 DEF Chain
      <4>4. Full(tape', c, g)
        BY <1>2, <3>1, <4>3, FullStays
      <4>5. QED  BY <4>1, <4>2, <4>4
    <3>3. CASE tape[g] = <<>>
      <4>1. g = l
        BY <1>2, <2>1, <3>1, <3>3 DEF TapeOnlyGrows
      <4>2. Pred(g)' = pub[p].pred /\ pub[p].pred[2] # 0
        BY <1>2, <1>5, <2>1, <3>3, <4>1 DEF Pred, NoCursor
      <4>3. Holds(pub[p])
        BY <1>1, <4>2 DEF Holds
      <4>4. PICK c : c = pub[p].pred
        OBVIOUS
      <4>5. Full(tape, c, l)
        BY <1>6, <4>3, <4>4 DEF HoldersRight
      <4>6. Full(tape', c, l)
        BY <1>2, <4>5, FullStays
      <4>7. QED  BY <4>1, <4>2, <4>4, <4>6
    <3>4. QED  BY <3>2, <3>3
  <2>2. QED  BY <2>1 DEF Chain, NoCursor
<1>8. ASSUME NEW q \in Publishers, Holds(pub'[q]) PROVE FALSE
  <2>1. q # p /\ Holds(pub[q])
    BY <1>1, <1>8 DEF Holds
  <2>2. tape[l] = <<>> /\ Full(tape, pub[q].pred, l)
    BY <1>6, <2>1 DEF HoldersRight
  <2>3. ~Holds(pub[p])
    BY <1>6, <2>1 DEF HoldersRight
  <2>4. pub[p].pred[2] = 0
    BY <1>1, <2>3 DEF Holds
  <2>5. Pred(l)' = NoCursor
    BY <1>2, <1>5, <2>2, <2>4 DEF Pred, NoCursor
  <2>6. \A h \in 1 .. l - 1 : tape'[h] = <<>>
    BY <1>2, <1>3, <2>5 DEF Anchored, NoCursor
  <2>7. PICK h : h = pub[q].pred[1] /\ h \in 1 .. l - 1 /\ tape[h] # <<>>
    BY <2>2 DEF Full
  <2>8. tape'[h] = tape[h]
    BY <1>2, <2>7 DEF TapeOnlyGrows
  <2>9. QED  BY <2>6, <2>7, <2>8
<1>9. HoldersRight(pub', tape')
  BY <1>8 DEF HoldersRight
<1>10. QED  BY <1>1, <1>2, <1>3, <1>4, <1>7, <1>9 DEF Exact

LEMMA AppendedWaits ==
  ASSUME EventInv, CopiesRight, NEW p \in Publishers, Appended(p)
  PROVE  /\ \A c : AllWait(pub, tape, c) => AllWait(pub', tape', c)
         /\ Applying(pub', tape')
<1> DEFINE l == Len(tape)
<1>1. /\ pub[p].pc = "write" /\ OnTape(p)
      /\ pub'[p].pc = "apply" /\ pub'[p].n = Record(p).n /\ pub'[p].cur = <<l, Record(p).end>>
      /\ \A q \in Publishers \ {p} : pub'[q] = pub[q]
  BY AppendedIs
<1>2. /\ TapeOnlyGrows /\ Len(tape') = l /\ l \in 1 .. l /\ Len(tape[l]) \in Nat
      /\ Len(tape'[l]) = Len(tape[l]) + 1 /\ tape'[l][Len(tape[l]) + 1] = Record(p)
  BY <1>1, TapeWritten
<1>3. \A g \in 1 .. Len(tape') : \A i \in 1 .. Len(tape'[g]) :
        \/ g \in 1 .. l /\ i \in 1 .. Len(tape[g]) /\ tape'[g][i] = tape[g][i] /\ (g = l => tape[g][i].end < Record(p).end)
        \/ g = l /\ tape'[g][i] = Record(p)
  BY <1>1, AppendedRecord
<1>4. \A x : Waits(pub, x) => Waits(pub', x)
  <2>1. ASSUME NEW x, Waits(pub, x) PROVE Waits(pub', x)
    <3>1. PICK q \in Publishers : pub[q].pc = "apply" /\ pub[q].cur = x
      BY <2>1 DEF Waits
    <3>2. pub'[q] = pub[q]
      BY <1>1, <3>1
    <3>3. QED  BY <3>1, <3>2 DEF Waits
  <2>2. QED  BY <2>1
<1>5. Waits(pub', <<l, Record(p).end>>)
  BY <1>1 DEF Waits
<1>6. ASSUME NEW c, AllWait(pub, tape, c) PROVE AllWait(pub', tape', c)
  <2>1. ASSUME NEW g \in 1 .. Len(tape'), NEW i \in 1 .. Len(tape'[g]), Later(c, g, tape'[g][i].end)
        PROVE  Waits(pub', <<g, tape'[g][i].end>>)
    BY <1>3, <1>4, <1>5, <1>6, <2>1 DEF AllWait
  <2>2. QED  BY <2>1 DEF AllWait
<1>7. \A g \in 1 .. l : \A i \in 1 .. Len(tape[g]) : i \in 1 .. Len(tape'[g]) /\ tape'[g][i] = tape[g][i]
  <2>1. TAKE g \in 1 .. l
  <2>2. Len(tape[g]) \in Nat /\ Len(tape'[g]) \in Nat
    <3>1. tape' \in Seq(Seq(TapeRecs)) /\ g \in 1 .. Len(tape')
      BY <1>1, <1>2, TapeWritten DEF TapeTypes
    <3>2. Len(tape'[g]) \in Nat
      BY <3>1, TapeField
    <3>3. QED  BY <3>2, InvTape, TapeAt
  <2>3. QED  BY <2>2, <1>2 DEF TapeOnlyGrows
<1>8. Applying(pub, tape)
  BY DEF CopiesRight
<1>9. ASSUME NEW q \in Publishers, q # p, pub[q].pc = "apply"
      PROVE  /\ \E g \in 1 .. Len(tape') : \E i \in 1 .. Len(tape'[g]) :
                  pub[q].cur = <<g, tape'[g][i].end>> /\ pub[q].n = tape'[g][i].n
             /\ AllWait(pub', tape', pub[q].cur)
             /\ pub[q].cur # <<l, Record(p).end>>
  <2>1. PICK g \in 1 .. l : \E i \in 1 .. Len(tape[g]) : pub[q].cur = <<g, tape[g][i].end>> /\ pub[q].n = tape[g][i].n
    BY <1>8, <1>9 DEF Applying
  <2>2. PICK i \in 1 .. Len(tape[g]) : pub[q].cur = <<g, tape[g][i].end>> /\ pub[q].n = tape[g][i].n
    BY <2>1
  <2>3. g \in 1 .. Len(tape') /\ i \in 1 .. Len(tape'[g]) /\ tape'[g][i] = tape[g][i]
    BY <1>2, <1>7
  <2>4. pub[q].cur # <<l, Record(p).end>>
    <3>1. SUFFICES ASSUME pub[q].cur = <<l, Record(p).end>> PROVE FALSE
      OBVIOUS
    <3>2. g = l /\ tape[g][i].end = Record(p).end
      BY <2>2, <3>1
    <3>3. tape'[l][i] = tape[l][i] /\ i \in 1 .. Len(tape[l]) /\ i \in 1 .. Len(tape'[l])
      BY <2>3, <3>2
    <3>4. i # Len(tape[l]) + 1
      BY <1>2, <3>3
    <3>5. Ends(tape')
      BY <1>1, AppendedRecord
    <3>6. i \in 1 .. (Len(tape[l]) + 1) - 1 /\ Len(tape[l]) + 1 \in 1 .. Len(tape'[l])
      BY <1>2, <3>3
    <3>7. tape'[l][i].end < tape'[l][Len(tape[l]) + 1].end
      BY <1>2, <3>5, <3>6 DEF Ends
    <3>8. Record(p).end \in Nat
      BY <1>1, TapeWritten DEF TapeRecs
    <3>9. QED  BY <1>2, <3>2, <3>3, <3>7, <3>8
  <2>5. AllWait(pub, tape, pub[q].cur)
    BY <1>8, <1>9 DEF Applying
  <2>6. PICK c : c = pub[q].cur
    OBVIOUS
  <2>7. AllWait(pub', tape', c)
    BY <1>6, <2>5, <2>6
  <2>8. QED  BY <2>2, <2>3, <2>4, <2>6, <2>7
<1>10. /\ \E g \in 1 .. Len(tape') : \E i \in 1 .. Len(tape'[g]) :
            pub'[p].cur = <<g, tape'[g][i].end>> /\ pub'[p].n = tape'[g][i].n
       /\ AllWait(pub', tape', pub'[p].cur)
  <2>1. Len(tape[l]) + 1 \in 1 .. Len(tape'[l]) /\ l \in 1 .. Len(tape')
    BY <1>2
  <2>2. \E i \in 1 .. Len(tape'[l]) : pub'[p].cur = <<l, tape'[l][i].end>> /\ pub'[p].n = tape'[l][i].n
    BY <1>1, <1>2, <2>1
  <2>3. PICK e : e = Record(p).end
    OBVIOUS
  <2>4. e \in Nat /\ l \in Nat
    <3>1. Record(p) \in TapeRecs
      BY <1>1, TapeWritten
    <3>2. e \in Nat
      BY <2>3, <3>1 DEF TapeRecs
    <3>3. QED  BY <3>2, InvTape, TapeAt
  <2>5. ASSUME NEW g \in 1 .. Len(tape'), NEW i \in 1 .. Len(tape'[g]), Later(<<l, e>>, g, tape'[g][i].end)
        PROVE  FALSE
    <3>1. l < g \/ (l = g /\ e < tape'[g][i].end)
      BY <2>5 DEF Later
    <3>2. ~(l < g)
      BY <1>2, <2>4
    <3>3. l = g /\ e < tape'[g][i].end
      BY <3>1, <3>2
    <3>4. CASE tape'[g][i] = Record(p)
      BY <2>3, <2>4, <3>3, <3>4
    <3>5. CASE i \in 1 .. Len(tape[g]) /\ tape'[g][i] = tape[g][i] /\ tape[g][i].end < Record(p).end
      <4>1. tape[g][i].end \in Nat
        BY <3>3, <3>5, InvTape, TapeAt
      <4>2. QED  BY <2>3, <2>4, <3>3, <3>5, <4>1
    <3>6. QED  BY <1>3, <2>5, <3>3, <3>4, <3>5
  <2>6. AllWait(pub', tape', <<l, e>>)
    BY <2>5 DEF AllWait
  <2>7. QED  BY <1>1, <2>1, <2>2, <2>3, <2>6
<1>11. Applying(pub', tape')
  <2>1. ASSUME NEW q \in Publishers, pub'[q].pc = "apply"
        PROVE  /\ \E g \in 1 .. Len(tape') : \E i \in 1 .. Len(tape'[g]) :
                    pub'[q].cur = <<g, tape'[g][i].end>> /\ pub'[q].n = tape'[g][i].n
               /\ AllWait(pub', tape', pub'[q].cur)
               /\ \A k \in Publishers : pub'[k].pc = "apply" /\ pub'[k].cur = pub'[q].cur => k = q
    <3>1. CASE q = p
      <4>1. \A k \in Publishers : k # p /\ pub'[k].pc = "apply" => pub'[k].cur # <<l, Record(p).end>>
        BY <1>1, <1>9
      <4>2. QED  BY <1>1, <1>10, <3>1, <4>1
    <3>2. CASE q # p
      <4>1. pub'[q] = pub[q]
        BY <1>1, <3>2
      <4>2. \A k \in Publishers : pub'[k].pc = "apply" /\ pub'[k].cur = pub'[q].cur => k = q
        <5>1. pub[q].cur # <<l, Record(p).end>>
          BY <1>9, <2>1, <3>2, <4>1
        <5>2. \A k \in Publishers : pub[k].pc = "apply" /\ pub[k].cur = pub[q].cur => k = q
          BY <1>8, <2>1, <4>1 DEF Applying
        <5>3. QED  BY <1>1, <4>1, <5>1, <5>2
      <4>3. PICK c : c = pub[q].cur
        OBVIOUS
      <4>4. /\ \E g \in 1 .. Len(tape') : \E i \in 1 .. Len(tape'[g]) :
                 pub[q].cur = <<g, tape'[g][i].end>> /\ pub[q].n = tape'[g][i].n
            /\ AllWait(pub', tape', c)
        BY <1>9, <2>1, <3>2, <4>1, <4>3
      <4>5. QED  BY <4>1, <4>2, <4>3, <4>4
    <3>3. QED  BY <3>1, <3>2
  <2>2. QED  BY <2>1 DEF Applying
<1>12. QED  BY <1>6, <1>11

\* What was right of the store and the browsers stays so when a file grows.
LEMMA CopiesGrow ==
  ASSUME EventInv, EventInv', CopiesRight, TapeOnlyGrows, UNCHANGED <<store, source, client>>,
         \A c : AllWait(pub, tape, c) => AllWait(pub', tape', c)
  PROVE  StoreRight(Carried', tape', pub', source', store') /\ ClientsRight(Carried', tape', client', store')
<1>1. TapeTypes /\ PredsBackward /\ TapeTypes' /\ PredsBackward'
  BY DEF EventInv, EventTypes, TapeTypes
<1>2. Grows(Carried, tape, Carried', tape')
  BY <1>1, LogGrows
<1>3. tape \in Seq(Seq(TapeRecs)) /\ tape' \in Seq(Seq(TapeRecs))
  BY <1>1 DEF TapeTypes
<1>4. \A c, s : Folded(Carried, tape, c, s) => Folded(Carried', tape', c, s)
  BY <1>2, <1>3, FoldedGrows
<1>5. \A r : ClientRight(Carried, tape, r) => ClientRight(Carried', tape', r)
  BY <1>2, <1>3, ClientGrows
<1>6. StoreRight(Carried', tape', pub', source', store')
  BY <1>4 DEF CopiesRight, StoreRight
<1>7. ClientsRight(Carried', tape', client', store')
  BY <1>5 DEF CopiesRight, ClientsRight
<1>8. QED  BY <1>6, <1>7

LEMMA AppendedKeeps ==
  ASSUME EventInv, EventInv', CopiesRight, NEW p \in Publishers, Appended(p), Anchored'
  PROVE  CopiesRight'
<1>1. Exact' /\ HoldersRight(pub', tape')
  BY AppendedExact
<1>2. Applying(pub', tape') /\ \A c : AllWait(pub, tape, c) => AllWait(pub', tape', c)
  BY AppendedWaits
<1>3. pub[p].pc = "write" /\ OnTape(p) /\ UNCHANGED <<store, source, client>>
  BY AppendedIs
<1>4. TapeOnlyGrows
  BY <1>3, TapeWritten
<1>5. QED  BY <1>1, <1>2, <1>3, <1>4, CopiesGrow DEF CopiesRight

LEMMA RotatedKeeps ==
  ASSUME EventInv, EventInv', CopiesRight, NEW p \in Publishers, Rotate(p)
  PROVE  CopiesRight'
<1> DEFINE l == Len(tape)
<1>1. PICK r : r = [pc |-> "rotated", first |-> FALSE, to |-> {}, pred |-> Cursor]
  OBVIOUS
<1>2. /\ pub[p].pc = "idle" /\ pub' = [pub EXCEPT ![p] = r] /\ tape' = Append(tape, <<>>) /\ size' = 0
      /\ UNCHANGED <<store, source, client>>
  BY <1>1 DEF Rotate, storeVars
<1>3. /\ TapeOnlyGrows /\ TapeTypes' /\ Len(tape') = l + 1 /\ l \in Nat
      /\ \A g \in 1 .. l : tape'[g] = tape[g]
      /\ tape'[l + 1] = <<>>
  BY <1>2, TapeBegun
<1>4. \A q \in Publishers : pub'[q] = IF q = p THEN r ELSE pub[q]
  BY <1>2 DEF EventInv, EventTypes
<1>5. l \in 1 .. l /\ \A g \in 1 .. l : g \in 1 .. l + 1
  BY <1>3, InvTape, TapeAt
<1>6. \A g \in 1 .. l + 1 : g = l + 1 \/ g \in 1 .. l
  BY <1>3
<1>7. Exact /\ HoldersRight(pub, tape) /\ Applying(pub, tape)
  BY DEF CopiesRight
<1>8. /\ r.pc = "rotated" /\ r.pred[1] = l /\ r.pred[2] = size
      /\ size = IF tape[l] = <<>> THEN 0 ELSE tape[l][Len(tape[l])].end
  <2>1. r.pc = "rotated" /\ r.pred = Cursor
    BY <1>1
  <2>2. Cursor[1] = l /\ Cursor[2] = size
    BY DEF Cursor
  <2>3. size = IF tape[l] = <<>> THEN 0 ELSE tape[l][Len(tape[l])].end
    BY <1>7 DEF Exact, LastEnd, Last
  <2>4. QED  BY <2>1, <2>2, <2>3
<1>9. Exact'
  <2>1. size' = LastEnd(Len(tape))'
    BY <1>2, <1>3 DEF LastEnd
  <2>2. \A i \in 1 .. Len(tape'[l + 1]) : FALSE
    BY <1>3
  <2>3. Ends(tape')
    BY <1>3, <1>6, <1>7, <2>2 DEF Exact, Ends
  <2>4. ASSUME NEW g \in 1 .. Len(tape'), tape'[g] # <<>>, Pred(g)' # NoCursor PROVE Full(tape', Pred(g)', g)
    <3>1. g \in 1 .. l /\ tape[g] # <<>>
      BY <1>3, <1>6, <2>4
    <3>2. Pred(g)' = Pred(g)
      BY <1>3, <3>1, PredStays
    <3>3. PICK c : c = Pred(g)
      OBVIOUS
    <3>4. Full(tape, c, g)
      BY <1>7, <2>4, <3>1, <3>2, <3>3 DEF Exact, Chain
    <3>5. Full(tape', c, g)
      BY <1>3, <3>1, <3>4, FullStays
    <3>6. QED  BY <3>2, <3>3, <3>5
  <2>5. Chain'
    BY <2>4 DEF Chain, NoCursor
  <2>6. QED  BY <2>1, <2>3, <2>5 DEF Exact
<1>10. ASSUME NEW q \in Publishers, Holds(pub'[q])
       PROVE  Full(tape', pub'[q].pred, l + 1) /\ (q = p => tape[l] # <<>>) /\ (q # p => tape[l] = <<>> /\ Holds(pub[q]))
  <2>1. CASE q = p
    <3>1. tape[l] # <<>> /\ size = tape[l][Len(tape[l])].end
      BY <1>4, <1>8, <1>10, <2>1 DEF Holds
    <3>2. PICK c : c = Cursor
      OBVIOUS
    <3>3. c \in Cursors /\ c[1] = l /\ c[2] = size
      BY <3>2, CursorIs DEF Cursor
    <3>4. l \in 1 .. (l + 1) - 1 /\ tape'[l] = tape[l] /\ \A k \in l + 1 .. (l + 1) - 1 : FALSE
      BY <1>3, <1>5
    <3>5. Full(tape', c, l + 1)
      BY <3>1, <3>3, <3>4 DEF Full
    <3>6. pub'[q].pred = c
      BY <1>1, <1>4, <2>1, <3>2
    <3>7. QED  BY <2>1, <3>1, <3>5, <3>6
  <2>2. CASE q # p
    <3>1. pub'[q] = pub[q] /\ Holds(pub[q])
      BY <1>4, <1>10, <2>2
    <3>2. PICK c : c = pub[q].pred
      OBVIOUS
    <3>3. tape[l] = <<>> /\ Full(tape, c, l)
      BY <1>7, <3>1, <3>2 DEF HoldersRight
    <3>4. c \in Cursors /\ c[1] \in 1 .. l - 1 /\ tape[c[1]] # <<>> /\ c[2] = tape[c[1]][Len(tape[c[1]])].end
          /\ \A k \in c[1] + 1 .. l - 1 : tape[k] = <<>>
      BY <3>3 DEF Full
    <3>5. c[1] \in 1 .. (l + 1) - 1 /\ c[1] \in 1 .. l
      BY <1>3, <3>4
    <3>6. \A k \in c[1] + 1 .. (l + 1) - 1 : tape'[k] = <<>>
      <4>1. TAKE k \in c[1] + 1 .. (l + 1) - 1
      <4>2. k \in 1 .. l /\ (k = l \/ k \in c[1] + 1 .. l - 1)
        BY <1>3, <3>4
      <4>3. QED  BY <1>3, <3>3, <3>4, <4>2
    <3>7. Full(tape', c, l + 1)
      BY <1>3, <3>4, <3>5, <3>6 DEF Full
    <3>8. QED  BY <2>2, <3>1, <3>2, <3>3, <3>7
  <2>3. QED  BY <2>1, <2>2
<1>11. HoldersRight(pub', tape')
  <2>1. \A q \in Publishers : Holds(pub'[q]) => tape'[Len(tape')] = <<>> /\ Full(tape', pub'[q].pred, Len(tape'))
    BY <1>3, <1>10
  <2>2. \A a, b \in Publishers : Holds(pub'[a]) /\ Holds(pub'[b]) => a = b
    BY <1>7, <1>10 DEF HoldersRight
  <2>3. QED  BY <2>1, <2>2 DEF HoldersRight
<1>12. \A x : Waits(pub, x) <=> Waits(pub', x)
  BY <1>2, <1>4, <1>8 DEF Waits
<1>13. ASSUME NEW c, AllWait(pub, tape, c) PROVE AllWait(pub', tape', c)
  <2>1. ASSUME NEW g \in 1 .. Len(tape'), NEW i \in 1 .. Len(tape'[g]), Later(c, g, tape'[g][i].end)
        PROVE  Waits(pub', <<g, tape'[g][i].end>>)
    <3>1. g \in 1 .. l
      BY <1>3, <1>6, <2>1
    <3>2. tape'[g] = tape[g]
      BY <1>3, <3>1
    <3>3. QED  BY <1>12, <1>13, <2>1, <3>1, <3>2 DEF AllWait
  <2>2. QED  BY <2>1 DEF AllWait
<1>14. Applying(pub', tape')
  <2>1. ASSUME NEW q \in Publishers, pub'[q].pc = "apply"
        PROVE  /\ \E g \in 1 .. Len(tape') : \E i \in 1 .. Len(tape'[g]) :
                    pub'[q].cur = <<g, tape'[g][i].end>> /\ pub'[q].n = tape'[g][i].n
               /\ AllWait(pub', tape', pub'[q].cur)
               /\ \A k \in Publishers : pub'[k].pc = "apply" /\ pub'[k].cur = pub'[q].cur => k = q
    <3>1. pub'[q] = pub[q]
      BY <1>4, <1>8, <2>1
    <3>2. PICK c : c = pub[q].cur
      OBVIOUS
    <3>3. AllWait(pub', tape', c)
      BY <1>7, <1>13, <2>1, <3>1, <3>2 DEF Applying
    <3>4. PICK g \in 1 .. l : \E i \in 1 .. Len(tape[g]) : c = <<g, tape[g][i].end>> /\ pub[q].n = tape[g][i].n
      BY <1>7, <2>1, <3>1, <3>2 DEF Applying
    <3>5. g \in 1 .. Len(tape') /\ tape'[g] = tape[g]
      BY <1>3, <1>5, <3>4
    <3>6. \E i \in 1 .. Len(tape'[g]) : c = <<g, tape'[g][i].end>> /\ pub[q].n = tape'[g][i].n
      BY <3>4, <3>5
    <3>7. \A k \in Publishers : pub'[k].pc = "apply" /\ pub'[k].cur = pub'[q].cur => k = q
      <4>1. \A k \in Publishers : pub'[k].pc = "apply" => pub'[k] = pub[k]
        BY <1>4, <1>8
      <4>2. \A k \in Publishers : pub[k].pc = "apply" /\ pub[k].cur = pub[q].cur => k = q
        BY <1>7, <2>1, <3>1 DEF Applying
      <4>3. QED  BY <3>1, <4>1, <4>2
    <3>8. QED  BY <3>1, <3>2, <3>3, <3>5, <3>6, <3>7
  <2>2. QED  BY <2>1 DEF Applying
<1>15. QED  BY <1>2, <1>3, <1>9, <1>11, <1>13, <1>14, CopiesGrow DEF CopiesRight

-----------------------------------------------------------------------------
(* A record is applied                                                      *)

LEMMA NotifyIs ==
  ASSUME EventInv, NEW p \in Publishers, Notify(p), ~disorder'
  PROVE  /\ pub[p].pc = "apply" /\ Apply(pub[p].n, pub[p].cur) /\ ~OutOfOrder(p)
         /\ pub'[p].pc # "apply" /\ ~Holds(pub'[p])
         /\ \A q \in Publishers \ {p} : pub'[q] = pub[q]
         /\ pub[p].cur \in Cursors /\ pub[p].n \in Nat
         /\ UNCHANGED <<tape, torn, gone, boot, size, partial>>
<1>1. PICK q : q = [pub[p] EXCEPT !.pc = "send", !.cur = NoCursor, !.pred = NoCursor]
  OBVIOUS
<1>2. /\ pub[p].pc = "apply" /\ Apply(pub[p].n, pub[p].cur) /\ ~OutOfOrder(p)
      /\ pub' = [pub EXCEPT ![p] = Rest(q)]
      /\ UNCHANGED <<tape, torn, gone, boot, size, partial>>
  BY <1>1 DEF Notify, fileVars
<1>3. Publishing(pub[p]) /\ pub = [k \in Publishers |-> pub[k]]
  BY <1>2, PubIs DEF EventInv, EventTypes
<1>4. Rest(q).pc \in {"send", "idle"}
  BY <1>1, <1>3, SendSet
<1>5. \A k \in Publishers : pub'[k] = IF k = p THEN Rest(q) ELSE pub[k]
  BY <1>2, <1>3
<1>6. pub'[p].pc # "apply" /\ ~Holds(pub'[p])
  BY <1>4, <1>5 DEF Holds
<1>7. pub[p].cur \in Cursors /\ pub[p].n \in Nat
  BY <1>3 DEF Publishing
<1>8. QED  BY <1>2, <1>5, <1>6, <1>7

\* Without a state, the store makes one when a browser listens; but then it has one.
LEMMA ApplyIs ==
  ASSUME CopiesRight, NEW n, NEW cur, Apply(n, cur)
  PROVE  /\ source' = cur
         /\ \/ UNCHANGED <<store, client>> /\ (store.init => ~Applies(cur))
            \/ /\ store.init /\ Applies(cur)
               /\ store' = [init |-> TRUE, cur |-> cur, recs |-> Append(store.recs, n)]
               /\ Broadcast([prev |-> store.cur, cur |-> cur, n |-> n])
<1>1. Listening # {} => store.init
  BY DEF CopiesRight, ClientsRight, Listening
<1>2. PICK starts : starts = (~store.init /\ Listening # {} /\ n = 1)
  OBVIOUS
<1>3. ~starts
  BY <1>1, <1>2
<1>4. source' = cur
  BY Zenon DEF Apply
<1>5. CASE store.init /\ Applies(cur)
  <2>1. /\ store' = [init |-> TRUE, cur |-> cur, recs |-> Append(store.recs, n)]
        /\ Broadcast([prev |-> store.cur, cur |-> cur, n |-> n])
    BY <1>2, <1>3, <1>5, Zenon DEF Apply
  <2>2. QED  BY <1>4, <1>5, <2>1
<1>6. CASE ~(store.init /\ Applies(cur))
  <2>1. UNCHANGED <<store, stale, client>>
    BY <1>2, <1>3, <1>6, Zenon DEF Apply
  <2>2. QED  BY <1>4, <1>6, <2>1
<1>7. QED  BY <1>5, <1>6

\* In order, what still waits is after what is applied.
LEMMA InOrder ==
  ASSUME EventInv, CopiesRight, NEW p \in Publishers, Notify(p), ~disorder', NEW c, AllWait(pub, tape, c)
  PROVE  /\ \A g \in 1 .. Len(tape) : \A i \in 1 .. Len(tape[g]) :
              Later(c, g, tape[g][i].end) => ~Later(<<g, tape[g][i].end>>, pub[p].cur[1], pub[p].cur[2])
         /\ ~Later(c, pub[p].cur[1], pub[p].cur[2]) => AllWait(pub', tape, c)
<1>1. /\ pub[p].pc = "apply" /\ ~OutOfOrder(p) /\ pub[p].cur \in Cursors
      /\ \A q \in Publishers \ {p} : pub'[q] = pub[q]
  BY NotifyIs
<1>2. PICK x, y : pub[p].cur = <<x, y>> /\ x \in Nat /\ y \in Nat
  BY <1>1 DEF Cursors
<1>3. TapeTypes /\ \A g \in 1 .. Len(tape) : g \in Nat /\ \A i \in 1 .. Len(tape[g]) : tape[g][i].end \in Nat
  BY InvTape, TapeAt
<1>4. ASSUME NEW g \in 1 .. Len(tape), NEW i \in 1 .. Len(tape[g]), Later(c, g, tape[g][i].end)
      PROVE  /\ ~Later(<<g, tape[g][i].end>>, x, y)
             /\ \E q \in Publishers : pub[q].pc = "apply" /\ pub[q].cur = <<g, tape[g][i].end>>
  <2>1. PICK q \in Publishers : pub[q].pc = "apply" /\ pub[q].cur = <<g, tape[g][i].end>>
    BY <1>4 DEF AllWait, Waits
  <2>2. ~(pub[q].cur[1] < pub[p].cur[1]) /\ ~(pub[q].cur[1] = pub[p].cur[1] /\ pub[q].cur[2] < pub[p].cur[2])
    BY <1>1, <2>1 DEF OutOfOrder
  <2>3. QED  BY <1>2, <2>1, <2>2 DEF Later
<1>5. ASSUME ~Later(c, x, y) PROVE AllWait(pub', tape, c)
  <2>1. ASSUME NEW g \in 1 .. Len(tape), NEW i \in 1 .. Len(tape[g]), Later(c, g, tape[g][i].end)
        PROVE  Waits(pub', <<g, tape[g][i].end>>)
    <3>1. PICK q \in Publishers : pub[q].pc = "apply" /\ pub[q].cur = <<g, tape[g][i].end>>
      BY <1>4, <2>1
    <3>2. q # p
      BY <1>2, <1>5, <2>1, <3>1
    <3>3. pub'[q] = pub[q]
      BY <1>1, <3>2
    <3>4. QED  BY <3>1, <3>3 DEF Waits
  <2>2. QED  BY <2>1 DEF AllWait
<1>6. QED  BY <1>2, <1>4, <1>5

LEMMA NotifyPublishers ==
  ASSUME EventInv, CopiesRight, NEW p \in Publishers, Notify(p), ~disorder'
  PROVE  Applying(pub', tape) /\ HoldersRight(pub', tape) /\ AllWait(pub', tape, pub[p].cur)
<1>1. /\ pub[p].pc = "apply" /\ ~OutOfOrder(p) /\ pub[p].cur \in Cursors
      /\ pub'[p].pc # "apply" /\ ~Holds(pub'[p])
      /\ \A q \in Publishers \ {p} : pub'[q] = pub[q]
  BY NotifyIs
<1>2. Applying(pub, tape) /\ HoldersRight(pub, tape)
  BY DEF CopiesRight
<1>3. PICK x, y : pub[p].cur = <<x, y>> /\ x \in Nat /\ y \in Nat
  BY <1>1 DEF Cursors
<1>4. ASSUME NEW q \in Publishers, pub[q].pc = "apply" PROVE AllWait(pub', tape, pub[q].cur)
  <2>1. PICK c : c = pub[q].cur
    OBVIOUS
  <2>2. AllWait(pub, tape, c)
    BY <1>2, <1>4, <2>1 DEF Applying
  <2>3. ~Later(c, x, y)
    <3>1. CASE q = p
      BY <1>3, <2>1, <3>1 DEF Later
    <3>2. CASE q # p
      <4>1. ~(pub[q].cur[1] < pub[p].cur[1]) /\ ~(pub[q].cur[1] = pub[p].cur[1] /\ pub[q].cur[2] < pub[p].cur[2])
        BY <1>1, <1>4 DEF OutOfOrder
      <4>2. QED  BY <1>3, <2>1, <4>1 DEF Later
    <3>3. QED  BY <3>1, <3>2
  <2>4. AllWait(pub', tape, c)
    BY <1>3, <2>2, <2>3, InOrder
  <2>5. QED  BY <2>1, <2>4
<1>5. Applying(pub', tape)
  <2>1. \A q \in Publishers : pub'[q].pc = "apply" => pub'[q] = pub[q] /\ pub[q].pc = "apply"
    BY <1>1
  <2>2. QED  BY <1>2, <1>4, <2>1 DEF Applying
<1>6. HoldersRight(pub', tape)
  BY <1>1, <1>2 DEF HoldersRight
<1>7. QED  BY <1>1, <1>4, <1>5, <1>6

\* The record that is applied is the next one of the log.
LEMMA AppliedNext ==
  ASSUME EventInv, CopiesRight, Anchored, NEW p \in Publishers, Notify(p), ~disorder',
         store.init, Applies(pub[p].cur)
  PROVE  Folded(Carried, tape, pub[p].cur, Append(store.recs, pub[p].n))
<1>1. pub[p].pc = "apply" /\ ~OutOfOrder(p)
  BY NotifyIs
<1>2. PICK g \in 1 .. Len(tape) : \E i \in 1 .. Len(tape[g]) : pub[p].cur = <<g, tape[g][i].end>> /\ pub[p].n = tape[g][i].n
  BY <1>1 DEF CopiesRight, Applying
<1>3. PICK i \in 1 .. Len(tape[g]) : pub[p].cur = <<g, tape[g][i].end>> /\ pub[p].n = tape[g][i].n
  BY <1>2
<1>4. PICK c, s : c = store.cur /\ s = store.recs
  OBVIOUS
<1>5. Folded(Carried, tape, c, s) /\ AllWait(pub, tape, c)
  BY <1>4 DEF CopiesRight, StoreRight
<1>6. PICK e : e = tape[g][i].end
  OBVIOUS
<1>7. c \in Cursors /\ c[1] \in Nat /\ c[2] \in Nat /\ g \in Nat /\ e \in Nat
  <2>1. c \in Cursors
    BY <1>5 DEF Folded, Reached
  <2>2. c[1] \in Nat /\ c[2] \in Nat
    BY <2>1 DEF Cursors
  <2>3. g \in Nat /\ e \in Nat
    BY <1>6, InvTape, TapeAt
  <2>4. QED  BY <2>1, <2>2, <2>3
<1>8. Later(c, g, e)
  <2>1. ~(g < c[1])
    BY <1>1, <1>3, <1>4 DEF OutOfOrder
  <2>2. ~(c[1] = g /\ c[2] >= e)
    BY <1>3, <1>4, <1>6 DEF Applies
  <2>3. QED  BY <1>7, <2>1, <2>2 DEF Later
<1>9. ASSUME NEW h \in 1 .. Len(tape), NEW j \in 1 .. Len(tape[h]), Later(c, h, tape[h][j].end)
      PROVE  ~(h < g \/ (h = g /\ tape[h][j].end < tape[g][i].end))
  <2>1. ~Later(<<h, tape[h][j].end>>, pub[p].cur[1], pub[p].cur[2])
    BY <1>5, <1>9, InOrder
  <2>2. QED  BY <1>3, <2>1 DEF Later
<1>10. TapeTypes /\ PredsBackward /\ Ends(tape) /\ Chain
  BY DEF EventInv, EventTypes, TapeTypes, CopiesRight, Exact
<1>11. Folded(Carried, tape, <<g, tape[g][i].end>>, Append(s, tape[g][i].n))
  BY <1>5, <1>6, <1>8, <1>9, <1>10, NextRecord
<1>12. QED  BY <1>3, <1>4, <1>11

LEMMA BroadcastKeeps ==
  ASSUME EventInv, NEW k, NEW t, NEW st, NEW st2, ClientsRight(k, t, client, st), st2.init,
         NEW m, Follows(k, t, m), m \in Patches, Broadcast(m)
  PROVE  ClientsRight(k, t, client', st2)
<1>1. ASSUME NEW c \in Clients PROVE ClientRight(k, t, client'[c])
  <2>1. PICK d : d = client[c]
    OBVIOUS
  <2>2. ClientRight(k, t, d) /\ d \in ClientRecs
    BY <2>1, ClientIs DEF ClientsRight
  <2>3. client'[c] \in {d, [d EXCEPT !.queue = Append(d.queue, m)], [d EXCEPT !.closed = TRUE]}
    BY <2>1 DEF Broadcast
  <2>4. CASE client'[c] = d
    BY <2>2, <2>4
  <2>5. CASE client'[c] = [d EXCEPT !.queue = Append(d.queue, m)]
    <3>1. PICK r, q : r = client'[c] /\ q = Append(d.queue, m)
      OBVIOUS
    <3>2. /\ r.pc = d.pc /\ r.fetch = d.fetch /\ r.cur = d.cur /\ r.recs = d.recs
          /\ r.gotCur = d.gotCur /\ r.gotRecs = d.gotRecs /\ r.queue = q
      BY <2>2, <2>5, <3>1 DEF ClientRecs
    <3>3. d.queue \in Seq(Patches)
      BY <2>2 DEF ClientRecs
    <3>4. \A i \in 1 .. Len(q) : q[i] = m \/ (i \in 1 .. Len(d.queue) /\ q[i] = d.queue[i])
      BY <3>1, <3>3
    <3>5. \A i \in 1 .. Len(r.queue) : Follows(k, t, r.queue[i])
      BY <2>2, <3>2, <3>4 DEF ClientRight
    <3>6. ClientRight(k, t, r)
      BY <2>2, <3>2, <3>5 DEF ClientRight
    <3>7. QED  BY <3>1, <3>6
  <2>6. CASE client'[c] = [d EXCEPT !.closed = TRUE]
    <3>1. PICK r : r = client'[c]
      OBVIOUS
    <3>2. /\ r.pc = d.pc /\ r.fetch = d.fetch /\ r.cur = d.cur /\ r.recs = d.recs
          /\ r.gotCur = d.gotCur /\ r.gotRecs = d.gotRecs /\ r.queue = d.queue
      BY <2>2, <2>6, <3>1 DEF ClientRecs
    <3>3. QED  BY <2>2, <3>1, <3>2 DEF ClientRight
  <2>7. QED  BY <2>3, <2>4, <2>5, <2>6
<1>2. QED  BY <1>1 DEF ClientsRight

LEMMA NotifyKeeps ==
  ASSUME EventInv, CopiesRight, Anchored, NEW p \in Publishers, Notify(p), ~disorder'
  PROVE  CopiesRight'
<1>1. /\ pub[p].pc = "apply" /\ Apply(pub[p].n, pub[p].cur) /\ ~OutOfOrder(p)
      /\ pub[p].cur \in Cursors /\ pub[p].n \in Nat
      /\ UNCHANGED <<tape, torn, gone, boot, size, partial>>
  BY NotifyIs
<1>2. Applying(pub', tape) /\ HoldersRight(pub', tape) /\ AllWait(pub', tape, pub[p].cur)
  BY NotifyPublishers
<1>3. Exact'
  <2>1. size' = LastEnd(Len(tape))'
    BY <1>1 DEF CopiesRight, Exact, LastEnd
  <2>2. QED  BY <1>1, <2>1, SameFold DEF CopiesRight, Exact
<1>4. PICK n, cur : n = pub[p].n /\ cur = pub[p].cur
  OBVIOUS
<1>5. source' = cur
  BY <1>1, <1>4, ApplyIs
<1>6. CASE UNCHANGED <<store, client>> /\ (store.init => ~Applies(cur))
  <2>1. ASSUME store.init PROVE Folded(Carried, tape, store.cur, store.recs) /\ AllWait(pub', tape, store.cur)
    <3>1. PICK c : c = store.cur
      OBVIOUS
    <3>2. Folded(Carried, tape, c, store.recs) /\ AllWait(pub, tape, c)
      BY <2>1, <3>1 DEF CopiesRight, StoreRight
    <3>3. ~Later(c, cur[1], cur[2])
      <4>1. c[1] = cur[1] /\ c[2] >= cur[2]
        BY <1>6, <2>1, <3>1 DEF Applies
      <4>2. c[1] \in Nat /\ c[2] \in Nat /\ cur[1] \in Nat /\ cur[2] \in Nat
        <5>1. c \in Cursors
          BY <3>2 DEF Folded, Reached
        <5>2. QED  BY <1>1, <1>4, <5>1 DEF Cursors
      <4>3. QED  BY <4>1, <4>2 DEF Later
    <3>4. AllWait(pub', tape, c)
      BY <1>4, <3>2, <3>3, InOrder
    <3>5. QED  BY <3>1, <3>2, <3>4
  <2>2. StoreRight(Carried, tape, pub', source', store')
    BY <1>2, <1>4, <1>5, <1>6, <2>1 DEF StoreRight
  <2>3. ClientsRight(Carried, tape, client', store')
    BY <1>6 DEF CopiesRight
  <2>4. QED  BY <1>1, <1>2, <1>3, <2>2, <2>3, SameFold DEF CopiesRight
<1>7. CASE /\ store.init /\ Applies(cur)
           /\ store' = [init |-> TRUE, cur |-> cur, recs |-> Append(store.recs, n)]
           /\ Broadcast([prev |-> store.cur, cur |-> cur, n |-> n])
  <2>1. Folded(Carried, tape, cur, Append(store.recs, n))
    BY <1>4, <1>7, AppliedNext
  <2>2. PICK m : m = [prev |-> store.cur, cur |-> cur, n |-> n]
    OBVIOUS
  <2>3. m \in Patches
    <3>1. store.cur \in Cursors
      BY DEF EventInv, EventTypes, StoreRecs
    <3>2. QED  BY <1>1, <1>4, <2>2, <3>1 DEF Patches
  <2>4. Follows(Carried, tape, m)
    <3>1. m.prev = store.cur /\ m.cur = cur /\ m.n = n
      BY <2>2
    <3>2. Folded(Carried, tape, store.cur, store.recs)
      BY <1>7 DEF CopiesRight, StoreRight
    <3>3. QED  BY <2>1, <3>1, <3>2 DEF Follows
  <2>5. store'.init /\ store'.cur = cur /\ store'.recs = Append(store.recs, n)
    BY <1>7
  <2>6. PICK st2 : st2 = store'
    OBVIOUS
  <2>7. ClientsRight(Carried, tape, client', st2)
    <3>1. ClientsRight(Carried, tape, client, store) /\ Broadcast(m) /\ st2.init
      BY <1>7, <2>2, <2>5, <2>6 DEF CopiesRight
    <3>2. QED  BY <2>3, <2>4, <3>1, BroadcastKeeps
  <2>8. StoreRight(Carried, tape, pub', source', store')
    BY <1>2, <1>4, <1>5, <2>1, <2>5 DEF StoreRight
  <2>9. QED  BY <1>1, <1>2, <1>3, <2>6, <2>7, <2>8, SameFold DEF CopiesRight
<1>8. QED  BY <1>1, <1>4, <1>6, <1>7, ApplyIs

-----------------------------------------------------------------------------
(* A snapshot is read                                                       *)

\* A later cursor leaves less to be applied.
LEMMA WaitsLess ==
  ASSUME TapeTypes, NEW b, NEW c \in Cursors, NEW d \in Cursors, AllWait(b, tape, c),
         c[1] < d[1] \/ (c[1] = d[1] /\ c[2] <= d[2])
  PROVE  AllWait(b, tape, d)
<1>1. c[1] \in Nat /\ c[2] \in Nat /\ d[1] \in Nat /\ d[2] \in Nat
  BY DEF Cursors
<1>2. ASSUME NEW g \in 1 .. Len(tape), NEW i \in 1 .. Len(tape[g]), Later(d, g, tape[g][i].end)
      PROVE  Waits(b, <<g, tape[g][i].end>>)
  <2>1. g \in Nat /\ tape[g][i].end \in Nat
    BY TapeAt
  <2>2. Later(c, g, tape[g][i].end)
    BY <1>1, <1>2, <2>1, SMTT(20) DEF Later
  <2>3. QED  BY <2>2 DEF AllWait
<1>3. QED  BY <1>2 DEF AllWait

LEMMA SourceRight ==
  ASSUME EventInv, CopiesRight, NEW cut \in Cursors, ~Overtaken(cut)
  PROVE  /\ SourceAfter(cut) \in Cursors /\ SourceAfter(cut)[1] = cut[1]
         /\ AllWait(pub, tape, SourceAfter(cut))
<1>1. TapeTypes /\ source \in Cursors /\ AllWait(pub, tape, source)
  BY DEF EventInv, EventTypes, TapeTypes, CopiesRight, StoreRight
<1>2. source[1] \in Nat /\ source[2] \in Nat /\ cut[1] \in Nat /\ cut[2] \in Nat
  BY <1>1 DEF Cursors
<1>3. ~(cut[1] < source[1])
  BY DEF Overtaken
<1>4. CASE source[1] # cut[1] \/ source[2] < cut[2]
  <2>1. SourceAfter(cut) = cut
    BY <1>4 DEF SourceAfter
  <2>2. source[1] < cut[1] \/ (source[1] = cut[1] /\ source[2] <= cut[2])
    BY <1>2, <1>3, <1>4
  <2>3. AllWait(pub, tape, cut)
    BY <1>1, <2>2, WaitsLess
  <2>4. QED  BY <2>1, <2>3
<1>5. CASE ~(source[1] # cut[1] \/ source[2] < cut[2])
  BY <1>1, <1>5 DEF SourceAfter
<1>6. QED  BY <1>4, <1>5

\* A file that is read up to the end of a record is the fold of the log up to there.
LEMMA ReadRight ==
  ASSUME TapeTypes, Ends(tape), NEW c \in Cursors, c[1] \in 1 .. Len(tape), c[1] = 1 \/ tape[c[1]] # <<>>,
         ProjectFile(c).ok
  PROVE  /\ Folded(Carried, tape, ProjectFile(c).cur, ProjectFile(c).recs)
         /\ ProjectFile(c).cur \in Cursors /\ ProjectFile(c).cur[1] = c[1] /\ c[2] <= ProjectFile(c).cur[2]
<1>1. PICK g, off, rs : g = c[1] /\ off = c[2] /\ rs = Upto(g, off)
  OBVIOUS
<1>2. PICK e : e = IF rs = <<>> THEN off ELSE Last(rs).end
  OBVIOUS
<1>3. PICK v : v = ProjectFile(c)
  OBVIOUS
<1>4. Boundary(g, off) /\ v.cur = <<g, e>> /\ v.recs = Carried[g].recs \o Records(rs)
  BY <1>1, <1>2, <1>3 DEF ProjectFile
<1>5. /\ g \in 1 .. Len(tape) /\ g \in Nat /\ off \in Nat /\ tape[g] \in Seq(TapeRecs) /\ Len(tape[g]) \in Nat
      /\ \A i \in 1 .. Len(tape[g]) : tape[g][i].end \in Nat
  BY <1>1, TapeAt DEF Cursors
<1>6. ASSUME NEW m \in Nat, Reached(tape, <<g, e>>, m), rs = SubSeq(tape[g], 1, m), off <= e, e \in Nat
      PROVE  Folded(Carried, tape, v.cur, v.recs) /\ v.cur \in Cursors /\ v.cur[1] = c[1] /\ c[2] <= v.cur[2]
  <2>1. Folded(Carried, tape, v.cur, v.recs)
    <3>1. PICK d, s : d = v.cur /\ s = v.recs
      OBVIOUS
    <3>2. d = <<g, e>> /\ s = Carried[g].recs \o Records(rs)
      BY <1>4, <3>1
    <3>3. d[1] = g
      BY <3>2
    <3>4. Reached(tape, d, m) /\ s = Carried[d[1]].recs \o Records(SubSeq(tape[d[1]], 1, m))
      BY <1>6, <3>2, <3>3, Zenon
    <3>5. Folded(Carried, tape, d, s)
      BY <1>6, <3>4 DEF Folded
    <3>6. QED  BY <3>1, <3>5
  <2>2. v.cur \in Cursors
    BY <1>4, <1>5, <1>6 DEF Cursors
  <2>3. QED  BY <1>1, <1>4, <1>6, <2>1, <2>2
<1>7. CASE off = 0
  <2>1. rs = tape[g]
    BY <1>1, <1>7 DEF Upto
  <2>2. PICK m : m = Len(tape[g])
    OBVIOUS
  <2>3. m \in Nat /\ rs = SubSeq(tape[g], 1, m) /\ m \in 0 .. Len(tape[g])
    BY <1>5, <2>1, <2>2
  <2>4. CASE m = 0
    <3>1. rs = <<>>
      <4>1. rs \in Seq(TapeRecs) /\ Len(rs) = 0
        BY <1>5, <2>1, <2>2, <2>4
      <4>2. QED  BY <4>1
    <3>2. g = 1 /\ e = 0
      BY <1>1, <1>2, <1>7, <2>1, <3>1
    <3>3. <<g, e>> \in Cursors
      BY <3>2 DEF Cursors
    <3>4. Reached(tape, <<g, e>>, m)
      BY <1>5, <2>3, <2>4, <3>2, <3>3 DEF Reached
    <3>5. QED  BY <1>3, <1>6, <1>7, <2>3, <3>2, <3>4
  <2>5. CASE m # 0
    <3>1. m \in 1 .. Len(tape[g])
      BY <2>2, <2>3, <2>5
    <3>2. rs # <<>>
      <4>1. Len(<<>>) = 0
        OBVIOUS
      <4>2. QED  BY <2>1, <2>2, <2>5, <4>1
    <3>3. e = tape[g][m].end /\ e \in Nat
      BY <1>2, <1>5, <2>1, <2>2, <3>1, <3>2 DEF Last
    <3>4. <<g, e>> \in Cursors
      BY <1>5, <3>3 DEF Cursors
    <3>5. Reached(tape, <<g, e>>, m)
      BY <1>5, <2>3, <2>5, <3>3, <3>4 DEF Reached
    <3>6. QED  BY <1>3, <1>6, <1>7, <2>3, <3>3, <3>5
  <2>6. QED  BY <2>4, <2>5
<1>8. CASE off # 0
  <2>1. PICK m \in 1 .. Len(tape[g]) : tape[g][m].end = off
    BY <1>4, <1>8 DEF Boundary
  <2>2. m \in Nat /\ m # 0 /\ m \in 0 .. Len(tape[g]) /\ m <= Len(tape[g])
    BY <1>5, <2>1
  <2>3. Reached(tape, c, m)
    BY <1>1, <1>5, <2>1, <2>2 DEF Reached
  <2>4. rs = SubSeq(tape[g], 1, m)
    BY <1>1, <1>8, <2>3, PrefixReached DEF Upto
  <2>5. rs # <<>> /\ Len(rs) = m /\ rs[m] = tape[g][m]
    <3>1. PICK b \in Seq(TapeRecs) : b = tape[g]
      BY <1>5
    <3>2. Len(SubSeq(b, 1, m)) = m /\ SubSeq(b, 1, m)[m] = b[m]
      BY <2>2, <3>1
    <3>3. Len(<<>>) = 0
      OBVIOUS
    <3>4. QED  BY <2>2, <2>4, <3>1, <3>2, <3>3
  <2>6. e = off
    BY <1>2, <2>1, <2>5 DEF Last
  <2>7. Reached(tape, <<g, e>>, m)
    <3>1. c = <<g, e>>
      BY <1>1, <2>6 DEF Cursors
    <3>2. QED  BY <2>3, <3>1
  <2>8. QED  BY <1>3, <1>5, <1>6, <2>2, <2>4, <2>6, <2>7
<1>9. QED  BY <1>3, <1>7, <1>8

LEMMA ServedRight ==
  ASSUME EventInv, CopiesRight, NEW cut \in Cursors, cut[1] \in 1 .. Len(tape), ~Overtaken(cut), Served(cut).ok
  PROVE  Folded(Carried, tape, Served(cut).cur, Served(cut).recs) /\ AllWait(pub, tape, Served(cut).cur)
<1>1. PICK src : src = SourceAfter(cut)
  OBVIOUS
<1>2. src \in Cursors /\ src[1] = cut[1] /\ AllWait(pub, tape, src)
  BY <1>1, SourceRight
<1>3. TapeTypes /\ Ends(tape)
  BY DEF EventInv, EventTypes, TapeTypes, CopiesRight, Exact
<1>4. CASE Fresh(src)
  <2>1. Served(cut).cur = store.cur /\ Served(cut).recs = store.recs /\ store.init
    BY <1>1, <1>4 DEF Served, Fresh
  <2>2. QED  BY <2>1 DEF CopiesRight, StoreRight
<1>5. CASE ~Fresh(src)
  <2>1. Served(cut) = ProjectFile(src)
    BY <1>1, <1>5 DEF Served
  <2>2. src[1] = 1 \/ tape[src[1]] # <<>>
    <3>1. ~(cut[1] > 1 /\ tape[cut[1]] = <<>>)
      BY DEF Overtaken
    <3>2. cut[1] \in Nat
      BY DEF Cursors
    <3>3. QED  BY <1>2, <3>1, <3>2
  <2>3. PICK v : v = ProjectFile(src)
    OBVIOUS
  <2>4. Folded(Carried, tape, v.cur, v.recs) /\ v.cur \in Cursors /\ v.cur[1] = src[1] /\ src[2] <= v.cur[2]
    BY <1>2, <1>3, <2>1, <2>2, <2>3, ReadRight
  <2>5. AllWait(pub, tape, v.cur)
    BY <1>2, <1>3, <2>4, WaitsLess
  <2>6. QED  BY <2>1, <2>3, <2>4, <2>5
<1>6. QED  BY <1>4, <1>5

LEMMA SnapshotRight ==
  ASSUME EventInv, CopiesRight, NEW cut \in Cursors, cut[1] \in 1 .. Len(tape), SnapshotLocked(cut), ~disorder'
  PROVE  /\ StoreRight(Carried, tape, pub, source', store') /\ (store.init => store'.init)
         /\ Served(cut).ok => store'.init /\ Folded(Carried, tape, Served(cut).cur, Served(cut).recs)
<1>1. PICK v : v = Served(cut)
  OBVIOUS
<1>2. /\ ~Overtaken(cut) /\ source' = SourceAfter(cut)
      /\ store' = IF v.ok THEN [init |-> TRUE, cur |-> v.cur, recs |-> v.recs] ELSE store
  BY <1>1, Zenon DEF SnapshotLocked
<1>3. AllWait(pub, tape, source')
  BY <1>2, SourceRight
<1>4. CASE v.ok
  <2>1. store'.init /\ store'.cur = v.cur /\ store'.recs = v.recs
    BY <1>2, <1>4
  <2>2. Folded(Carried, tape, v.cur, v.recs) /\ AllWait(pub, tape, v.cur)
    BY <1>1, <1>2, <1>4, ServedRight
  <2>3. QED  BY <1>1, <1>3, <2>1, <2>2 DEF StoreRight
<1>5. CASE ~v.ok
  <2>1. store' = store
    BY <1>2, <1>5
  <2>2. StoreRight(Carried, tape, pub, source', store')
    BY <1>3, <2>1 DEF CopiesRight, StoreRight
  <2>3. QED  BY <1>1, <1>5, <2>1, <2>2
<1>6. QED  BY <1>4, <1>5

LEMMA ViewKeeps ==
  ASSUME CopiesRight, UNCHANGED <<tape, torn, gone, size, pub>>,
         StoreRight(Carried, tape, pub, source', store'), ClientsRight(Carried, tape, client', store')
  PROVE  CopiesRight'
<1>1. Exact'
  <2>1. size' = LastEnd(Len(tape))'
    BY DEF CopiesRight, Exact, LastEnd
  <2>2. QED  BY <2>1, SameFold DEF CopiesRight, Exact
<1>2. Carried' = Carried
  BY SameFold
<1>3. HoldersRight(pub', tape') /\ Applying(pub', tape')
  BY DEF CopiesRight
<1>4. StoreRight(Carried', tape', pub', source', store')
  BY <1>2
<1>5. ClientsRight(Carried', tape', client', store')
  BY <1>2
<1>6. QED  BY <1>1, <1>3, <1>4, <1>5 DEF CopiesRight

\* A browser's step leaves the others alone.
LEMMA OneClient ==
  ASSUME EventInv, CopiesRight, NEW c \in Clients, NEW r, client' = [client EXCEPT ![c] = r],
         ClientRight(Carried, tape, r), NEW st, store.init => st.init, r.pc = "on" => st.init
  PROVE  ClientsRight(Carried, tape, client', st)
<1>1. \A k \in Clients : client'[k] = IF k = c THEN r ELSE client[k]
  BY DEF EventInv, EventTypes
<1>2. QED  BY <1>1 DEF CopiesRight, ClientsRight

LEMMA ConnectKeeps ==
  ASSUME EventInv, CopiesRight, NEW c \in Clients, Connect(c)
  PROVE  CopiesRight'
<1>1. PICK d, x : d = client[c] /\ x = Cursor
  OBVIOUS
<1>2. PICK r : r = [d EXCEPT !.pc = "cut", !.conn = d.conn + 1, !.cut = x]
  OBVIOUS
<1>3. client' = [client EXCEPT ![c] = r] /\ UNCHANGED <<tape, torn, gone, size, pub, source, store>>
  BY <1>1, <1>2 DEF Connect, fileVars, keptVars, storeVars
<1>4. d \in ClientRecs /\ ClientRight(Carried, tape, d)
  BY <1>1, ClientIs DEF CopiesRight, ClientsRight
<1>5. /\ r.pc = "cut" /\ r.fetch = d.fetch /\ r.queue = d.queue /\ r.gotCur = d.gotCur
      /\ r.gotRecs = d.gotRecs
  BY <1>2, <1>4 DEF ClientRecs
<1>6. ClientRight(Carried, tape, r)
  BY <1>4, <1>5 DEF ClientRight
<1>7. ClientsRight(Carried, tape, client', store)
  BY <1>3, <1>5, <1>6, OneClient
<1>8. QED  BY <1>3, <1>7, ViewKeeps DEF CopiesRight

LEMMA SubscribeKeeps ==
  ASSUME EventInv, CopiesRight, NEW c \in Clients, SubscribeSnapshot(c), ~disorder'
  PROVE  CopiesRight'
<1>1. PICK v, cut, d : v = Served(cut) /\ cut = d.cut /\ d = client[c]
  OBVIOUS
<1>2. d.pc = "cut" /\ SnapshotLocked(cut) /\ UNCHANGED <<tape, torn, gone, size, pub>>
  BY <1>1 DEF SubscribeSnapshot, fileVars, keptVars
<1>3. PICK r : /\ client' = [client EXCEPT ![c] = r]
               /\ \/ /\ v.ok
                     /\ r = [d EXCEPT !.pc = "on", !.closed = FALSE, !.queue = <<>>,
                                      !.cur = v.cur, !.recs = v.recs, !.cut = NoCursor]
                  \/ r = [d EXCEPT !.pc = "off", !.cut = NoCursor]
  <2>1. \/ v.ok /\ client' = [client EXCEPT ![c] =
                 [client[c] EXCEPT !.pc = "on", !.closed = FALSE, !.queue = <<>>,
                           !.cur = v.cur, !.recs = v.recs, !.cut = NoCursor]]
        \/ client' = [client EXCEPT ![c].pc = "off", ![c].cut = NoCursor]
    BY <1>1, Zenon DEF SubscribeSnapshot
  <2>2. ASSUME client' = [client EXCEPT ![c].pc = "off", ![c].cut = NoCursor]
        PROVE  client' = [client EXCEPT ![c] = [d EXCEPT !.pc = "off", !.cut = NoCursor]]
    <3>1. client = [k \in Clients |-> client[k]]
      BY DEF EventInv, EventTypes
    <3>2. QED  BY <1>1, <2>2, <3>1
  <2>3. QED  BY <1>1, <2>1, <2>2
<1>4. d \in ClientRecs /\ ClientHolds(d) /\ ClientRight(Carried, tape, d)
  BY <1>1, ClientIs DEF CopiesRight, ClientsRight
<1>5. cut \in Cursors /\ cut[1] \in 1 .. Len(tape)
  BY <1>1, <1>2, <1>4 DEF ClientRecs, ClientHolds
<1>6. /\ StoreRight(Carried, tape, pub, source', store') /\ (store.init => store'.init)
      /\ v.ok => store'.init /\ Folded(Carried, tape, v.cur, v.recs)
  BY <1>1, <1>2, <1>5, SnapshotRight
<1>7. ClientRight(Carried, tape, r) /\ (r.pc = "on" => store'.init)
  <2>1. CASE /\ v.ok
             /\ r = [d EXCEPT !.pc = "on", !.closed = FALSE, !.queue = <<>>,
                              !.cur = v.cur, !.recs = v.recs, !.cut = NoCursor]
    <3>1. /\ r.cur = v.cur /\ r.recs = v.recs /\ r.queue = <<>> /\ r.fetch = d.fetch
          /\ r.gotCur = d.gotCur /\ r.gotRecs = d.gotRecs
      BY <1>4, <2>1 DEF ClientRecs
    <3>2. \A i \in 1 .. Len(r.queue) : FALSE
      BY <3>1
    <3>3. QED  BY <1>4, <1>6, <2>1, <3>1, <3>2 DEF ClientRight
  <2>2. CASE r = [d EXCEPT !.pc = "off", !.cut = NoCursor]
    <3>1. r.pc = "off" /\ r.queue = d.queue /\ r.fetch = d.fetch /\ r.gotCur = d.gotCur /\ r.gotRecs = d.gotRecs
      BY <1>4, <2>2 DEF ClientRecs
    <3>2. QED  BY <1>4, <3>1 DEF ClientRight
  <2>3. QED  BY <1>3, <2>1, <2>2
<1>8. PICK st : st = store'
  OBVIOUS
<1>9. ClientsRight(Carried, tape, client', st)
  BY <1>3, <1>6, <1>7, <1>8, OneClient
<1>10. QED  BY <1>2, <1>6, <1>8, <1>9, ViewKeeps

LEMMA TakePatchKeeps ==
  ASSUME EventInv, CopiesRight, NEW c \in Clients, TakePatch(c)
  PROVE  CopiesRight'
<1>1. PICK d, q, m : d = client[c] /\ q = d.queue /\ m = Head(q)
  OBVIOUS
<1>2. d \in ClientRecs /\ ClientRight(Carried, tape, d) /\ (d.pc = "on" => store.init)
  BY <1>1, ClientIs DEF CopiesRight, ClientsRight
<1>3. d.pc = "on" /\ q # <<>> /\ UNCHANGED <<tape, torn, gone, size, pub, source, store>>
  BY <1>1 DEF TakePatch, fileVars, keptVars, storeVars
<1>4. PICK r : /\ client' = [client EXCEPT ![c] = r]
               /\ \/ d.cur = m.prev /\ r = [d EXCEPT !.queue = Tail(q), !.cur = m.cur, !.recs = Append(d.recs, m.n)]
                  \/ r = [d EXCEPT !.queue = Tail(q), !.fetch = "asked"]
                  \/ r = [d EXCEPT !.queue = Tail(q)]
  <2>1. PICK r : r = IF Fits(c, m)
                     THEN [d EXCEPT !.queue = Tail(q), !.cur = m.cur, !.recs = Append(d.recs, m.n)]
                     ELSE IF d.fetch = "none"
                     THEN [d EXCEPT !.queue = Tail(q), !.fetch = "asked"]
                     ELSE [d EXCEPT !.queue = Tail(q)]
    OBVIOUS
  <2>2. client' = [client EXCEPT ![c] = r]
    BY <1>1, <2>1, Zenon DEF TakePatch
  <2>3. Fits(c, m) <=> d.cur = m.prev
    BY <1>1 DEF Fits
  <2>4. QED  BY <2>1, <2>2, <2>3
<1>5. /\ 1 \in 1 .. Len(q) /\ m = q[1]
      /\ \A i \in 1 .. Len(Tail(q)) : i + 1 \in 1 .. Len(q) /\ Tail(q)[i] = q[i + 1]
  <2>1. q \in Seq(Patches)
    BY <1>1, <1>2 DEF ClientRecs
  <2>2. Len(q) \in Nat /\ Len(q) # 0
    BY <1>3, <2>1
  <2>3. Len(Tail(q)) = Len(q) - 1 /\ \A i \in 1 .. Len(q) - 1 : Tail(q)[i] = q[i + 1]
    BY <1>3, <2>1
  <2>4. QED  BY <1>1, <2>2, <2>3
<1>6. Follows(Carried, tape, m) /\ \A i \in 1 .. Len(Tail(q)) : Follows(Carried, tape, Tail(q)[i])
  BY <1>1, <1>2, <1>5 DEF ClientRight
<1>7. ClientRight(Carried, tape, r) /\ r.pc = "on"
  <2>1. CASE d.cur = m.prev /\ r = [d EXCEPT !.queue = Tail(q), !.cur = m.cur, !.recs = Append(d.recs, m.n)]
    <3>1. /\ r.pc = "on" /\ r.cur = m.cur /\ r.recs = Append(d.recs, m.n) /\ r.queue = Tail(q)
          /\ r.fetch = d.fetch /\ r.gotCur = d.gotCur /\ r.gotRecs = d.gotRecs
      BY <1>2, <1>3, <2>1 DEF ClientRecs
    <3>2. PICK s : Folded(Carried, tape, m.prev, s) /\ Folded(Carried, tape, m.cur, Append(s, m.n))
      BY <1>6 DEF Follows
    <3>3. Folded(Carried, tape, m.prev, d.recs)
      BY <1>2, <1>3, <2>1 DEF ClientRight
    <3>4. tape \in Seq(Seq(TapeRecs)) /\ Ends(tape)
      BY DEF EventInv, EventTypes, CopiesRight, Exact
    <3>5. s = d.recs
      BY <3>2, <3>3, <3>4, FoldedOnce
    <3>6. Folded(Carried, tape, r.cur, r.recs)
      BY <3>1, <3>2, <3>5
    <3>7. QED  BY <1>2, <1>6, <3>1, <3>6 DEF ClientRight
  <2>2. CASE r = [d EXCEPT !.queue = Tail(q), !.fetch = "asked"] \/ r = [d EXCEPT !.queue = Tail(q)]
    <3>1. /\ r.pc = "on" /\ r.cur = d.cur /\ r.recs = d.recs /\ r.queue = Tail(q)
          /\ r.fetch \in {d.fetch, "asked"} /\ r.gotCur = d.gotCur /\ r.gotRecs = d.gotRecs
      BY <1>2, <1>3, <2>2 DEF ClientRecs
    <3>2. QED  BY <1>2, <1>3, <1>6, <3>1 DEF ClientRight
  <2>3. QED  BY <1>4, <2>1, <2>2
<1>8. ClientsRight(Carried, tape, client', store)
  BY <1>2, <1>3, <1>4, <1>7, OneClient
<1>9. QED  BY <1>3, <1>8, ViewKeeps DEF CopiesRight

LEMMA ServeStateKeeps ==
  ASSUME EventInv, CopiesRight, NEW c \in Clients, ServeState(c), ~disorder'
  PROVE  CopiesRight'
<1>1. PICK v, x, d : v = Served(x) /\ x = Cursor /\ d = client[c]
  OBVIOUS
<1>2. SnapshotLocked(x) /\ UNCHANGED <<tape, torn, gone, size, pub>>
  BY <1>1 DEF ServeState, fileVars, keptVars
<1>3. d \in ClientRecs /\ ClientRight(Carried, tape, d) /\ (d.pc = "on" => store.init)
  BY <1>1, ClientIs DEF CopiesRight, ClientsRight
<1>4. /\ StoreRight(Carried, tape, pub, source', store') /\ (store.init => store'.init)
      /\ v.ok => store'.init /\ Folded(Carried, tape, v.cur, v.recs)
  BY <1>1, <1>2, CursorIs, SnapshotRight
<1>5. PICK r : r = IF v.ok THEN [d EXCEPT !.fetch = "answered", !.gotCur = v.cur, !.gotRecs = v.recs]
                   ELSE [d EXCEPT !.fetch = "none"]
  OBVIOUS
<1>6. client' = [client EXCEPT ![c] = r]
  BY <1>1, <1>5, Zenon DEF ServeState
<1>7. ClientRight(Carried, tape, r) /\ r.pc = d.pc
  <2>1. CASE v.ok
    <3>1. /\ r.pc = d.pc /\ r.cur = d.cur /\ r.recs = d.recs /\ r.queue = d.queue
          /\ r.gotCur = v.cur /\ r.gotRecs = v.recs
      BY <1>3, <1>5, <2>1 DEF ClientRecs
    <3>2. QED  BY <1>3, <1>4, <2>1, <3>1 DEF ClientRight
  <2>2. CASE ~v.ok
    <3>1. r.pc = d.pc /\ r.cur = d.cur /\ r.recs = d.recs /\ r.queue = d.queue /\ r.fetch = "none"
      BY <1>3, <1>5, <2>2 DEF ClientRecs
    <3>2. QED  BY <1>3, <3>1 DEF ClientRight
  <2>3. QED  BY <2>1, <2>2
<1>8. PICK st : st = store'
  OBVIOUS
<1>9. ClientsRight(Carried, tape, client', st)
  BY <1>3, <1>4, <1>6, <1>7, <1>8, OneClient
<1>10. QED  BY <1>2, <1>4, <1>8, <1>9, ViewKeeps

LEMMA TakeStateKeeps ==
  ASSUME EventInv, CopiesRight, NEW c \in Clients, TakeState(c) \/ Hangup(c)
  PROVE  CopiesRight'
<1>1. PICK d : d = client[c]
  OBVIOUS
<1>2. d \in ClientRecs /\ ClientRight(Carried, tape, d) /\ (d.pc = "on" => store.init)
  BY <1>1, ClientIs DEF CopiesRight, ClientsRight
<1>3. UNCHANGED <<tape, torn, gone, size, pub, source, store>>
  BY DEF TakeState, Hangup, fileVars, keptVars, storeVars
<1>4. CASE TakeState(c)
  <2>1. PICK r : r = [d EXCEPT !.fetch = "none", !.cur = d.gotCur, !.recs = d.gotRecs, !.gotCur = NoCursor, !.gotRecs = <<>>]
    OBVIOUS
  <2>2. client' = [client EXCEPT ![c] = r] /\ d.fetch = "answered"
    BY <1>1, <1>4, <2>1 DEF TakeState
  <2>3. r.pc = d.pc /\ r.cur = d.gotCur /\ r.recs = d.gotRecs /\ r.queue = d.queue /\ r.fetch = "none"
    BY <1>2, <2>1 DEF ClientRecs
  <2>4. ClientRight(Carried, tape, r)
    BY <1>2, <2>2, <2>3 DEF ClientRight
  <2>5. ClientsRight(Carried, tape, client', store)
    BY <1>2, <2>2, <2>3, <2>4, OneClient
  <2>6. QED  BY <1>3, <2>5, ViewKeeps DEF CopiesRight
<1>5. CASE Hangup(c)
  <2>1. PICK r : r = [d EXCEPT !.pc = "off", !.queue = <<>>]
    OBVIOUS
  <2>2. client' = [client EXCEPT ![c] = r]
    BY <1>1, <1>5, <2>1 DEF Hangup
  <2>3. r.pc = "off" /\ r.queue = <<>> /\ r.fetch = d.fetch /\ r.gotCur = d.gotCur /\ r.gotRecs = d.gotRecs
    BY <1>2, <2>1 DEF ClientRecs
  <2>4. \A i \in 1 .. Len(r.queue) : FALSE
    BY <2>3
  <2>5. ClientRight(Carried, tape, r)
    BY <1>2, <2>3, <2>4 DEF ClientRight
  <2>6. ClientsRight(Carried, tape, client', store)
    BY <2>2, <2>3, <2>5, OneClient
  <2>7. QED  BY <1>3, <2>6, ViewKeeps DEF CopiesRight
<1>6. QED  BY <1>4, <1>5

LEMMA BrowserKeeps ==
  ASSUME EventInv, CopiesRight, NEW c \in Clients, Connect(c) \/ ClientStep(c), ~disorder'
  PROVE  CopiesRight'
<1>1. CASE TakeRaw(c)
  <2>1. UNCHANGED <<tape, torn, gone, size, pub, source, store, client>>
    BY <1>1 DEF TakeRaw, fileVars, keptVars, storeVars
  <2>2. QED  BY <2>1, ViewKeeps DEF CopiesRight
<1>2. QED
  BY <1>1, ConnectKeeps, SubscribeKeeps, TakePatchKeeps, ServeStateKeeps, TakeStateKeeps DEF ClientStep

LEMMA SnapshotKeeps ==
  ASSUME EventInv, CopiesRight, Snapshot, ~disorder'
  PROVE  CopiesRight'
<1>1. PICK x : x = Cursor /\ SnapshotLocked(x)
  BY DEF Snapshot
<1>2. UNCHANGED <<tape, torn, gone, size, pub, client>>
  BY DEF Snapshot, fileVars, keptVars
<1>3. StoreRight(Carried, tape, pub, source', store') /\ (store.init => store'.init)
  BY <1>1, CursorIs, SnapshotRight
<1>4. ClientsRight(Carried, tape, client', store')
  BY <1>2, <1>3 DEF CopiesRight, ClientsRight
<1>5. QED  BY <1>2, <1>3, <1>4, ViewKeeps

-----------------------------------------------------------------------------
(* Every step keeps the copies                                              *)

\* What is orderly now was orderly before.
LEMMA OrderlyBack ==
  ASSUME EventInv, EventInv', Orderly', TapeOnlyGrows, disorder => disorder', UNCHANGED <<partial, torn, gone, boot>>
  PROVE  Orderly
<1>1. TapeTypes' /\ Anchored'
  BY DEF EventInv, EventTypes, TapeTypes, Orderly
<1>2. Anchored
  BY <1>1, AnchoredBack
<1>3. QED  BY <1>2 DEF Orderly, Kept

\* As long as no half line is left, an append that failed left none.
LEMMA TornSame ==
  ASSUME torn' = {}, NEW p \in Publishers,
         \/ Publish(p) \/ PublishReset(p) \/ AppendTapeFails(p) \/ NotifyFailed(p) \/ PublishError(p)
         \/ \E ch \in pub[p].to : Send(p, ch)
  PROVE  UNCHANGED torn
<1>1. CASE AppendTapeFails(p)
  BY <1>1 DEF AppendTapeFails, TearTape
<1>2. CASE Publish(p) \/ PublishReset(p)
  BY <1>2 DEF Publish, PublishReset, fileVars
<1>3. CASE NotifyFailed(p)
  BY <1>3 DEF NotifyFailed, fileVars
<1>4. CASE PublishError(p)
  BY <1>4 DEF PublishError, fileVars
<1>5. CASE \E ch \in pub[p].to : Send(p, ch)
  BY <1>5 DEF Send, fileVars
<1>6. QED  BY <1>1, <1>2, <1>3, <1>4, <1>5

LEMMA PublisherCopies ==
  ASSUME EventInv, EventInv', CopiesInv, Orderly', NEW p \in Publishers, PublisherStep(p) \/ PublishStep(p)
  PROVE  CopiesRight'
<1>1. ~disorder' /\ ~partial' /\ Anchored' /\ boot' = "up"
  BY DEF Orderly
<1>2. CASE \/ Publish(p) \/ PublishReset(p) \/ AppendTapeFails(p) \/ NotifyFailed(p) \/ PublishError(p)
           \/ \E ch \in pub[p].to : Send(p, ch)
  <2>0. UNCHANGED torn
    BY <1>2, TornSame DEF Orderly
  <2>1. UNCHANGED <<tape, torn, gone, boot, disorder, partial>>
    BY <1>2, <2>0, QuietPublisher
  <2>2. Orderly
    BY <2>1, TapeSame, OrderlyBack
  <2>3. QED  BY <1>2, <2>0, <2>2, QuietKeeps DEF CopiesInv
<1>3. CASE Rotate(p)
  <2>1. tape' = Append(tape, <<>>) /\ UNCHANGED <<torn, gone, boot, disorder, partial>>
    BY <1>3 DEF Rotate, keptVars, faultVars
  <2>2. Orderly
    BY <2>1, TapeBegun, OrderlyBack
  <2>3. QED  BY <1>3, <2>2, RotatedKeeps DEF CopiesInv
<1>4. CASE Appended(p)
  <2>1. pub[p].pc = "write" /\ OnTape(p) /\ UNCHANGED <<torn, gone, boot, disorder, partial>>
    BY <1>4 DEF Appended, keptVars, faultVars
  <2>2. Orderly
    BY <2>1, TapeWritten, OrderlyBack
  <2>3. QED  BY <1>1, <1>4, <2>2, AppendedKeeps DEF CopiesInv
<1>5. CASE Notify(p)
  <2>1. UNCHANGED <<tape, torn, gone, boot, partial>> /\ (disorder => disorder')
    BY <1>5 DEF Notify, fileVars, keptVars
  <2>2. Orderly
    BY <2>1, TapeSame, OrderlyBack
  <2>3. QED  BY <1>1, <1>5, <2>2, NotifyKeeps DEF CopiesInv, Orderly
<1>6. CASE AppendJournalFails(p) \/ AppendSyncFails(p)
  BY <1>1, <1>6 DEF AppendJournalFails, AppendSyncFails
<1>7. QED
  BY <1>2, <1>3, <1>4, <1>5, <1>6 DEF PublisherStep, PublishStep

LEMMA BrowserCopies ==
  ASSUME EventInv, EventInv', CopiesInv, Orderly', NEW c \in Clients, Connect(c) \/ ClientStep(c)
  PROVE  CopiesRight'
<1>1. UNCHANGED <<tape, torn, gone, boot, partial>> /\ (disorder => disorder')
  <2>1. CASE SubscribeSnapshot(c)
    BY <2>1 DEF SubscribeSnapshot, SnapshotLocked, fileVars, keptVars
  <2>2. CASE ServeState(c)
    BY <2>2 DEF ServeState, SnapshotLocked, fileVars, keptVars
  <2>3. CASE Connect(c)
    BY <2>3 DEF Connect, fileVars, keptVars, faultVars
  <2>4. CASE TakePatch(c)
    BY <2>4 DEF TakePatch, fileVars, keptVars, faultVars
  <2>5. CASE TakeState(c) \/ TakeRaw(c) \/ Hangup(c)
    BY <2>5 DEF TakeState, TakeRaw, Hangup, fileVars, keptVars, faultVars
  <2>6. QED  BY <2>1, <2>2, <2>3, <2>4, <2>5 DEF ClientStep
<1>2. Orderly
  BY <1>1, TapeSame, OrderlyBack
<1>3. QED  BY <1>2, BrowserKeeps DEF CopiesInv, Orderly

LEMMA CopiesStep == EventInv /\ EventInv' /\ CopiesInv /\ [Next]_vars => CopiesInv'
<1> SUFFICES ASSUME EventInv, EventInv', CopiesInv, [Next]_vars, Orderly' PROVE CopiesRight'
  BY DEF CopiesInv
<1>1. CASE UNCHANGED vars
  <2>1. UNCHANGED <<tape, torn, gone, boot, disorder, partial, size, pub, store, source, client>>
    BY <1>1 DEF vars
  <2>2. Orderly
    BY <2>1, TapeSame, OrderlyBack
  <2>3. StoreRight(Carried, tape, pub, source', store') /\ ClientsRight(Carried, tape, client', store')
    BY <2>1, <2>2 DEF CopiesInv, CopiesRight
  <2>4. QED  BY <2>1, <2>2, <2>3, ViewKeeps DEF CopiesInv
<1>2. CASE Snapshot
  <2>1. UNCHANGED <<tape, torn, gone, boot, partial>> /\ (disorder => disorder')
    BY <1>2 DEF Snapshot, SnapshotLocked, fileVars, keptVars
  <2>2. Orderly
    BY <2>1, TapeSame, OrderlyBack
  <2>3. QED  BY <1>2, <2>2, SnapshotKeeps DEF CopiesInv, Orderly
<1>3. ASSUME NEW g \in 1 .. Len(tape), ApplyRetention(g) PROVE FALSE
  BY <1>3 DEF ApplyRetention, Orderly, Kept
<1>4. CASE Crash
  BY <1>4 DEF Crash, Orderly
<1>5. CASE Restart
  BY <1>5 DEF Restart, Orderly
<1>6. QED
  BY <1>1, <1>2, <1>3, <1>4, <1>5, PublisherCopies, BrowserCopies DEF Next

LEMMA CopiesInit == Init => CopiesInv
<1> SUFFICES ASSUME Init PROVE CopiesRight
  BY DEF CopiesInv
<1>1. /\ TapeTypes /\ Len(tape) = 1 /\ tape[1] = <<>>
      /\ (\A g \in 1 .. Len(tape) : \A i \in 1 .. Len(tape[g]) : FALSE)
  BY StartOfLog DEF Init
<1>2. size = 0 /\ store.init = FALSE /\ (\A p \in Publishers : pub[p] = Idle) /\ (\A c \in Clients : client[c] = Away)
  BY DEF Init
<1>3. Exact
  <2>1. size = LastEnd(Len(tape))
    BY <1>1, <1>2 DEF LastEnd
  <2>2. \A g \in 1 .. Len(tape) : tape[g] = <<>>
    BY <1>1
  <2>3. QED  BY <1>1, <2>1, <2>2 DEF Exact, Ends, Chain
<1>4. HoldersRight(pub, tape) /\ Applying(pub, tape)
  BY <1>2 DEF Idle, HoldersRight, Holds, Applying
<1>5. StoreRight(Carried, tape, pub, source, store)
  BY <1>1, <1>2 DEF StoreRight, AllWait
<1>6. ClientsRight(Carried, tape, client, store)
  <2>1. 1 .. Len(<<>>) = {}
    OBVIOUS
  <2>2. QED  BY <1>2, <2>1 DEF Away, ClientsRight, ClientRight
<1>7. QED  BY <1>3, <1>4, <1>5, <1>6 DEF CopiesRight

\* As long as the log is in order, what the store and the browsers hold is a fold of
\* the log, and what they have not applied yet is a suffix of it whose publishers are
\* still on their way to Apply (store.go Apply, snapshotLocked; server_state.go
\* projectionSSE; bus.js applyProjectionPatch).
THEOREM CopiesFollow == Spec => []CopiesInv
<1>1. Init => CopiesInv
  BY CopiesInit
<1>2. EventInv /\ EventInv' /\ CopiesInv /\ [Next]_vars => CopiesInv'
  BY CopiesStep
<1>3. QED  BY <1>1, <1>2, EventsHold, PTL DEF Spec

\* The live projection is the fold of the log up to its cursor: applying records as
\* they come and reading the file again agree (store.go Apply and snapshotLocked, file.go
\* ProjectFile).
THEOREM LiveIsReplayAlways == Spec => []LiveIsReplay
<1>1. EventInv /\ CopiesInv => LiveIsReplay
  <2>1. SUFFICES ASSUME EventInv, CopiesInv, Orderly, store.init PROVE store.recs = Through(store.cur)
    BY DEF LiveIsReplay
  <2>2. TapeTypes /\ Ends(tape) /\ Folded(Carried, tape, store.cur, store.recs)
    BY <2>1 DEF EventInv, EventTypes, TapeTypes, CopiesInv, CopiesRight, Exact, StoreRight
  <2>3. QED  BY <2>2, ThroughIs
<1>2. QED  BY <1>1, EventsHold, CopiesFollow, PTL

\* What a browser shows is the fold of the log through the cursor it shows: the
\* snapshot, the patches that fit and a fetched state never mix two histories
\* (server_state.go projectionSSE, bus.js applyProjectionPatch).
THEOREM BrowserIsReplayAlways == Spec => []BrowserIsReplay
<1>1. EventInv /\ CopiesInv => BrowserIsReplay
  <2>1. SUFFICES ASSUME EventInv, CopiesInv, Orderly, NEW c \in Clients, client[c].pc = "on"
        PROVE  client[c].recs = Through(client[c].cur)
    BY DEF BrowserIsReplay
  <2>2. TapeTypes /\ Ends(tape) /\ Folded(Carried, tape, client[c].cur, client[c].recs)
    BY <2>1 DEF EventInv, EventTypes, TapeTypes, CopiesInv, CopiesRight, Exact, ClientsRight, ClientRight
  <2>3. QED  BY <2>2, ThroughIs
<1>2. QED  BY <1>1, EventsHold, CopiesFollow, PTL

-----------------------------------------------------------------------------
(* Half a line of the tape                                                  *)

\* What stands behind half a line is in the journal.
TornJournaled ==
  \A g \in 1 .. Len(tape) : \A i \in 1 .. Len(tape[g]) : Behind(g, i) => tape[g][i].n \in Range(journal)

LEMMA TornGrows ==
  ASSUME EventInv, EventInv', TornJournaled, NEW p \in Publishers, pub[p].pc = "write", OnTape(p),
         UNCHANGED torn, OnJournal(p) \/ (UNCHANGED journal /\ ~Torn(Len(tape)))
  PROVE  TornJournaled'
<1> DEFINE l == Len(tape)
<1>1. PICK n, r : n = pub[p].n /\ r = Record(p)
  OBVIOUS
<1>2. r.n = n /\ n \in Nat
  BY <1>1, RecordIs
<1>3. Range(journal) \subseteq Range(journal') /\ (OnJournal(p) => n \in Range(journal'))
  <2>1. CASE OnJournal(p)
    <3>1. journal \in Seq(Nat) /\ journal' = Append(journal, n)
      BY <1>1, <2>1 DEF OnJournal, EventInv, EventTypes
    <3>2. QED  BY <1>2, <3>1, RangeAppend
  <2>2. CASE ~OnJournal(p)
    BY <2>2
  <2>3. QED  BY <2>1, <2>2
<1>4. /\ Len(tape') = l /\ l \in Nat /\ tape[l] \in Seq(TapeRecs) /\ r \in TapeRecs
      /\ \A g \in 1 .. l - 1 : tape'[g] = tape[g]
      /\ tape'[l] = Append(tape[l], r)
  BY <1>1, InvTape, TapeAt, TapeWritten DEF TapeOnlyGrows
<1>5. /\ Len(Append(tape[l], r)) = Len(tape[l]) + 1 /\ Len(tape[l]) \in Nat
      /\ \A k \in 1 .. Len(tape[l]) : Append(tape[l], r)[k] = tape[l][k]
      /\ Append(tape[l], r)[Len(tape[l]) + 1] = r
  BY <1>4
<1>6. ASSUME NEW g \in 1 .. l, NEW i \in 1 .. Len(tape'[g]), Behind(g, i)'
      PROVE  tape'[g][i].n \in Range(journal')
  <2>1. Behind(g, i)
    BY <1>6 DEF Behind
  <2>2. CASE i \in 1 .. Len(tape[g]) /\ tape'[g][i] = tape[g][i]
    BY <1>3, <2>1, <2>2 DEF TornJournaled
  <2>3. CASE g = l /\ i = Len(tape[l]) + 1
    <3>1. Torn(Len(tape))
      BY <2>1, <2>3 DEF Behind, Torn
    <3>2. OnJournal(p)
      BY <3>1
    <3>3. QED  BY <1>2, <1>3, <1>4, <1>5, <2>3, <3>2
  <2>4. CASE g # l
    <3>1. g \in 1 .. l - 1
      BY <1>4, <2>4
    <3>2. tape'[g] = tape[g]
      BY <1>4, <3>1
    <3>3. QED  BY <2>2, <3>2
  <2>5. CASE g = l /\ i # Len(tape[l]) + 1
    <3>1. i \in 1 .. Len(tape[l]) + 1
      BY <1>4, <1>5, <2>5
    <3>2. i \in 1 .. Len(tape[g])
      BY <1>5, <2>5, <3>1
    <3>3. tape'[g][i] = tape[g][i]
      BY <1>4, <1>5, <2>5, <3>2
    <3>4. QED  BY <2>2, <3>2, <3>3
  <2>6. QED  BY <2>3, <2>4, <2>5
<1>7. QED  BY <1>4, <1>6 DEF TornJournaled

LEMMA TornTears ==
  ASSUME EventInv, TornJournaled, UNCHANGED <<tape, journal>>, TearTape
  PROVE  TornJournaled'
<1>1. ASSUME NEW g \in 1 .. Len(tape), NEW i \in 1 .. Len(tape[g]), Behind(g, i)' PROVE Behind(g, i)
  <2>1. PICK t \in torn' : t[1] = g /\ t[2] < i
    BY <1>1 DEF Behind
  <2>2. CASE t \in torn
    BY <2>1, <2>2 DEF Behind
  <2>3. CASE t = <<Len(tape), Len(tape[Len(tape)])>>
    <3>1. Len(tape[g]) \in Nat
      BY InvTape, TapeAt
    <3>2. t[1] = Len(tape) /\ t[2] = Len(tape[Len(tape)])
      BY <2>3
    <3>3. QED  BY <2>1, <3>1, <3>2
  <2>4. QED  BY <2>1, <2>2, <2>3 DEF TearTape
<1>2. QED  BY <1>1 DEF TornJournaled

LEMMA TornSameTape ==
  ASSUME TornJournaled, UNCHANGED <<tape, torn, journal>>
  PROVE  TornJournaled'
  BY DEF TornJournaled, Behind

LEMMA TornBegun ==
  ASSUME EventInv, TornJournaled, tape' = Append(tape, <<>>), UNCHANGED <<torn, journal>>
  PROVE  TornJournaled'
<1>1. /\ Len(tape') = Len(tape) + 1 /\ Len(tape) \in Nat
      /\ \A g \in 1 .. Len(tape) : tape'[g] = tape[g]
      /\ tape'[Len(tape) + 1] = <<>>
  BY TapeBegun
<1>2. ASSUME NEW g \in 1 .. Len(tape'), NEW i \in 1 .. Len(tape'[g]), Behind(g, i)'
      PROVE  tape'[g][i].n \in Range(journal')
  <2>1. g # Len(tape) + 1
    <3>1. Len(<<>>) = 0
      OBVIOUS
    <3>2. QED  BY <1>1, <1>2, <3>1
  <2>2. g \in 1 .. Len(tape) /\ tape'[g] = tape[g]
    BY <1>1, <2>1
  <2>3. Behind(g, i)
    BY <1>2 DEF Behind
  <2>4. QED  BY <1>2, <2>2, <2>3 DEF TornJournaled
<1>3. QED  BY <1>2 DEF TornJournaled

\* An append that fails, and one that does not.
LEMMA TornAppends ==
  ASSUME EventInv, EventInv', TornJournaled, NEW p \in Publishers,
         AppendTapeFails(p) \/ AppendJournalFails(p) \/ AppendSyncFails(p) \/ Appended(p)
  PROVE  TornJournaled'
<1>1. CASE AppendTapeFails(p)
  <2>1. UNCHANGED <<tape, journal>> /\ (UNCHANGED torn \/ TearTape)
    BY <1>1 DEF AppendTapeFails
  <2>2. QED  BY <2>1, TornSameTape, TornTears
<1>2. CASE AppendJournalFails(p)
  <2>1. pub[p].pc = "write" /\ UNCHANGED <<torn, journal>>
        /\ (UNCHANGED tape \/ (OnTape(p) /\ ~Torn(Len(tape))))
    BY <1>2 DEF AppendJournalFails, FailsWith, OnTapeOnly, keptVars
  <2>2. QED  BY <2>1, TornSameTape, TornGrows
<1>3. CASE AppendSyncFails(p) \/ Appended(p)
  <2>1. pub[p].pc = "write" /\ OnTape(p) /\ OnJournal(p) /\ UNCHANGED torn
    BY <1>3 DEF AppendSyncFails, Appended, keptVars
  <2>2. QED  BY <2>1, TornGrows
<1>4. QED  BY <1>1, <1>2, <1>3

LEMMA TornStep == EventInv /\ EventInv' /\ TornJournaled /\ [Next]_vars => TornJournaled'
<1> SUFFICES ASSUME EventInv, EventInv', TornJournaled, [Next]_vars PROVE TornJournaled'
  OBVIOUS
<1>1. CASE UNCHANGED vars
  BY <1>1, TornSameTape DEF vars
<1>2. ASSUME NEW p \in Publishers, PublisherStep(p) \/ PublishStep(p) PROVE TornJournaled'
  <2>1. CASE Rotate(p)
    BY <2>1, TornBegun DEF Rotate, keptVars
  <2>2. CASE AppendTapeFails(p) \/ AppendJournalFails(p) \/ AppendSyncFails(p) \/ Appended(p)
    BY <2>2, TornAppends
  <2>3. CASE Publish(p) \/ PublishReset(p) \/ PublishError(p) \/ \E ch \in pub[p].to : Send(p, ch)
    BY <2>3, TornSameTape DEF Publish, PublishReset, PublishError, Send, fileVars
  <2>4. CASE Notify(p) \/ NotifyFailed(p)
    BY <2>4, TornSameTape DEF Notify, NotifyFailed, fileVars
  <2>5. QED  BY <1>2, <2>1, <2>2, <2>3, <2>4 DEF PublisherStep, PublishStep
<1>3. ASSUME NEW c \in Clients, Connect(c) \/ ClientStep(c) PROVE TornJournaled'
  <2>1. CASE SubscribeSnapshot(c) \/ ServeState(c)
    BY <2>1, TornSameTape DEF SubscribeSnapshot, ServeState, fileVars
  <2>2. CASE Connect(c) \/ TakePatch(c)
    BY <2>2, TornSameTape DEF Connect, TakePatch, fileVars
  <2>3. CASE TakeState(c) \/ TakeRaw(c) \/ Hangup(c)
    BY <2>3, TornSameTape DEF TakeState, TakeRaw, Hangup, fileVars
  <2>4. QED  BY <1>3, <2>1, <2>2, <2>3 DEF ClientStep
<1>4. CASE Snapshot \/ Restart \/ \E g \in 1 .. Len(tape) : ApplyRetention(g)
  BY <1>4, TornSameTape DEF Snapshot, Restart, ApplyRetention, fileVars
<1>5. CASE Crash
  <2>1. CASE UNCHANGED <<tape, torn>>
    BY <1>5, <2>1, TornSameTape DEF Crash
  <2>2. CASE UNCHANGED tape /\ TearTape
    BY <1>5, <2>2, TornTears DEF Crash
  <2>3. ASSUME NEW p \in Publishers, pub[p].pc = "write", OnTapeOnly(p), UNCHANGED torn PROVE TornJournaled'
    <3>1. UNCHANGED journal
      BY <1>5 DEF Crash
    <3>2. QED  BY <2>3, <3>1, TornSameTape, TornGrows DEF OnTapeOnly
  <2>4. QED  BY <1>5, <2>1, <2>2, <2>3 DEF Crash
<1>6. QED
  BY <1>1, <1>2, <1>3, <1>4, <1>5 DEF Next

\* The journal has only records that were written whole to a tape, in the order of the
\* tapes, and all of them as long as no append failed; those behind half a line of a
\* tape are in it (jsonl.go WriteRecord).
THEOREM JournalFollowsTape == Spec => []JournalIsTape
<1>1. EventInv /\ TornJournaled => JournalIsTape
  BY DEF EventInv, JournalFollows, JournalComplete, TornJournaled, JournalIsTape
<1>2. Init => TornJournaled
  BY StartOfLog DEF Init, TornJournaled, Behind
<1>3. EventInv /\ EventInv' /\ TornJournaled /\ [Next]_vars => TornJournaled'
  BY TornStep
<1>4. QED  BY <1>1, <1>2, <1>3, EventsHold, PTL DEF Spec
=============================================================================
