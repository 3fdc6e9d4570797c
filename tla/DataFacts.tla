----------------------------- MODULE DataFacts -----------------------------
(***************************************************************************)
(* Facts about the data the modules are built from, for their proofs:      *)
(* partial maps, sequences as functions and as queues, least and greatest  *)
(* elements of sets of numbers.                                            *)
(***************************************************************************)
EXTENDS Integers, Sequences, FiniteSetsExt, PartialMaps, WellFoundedInduction, TLAPS

-----------------------------------------------------------------------------
\* Partial maps.

\* A map with one entry more, or another value for one.
LEMMA PutIsMap ==
  ASSUME NEW S, NEW T, NEW f, IsMap(f, S, T), NEW x \in S, NEW v \in T
  PROVE  IsMap(Put(f, x, v), S, T)
BY DEF IsMap, Put

\* A map without some of its entries.
LEMMA DropIsMap ==
  ASSUME NEW S, NEW T, NEW f, IsMap(f, S, T), NEW D
  PROVE  IsMap(Drop(f, D), S, T)
BY DEF IsMap, Drop

\* The empty map.
LEMMA NoEntriesIsMap ==
  ASSUME NEW S, NEW T
  PROVE  IsMap(NoEntries, S, T)
BY DEF IsMap, NoEntries

-----------------------------------------------------------------------------
\* Sequences are functions.

\* The parts of a sequence.
LEMMA SeqIsFunction ==
  ASSUME NEW S, NEW q \in Seq(S)
  PROVE  /\ Len(q) \in Nat
         /\ DOMAIN q = 1 .. Len(q)
         /\ \A i \in DOMAIN q : q[i] \in S
OBVIOUS

\* A function on an initial segment is a sequence.
LEMMA FunctionIsSeq ==
  ASSUME NEW S, NEW n \in Nat, NEW f \in [1 .. n -> S]
  PROVE  f \in Seq(S) /\ Len(f) = n
OBVIOUS

\* Only the empty sequence has no length.
LEMMA EmptySeq ==
  ASSUME NEW S, NEW q \in Seq(S)
  PROVE  q = <<>> <=> Len(q) = 0
OBVIOUS

\* Sequences over growing ranges.
LEMMA WiderSeq ==
  ASSUME NEW S, NEW T, S \subseteq T, NEW q \in Seq(S)
  PROVE  q \in Seq(T)
OBVIOUS

\* Two in a row.
LEMMA ConcatSeq ==
  ASSUME NEW S, NEW q \in Seq(S), NEW r \in Seq(S)
  PROVE  q \o r \in Seq(S) /\ <<>> \o r = r
OBVIOUS

\* One element changed.
LEMMA ExceptSeq ==
  ASSUME NEW S, NEW q \in Seq(S), NEW i \in DOMAIN q, NEW v \in S
  PROVE  /\ [q EXCEPT ![i] = v] \in Seq(S)
         /\ Len([q EXCEPT ![i] = v]) = Len(q)
         /\ [q EXCEPT ![i] = v][i] = v
         /\ \A j \in DOMAIN q : j # i => [q EXCEPT ![i] = v][j] = q[j]
<1>1. Len(q) \in Nat /\ DOMAIN q = 1 .. Len(q) /\ q \in [1 .. Len(q) -> S]
  OBVIOUS
<1>2. [q EXCEPT ![i] = v] \in [1 .. Len(q) -> S]
  BY <1>1
<1> QED BY <1>1, <1>2, FunctionIsSeq

\* One element more.
LEMMA AppendSeq ==
  ASSUME NEW S, NEW q \in Seq(S), NEW v \in S
  PROVE  /\ Append(q, v) \in Seq(S)
         /\ Len(Append(q, v)) = Len(q) + 1
         /\ DOMAIN Append(q, v) = DOMAIN q \cup {Len(q) + 1}
         /\ Append(q, v)[Len(q) + 1] = v
         /\ \A i \in DOMAIN q : i < Len(q) + 1 /\ Append(q, v)[i] = q[i]
OBVIOUS

\* A queue served.
LEMMA TailSeq ==
  ASSUME NEW S, NEW q \in Seq(S), q # <<>>
  PROVE  /\ Tail(q) \in Seq(S)
         /\ Len(q) >= 1
         /\ Len(Tail(q)) = Len(q) - 1
         /\ Head(q) \in S
         /\ 1 \in DOMAIN q
         /\ Head(q) = q[1]
         /\ \A i \in DOMAIN Tail(q) : i + 1 \in DOMAIN q /\ Tail(q)[i] = q[i + 1]
OBVIOUS

-----------------------------------------------------------------------------
\* Least and greatest numbers.

\* Order as a relation.
Less == {pair \in Nat \X Nat : pair[1] < pair[2]}

\* The naturals are well-founded.
LEMMA LessIsWellFounded == IsWellFoundedOn(Less, Nat)
BY Zenon, NatLessThanWellFounded DEF OpToRel, Less

\* A set of natural numbers has a least element.
LEMMA LeastOf ==
  ASSUME NEW S, S \subseteq Nat, S # {}
  PROVE  Min(S) \in S /\ \A x \in S : Min(S) <= x
<1>1. PICK x \in S : \A y \in S : ~(<<y, x>> \in Less)
  BY LessIsWellFounded, WFMin
<1>2. ASSUME NEW y \in S PROVE x <= y
  <2>1. <<y, x>> \notin Less /\ x \in Nat /\ y \in Nat
    BY <1>1
  <2>2. <<y, x>> \in Nat \X Nat /\ <<y, x>>[1] = y /\ <<y, x>>[2] = x
    BY <2>1
  <2>3. ~(y < x)
    BY <2>1, <2>2 DEF Less
  <2> QED BY <2>1, <2>3
<1> QED BY <1>2 DEF Min

\* A bounded set of them has a greatest.
LEMMA GreatestOf ==
  ASSUME NEW n \in Nat, NEW S, S \subseteq 0 .. n, S # {}
  PROVE  Max(S) \in S /\ \A x \in S : x <= Max(S)
<1> DEFINE T == {k \in Nat : \E x \in S : k = n - x}
<1>1. T \subseteq Nat
  OBVIOUS
<1>2. ASSUME NEW x \in S PROVE n - x \in T
  <2>1. n - x \in Nat
    OBVIOUS
  <2> QED BY <2>1
<1>3. T # {}
  BY <1>2
<1>4. Min(T) \in T /\ \A k \in T : Min(T) <= k
  <2> HIDE DEF T
  <2> QED BY <1>1, <1>3, LeastOf
<1>5. PICK x \in S : Min(T) = n - x
  BY <1>4
<1> HIDE DEF T
<1>6. ASSUME NEW y \in S PROVE y <= x
  <2>1. n - x <= n - y
    BY <1>2, <1>4, <1>5
  <2>2. x \in Int /\ y \in Int
    OBVIOUS
  <2> QED BY <2>1, <2>2
<1>7. \A y \in S : x >= y
  BY <1>6
<1>8. \A y \in S : Max(S) >= y
  BY <1>7 DEF Max
<1>9. Max(S) \in S
  BY <1>7 DEF Max
<1>10. \A y \in S : y \in Int
  OBVIOUS
<1> QED BY <1>8, <1>9, <1>10
=============================================================================
