---------------------------- MODULE Iflist_proofs ----------------------------
(***************************************************************************)
(* Proofs about the interface list at the grain of its locks, for any      *)
(* number of interfaces and addresses.                                     *)
(***************************************************************************)
EXTENDS Iflist, SequenceTheorems, WellFoundedInduction, TLAPS

-----------------------------------------------------------------------------
(***************************************************************************)
(* Positions and pieces of a list.                                         *)
(***************************************************************************)

\* A walk stops at the first of the positions it looks for.
LEMMA FirstOf ==
  ASSUME NEW S \in SUBSET (Nat \ {0})
  PROVE  IF S = {} THEN First(S) = 0
                   ELSE First(S) \in S /\ \A n \in S : First(S) <= n
<1>1. CASE S = {}
  BY <1>1 DEF First
<1>2. CASE S # {}
  <2>1. PICK x \in S : \A y \in S : ~(<<y, x>> \in OpToRel(<, Nat))
    BY <1>2, NatLessThanWellFounded, WFMin
  <2>2. ASSUME NEW y \in S PROVE x <= y
    <3>1. x \in Nat /\ y \in Nat /\ <<y, x>> \in Nat \X Nat
      OBVIOUS
    <3>2. OpToRel(<, Nat) = {z \in Nat \X Nat : z[1] < z[2]}
      BY DEF OpToRel
    <3>3. ~(y < x)
      BY <2>1, <3>1, <3>2
    <3> QED
      BY <3>1, <3>3
  <2>3. Min(S) \in S /\ \A y \in S : Min(S) <= y
    BY <2>2 DEF Min
  <2> QED
    BY <1>2, <2>3 DEF First
<1> QED
  BY <1>1, <1>2

\* What is left of s when the entries after m up to n are unlinked.
Cut(s, m, n) == SubSeq(s, 1, m) \o SubSeq(s, n + 1, Len(s))

\* Its entries, by position.
LEMMA CutEntries ==
  ASSUME NEW s \in Seq(Ptr), NEW m \in Nat, NEW n \in Nat, m < n, n <= Len(s)
  PROVE  /\ Cut(s, m, n) \in Seq(Ptr)
         /\ DOMAIN Cut(s, m, n) = 1 .. (m + Len(s) - n)
         /\ \A k \in 1 .. (m + Len(s) - n) :
              Cut(s, m, n)[k] = IF k <= m THEN s[k] ELSE s[k + n - m]
<1> DEFINE a == SubSeq(s, 1, m)
           b == SubSeq(s, n + 1, Len(s))
<1>1. Len(s) \in Nat /\ \A k \in 1 .. Len(s) : s[k] \in Ptr
  BY LenProperties, ElementOfSeq
<1>2. a \in Seq(Ptr) /\ Len(a) = m /\ \A k \in 1 .. m : a[k] = s[k]
  <2>1. \A k \in 1 .. m : s[k] \in Ptr
    BY <1>1
  <2>2. /\ a \in Seq(Ptr) /\ Len(a) = IF 1 <= m THEN m - 1 + 1 ELSE 0
        /\ \A k \in 1 .. m - 1 + 1 : a[k] = s[1 + k - 1]
    BY <2>1, SubSeqProperties
  <2> HIDE DEF a
  <2> QED
    BY <2>2
<1>3. /\ b \in Seq(Ptr) /\ Len(b) = Len(s) - n
      /\ \A k \in 1 .. (Len(s) - n) : b[k] = s[k + n]
  <2>1. \A k \in n + 1 .. Len(s) : s[k] \in Ptr
    BY <1>1
  <2>2. /\ b \in Seq(Ptr)
        /\ Len(b) = IF n + 1 <= Len(s) THEN Len(s) - (n + 1) + 1 ELSE 0
        /\ \A k \in 1 .. Len(s) - (n + 1) + 1 : b[k] = s[(n + 1) + k - 1]
    BY <1>1, <2>1, SubSeqProperties
  <2> HIDE DEF b
  <2> QED
    BY <1>1, <2>2
<1> HIDE DEF a, b
<1>4. /\ a \o b \in Seq(Ptr) /\ Len(a \o b) = m + (Len(s) - n)
      /\ \A k \in 1 .. m + (Len(s) - n) :
           (a \o b)[k] = IF k <= m THEN a[k] ELSE b[k - m]
  <2>1. /\ a \o b \in Seq(Ptr) /\ Len(a \o b) = Len(a) + Len(b)
        /\ \A k \in 1 .. Len(a) + Len(b) :
             (a \o b)[k] = IF k <= Len(a) THEN a[k] ELSE b[k - Len(a)]
    BY <1>2, <1>3, ConcatProperties
  <2> QED
    BY <1>2, <1>3, <2>1
<1>5. Cut(s, m, n) = a \o b
  BY DEF Cut, a, b
<1>6. DOMAIN (a \o b) = 1 .. (m + Len(s) - n)
  BY <1>1, <1>4, LenProperties
<1>7. ASSUME NEW k \in 1 .. (m + Len(s) - n)
      PROVE  (a \o b)[k] = IF k <= m THEN s[k] ELSE s[k + n - m]
  <2>1. k \in 1 .. m + (Len(s) - n)
    BY <1>1
  <2>2. CASE k <= m
    BY <1>2, <1>4, <2>1, <2>2
  <2>3. CASE ~(k <= m)
    <3>1. k - m \in 1 .. (Len(s) - n) /\ (k - m) + n = k + n - m
      BY <1>1, <2>1, <2>3
    <3>2. (a \o b)[k] = b[k - m]
      BY <1>4, <2>1, <2>3
    <3> QED
      BY <1>3, <2>3, <3>1, <3>2
  <2> QED
    BY <2>2, <2>3
<1> QED
  BY <1>4, <1>5, <1>6, <1>7

\* p comes before q in s.
Precedes(s, p, q) == \E m, n \in DOMAIN s : m < n /\ s[m] = p /\ s[n] = q

Distinct(s) == \A m, n \in DOMAIN s : s[m] = s[n] => m = n

\* An unlinking leaves no trace of the last entry it passes over and keeps the
\* rest once each.
LEMMA CutDistinct ==
  ASSUME NEW s \in Seq(Ptr), NEW m \in Nat, NEW n \in Nat, m < n, n <= Len(s), Distinct(s)
  PROVE  /\ Distinct(Cut(s, m, n))
         /\ ToSet(Cut(s, m, n)) \subseteq ToSet(s) \ {s[n]}
<1> DEFINE c == Cut(s, m, n)
           at(k) == IF k <= m THEN k ELSE k + n - m
<1>1. Len(s) \in Nat /\ DOMAIN s = 1 .. Len(s)
  BY LenProperties
<1>2. /\ DOMAIN c = 1 .. (m + Len(s) - n)
      /\ \A k \in DOMAIN c : c[k] = s[at(k)]
  <2>1. /\ DOMAIN c = 1 .. (m + Len(s) - n)
        /\ \A k \in 1 .. (m + Len(s) - n) :
             c[k] = IF k <= m THEN s[k] ELSE s[k + n - m]
    BY CutEntries
  <2> HIDE DEF c
  <2> QED
    BY <2>1
<1> HIDE DEF c
<1>3. \A k \in DOMAIN c : at(k) \in DOMAIN s /\ at(k) # n
  BY <1>1, <1>2
<1>4. \A j, k \in DOMAIN c : at(j) = at(k) => j = k
  BY <1>1, <1>2
<1>5. Distinct(c)
  <2> SUFFICES ASSUME NEW j \in DOMAIN c, NEW k \in DOMAIN c, c[j] = c[k] PROVE j = k
    BY DEF Distinct
  <2>1. s[at(j)] = s[at(k)] /\ at(j) \in DOMAIN s /\ at(k) \in DOMAIN s
    BY <1>2, <1>3
  <2>2. at(j) = at(k)
    BY <2>1 DEF Distinct
  <2> QED
    BY <1>4, <2>2
<1>6. ASSUME NEW k \in DOMAIN c PROVE c[k] \in ToSet(s) /\ c[k] # s[n]
  <2>1. n \in DOMAIN s
    BY <1>1
  <2> QED
    BY <1>2, <1>3, <2>1 DEF Distinct, ToSet
<1> QED
  BY <1>5, <1>6 DEF ToSet, c

\* Taking out the one entry at n leaves the others, in their order.
LEMMA CutOne ==
  ASSUME NEW s \in Seq(Ptr), NEW n \in DOMAIN s, Distinct(s)
  PROVE  /\ ToSet(Cut(s, n - 1, n)) = ToSet(s) \ {s[n]}
         /\ \A p, q : p # s[n] /\ q # s[n] /\ Precedes(s, p, q)
                        => Precedes(Cut(s, n - 1, n), p, q)
<1> DEFINE c == Cut(s, n - 1, n)
           to(k) == IF k < n THEN k ELSE k - 1
<1>1. /\ Len(s) \in Nat /\ DOMAIN s = 1 .. Len(s)
      /\ n - 1 \in Nat /\ n \in Nat /\ n - 1 < n /\ n <= Len(s)
  BY LenProperties
<1>2. /\ DOMAIN c = 1 .. ((n - 1) + Len(s) - n)
      /\ \A k \in 1 .. ((n - 1) + Len(s) - n) :
           c[k] = IF k <= n - 1 THEN s[k] ELSE s[k + n - (n - 1)]
  BY <1>1, CutEntries
<1> HIDE DEF c
<1>3. ASSUME NEW k \in DOMAIN s, k # n PROVE to(k) \in DOMAIN c /\ c[to(k)] = s[k]
  <2>1. CASE k < n
    BY <1>1, <1>2, <2>1
  <2>2. CASE k > n
    <3>1. k - 1 \in 1 .. ((n - 1) + Len(s) - n) /\ ~(k - 1 <= n - 1) /\ (k - 1) + n - (n - 1) = k
      BY <1>1, <2>2
    <3> QED
      BY <1>1, <1>2, <2>2, <3>1
  <2> QED
    BY <1>1, <1>3, <2>1, <2>2
<1>4. ToSet(c) \subseteq ToSet(s) \ {s[n]}
  BY <1>1, CutDistinct DEF c
<1>5. ToSet(s) \ {s[n]} \subseteq ToSet(c)
  <2> SUFFICES ASSUME NEW k \in DOMAIN s, s[k] # s[n] PROVE s[k] \in ToSet(c)
    BY DEF ToSet
  <2>1. to(k) \in DOMAIN c /\ c[to(k)] = s[k]
    BY <1>3
  <2> QED
    BY <2>1 DEF ToSet
<1>6. ASSUME NEW p, NEW q, p # s[n], q # s[n], Precedes(s, p, q)
      PROVE  Precedes(c, p, q)
  <2>1. PICK j, k \in DOMAIN s : j < k /\ s[j] = p /\ s[k] = q
    BY <1>6 DEF Precedes
  <2>2. j # n /\ k # n
    BY <1>6, <2>1
  <2>3. to(j) < to(k)
    BY <1>1, <2>1, <2>2
  <2>4. to(j) \in DOMAIN c /\ c[to(j)] = p /\ to(k) \in DOMAIN c /\ c[to(k)] = q
    BY <1>3, <2>1, <2>2
  <2> QED
    BY <2>3, <2>4 DEF Precedes
<1> QED
  BY <1>4, <1>5, <1>6 DEF c

\* A new head leaves the others in their order.
LEMMA NewHead ==
  ASSUME NEW s \in Seq(Ptr), NEW h \in Ptr, h \notin ToSet(s), Distinct(s)
  PROVE  /\ <<h>> \o s \in Seq(Ptr)
         /\ Distinct(<<h>> \o s)
         /\ ToSet(<<h>> \o s) = ToSet(s) \cup {h}
         /\ \A p, q : Precedes(s, p, q) => Precedes(<<h>> \o s, p, q)
<1> DEFINE c == <<h>> \o s
<1>1. Len(s) \in Nat /\ DOMAIN s = 1 .. Len(s)
  BY LenProperties
<1>2. <<h>> \in Seq(Ptr) /\ Len(<<h>>) = 1 /\ <<h>>[1] = h
  OBVIOUS
<1>3. /\ c \in Seq(Ptr) /\ Len(c) = Len(<<h>>) + Len(s)
      /\ \A k \in 1 .. Len(<<h>>) + Len(s) :
           c[k] = IF k <= Len(<<h>>) THEN <<h>>[k] ELSE s[k - Len(<<h>>)]
  BY <1>2, ConcatProperties
<1> HIDE DEF c
<1>4. /\ DOMAIN c = 1 .. 1 + Len(s)
      /\ c[1] = h /\ \A k \in DOMAIN s : k + 1 \in DOMAIN c /\ c[k + 1] = s[k]
  <2>1. DOMAIN c = 1 .. 1 + Len(s)
    BY <1>2, <1>3, LenProperties
  <2>2. c[1] = h
    BY <1>1, <1>2, <1>3
  <2>3. ASSUME NEW k \in DOMAIN s PROVE k + 1 \in DOMAIN c /\ c[k + 1] = s[k]
    <3>1. k + 1 \in 1 .. Len(<<h>>) + Len(s) /\ ~(k + 1 <= Len(<<h>>)) /\ (k + 1) - Len(<<h>>) = k
      BY <1>1, <1>2
    <3> QED
      BY <1>1, <1>2, <1>3, <2>1, <3>1
  <2> QED
    BY <2>1, <2>2, <2>3
<1>5. ASSUME NEW k \in DOMAIN c, k # 1 PROVE k - 1 \in DOMAIN s /\ c[k] = s[k - 1]
  <2>1. k - 1 \in DOMAIN s /\ (k - 1) + 1 = k
    BY <1>1, <1>4, <1>5
  <2> QED
    BY <1>4, <2>1
<1>6. Distinct(c)
  <2> SUFFICES ASSUME NEW j \in DOMAIN c, NEW k \in DOMAIN c, c[j] = c[k] PROVE j = k
    BY DEF Distinct
  <2>1. \A l \in DOMAIN s : s[l] # h
    BY DEF ToSet
  <2>2. j = 1 <=> k = 1
    BY <1>4, <1>5, <2>1
  <2>3. CASE j # 1 /\ k # 1
    <3>1. j - 1 = k - 1
      BY <1>5, <2>3 DEF Distinct
    <3> QED
      BY <1>4, <3>1
  <2> QED
    BY <2>2, <2>3
<1>7. ToSet(c) = ToSet(s) \cup {h}
  <2>1. ToSet(c) \subseteq ToSet(s) \cup {h}
    BY <1>4, <1>5 DEF ToSet
  <2>2. 1 \in DOMAIN c
    BY <1>1, <1>4
  <2>3. ToSet(s) \cup {h} \subseteq ToSet(c)
    BY <1>4, <2>2 DEF ToSet
  <2> QED
    BY <2>1, <2>3
<1>8. ASSUME NEW p, NEW q, Precedes(s, p, q) PROVE Precedes(c, p, q)
  <2>1. PICK j, k \in DOMAIN s : j < k /\ s[j] = p /\ s[k] = q
    BY <1>8 DEF Precedes
  <2>2. j + 1 < k + 1
    BY <1>1, <2>1
  <2> QED
    BY <1>4, <2>1, <2>2 DEF Precedes
<1> QED
  BY <1>3, <1>6, <1>7, <1>8 DEF c

-----------------------------------------------------------------------------
(***************************************************************************)
(* The invariant.                                                          *)
(***************************************************************************)

Entry == [ifp : Iface \cup {NULL}, uffp : Count, rtport : Count]

\* An entry without an interface is no entry.
LinkInv ==
  /\ list \in Seq(Ptr)
  /\ ent \in [Ptr -> Entry]
  /\ \A p \in Ptr : ent[p].ifp = NULL => ent[p] = Freed
  /\ WellLinked

\* What IF_DEL knows of the entries its search returned, when it has the lock
\* again: each is on the list unless it has been freed, and the one is still
\* before the other.  Entries may have come between them.
Held ==
  pc = "del_unlink" =>
    /\ ptr \notin Free => ptr \in ToSet(list)
    /\ ptr \notin Free /\ prev \notin Free /\ prev # NULL => Precedes(list, prev, ptr)

\* Up to the use of a freed entry, after which nothing more is said.
IflInv ==
  /\ IflistTypeOK
  /\ OnlyIfDelSpoils
  /\ pc # "idle" => cif \in Iface
  /\ pc \in {"del_unlink", "ref_del"} => ptr \in Ptr
  /\ pc = "del_unlink" => cmd = "IF_DEL"
  /\ ~fault => LinkInv /\ Held

-----------------------------------------------------------------------------
(***************************************************************************)
(* The shapes of a step on the list.                                       *)
(***************************************************************************)

\* Counts change, links do not.
Counted ==
  /\ list' = list
  /\ ent' \in [Ptr -> Entry]
  /\ \A p \in Ptr : ent'[p].ifp = ent[p].ifp
  /\ \A p \in Ptr : ent'[p].ifp = NULL => ent'[p] = Freed

\* A new head at an address that was free and that nobody holds.
Inserted(h) ==
  /\ h \in Fresh
  /\ list' = <<h>> \o list
  /\ ent' \in [Ptr -> Entry]
  /\ ent'[h].ifp # NULL
  /\ \A p \in Ptr : p # h => ent'[p] = ent[p]

\* The entry at n is unlinked and freed.
Unlinked(n) ==
  /\ n \in DOMAIN list
  /\ list' = Cut(list, n - 1, n)
  /\ ent' \in [Ptr -> Entry]
  /\ ent'[list[n]] = Freed
  /\ \A p \in Ptr : p # list[n] => ent'[p].ifp = ent[p].ifp
  /\ \A p \in Ptr : ent'[p].ifp = NULL => ent'[p] = Freed

\* Being free, by interface.
LEMMA FreeByIfp ==
  ASSUME ent \in [Ptr -> Entry], \A p \in Ptr : ent[p].ifp = NULL => ent[p] = Freed
  PROVE  Free = {p \in Ptr : ent[p].ifp = NULL}
  BY DEF Free, Freed

\* The same after a step.
LEMMA FreeByIfpNext ==
  ASSUME ent' \in [Ptr -> Entry], \A p \in Ptr : ent'[p].ifp = NULL => ent'[p] = Freed
  PROVE  Free' = {p \in Ptr : ent'[p].ifp = NULL}
  BY DEF Free, Freed

\* The list consists of addresses, and the invariant in terms of Distinct.
LEMMA LinkFacts ==
  ASSUME LinkInv
  PROVE  /\ Distinct(list)
         /\ ToSet(list) \subseteq Ptr \ Free
         /\ Len(list) \in Nat /\ DOMAIN list = 1 .. Len(list)
         /\ \A n \in DOMAIN list : list[n] \in Ptr
  BY LenProperties, ElementOfSeq DEF LinkInv, WellLinked, Distinct, ToSet

\* Counts change.
LEMMA CountedStep ==
  ASSUME LinkInv, Counted
  PROVE  LinkInv' /\ (Held /\ UNCHANGED <<pc, ptr, prev>> => Held')
<1>1. Free' = Free
  BY FreeByIfp, FreeByIfpNext DEF LinkInv, Counted
<1> QED
  BY <1>1 DEF LinkInv, Counted, WellLinked, Held

\* An entry is inserted.
LEMMA InsertedStep ==
  ASSUME LinkInv, NEW h, Inserted(h)
  PROVE  LinkInv' /\ (Held /\ UNCHANGED <<pc, ptr, prev>> => Held')
<1>1. h \in Ptr /\ h \in Free /\ h # ptr /\ h # prev
  BY DEF Inserted, Fresh, Free
<1>2. /\ Distinct(list) /\ ToSet(list) \subseteq Ptr \ Free
      /\ list \in Seq(Ptr) /\ ent \in [Ptr -> Entry]
  BY LinkFacts DEF LinkInv
<1>3. Free' = Free \ {h}
  BY <1>1 DEF Inserted, Free, Freed
<1>4. /\ list' \in Seq(Ptr) /\ Distinct(list') /\ ToSet(list') = ToSet(list) \cup {h}
      /\ \A p, q : Precedes(list, p, q) => Precedes(list', p, q)
  BY <1>1, <1>2, NewHead DEF Inserted
<1>5. WellLinked'
  BY <1>2, <1>3, <1>4 DEF WellLinked, Distinct
<1>6. \A p \in Ptr : ent'[p].ifp = NULL => ent'[p] = Freed
  BY DEF Inserted, LinkInv
<1>7. LinkInv'
  BY <1>4, <1>5, <1>6 DEF LinkInv, Inserted
<1>8. ASSUME Held, UNCHANGED <<pc, ptr, prev>> PROVE Held'
  BY <1>1, <1>3, <1>4, <1>8 DEF Held
<1> QED
  BY <1>7, <1>8

\* An entry is unlinked and freed.
LEMMA UnlinkedStep ==
  ASSUME LinkInv, NEW n, Unlinked(n)
  PROVE  /\ LinkInv' /\ (Held /\ UNCHANGED <<pc, ptr, prev>> => Held')
         /\ ToSet(list') = ToSet(list) \ {list[n]}
<1>1. /\ Distinct(list) /\ ToSet(list) \subseteq Ptr \ Free
      /\ list \in Seq(Ptr) /\ n \in DOMAIN list /\ list[n] \in Ptr
      /\ n - 1 \in Nat /\ n \in Nat /\ n - 1 < n /\ n <= Len(list)
  BY LinkFacts DEF LinkInv, Unlinked
<1>2. Free' = Free \cup {list[n]}
  <2>1. /\ Free = {p \in Ptr : ent[p].ifp = NULL}
        /\ Free' = {p \in Ptr : ent'[p].ifp = NULL}
    BY FreeByIfp, FreeByIfpNext DEF LinkInv, Unlinked
  <2> QED
    BY <1>1, <2>1 DEF Unlinked, Freed
<1>3. /\ list' \in Seq(Ptr) /\ Distinct(list') /\ ToSet(list') = ToSet(list) \ {list[n]}
      /\ \A p, q : p # list[n] /\ q # list[n] /\ Precedes(list, p, q) => Precedes(list', p, q)
  BY <1>1, CutEntries, CutDistinct, CutOne DEF Unlinked
<1>4. WellLinked'
  BY <1>1, <1>2, <1>3 DEF WellLinked, Distinct
<1>5. LinkInv'
  BY <1>3, <1>4 DEF LinkInv, Unlinked
<1>6. ASSUME Held, UNCHANGED <<pc, ptr, prev>> PROVE Held'
  BY <1>2, <1>3, <1>6 DEF Held
<1> QED
  BY <1>3, <1>5, <1>6

-----------------------------------------------------------------------------
(***************************************************************************)
(* The operations and their shapes.                                        *)
(***************************************************************************)

\* Counts stay within their width.
LEMMA CountArith ==
  ASSUME NEW n \in Count
  PROVE  Incr(n) \in Count /\ Decr(n) \in Count
  BY IflistAssumption DEF Count, Incr, Decr

\* emfc_iflist_find() returns a linked entry of the interface.
LEMMA FindResult ==
  ASSUME LinkInv, NEW i \in Iface, find(i) # 0
  PROVE  /\ find(i) \in DOMAIN list
         /\ Found(i) = list[find(i)]
         /\ Found(i) \in Ptr
         /\ ent[Found(i)].ifp = i
<1> DEFINE S == {n \in DOMAIN list : ent[list[n]].ifp = i}
<1>1. S \in SUBSET (Nat \ {0})
  BY LinkFacts
<1>2. find(i) = First(S)
  BY DEF find
<1>3. find(i) \in S
  BY <1>1, <1>2, FirstOf
<1> QED
  BY <1>3, LinkFacts DEF Found

\* An entry is on the list at one position, and what is not linked has none.
LEMMA PlaceOf ==
  ASSUME LinkInv
  PROVE  /\ \A n \in DOMAIN list : place(list[n]) = n
         /\ \A p : p \notin ToSet(list) => place(p) = 0
<1>1. ASSUME NEW n \in DOMAIN list PROVE place(list[n]) = n
  <2> DEFINE S == {k \in DOMAIN list : list[k] = list[n]}
  <2>1. S = {n}
    BY LinkFacts DEF Distinct
  <2>2. S \in SUBSET (Nat \ {0})
    BY LinkFacts
  <2>3. First(S) \in S
    BY <2>1, <2>2, FirstOf
  <2> QED
    BY <2>1, <2>3 DEF place
<1>2. ASSUME NEW p, p \notin ToSet(list) PROVE place(p) = 0
  <2>1. {k \in DOMAIN list : list[k] = p} = {}
    BY <1>2 DEF ToSet
  <2> QED
    BY <2>1 DEF place, First
<1> QED
  BY <1>1, <1>2

\* emfc_iflist_del() with search and unlinking under one lock takes out the
\* entry that was found, and nothing else.
LEMMA UnlinkFound ==
  ASSUME LinkInv, NEW i \in Iface, find(i) # 0, NEW e \in [Ptr -> Entry],
         \A p \in Ptr : e[p].ifp = ent[p].ifp,
         \A p \in Ptr : e[p].ifp = NULL => e[p] = Freed,
         unlink(e, Found(i), Before(i))
  PROVE  Unlinked(find(i))
<1> DEFINE n == find(i)
<1>1. n \in DOMAIN list /\ Found(i) = list[n] /\ Found(i) \in Ptr
  BY FindResult
<1>2. Len(list) \in Nat /\ DOMAIN list = 1 .. Len(list) /\ n \in Nat /\ 1 <= n
  BY <1>1, LinkFacts
<1> HIDE DEF n
<1>3. place(Found(i)) = n
  BY <1>1, PlaceOf
<1>4. place(Before(i)) = n - 1
  <2>1. CASE n < 2
    <3>1. Before(i) = NULL /\ n - 1 = 0
      BY <1>2, <2>1 DEF Before, n
    <3>2. NULL \notin ToSet(list)
      BY LinkFacts, IflistAssumption
    <3> QED
      BY <3>1, <3>2, PlaceOf
  <2>2. CASE ~(n < 2)
    <3>1. n - 1 \in DOMAIN list
      BY <1>1, <1>2, <2>2
    <3>2. Before(i) = list[n - 1]
      BY <2>2 DEF Before, n
    <3> QED
      BY <3>1, <3>2, PlaceOf
  <2> QED
    BY <2>1, <2>2
<1>5. list' = Cut(list, n - 1, n)
  BY <1>3, <1>4 DEF unlink, Until, After, Cut
<1>6. ent' = [e EXCEPT ![Found(i)] = Freed]
  BY DEF unlink
<1>7. Freed \in Entry
  BY IflistAssumption DEF Freed, Entry, Count
<1> QED
  BY <1>1, <1>5, <1>6, <1>7 DEF Unlinked, n

\* emfc_rtport_add() and emfc_uffp_add() on an entry that is there.
LEMMA RefAddShape ==
  ASSUME LinkInv, NEW i \in Iface, NEW c \in {"uffp", "rtport"}, ref_add(i, c)
  PROVE  Counted
<1>1. CASE find(i) = 0
  BY <1>1 DEF ref_add, Counted, LinkInv
<1>2. CASE find(i) # 0
  <2>1. Found(i) \in Ptr /\ ent[Found(i)].ifp = i
    BY <1>2, FindResult
  <2>2. ent[Found(i)] \in Entry
    BY <2>1 DEF LinkInv
  <2>3. Incr(ent[Found(i)][c]) \in Count
    BY <2>2, CountArith DEF Entry
  <2>4. ent' = [ent EXCEPT ![Found(i)][c] = Incr(ent[Found(i)][c])] /\ list' = list
    BY <1>2 DEF ref_add
  <2>5. ent'[Found(i)] \in Entry /\ ent'[Found(i)].ifp = i
    BY <2>1, <2>2, <2>3, <2>4 DEF Entry, LinkInv
  <2>6. ent' \in [Ptr -> Entry] /\ \A p \in Ptr : p # Found(i) => ent'[p] = ent[p]
    BY <2>4, <2>5 DEF LinkInv
  <2> QED
    BY <2>1, <2>4, <2>5, <2>6, IflistAssumption DEF Counted, LinkInv
<1> QED
  BY <1>1, <1>2

\* emfc_rtport_del() and emfc_uffp_del() on an entry that has not been freed:
\* they count, or unlink the interface's own entry.
LEMMA RefDelShape ==
  ASSUME LinkInv, NEW i \in Iface, NEW c \in {"uffp", "rtport"}, NEW p \in Ptr \ Free,
         ref_del(p, i, c)
  PROVE  Counted \/ (find(i) # 0 /\ Unlinked(find(i)))
<1> DEFINE e == [ent EXCEPT ![p][c] = Decr(ent[p][c])]
<1>1. ent \in [Ptr -> Entry] /\ ent[p] \in Entry /\ ent[p].ifp # NULL
  BY FreeByIfp DEF LinkInv
<1>2. Decr(ent[p][c]) \in Count
  BY <1>1, CountArith DEF Entry
<1>3. e[p] \in Entry /\ e[p].ifp = ent[p].ifp
  BY <1>1, <1>2 DEF Entry
<1>4. e \in [Ptr -> Entry] /\ \A q \in Ptr : q # p => e[q] = ent[q]
  BY <1>1, <1>3
<1>5. /\ \A q \in Ptr : e[q].ifp = ent[q].ifp
      /\ \A q \in Ptr : e[q].ifp = NULL => e[q] = Freed
  BY <1>1, <1>3, <1>4 DEF LinkInv
<1>6. \/ find(i) # 0 /\ unlink(e, Found(i), Before(i))
      \/ ent' = e /\ list' = list
  BY DEF ref_del
<1> HIDE DEF e
<1>7. CASE find(i) # 0 /\ unlink(e, Found(i), Before(i))
  BY <1>4, <1>5, <1>7, UnlinkFound
<1>8. CASE ent' = e /\ list' = list
  BY <1>4, <1>5, <1>8 DEF Counted
<1> QED
  BY <1>6, <1>7, <1>8

\* A new entry.
LEMMA InsertShape ==
  ASSUME LinkInv, NEW h \in Fresh, NEW e \in Entry, e.ifp # NULL, insert(h, e)
  PROVE  Inserted(h)
  BY DEF LinkInv, insert, Inserted, Fresh, Free

-----------------------------------------------------------------------------
(***************************************************************************)
(* The steps.                                                              *)
(***************************************************************************)

\* What a step other than the unlinking of IF_DEL does to the list.  It frees
\* an entry only of a router that goes or of its own interface.
ListStep ==
  \/ Counted
  \/ \E h \in Ptr : Inserted(h)
  \/ \E n \in DOMAIN list :
       /\ Unlinked(n)
       /\ \/ ent[list[n]].ifp \in router /\ ent[list[n]].ifp \notin router'
          \/ pc = "ref_del" /\ ent[list[n]].ifp = cif

\* Every step is of this kind, or that unlinking.
LEMMA StepOnList ==
  ASSUME IflInv, ~fault, [IflNext]_vars,
         ~DelUnlink, pc # "del_unlink" \/ ~UseFreed
  PROVE  ListStep
<1>1. LinkInv /\ router \in SUBSET Iface
  BY DEF IflInv, IflistTypeOK
<1>2. ASSUME UNCHANGED <<list, ent>> PROVE Counted
  BY <1>1, <1>2 DEF Counted, LinkInv
<1>3. ASSUME NEW i \in Iface, NEW u \in {0}, NEW r \in {0, 1}, NEW h \in Fresh,
             insert(h, New(i, u, r))
      PROVE  ListStep
  <2>1. New(i, u, r) \in Entry /\ New(i, u, r).ifp # NULL
    BY IflistAssumption DEF New, Entry, Count
  <2>2. Inserted(h) /\ h \in Ptr
    BY <1>1, <1>3, <2>1, InsertShape DEF Fresh, Free
  <2> QED
    BY <2>2 DEF ListStep
<1>4. ASSUME NEW i \in Iface, Query(i) PROVE ListStep
  <2>1. CASE find(i) # 0
    BY <1>1, <1>4, <2>1, RefAddShape DEF Query, ListStep
  <2>2. CASE find(i) = 0
    BY <1>2, <1>3, <1>4, <2>2 DEF Query, ListStep
  <2> QED
    BY <2>1, <2>2
<1>5. ASSUME NEW i \in Iface, RtTimer(i) PROVE ListStep
  <2>1. CASE find(i) = 0
    BY <1>2, <1>5, <2>1 DEF RtTimer, ListStep
  <2>2. CASE find(i) # 0
    <3>1. /\ find(i) \in DOMAIN list /\ Found(i) = list[find(i)] /\ Found(i) \in Ptr
          /\ ent[Found(i)].ifp = i
      BY <1>1, <2>2, FindResult
    <3>2. Found(i) \in Ptr \ Free
      BY <1>1, <3>1, LinkFacts DEF ToSet
    <3>3. Counted \/ Unlinked(find(i))
      BY <1>1, <1>5, <2>2, <3>2, RefDelShape DEF RtTimer
    <3>4. i \in router /\ i \notin router'
      BY <1>5 DEF RtTimer
    <3> QED
      BY <3>1, <3>3, <3>4 DEF ListStep
  <2> QED
    BY <2>1, <2>2
<1>6. ASSUME NEW c \in Cmds, NEW i \in Iface, Begin(c, i) PROVE ListStep
  BY <1>2, <1>6 DEF Begin, ListStep
<1>7. CASE AddInsert
  <2>1. cif \in Iface
    BY <1>7 DEF AddInsert, At, IflInv
  <2> QED
    BY <1>2, <1>3, <1>7, <2>1 DEF AddInsert, ListStep
<1>8. CASE RefAdd
  <2>1. cif \in Iface /\ Counter(cmd) \in {"uffp", "rtport"}
    BY <1>8 DEF RefAdd, At, IflInv, Counter
  <2> QED
    BY <1>1, <1>8, <2>1, RefAddShape DEF RefAdd, ListStep
<1>9. CASE RefDel
  <2>1. cif \in Iface /\ Counter(cmd) \in {"uffp", "rtport"} /\ ptr \in Ptr \ Free
    BY <1>9 DEF RefDel, At, IflInv, Counter
  <2>2. Counted \/ (find(cif) # 0 /\ Unlinked(find(cif)))
    BY <1>1, <1>9, <2>1, RefDelShape DEF RefDel
  <2>3. find(cif) # 0 => /\ find(cif) \in DOMAIN list
                         /\ ent[list[find(cif)]].ifp = cif
    BY <1>1, <2>1, FindResult
  <2> QED
    BY <1>9, <2>2, <2>3 DEF RefDel, At, ListStep
<1>10. CASE AddFind \/ DelFind
  BY <1>2, <1>10 DEF AddFind, DelFind, ListStep
<1>11. CASE UNCHANGED vars
  BY <1>2, <1>11 DEF vars, ListStep
<1>12. CASE UseFreed
  <2>1. pc = "ref_del" /\ cif \in Iface /\ FreedRef
    BY <1>12 DEF UseFreed, FreedPrev, FreedPtr, FreedRef, At, IflInv
  <2>2. CASE UNCHANGED <<list, ent>>
    BY <1>2, <2>2 DEF ListStep
  <2>3. CASE find(cif) # 0 /\ unlink(ent, Found(cif), Before(cif))
    <3>1. /\ ent \in [Ptr -> Entry]
          /\ \A p \in Ptr : ent[p].ifp = NULL => ent[p] = Freed
      BY <1>1 DEF LinkInv
    <3>2. Unlinked(find(cif))
      BY <1>1, <2>1, <2>3, <3>1, UnlinkFound
    <3>3. find(cif) \in DOMAIN list /\ ent[list[find(cif)]].ifp = cif
      BY <1>1, <2>1, <2>3, FindResult
    <3> QED
      BY <2>1, <3>2, <3>3 DEF ListStep
  <2> QED
    BY <2>1, <2>2, <2>3 DEF FreedRef
<1> QED
  BY <1>4, <1>5, <1>6, <1>7, <1>8, <1>9, <1>10, <1>11, <1>12 DEF IflNext

\* IF_DEL unlinks with what it found before, unless that has been freed: the
\* entry goes, and what came between it and its former predecessor is lost,
\* but nothing freed stays linked.
LEMMA DelUnlinkStep ==
  ASSUME IflInv, ~fault, DelUnlink
  PROVE  LinkInv'
<1>1. LinkInv /\ Held /\ ptr \in Ptr
  BY DEF IflInv, DelUnlink, At
<1>2. /\ Distinct(list) /\ ToSet(list) \subseteq Ptr \ Free
      /\ Len(list) \in Nat /\ DOMAIN list = 1 .. Len(list) /\ list \in Seq(Ptr)
      /\ ent \in [Ptr -> Entry]
  BY <1>1, LinkFacts DEF LinkInv
<1>3. ptr \notin Free /\ prev \notin Free /\ pc = "del_unlink" /\ unlink(ent, ptr, prev)
  BY DEF DelUnlink, At
<1>4. PICK n \in DOMAIN list : list[n] = ptr
  BY <1>1, <1>3 DEF Held, ToSet
<1>5. place(ptr) = n
  BY <1>1, <1>4, PlaceOf
<1>6. PICK m \in Nat : m < n /\ place(prev) = m
  <2>1. CASE prev = NULL
    <3>1. prev \notin ToSet(list)
      BY <1>2, <2>1, IflistAssumption
    <3>2. place(prev) = 0 /\ 0 < n
      BY <1>1, <1>2, <3>1, PlaceOf
    <3> QED
      BY <3>2
  <2>2. CASE prev # NULL
    <3>1. PICK j, k \in DOMAIN list : j < k /\ list[j] = prev /\ list[k] = ptr
      BY <1>1, <1>3, <2>2 DEF Held, Precedes
    <3>2. place(prev) = j /\ k = n
      BY <1>1, <1>2, <1>4, <3>1, PlaceOf DEF Distinct
    <3> QED
      BY <1>2, <3>1, <3>2
  <2> QED
    BY <2>1, <2>2
<1>7. n \in Nat /\ n <= Len(list)
  BY <1>2
<1>8. list' = Cut(list, m, n)
  BY <1>3, <1>5, <1>6 DEF unlink, Until, After, Cut
<1>9. /\ list' \in Seq(Ptr) /\ Distinct(list')
      /\ ToSet(list') \subseteq ToSet(list) \ {ptr}
  BY <1>2, <1>4, <1>6, <1>7, <1>8, CutEntries, CutDistinct
<1>10. ent' = [ent EXCEPT ![ptr] = Freed] /\ Freed \in Entry
  BY <1>3, IflistAssumption DEF unlink, Freed, Entry, Count
<1>11. /\ ent' \in [Ptr -> Entry] /\ Free' = Free \cup {ptr}
       /\ \A p \in Ptr : ent'[p].ifp = NULL => ent'[p] = Freed
  BY <1>1, <1>2, <1>10 DEF Free, LinkInv
<1>12. WellLinked'
  BY <1>2, <1>9, <1>11 DEF WellLinked, Distinct
<1> QED
  BY <1>9, <1>11, <1>12 DEF LinkInv

\* The links after any step but the use of a freed entry by IF_DEL.
LEMMA LinkStep ==
  ASSUME IflInv, ~fault, [IflNext]_vars, pc # "del_unlink" \/ ~UseFreed
  PROVE  /\ LinkInv'
         /\ ~DelUnlink /\ UNCHANGED <<pc, ptr, prev>> => Held'
<1>1. LinkInv /\ Held
  BY DEF IflInv
<1>2. CASE DelUnlink
  BY <1>2, DelUnlinkStep
<1>3. CASE ~DelUnlink
  BY <1>1, <1>3, StepOnList, CountedStep, InsertedStep, UnlinkedStep DEF ListStep
<1> QED
  BY <1>2, <1>3

\* IF_DEL with a freed entry leaves a list all the same.
LEMMA SpoiledStep ==
  ASSUME IflInv, ~fault, UseFreed, pc = "del_unlink"
  PROVE  /\ list' \in Seq(Ptr) /\ ent' \in [Ptr -> Entry]
         /\ fault' /\ cmd' = "IF_DEL"
<1>1. /\ list \in Seq(Ptr) /\ ent \in [Ptr -> Entry] /\ LinkInv
      /\ cmd = "IF_DEL" /\ Freed \in Entry
  BY IflistAssumption DEF IflInv, LinkInv, Freed, Entry, Count
<1>2. CASE FreedPrev
  BY <1>1, <1>2 DEF FreedPrev, UseFreed, cfg
<1>3. CASE FreedPtr
  <2>1. PICK rest \in {<<>>} \cup {<<q>> : q \in Ptr}
                         \cup {SubSeq(list, n, Len(list)) : n \in DOMAIN list} :
          list' = Until(prev) \o rest
    BY <1>3 DEF FreedPtr
  <2>2. ASSUME NEW m \in Nat, NEW n \in Nat, 1 <= m, n <= Len(list)
        PROVE  SubSeq(list, m, n) \in Seq(Ptr)
    <3>1. \A k \in m .. n : list[k] \in Ptr
      BY <1>1, <2>2, LinkFacts
    <3> QED
      BY <3>1, SubSeqProperties
  <2>3. rest \in Seq(Ptr)
    <3>1. ASSUME NEW n \in DOMAIN list PROVE SubSeq(list, n, Len(list)) \in Seq(Ptr)
      BY <1>1, <2>2, LinkFacts
    <3>2. <<>> \in Seq(Ptr) /\ \A q \in Ptr : <<q>> \in Seq(Ptr)
      OBVIOUS
    <3> QED
      BY <3>1, <3>2
  <2>4. Until(prev) \in Seq(Ptr)
    <3>1. place(prev) \in Nat /\ place(prev) <= Len(list)
      <4>1. CASE prev \in ToSet(list)
        BY <1>1, <4>1, PlaceOf, LinkFacts DEF ToSet
      <4>2. CASE prev \notin ToSet(list)
        BY <1>1, <4>2, PlaceOf, LinkFacts
      <4> QED
        BY <4>1, <4>2
    <3> QED
      BY <2>2, <3>1 DEF Until
  <2>5. list' \in Seq(Ptr)
    BY <2>1, <2>3, <2>4, ConcatProperties
  <2> QED
    BY <1>1, <1>3, <2>5 DEF FreedPtr, UseFreed, cfg
<1> QED
  BY <1>2, <1>3 DEF UseFreed, FreedRef, At

\* Nothing happens after the use of a freed entry.
LEMMA FaultStops ==
  ASSUME fault, [IflNext]_vars
  PROVE  UNCHANGED vars
  BY DEF IflNext, Query, RtTimer, Begin, AddFind, AddInsert, RefAdd, DelFind, DelUnlink,
         RefDel, UseFreed, FreedPrev, FreedPtr, FreedRef, At

\* The rest of the types.
LEMMA IflTypeStep ==
  ASSUME IflInv, ~fault, [IflNext]_vars
  PROVE  /\ ports' \in SUBSET Iface /\ router' \in SUBSET Iface
         /\ ptr' \in Ptr \cup {NULL} /\ prev' \in Ptr \cup {NULL}
         /\ cif' \in Iface \cup {NULL}
         /\ fault' \in BOOLEAN
         /\ pc' # "idle" => cif' \in Iface
         /\ pc' \in {"del_unlink", "ref_del"} => ptr' \in Ptr
         /\ pc' = "del_unlink" => cmd' = "IF_DEL"
<1> USE DEF IflInv, IflistTypeOK
<1>1. ASSUME NEW i \in Iface, Query(i) \/ RtTimer(i)
      PROVE  router' \in SUBSET Iface /\ UNCHANGED <<ports, cfg, fault>>
  BY <1>1 DEF Query, RtTimer
<1>2. CASE \E i \in Iface : Query(i) \/ RtTimer(i)
  BY <1>1, <1>2 DEF cfg
<1>3. ASSUME NEW c \in Cmds, NEW i \in Iface, Begin(c, i)
      PROVE  /\ ports' \in SUBSET Iface /\ cif' \in Iface
             /\ pc' \notin {"del_unlink", "ref_del"}
             /\ UNCHANGED <<router, ptr, prev, fault>>
  BY <1>3 DEF Begin
<1>4. CASE \E c \in Cmds, i \in Iface : Begin(c, i)
  BY <1>3, <1>4
<1>5. CASE AddFind
  BY <1>5 DEF AddFind, At, Return, Continue
<1>6. CASE AddInsert
  BY <1>6 DEF AddInsert, At, Return, Continue
<1>7. CASE RefAdd \/ DelUnlink \/ RefDel
  BY <1>7 DEF RefAdd, DelUnlink, RefDel, Return
<1>8. CASE DelFind
  <2>1. cif \in Iface
    BY <1>8 DEF DelFind, At
  <2>2. CASE find(cif) = 0
    BY <1>8, <2>2 DEF DelFind, Return
  <2>3. CASE find(cif) # 0
    <3>1. Found(cif) \in Ptr /\ find(cif) \in DOMAIN list
      BY <2>1, <2>3, FindResult
    <3>2. Before(cif) \in Ptr \cup {NULL}
      BY <3>1, LinkFacts DEF Before
    <3> QED
      BY <1>8, <2>1, <2>3, <3>1, <3>2 DEF DelFind
  <2> QED
    BY <2>2, <2>3
<1>9. CASE UseFreed
  BY <1>9 DEF UseFreed, cfg
<1>10. CASE UNCHANGED vars
  BY <1>10 DEF vars
<1> QED
  BY <1>2, <1>4, <1>5, <1>6, <1>7, <1>8, <1>9, <1>10 DEF IflNext

\* IF_DEL keeps its hold from the search on.
LEMMA HeldStep ==
  ASSUME IflInv, ~fault, ~fault', [IflNext]_vars
  PROVE  Held'
<1>1. LinkInv /\ LinkInv' /\ ~UseFreed
  BY LinkStep DEF IflInv, UseFreed
<1>2. CASE pc' # "del_unlink"
  BY <1>2 DEF Held
<1>3. CASE DelFind /\ pc' = "del_unlink"
  <2>1. cif \in Iface /\ UNCHANGED <<list, ent>> /\ find(cif) # 0
    BY <1>3 DEF DelFind, At, Return, IflInv
  <2>2. ptr' = Found(cif) /\ prev' = Before(cif)
    BY <1>3, <2>1 DEF DelFind
  <2>3. find(cif) \in DOMAIN list /\ ptr' = list[find(cif)]
    BY <1>1, <2>1, <2>2, FindResult
  <2>4. ptr' \in ToSet(list)'
    BY <2>1, <2>3 DEF ToSet
  <2>5. prev' # NULL => Precedes(list, prev', ptr')
    <3>1. ASSUME prev' # NULL PROVE Precedes(list, prev', ptr')
      <4>1. ~(find(cif) < 2) /\ prev' = list[find(cif) - 1]
        BY <2>2, <3>1 DEF Before
      <4>2. find(cif) - 1 \in DOMAIN list /\ find(cif) - 1 < find(cif)
        BY <1>1, <2>3, <4>1, LinkFacts
      <4> QED
        BY <2>3, <4>1, <4>2 DEF Precedes
    <3> QED
      BY <3>1
  <2> QED
    BY <2>1, <2>4, <2>5 DEF Held
<1>4. CASE pc' = "del_unlink" /\ ~DelFind
  <2>1. ~DelUnlink /\ UNCHANGED <<pc, ptr, prev>>
    BY <1>1, <1>4 DEF IflNext, vars, cfg, Query, RtTimer, Begin, AddFind, AddInsert, RefAdd,
                DelUnlink, RefDel, Return, Continue
  <2> QED
    BY <1>1, <2>1, LinkStep
<1> QED
  BY <1>2, <1>3, <1>4

\* The invariant.
LEMMA IflInvariance == IflSpec => []IflInv
<1>1. IflInit => IflInv
  <2> SUFFICES ASSUME IflInit PROVE IflInv
    OBVIOUS
  <2>1. Freed \in Entry
    BY IflistAssumption DEF Freed, Entry, Count
  <2>2. list \in Seq(Ptr) /\ DOMAIN list = {} /\ ToSet(list) = {}
    BY DEF IflInit, ToSet
  <2>3. LinkInv
    BY <2>1, <2>2 DEF IflInit, LinkInv, WellLinked
  <2>4. IflistTypeOK
    BY <2>3 DEF IflInit, IflistTypeOK, LinkInv, Entry
  <2> QED
    BY <2>3, <2>4 DEF IflInit, IflInv, Held, LinkInv, OnlyIfDelSpoils
<1>2. IflInv /\ [IflNext]_vars => IflInv'
  <2> SUFFICES ASSUME IflInv, [IflNext]_vars PROVE IflInv'
    OBVIOUS
  <2>1. CASE fault
    <3>1. UNCHANGED vars
      BY <2>1, FaultStops
    <3> QED
      BY <2>1, <3>1 DEF vars, IflInv, IflistTypeOK, OnlyIfDelSpoils, WellLinked, Free
  <2>2. CASE ~fault /\ UseFreed /\ pc = "del_unlink"
    <3>1. IflistTypeOK'
      BY <2>2, SpoiledStep, IflTypeStep DEF IflistTypeOK, Entry
    <3> QED
      BY <2>2, <3>1, SpoiledStep, IflTypeStep DEF IflInv, OnlyIfDelSpoils
  <2>3. CASE ~fault /\ (pc # "del_unlink" \/ ~UseFreed)
    <3>1. LinkInv' /\ (~fault' => Held')
      BY <2>3, LinkStep, HeldStep
    <3>2. IflistTypeOK'
      BY <2>3, <3>1, IflTypeStep DEF IflistTypeOK, LinkInv, Entry
    <3>3. OnlyIfDelSpoils'
      BY <3>1 DEF LinkInv, OnlyIfDelSpoils
    <3> QED
      BY <2>3, <3>1, <3>2, <3>3, IflTypeStep DEF IflInv
  <2> QED
    BY <2>1, <2>2, <2>3
<1> QED
  BY <1>1, <1>2, PTL DEF IflSpec

\* Types of the list, of its entries and of what a command holds.
THEOREM IflistTypeCorrect == IflSpec => []IflistTypeOK
<1>1. IflInv => IflistTypeOK
  BY DEF IflInv
<1> QED
  BY <1>1, IflInvariance, PTL

\* Whatever softirqs run between the locks of a command, the list that
\* emfc_unreg_frame_handle() walks holds no freed entry and has an end, for
\* any number of interfaces, duplicates and lost entries, until an IF_DEL uses
\* an entry freed since its search.
THEOREM ListCorrect == IflSpec => []OnlyIfDelSpoils
<1>1. IflInv => OnlyIfDelSpoils
  BY DEF IflInv
<1> QED
  BY <1>1, IflInvariance, PTL

\* Only IF_DEL loses entries: whatever else goes off the list is freed, and is
\* an entry of the interface the step is about.
THEOREM UnlinkCorrect == IflSpec => UnlinkFreesOwn
<1>1. ASSUME IflInv, [IflNext]_vars, pc # "del_unlink", NEW p \in ToSet(list),
             p \notin ToSet(list')
      PROVE  /\ ent'[p] = Freed
             /\ \/ ent[p].ifp \in router /\ ent[p].ifp \notin router'
                \/ pc = "ref_del" /\ ent[p].ifp = cif
  <2>1. ~fault
    <3>1. list' # list
      BY <1>1
    <3> QED
      BY <1>1, <3>1, FaultStops DEF vars
  <2>2. LinkInv /\ ListStep
    BY <1>1, <2>1, StepOnList DEF DelUnlink, At, IflInv
  <2>3. ~Counted
    BY <1>1 DEF Counted
  <2>4. ASSUME NEW h \in Ptr, Inserted(h) PROVE FALSE
    <3>1. h \in Free /\ Distinct(list) /\ ToSet(list) \cap Free = {} /\ list \in Seq(Ptr)
      BY <2>2, <2>4, LinkFacts DEF Inserted, Fresh, LinkInv
    <3>2. ToSet(list') = ToSet(list) \cup {h}
      BY <2>4, <3>1, NewHead DEF Inserted
    <3> QED
      BY <1>1, <3>2
  <2>5. PICK n \in DOMAIN list :
          /\ Unlinked(n)
          /\ \/ ent[list[n]].ifp \in router /\ ent[list[n]].ifp \notin router'
             \/ pc = "ref_del" /\ ent[list[n]].ifp = cif
    BY <2>2, <2>3, <2>4 DEF ListStep
  <2>6. p = list[n]
    BY <1>1, <2>2, <2>5, UnlinkedStep
  <2> QED
    BY <2>5, <2>6 DEF Unlinked
<1>2. IflInv /\ [IflNext]_vars =>
        [pc # "del_unlink" =>
           \A p \in ToSet(list) : p \notin ToSet(list') =>
             /\ ent'[p] = Freed
             /\ \/ ent[p].ifp \in router /\ ent[p].ifp \notin router'
                \/ pc = "ref_del" /\ ent[p].ifp = cif]_vars
  BY <1>1
<1> QED
  BY <1>2, IflInvariance, PTL DEF IflSpec, UnlinkFreesOwn
=============================================================================
