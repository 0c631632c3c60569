-------------------------- MODULE Instances_proofs --------------------------
(***************************************************************************)
(* Proofs about the instances, for any number of bridges, devices and      *)
(* addresses, any limit, any order of commands and whatever fails.         *)
(***************************************************************************)
EXTENDS Instances, FiniteSetTheorems, TLAPS

-----------------------------------------------------------------------------
(***************************************************************************)
(* Lemmas on the operators.                                                *)
(***************************************************************************)

\* A search returns one of those looked for, which is on the list.
LEMMA FirstHit ==
  ASSUME NEW list, NEW hits, First(list, hits) # NULL
  PROVE  First(list, hits) \in hits /\ First(list, hits) \in Listed(list)
<1>1. \E p \in hits : Leads(p, list, hits)
  BY DEF First
<1>2. First(list, hits) = CHOOSE p \in hits : Leads(p, list, hits)
  BY <1>1 DEF First
<1>3. First(list, hits) \in hits /\ Leads(First(list, hits), list, hits)
  BY <1>1, <1>2
<1> QED
  BY <1>3 DEF Leads, Listed

\* The searches by bridge return live instances.
LEMMA Finds ==
  ASSUME NEW b
  PROVE  /\ EmfOf(b) # NULL => EmfOf(b) \in Live(emf) /\ EmfOf(b) \in Listed(emf_list)
         /\ emfc_instance_find(b) # NULL => emfc_instance_find(b) \in Live(emf)
         /\ igs_instance_find(b) # NULL =>
              igs_instance_find(b) \in Live(igs) /\ igs_instance_find(b) \in Listed(igs_list)
<1>1. EmfOf(b) # NULL => EmfOf(b) \in Live(emf) /\ EmfOf(b) \in Listed(emf_list)
  BY FirstHit DEF EmfOf
<1>2. emfc_instance_find(b) # NULL => emfc_instance_find(b) \in Live(emf)
  BY FirstHit DEF emfc_instance_find
<1>3. igs_instance_find(b) # NULL =>
        igs_instance_find(b) \in Live(igs) /\ igs_instance_find(b) \in Listed(igs_list)
  BY FirstHit DEF igs_instance_find
<1> QED
  BY <1>1, <1>2, <1>3

\* A new entry at the head of a list.
LEMMA Pushed ==
  ASSUME NEW S, NEW list \in Seq(S), NEW p \in S, Distinct(list), p \notin Listed(list)
  PROVE  /\ <<p>> \o list \in Seq(S)
         /\ Distinct(<<p>> \o list)
         /\ Listed(<<p>> \o list) = Listed(list) \cup {p}
<1> DEFINE new == <<p>> \o list
<1>1. new \in Seq(S) /\ Len(new) = Len(list) + 1 /\ DOMAIN new = 1..(Len(list) + 1)
  OBVIOUS
<1>2. new[1] = p
  OBVIOUS
<1>3. \A i \in 1..Len(list) : new[i + 1] = list[i]
  OBVIOUS
<1>4. \A i \in 2..(Len(list) + 1) : i - 1 \in 1..Len(list) /\ new[i] = list[i - 1]
  <2> TAKE i \in 2..(Len(list) + 1)
  <2>1. i - 1 \in 1..Len(list) /\ (i - 1) + 1 = i
    OBVIOUS
  <2> QED
    BY <1>3, <2>1
<1>5. DOMAIN list = 1..Len(list) /\ Len(list) \in Nat
  OBVIOUS
<1> HIDE DEF new
<1>6. Distinct(new)
  <2> SUFFICES ASSUME NEW i \in 1..(Len(list) + 1), NEW j \in 1..(Len(list) + 1),
                      new[i] = new[j]
               PROVE  i = j
    BY <1>1 DEF Distinct
  <2>1. CASE i = 1 /\ j # 1
    BY <1>2, <1>4, <1>5, <2>1 DEF Listed
  <2>2. CASE i # 1 /\ j = 1
    BY <1>2, <1>4, <1>5, <2>2 DEF Listed
  <2>3. CASE i # 1 /\ j # 1
    <3>1. i - 1 \in DOMAIN list /\ j - 1 \in DOMAIN list /\ list[i - 1] = list[j - 1]
      BY <1>4, <1>5, <2>3
    <3>2. i - 1 = j - 1
      BY <3>1 DEF Distinct
    <3> QED
      BY <3>2
  <2> QED
    BY <2>1, <2>2, <2>3
<1>7. Listed(new) = Listed(list) \cup {p}
  <2>1. ASSUME NEW i \in DOMAIN new PROVE new[i] \in Listed(list) \cup {p}
    <3>1. CASE i = 1
      BY <1>2, <3>1
    <3>2. CASE i # 1
      <4>1. i - 1 \in DOMAIN list /\ new[i] = list[i - 1]
        BY <1>1, <1>4, <1>5, <2>1, <3>2
      <4> QED
        BY <4>1 DEF Listed
    <3> QED
      BY <3>1, <3>2
  <2>2. ASSUME NEW i \in DOMAIN list PROVE list[i] \in Listed(new)
    <3>1. i + 1 \in DOMAIN new /\ new[i + 1] = list[i]
      BY <1>1, <1>3, <1>5
    <3> QED
      BY <3>1 DEF Listed
  <2>3. p \in Listed(new)
    BY <1>1, <1>2, <1>5 DEF Listed
  <2> QED
    BY <2>1, <2>2, <2>3 DEF Listed
<1> QED
  BY <1>1, <1>6, <1>7 DEF new

\* An entry taken off a list that holds it once is not on it any more, and
\* nothing else is lost.
LEMMA Removed ==
  ASSUME NEW S, NEW list \in Seq(S), NEW p \in Listed(list), Distinct(list)
  PROVE  /\ Without(list, p) \in Seq(S)
         /\ Distinct(Without(list, p))
         /\ Listed(Without(list, p)) = Listed(list) \ {p}
<1> DEFINE k == CHOOSE i \in DOMAIN list : list[i] = p
           new == Without(list, p)
           n == Len(list)
<1>1. k \in DOMAIN list /\ list[k] = p
  BY DEF Listed
<1>2. n \in Nat /\ DOMAIN list = 1..n /\ k \in 1..n /\ \A i \in 1..n : list[i] \in S
  BY <1>1
<1>3. new = [j \in 1..(n - 1) |-> IF j < k THEN list[j] ELSE list[j + 1]]
  BY DEF Without
<1> HIDE DEF k, new, n
<1>4. DOMAIN new = 1..(n - 1) /\ \A j \in 1..(n - 1) : new[j] = IF j < k THEN list[j] ELSE list[j + 1]
  BY <1>3
<1>5. new \in Seq(S)
  <2>1. n - 1 \in Nat
    BY <1>2
  <2>2. \A j \in 1..(n - 1) : new[j] \in S
    BY <1>2, <1>4
  <2> QED
    BY <1>3, <2>1, <2>2
<1>6. \A i \in 1..n : list[i] = p => i = k
  BY <1>1, <1>2 DEF Distinct
<1>7. Distinct(new)
  <2> SUFFICES ASSUME NEW i \in 1..(n - 1), NEW j \in 1..(n - 1), new[i] = new[j]
               PROVE  i = j
    BY <1>4 DEF Distinct
  <2>1. \A a, b \in 1..n : list[a] = list[b] => a = b
    BY <1>2 DEF Distinct
  <2> QED
    BY <1>2, <1>4, <2>1
<1>8. ASSUME NEW j \in DOMAIN new PROVE new[j] \in Listed(list) \ {p}
  BY <1>2, <1>4, <1>6 DEF Listed
<1>9. ASSUME NEW i \in DOMAIN list, list[i] # p PROVE list[i] \in Listed(new)
  <2>1. CASE i < k
    BY <1>2, <1>4, <2>1 DEF Listed
  <2>2. CASE i > k
    <3>1. i - 1 \in DOMAIN new /\ new[i - 1] = list[i]
      BY <1>2, <1>4, <2>2
    <3> QED
      BY <3>1 DEF Listed
  <2> QED
    BY <1>1, <1>2, <1>9, <2>1, <2>2
<1>10. Listed(new) = Listed(list) \ {p}
  BY <1>8, <1>9 DEF Listed
<1> QED
  BY <1>5, <1>7, <1>10 DEF new

\* The unlinking of an instance leaves a list of live entries without it, though
\* perhaps an empty one.
LEMMA UnlinkedFacts ==
  ASSUME NEW S, NEW list \in Seq(S), NEW p \in Listed(list), Distinct(list)
  PROVE  /\ Unlinked(list, p) \in Seq(S)
         /\ Distinct(Unlinked(list, p))
         /\ Listed(Unlinked(list, p)) \subseteq Listed(list) \ {p}
<1>1. <<>> \in Seq(S) /\ Distinct(<<>>) /\ Listed(<<>>) = {}
  <2>1. <<>> \in Seq(S) /\ \A i \in DOMAIN <<>> : FALSE
    OBVIOUS
  <2>2. Listed(<<>>) = {}
    BY <2>1, Zenon DEF Listed
  <2> QED
    BY <2>1, <2>2, Zenon DEF Distinct
<1>2. /\ Without(list, p) \in Seq(S)
      /\ Distinct(Without(list, p))
      /\ Listed(Without(list, p)) = Listed(list) \ {p}
  BY Removed
<1>3. CASE Unlinked(list, p) = <<>>
  BY <1>1, <1>3, Zenon
<1>4. CASE Unlinked(list, p) = Without(list, p)
  BY <1>2, <1>4, Zenon
<1> QED
  BY <1>3, <1>4, Zenon DEF Unlinked

-----------------------------------------------------------------------------
(***************************************************************************)
(* Each action keeps the invariant.                                        *)
(***************************************************************************)

\* The instances are records of their types.
LEMMA LiveTyped ==
  ASSUME InstTypeOK
  PROVE  /\ Live(emf) \subseteq EmfPtr /\ \A p \in Live(emf) : emf[p] \in EmfInst
         /\ Live(igs) \subseteq IgsPtr /\ \A q \in Live(igs) : igs[q] \in IgsInst
  BY DEF InstTypeOK, Live

\* A field of an EMF instance that is set leaves the others.
LEMMA EmfSet ==
  ASSUME InstTypeOK, NEW p \in Live(emf), NEW e \in BOOLEAN, NEW q \in IgsPtr \cup {NULL},
         \/ emf' = [emf EXCEPT ![p].enable = e] /\ q = emf[p].snooper
         \/ emf' = [emf EXCEPT ![p].snooper = q] /\ e = emf[p].enable
  PROVE  /\ emf' \in [EmfPtr -> EmfInst \cup {NULL}] /\ Live(emf)' = Live(emf)
         /\ emf'[p].enable = e /\ emf'[p].snooper = q
         /\ \A x \in EmfPtr : x # p => emf'[x] = emf[x]
<1> USE InstAssumption
<1>1. p \in EmfPtr /\ emf[p] \in EmfInst
  BY LiveTyped
<1>2. emf \in [EmfPtr -> EmfInst \cup {NULL}]
  BY DEF InstTypeOK
<1>3. /\ emf'[p] \in EmfInst /\ emf'[p].enable = e /\ emf'[p].snooper = q
      /\ \A x \in EmfPtr : x # p => emf'[x] = emf[x]
      /\ DOMAIN emf' = EmfPtr
  BY <1>1, <1>2 DEF EmfInst
<1>4. emf' = [x \in EmfPtr |-> emf'[x]]
  BY <1>2
<1>5. emf' \in [EmfPtr -> EmfInst \cup {NULL}]
  BY <1>2, <1>3, <1>4
<1>6. Live(emf)' = Live(emf)
  BY <1>1, <1>2, <1>3 DEF Live
<1> QED
  BY <1>3, <1>5, <1>6

\* A field of an IGS instance that is set leaves the others.
LEMMA IgsSet ==
  ASSUME InstTypeOK, NEW q \in Live(igs), NEW r \in BOOLEAN, NEW e \in BOOLEAN,
         \/ igs' = [igs EXCEPT ![q].ready = r] /\ e = igs[q].entries
         \/ igs' = [igs EXCEPT ![q].entries = e] /\ r = igs[q].ready
  PROVE  /\ igs' \in [IgsPtr -> IgsInst \cup {NULL}] /\ Live(igs)' = Live(igs)
         /\ igs'[q].handle = igs[q].handle /\ igs'[q].ready = r
         /\ \A x \in IgsPtr : x # q => igs'[x] = igs[x]
<1> USE InstAssumption
<1>1. q \in IgsPtr /\ igs[q] \in IgsInst
  BY LiveTyped
<1>2. igs \in [IgsPtr -> IgsInst \cup {NULL}]
  BY DEF InstTypeOK
<1>3. /\ igs'[q] \in IgsInst /\ igs'[q].handle = igs[q].handle /\ igs'[q].ready = r
      /\ \A x \in IgsPtr : x # q => igs'[x] = igs[x]
      /\ DOMAIN igs' = IgsPtr
  BY <1>1, <1>2 DEF IgsInst
<1>4. igs' = [x \in IgsPtr |-> igs'[x]]
  BY <1>2
<1>5. igs' \in [IgsPtr -> IgsInst \cup {NULL}]
  BY <1>2, <1>3, <1>4
<1>6. Live(igs)' = Live(igs)
  BY <1>1, <1>2, <1>3 DEF Live
<1> QED
  BY <1>3, <1>5, <1>6

\* A step that frees and creates nothing keeps the lists and the count.
LEMMA KeptLists ==
  ASSUME InstInv, UNCHANGED <<emf_list, emfc_list, emf_count>>, Live(emf)' = Live(emf)
  PROVE  /\ IsFiniteSet(Live(emf))' /\ CountCovers'
         /\ UNCHANGED igs_list /\ Live(igs)' = Live(igs) => ListsLive'
<1>1. IsFiniteSet(Live(emf))' /\ CountCovers'
  BY DEF InstInv, CountCovers
<1>2. /\ Listed(emf_list)' = Listed(emf_list) /\ Distinct(emf_list)' = Distinct(emf_list)
      /\ Listed(emfc_list)' = Listed(emfc_list) /\ Distinct(emfc_list)' = Distinct(emfc_list)
  BY DEF Listed, Distinct
<1>3. ASSUME UNCHANGED igs_list, Live(igs)' = Live(igs) PROVE ListsLive'
  <2>1. Listed(igs_list)' = Listed(igs_list) /\ Distinct(igs_list)' = Distinct(igs_list)
    BY <1>3 DEF Listed, Distinct
  <2> QED
    BY <1>2, <1>3, <2>1 DEF InstInv, ListsLive
<1> QED
  BY <1>1, <1>3

\* BR_ADD of EMF.
LEMMA EmfBrAddInv ==
  ASSUME InstInv, NEW b \in Bridge, EmfBrAdd(b)
  PROVE  InstInv'
<1> USE InstAssumption DEF InstInv
<1>1. CASE UNCHANGED <<emf, emf_list, emfc_list>>
  <2>1. InstTypeOK'
    BY <1>1 DEF EmfBrAdd, InstTypeOK, gvars
  <2>2. ListsLive' /\ Registered' /\ StartingAlone' /\ Ordered' /\ IsFiniteSet(Live(emf))'
    BY <1>1 DEF EmfBrAdd, gvars, ListsLive, Registered, StartingAlone, Ordered, Live, Listed, Distinct
  <2>3. Live(emf)' = Live(emf) /\ Cardinality(Live(emf)) \in Nat
    BY <1>1, FS_CardinalityType DEF Live
  <2>4. CountCovers'
    BY <2>3 DEF EmfBrAdd, EmfRoom, CountCovers, InstTypeOK
  <2> QED
    BY <2>1, <2>2, <2>4
<1>2. ASSUME NEW p \in EmfPtr, emf[p] = NULL,
             emf' = [emf EXCEPT ![p] = [br |-> b, dev |-> dev[b], enable |-> FALSE,
                                        snooper |-> NULL]],
             emf_list' = <<p>> \o emf_list,
             emfc_list' = <<p>> \o emfc_list
      PROVE  InstInv'
  <2> DEFINE v == [br |-> b, dev |-> dev[b], enable |-> FALSE, snooper |-> NULL]
  <2>1. v \in EmfInst /\ v # NULL
    <3>1. dev[b] \in Dev
      BY DEF InstTypeOK
    <3>2. v \in EmfInst
      BY <3>1 DEF EmfInst
    <3> QED
      BY <3>2
  <2>2. /\ emf' \in [EmfPtr -> EmfInst \cup {NULL}] /\ emf'[p] = v
        /\ \A x \in EmfPtr : x # p => emf'[x] = emf[x]
    BY <1>2, <2>1 DEF InstTypeOK
  <2>3. Live(emf)' = Live(emf) \cup {p} /\ p \notin Live(emf)
    BY <1>2, <2>1, <2>2 DEF Live, InstTypeOK
  <2>4. UNCHANGED <<dev, hooks_reg, igs, igs_list, igs_count, starting, misuse, fault>>
        /\ emf_count' = emf_count + 1 /\ emf_count <= EMF_MAX_INST
    BY DEF EmfBrAdd, gvars, EmfRoom
  <2>5. /\ emf_list' \in Seq(EmfPtr) /\ Distinct(emf_list)'
        /\ Listed(emf_list)' = Listed(emf_list) \cup {p}
    BY <1>2, <2>3, Pushed DEF ListsLive, InstTypeOK
  <2>6. /\ emfc_list' \in Seq(EmfPtr) /\ Distinct(emfc_list)'
        /\ Listed(emfc_list)' = Listed(emfc_list) \cup {p}
    BY <1>2, <2>3, Pushed DEF ListsLive, InstTypeOK
  <2>7. InstTypeOK'
    BY <2>2, <2>4, <2>5, <2>6 DEF InstTypeOK
  <2>8. ListsLive'
    <3>1. /\ Live(igs)' = Live(igs) /\ Listed(igs_list)' = Listed(igs_list)
          /\ Distinct(igs_list)' = Distinct(igs_list)
      BY <2>4 DEF Live, Listed, Distinct
    <3> QED
      BY <2>3, <2>5, <2>6, <3>1 DEF ListsLive
  <2>9. Registered'
    BY <2>2, <2>3, <2>4 DEF Registered, Live, InstTypeOK
  <2>10. StartingAlone'
    BY <2>4 DEF StartingAlone, Live, Listed
  <2>11. Ordered'
    <3>1. Live(emf) \subseteq EmfPtr /\ Live(igs)' = Live(igs) /\ igs' = igs
      BY <2>4 DEF Live, InstTypeOK
    <3> SUFFICES ASSUME ~misuse
                 PROVE  /\ fault = "none"
                        /\ \A q \in Live(igs) : igs[q].handle \in Live(emf)'
                        /\ \A x \in Live(emf)' :
                             emf'[x].enable /\ emf'[x].snooper # NULL
                               => igs[emf'[x].snooper].ready
      BY <2>4, <3>1 DEF Ordered
    <3>2. /\ fault = "none" /\ \A q \in Live(igs) : igs[q].handle \in Live(emf)
          /\ \A x \in Live(emf) :
               emf[x].enable /\ emf[x].snooper # NULL => igs[emf[x].snooper].ready
      BY DEF Ordered
    <3> QED
      BY <2>2, <2>3, <3>1, <3>2
  <2>12. IsFiniteSet(Live(emf))' /\ CountCovers'
    <3>1. IsFiniteSet(Live(emf)) /\ Cardinality(Live(emf)) \in Nat
      BY FS_CardinalityType
    <3>2. /\ IsFiniteSet(Live(emf) \cup {p})
          /\ Cardinality(Live(emf) \cup {p}) = Cardinality(Live(emf)) + 1
      BY <2>3, <3>1, FS_AddElement
    <3>3. IsFiniteSet(Live(emf)') /\ Cardinality(Live(emf)') = Cardinality(Live(emf)) + 1
      BY <2>3, <3>2
    <3> QED
      BY <2>4, <3>1, <3>3 DEF CountCovers, InstTypeOK
  <2> QED
    BY <2>7, <2>8, <2>9, <2>10, <2>11, <2>12
<1> QED
  BY <1>1, <1>2 DEF EmfBrAdd

\* BR_DEL of EMF: the handles that dangle from here on are marked as misuse.
LEMMA EmfBrDelInv ==
  ASSUME InstInv, NEW b \in Bridge, EmfBrDel(b)
  PROVE  InstInv'
<1> USE InstAssumption DEF InstInv
<1> DEFINE p == EmfOf(b)
<1>1. p \in Live(emf) /\ p \in Listed(emf_list) /\ p \in Listed(emfc_list) /\ p \in EmfPtr
  BY Finds, LiveTyped DEF EmfBrDel, ListsLive
<1>2. /\ emf_list' = Unlinked(emf_list, p) /\ emfc_list' = Without(emfc_list, p)
      /\ emf_count' = emf_count - 1 /\ emf' = [emf EXCEPT ![p] = NULL]
      /\ hooks_reg' = hooks_unregister(hooks_unregister(hooks_reg))
      /\ misuse' = (misuse \/ Held(p))
      /\ UNCHANGED <<dev, igs, igs_list, igs_count, starting, fault>>
  BY DEF EmfBrDel, gvars
<1> HIDE DEF p
<1>3. /\ emf' \in [EmfPtr -> EmfInst \cup {NULL}] /\ emf'[p] = NULL
      /\ \A x \in EmfPtr : x # p => emf'[x] = emf[x]
  BY <1>1, <1>2 DEF InstTypeOK
<1>4. Live(emf)' = Live(emf) \ {p} /\ Live(igs)' = Live(igs) /\ Live(emf) \subseteq EmfPtr
  BY <1>1, <1>2, <1>3 DEF Live, InstTypeOK
<1>5. /\ emf_list' \in Seq(EmfPtr) /\ Distinct(emf_list)'
      /\ Listed(emf_list)' \subseteq Listed(emf_list) \ {p}
  BY <1>1, <1>2, UnlinkedFacts DEF ListsLive, InstTypeOK
<1>6. /\ emfc_list' \in Seq(EmfPtr) /\ Distinct(emfc_list)'
      /\ Listed(emfc_list)' = Listed(emfc_list) \ {p}
  BY <1>1, <1>2, Removed DEF ListsLive, InstTypeOK
<1>7. IsFiniteSet(Live(emf))' /\ CountCovers' /\ emf_count' \in Nat
  <2>1. IsFiniteSet(Live(emf)) /\ Cardinality(Live(emf)) \in Nat
    BY FS_CardinalityType
  <2>2. /\ IsFiniteSet(Live(emf) \ {p})
        /\ Cardinality(Live(emf) \ {p}) = Cardinality(Live(emf)) - 1
    BY <1>1, <2>1, FS_RemoveElement
  <2>3. Cardinality(Live(emf) \ {p}) \in Nat
    BY <2>2, FS_CardinalityType
  <2>4. IsFiniteSet(Live(emf)') /\ Cardinality(Live(emf)') = Cardinality(Live(emf)) - 1
    BY <1>4, <2>2
  <2> QED
    BY <1>2, <2>1, <2>2, <2>3, <2>4 DEF CountCovers, InstTypeOK
<1>8. InstTypeOK'
  <2>1. hooks_reg' \in {0, 1} /\ misuse' \in BOOLEAN
    BY <1>2 DEF hooks_unregister, InstTypeOK
  <2> QED
    BY <1>2, <1>3, <1>5, <1>6, <1>7, <2>1 DEF InstTypeOK
<1>9. ListsLive'
  <2>1. Listed(igs_list)' = Listed(igs_list) /\ Distinct(igs_list)' = Distinct(igs_list)
    BY <1>2 DEF Listed, Distinct
  <2> QED
    BY <1>4, <1>5, <1>6, <2>1 DEF ListsLive
<1>10. Registered'
  BY <1>2, <1>3, <1>4 DEF Registered
<1>11. StartingAlone'
  BY <1>2, <1>4 DEF StartingAlone, Listed
<1>12. Ordered'
  <2>1. ASSUME ~misuse' PROVE ~misuse /\ \A q \in Live(igs) : igs[q].handle # p
    BY <1>2, <2>1, LiveTyped DEF Held, Live
  <2> QED
    BY <1>2, <1>3, <1>4, <2>1 DEF Ordered
<1> QED
  BY <1>7, <1>8, <1>9, <1>10, <1>11, <1>12

\* EMF_ENABLE TRUE.
LEMMA EmfEnableInv ==
  ASSUME InstInv, NEW b \in Bridge, EmfEnable(b)
  PROVE  InstInv'
<1> USE InstAssumption DEF InstInv
<1> DEFINE p == EmfOf(b)
<1>1. p \in Live(emf) /\ p \in EmfPtr
  BY Finds, LiveTyped DEF EmfEnable
<1>2. /\ emf' = [emf EXCEPT ![p].enable = TRUE] /\ hooks_reg' \in {0, 1} /\ starting = NULL
      /\ UNCHANGED <<dev, emf_list, emfc_list, emf_count, igs, igs_list, igs_count, starting,
                     misuse, fault>>
  BY DEF EmfEnable, Idle, gvars, hooks_register, InstTypeOK
<1> HIDE DEF p
<1>3. emf[p].snooper \in IgsPtr \cup {NULL}
  BY <1>1, LiveTyped DEF EmfInst
<1>4. /\ emf' \in [EmfPtr -> EmfInst \cup {NULL}] /\ Live(emf)' = Live(emf)
      /\ emf'[p].snooper = emf[p].snooper
      /\ \A x \in EmfPtr : x # p => emf'[x] = emf[x]
  BY <1>1, <1>2, <1>3, EmfSet
<1>5. Live(igs)' = Live(igs) /\ Live(emf) \subseteq EmfPtr /\ Live(igs) \subseteq IgsPtr
  BY <1>2, LiveTyped DEF Live
<1>6. InstTypeOK'
  BY <1>2, <1>4 DEF InstTypeOK
<1>7. Registered'
  BY <1>2, <1>4, <1>5 DEF Registered
<1>8. StartingAlone'
  BY <1>2, <1>5 DEF StartingAlone, Listed
<1>9. Ordered'
  <2>1. \A q \in Live(igs) : igs[q].ready
    BY <1>2, <1>5 DEF StartingAlone
  <2>2. \A x \in Live(emf)' : emf'[x].snooper # NULL => igs'[emf'[x].snooper].ready
    BY <1>2, <1>5, <1>7, <2>1 DEF Registered
  <2> QED
    BY <1>2, <1>4, <1>5, <2>2 DEF Ordered
<1> QED
  BY <1>2, <1>4, <1>5, <1>6, <1>7, <1>8, <1>9, KeptLists

\* EMF_ENABLE FALSE.
LEMMA EmfDisableInv ==
  ASSUME InstInv, NEW b \in Bridge, EmfDisable(b)
  PROVE  InstInv'
<1> USE InstAssumption DEF InstInv
<1> DEFINE p == EmfOf(b)
           s == emf[p].snooper
<1>1. p \in Live(emf) /\ p \in EmfPtr
  BY Finds, LiveTyped DEF EmfDisable
<1>2. /\ emf' = [emf EXCEPT ![p].enable = FALSE] /\ hooks_reg' \in {0, 1}
      /\ \/ s = NULL /\ UNCHANGED igs
         \/ s # NULL /\ igs' = [igs EXCEPT ![s].entries = FALSE]
      /\ UNCHANGED <<dev, emf_list, emfc_list, emf_count, igs_list, igs_count, starting,
                     misuse, fault>>
  BY DEF EmfDisable, hooks_unregister, InstTypeOK
<1> HIDE DEF p
<1>3. s \in IgsPtr \cup {NULL} /\ (s # NULL => s \in Live(igs))
  BY <1>1, LiveTyped DEF EmfInst, Registered
<1>4. /\ emf' \in [EmfPtr -> EmfInst \cup {NULL}] /\ Live(emf)' = Live(emf)
      /\ emf'[p].snooper = s /\ emf'[p].enable = FALSE
      /\ \A x \in EmfPtr : x # p => emf'[x] = emf[x]
  BY <1>1, <1>2, <1>3, EmfSet
<1> HIDE DEF s
<1>5. /\ igs' \in [IgsPtr -> IgsInst \cup {NULL}] /\ Live(igs)' = Live(igs)
      /\ \A q \in Live(igs) : igs'[q].handle = igs[q].handle /\ igs'[q].ready = igs[q].ready
  <2>1. CASE UNCHANGED igs
    BY <2>1 DEF InstTypeOK, Live
  <2>2. CASE s # NULL /\ igs' = [igs EXCEPT ![s].entries = FALSE]
    <3>1. s \in Live(igs) /\ igs[s].ready \in BOOLEAN
      BY <1>3, <2>2, LiveTyped DEF IgsInst
    <3> QED
      BY <2>2, <3>1, IgsSet, LiveTyped
  <2> QED
    BY <1>2, <2>1, <2>2
<1>6. Live(emf) \subseteq EmfPtr /\ Live(igs) \subseteq IgsPtr
  BY LiveTyped
<1>7. InstTypeOK'
  BY <1>2, <1>4, <1>5 DEF InstTypeOK
<1>8. Registered'
  BY <1>4, <1>5, <1>6 DEF Registered, s
<1>9. StartingAlone'
  BY <1>2, <1>5 DEF StartingAlone, Listed
<1>10. Ordered'
  <2>1. \A x \in Live(emf) : emf'[x].enable => x # p /\ emf'[x] = emf[x]
    BY <1>4, <1>6
  <2>2. \A x \in Live(emf) : emf[x].snooper # NULL => emf[x].snooper \in Live(igs)
    BY DEF Registered
  <2>3. UNCHANGED <<misuse, fault>>
    BY <1>2
  <2> QED
    BY <1>4, <1>5, <2>1, <2>2, <2>3 DEF Ordered
<1> QED
  BY <1>2, <1>4, <1>5, <1>7, <1>8, <1>9, <1>10, KeptLists

\* BR_ADD of IGS, to the registration: out of order if EMF is enabled.
LEMMA IgsBrAddInv ==
  ASSUME InstInv, NEW b \in Bridge, IgsBrAdd(b)
  PROVE  InstInv'
<1> USE InstAssumption DEF InstInv
<1> DEFINE p == emfc_instance_find(b)
<1>1. /\ UNCHANGED <<dev, emf_list, emfc_list, emf_count, hooks_reg, igs_list, fault>>
      /\ igs_count' = igs_count + 1 /\ starting = NULL /\ fault = "none"
  BY DEF IgsBrAdd, Idle
<1>2. CASE UNCHANGED <<emf, igs, starting, misuse>>
  <2>1. Live(emf)' = Live(emf) /\ Live(igs)' = Live(igs)
    BY <1>2 DEF Live
  <2>2. InstTypeOK'
    BY <1>1, <1>2 DEF InstTypeOK
  <2>3. Registered' /\ StartingAlone' /\ Ordered'
    BY <1>1, <1>2, <2>1 DEF Registered, StartingAlone, Ordered, Listed
  <2> QED
    BY <1>1, <2>1, <2>2, <2>3, KeptLists
<1>3. ASSUME p # NULL, NEW q \in IgsPtr, igs[q] = NULL,
             igs' = [igs EXCEPT ![q] = [br |-> b, handle |-> p, ready |-> FALSE,
                                        entries |-> FALSE]],
             emf' = [emf EXCEPT ![p].snooper = q], starting' = q,
             misuse' = (misuse \/ emf[p].enable)
      PROVE  InstInv'
  <2> DEFINE v == [br |-> b, handle |-> p, ready |-> FALSE, entries |-> FALSE]
  <2>1. p \in Live(emf) /\ p \in EmfPtr
    BY <1>3, Finds, LiveTyped
  <2> HIDE DEF p
  <2>2. v \in IgsInst /\ v # NULL /\ v.handle = p /\ v.ready = FALSE
    <3>1. v \in IgsInst
      BY <2>1 DEF IgsInst
    <3> QED
      BY <3>1
  <2>3. /\ igs' \in [IgsPtr -> IgsInst \cup {NULL}] /\ igs'[q] = v
        /\ \A x \in IgsPtr : x # q => igs'[x] = igs[x]
    BY <1>3, <2>2 DEF InstTypeOK
  <2> HIDE DEF v
  <2>4. Live(igs)' = Live(igs) \cup {q} /\ q \notin Live(igs) /\ Live(igs) \subseteq IgsPtr
    <3>1. igs[q] = NULL /\ q \in IgsPtr /\ igs'[q] # NULL
      BY <1>3, <2>2, <2>3
    <3>2. DOMAIN igs = IgsPtr /\ DOMAIN igs' = IgsPtr
      BY <2>3 DEF InstTypeOK
    <3> QED
      BY <2>3, <3>1, <3>2 DEF Live
  <2>5. emf[p].enable \in BOOLEAN
    BY <2>1, LiveTyped DEF EmfInst
  <2>6. /\ emf' \in [EmfPtr -> EmfInst \cup {NULL}] /\ Live(emf)' = Live(emf)
        /\ emf'[p].enable = emf[p].enable /\ emf'[p].snooper = q
        /\ \A x \in EmfPtr : x # p => emf'[x] = emf[x]
    BY <1>3, <2>1, <2>5, EmfSet
  <2>7. Live(emf) \subseteq EmfPtr
    BY LiveTyped
  <2>8. InstTypeOK'
    BY <1>1, <1>3, <2>3, <2>5, <2>6 DEF InstTypeOK
  <2>9. ListsLive' /\ q \notin Listed(igs_list)'
    <3>1. /\ Listed(emf_list)' = Listed(emf_list) /\ Distinct(emf_list)' = Distinct(emf_list)
          /\ Listed(emfc_list)' = Listed(emfc_list)
          /\ Distinct(emfc_list)' = Distinct(emfc_list)
          /\ Listed(igs_list)' = Listed(igs_list) /\ Distinct(igs_list)' = Distinct(igs_list)
      BY <1>1 DEF Listed, Distinct
    <3> QED
      BY <2>4, <2>6, <3>1 DEF ListsLive
  <2>10. Registered'
    <3> SUFFICES ASSUME NEW x \in Live(emf), emf'[x].snooper # NULL
                 PROVE  emf'[x].snooper \in Live(igs)' /\ igs'[emf'[x].snooper].handle = x
      BY <2>6 DEF Registered
    <3>1. CASE x = p
      BY <2>2, <2>3, <2>4, <2>6, <3>1
    <3>2. CASE x # p
      <4>1. emf'[x] = emf[x]
        BY <2>6, <2>7, <3>2
      <4>2. emf[x].snooper \in Live(igs) /\ igs[emf[x].snooper].handle = x
        BY <4>1 DEF Registered
      <4> QED
        BY <2>3, <2>4, <4>1, <4>2
    <3> QED
      BY <3>1, <3>2
  <2>11. StartingAlone'
    <3>1. \A x \in Live(igs) : igs[x].ready
      BY <1>1, <2>4 DEF StartingAlone
    <3>2. starting' \in Live(igs)' /\ starting' \notin Listed(igs_list)'
      BY <1>3, <2>4, <2>9
    <3>3. \A x \in Live(igs)' : ~igs'[x].ready => x = starting'
      BY <1>3, <2>3, <2>4, <3>1
    <3> QED
      BY <3>2, <3>3 DEF StartingAlone
  <2>12. Ordered'
    <3> SUFFICES ASSUME ~misuse'
                 PROVE  /\ fault' = "none"
                        /\ \A x \in Live(igs)' : igs'[x].handle \in Live(emf)'
                        /\ \A x \in Live(emf)' :
                             emf'[x].enable /\ emf'[x].snooper # NULL
                               => igs'[emf'[x].snooper].ready
      BY DEF Ordered
    <3>1. ~misuse /\ ~emf[p].enable
      BY <1>3
    <3>2. /\ \A x \in Live(igs) : igs[x].handle \in Live(emf)
          /\ \A x \in Live(emf) :
               emf[x].enable /\ emf[x].snooper # NULL => igs[emf[x].snooper].ready
      BY <3>1 DEF Ordered
    <3>3. \A x \in Live(igs)' : igs'[x].handle \in Live(emf)'
      BY <2>1, <2>2, <2>3, <2>4, <2>6, <3>2
    <3>4. ASSUME NEW x \in Live(emf), emf'[x].enable, emf'[x].snooper # NULL
          PROVE  igs'[emf'[x].snooper].ready
      <4>1. x # p /\ emf'[x] = emf[x]
        BY <2>6, <2>7, <3>1, <3>4
      <4>2. emf[x].snooper \in Live(igs) /\ igs[emf[x].snooper].ready
        BY <3>2, <3>4, <4>1 DEF Registered
      <4> QED
        BY <2>3, <2>4, <4>1, <4>2
    <3> QED
      BY <1>1, <2>6, <3>3, <3>4
  <2> QED
    BY <1>1, <2>6, <2>8, <2>9, <2>10, <2>11, <2>12, KeptLists
<1> QED
  BY <1>2, <1>3 DEF IgsBrAdd

\* An instance that is freed is registered nowhere any more: only its handle
\* could have it.  The handle is dangling only if there was misuse.
LEMMA FreedFacts ==
  ASSUME InstInv, NEW q \in Live(igs), igsc_free(q), UNCHANGED misuse, fault = "none"
  PROVE  /\ igs' \in [IgsPtr -> IgsInst \cup {NULL}]
         /\ Live(igs)' = Live(igs) \ {q} /\ \A x \in Live(igs)' : igs'[x] = igs[x]
         /\ emf' \in [EmfPtr -> EmfInst \cup {NULL}] /\ Live(emf)' = Live(emf)
         /\ fault' \in {"none", "handle"}
         /\ Registered' /\ Ordered'
<1> USE InstAssumption DEF InstInv
<1> DEFINE p == igs[q].handle
<1>1. q \in IgsPtr /\ p \in EmfPtr /\ Live(igs) \subseteq IgsPtr /\ Live(emf) \subseteq EmfPtr
  BY LiveTyped DEF IgsInst
<1>2. /\ igs' = [igs EXCEPT ![q] = NULL]
      /\ \/ emf[p] # NULL /\ emf' = [emf EXCEPT ![p].snooper = NULL] /\ UNCHANGED fault
         \/ emf[p] = NULL /\ fault' = "handle" /\ UNCHANGED emf
  BY DEF igsc_free
<1> HIDE DEF p
<1>3. /\ igs' \in [IgsPtr -> IgsInst \cup {NULL}] /\ igs'[q] = NULL
      /\ \A x \in IgsPtr : x # q => igs'[x] = igs[x]
  BY <1>1, <1>2 DEF InstTypeOK
<1>4. Live(igs)' = Live(igs) \ {q} /\ \A x \in Live(igs)' : igs'[x] = igs[x]
  BY <1>1, <1>3 DEF Live, InstTypeOK
<1>5. /\ emf' \in [EmfPtr -> EmfInst \cup {NULL}] /\ Live(emf)' = Live(emf)
      /\ \A x \in Live(emf) : /\ emf'[x].enable = emf[x].enable
                              /\ x = p => emf'[x].snooper = NULL
                              /\ x # p => emf'[x].snooper = emf[x].snooper
  <2>1. CASE emf[p] # NULL /\ emf' = [emf EXCEPT ![p].snooper = NULL]
    <3>1. p \in Live(emf)
      BY <1>1, <2>1 DEF Live, InstTypeOK
    <3>2. emf[p].enable \in BOOLEAN
      BY <3>1, LiveTyped DEF EmfInst
    <3>3. /\ emf' \in [EmfPtr -> EmfInst \cup {NULL}] /\ Live(emf)' = Live(emf)
          /\ emf'[p].enable = emf[p].enable /\ emf'[p].snooper = NULL
          /\ \A x \in EmfPtr : x # p => emf'[x] = emf[x]
      BY <2>1, <3>1, <3>2, EmfSet
    <3> QED
      BY <1>1, <3>3
  <2>2. CASE emf[p] = NULL /\ UNCHANGED emf
    BY <2>2 DEF Live, InstTypeOK
  <2> QED
    BY <1>2, <2>1, <2>2
<1>6. \A x \in Live(emf) : emf'[x].snooper # NULL =>
        /\ emf'[x].snooper = emf[x].snooper
        /\ emf[x].snooper \in Live(igs)' /\ igs[emf[x].snooper].handle = x
  <2> SUFFICES ASSUME NEW x \in Live(emf), emf'[x].snooper # NULL
               PROVE  /\ emf'[x].snooper = emf[x].snooper
                      /\ emf[x].snooper \in Live(igs)' /\ igs[emf[x].snooper].handle = x
    OBVIOUS
  <2>1. x # p /\ emf'[x].snooper = emf[x].snooper
    BY <1>5
  <2>2. emf[x].snooper \in Live(igs) /\ igs[emf[x].snooper].handle = x
    BY <2>1 DEF Registered
  <2>3. emf[x].snooper # q
    BY <2>1, <2>2 DEF p
  <2> QED
    BY <1>4, <2>1, <2>2, <2>3
<1>7. Registered'
  BY <1>4, <1>5, <1>6 DEF Registered
<1>8. Ordered'
  <2> SUFFICES ASSUME ~misuse
               PROVE  /\ fault' = "none"
                      /\ \A x \in Live(igs)' : igs'[x].handle \in Live(emf)'
                      /\ \A x \in Live(emf)' :
                           emf'[x].enable /\ emf'[x].snooper # NULL
                             => igs'[emf'[x].snooper].ready
    BY DEF Ordered
  <2>1. /\ \A x \in Live(igs) : igs[x].handle \in Live(emf)
        /\ \A x \in Live(emf) :
             emf[x].enable /\ emf[x].snooper # NULL => igs[emf[x].snooper].ready
    BY DEF Ordered
  <2>2. emf[p] # NULL
    BY <2>1 DEF p, Live
  <2>3. fault' = "none"
    BY <1>2, <2>2
  <2>4. \A x \in Live(igs)' : igs'[x].handle \in Live(emf)'
    BY <1>4, <1>5, <2>1
  <2>5. ASSUME NEW x \in Live(emf), emf'[x].enable, emf'[x].snooper # NULL
        PROVE  igs'[emf'[x].snooper].ready
    <3>1. emf[x].enable /\ emf'[x].snooper = emf[x].snooper /\ emf[x].snooper \in Live(igs)'
      BY <1>5, <1>6, <2>5
    <3>2. igs[emf[x].snooper].ready
      BY <2>1, <2>5, <3>1
    <3> QED
      BY <1>4, <3>1, <3>2
  <2> QED
    BY <1>5, <2>3, <2>4, <2>5
<1> QED
  BY <1>2, <1>3, <1>4, <1>5, <1>7, <1>8

\* A step that leaves the forwarding layer's lists keeps their part of ListsLive.
LEMMA EmfListsKept ==
  ASSUME InstInv, UNCHANGED <<emf_list, emfc_list>>, Live(emf)' = Live(emf),
         Listed(igs_list)' \subseteq Live(igs)', Distinct(igs_list)'
  PROVE  ListsLive'
<1>1. /\ Listed(emf_list)' = Listed(emf_list) /\ Distinct(emf_list)' = Distinct(emf_list)
      /\ Listed(emfc_list)' = Listed(emfc_list) /\ Distinct(emfc_list)' = Distinct(emfc_list)
  BY DEF Listed, Distinct
<1> QED
  BY <1>1 DEF InstInv, ListsLive

\* The rest of igsc_init().
LEMMA IgsReadyInv ==
  ASSUME InstInv, IgsReady
  PROVE  InstInv'
<1> USE InstAssumption DEF InstInv
<1>1. /\ starting # NULL /\ starting' = NULL /\ fault = "none"
      /\ UNCHANGED <<dev, emf_list, emfc_list, emf_count, hooks_reg, igs_count, misuse>>
  BY DEF IgsReady, Softirq
<1>2. /\ starting \in Live(igs) /\ starting \in IgsPtr /\ starting \notin Listed(igs_list)
      /\ \A x \in Live(igs) : x # starting => igs[x].ready
      /\ Live(igs) \subseteq IgsPtr /\ Live(emf) \subseteq EmfPtr
  BY <1>1, LiveTyped DEF StartingAlone
<1>3. CASE /\ igs' = [igs EXCEPT ![starting].ready = TRUE]
           /\ igs_list' = <<starting>> \o igs_list
           /\ UNCHANGED <<emf, fault>>
  <2>1. igs[starting].entries \in BOOLEAN
    BY <1>2, LiveTyped DEF IgsInst
  <2>2. /\ igs' \in [IgsPtr -> IgsInst \cup {NULL}] /\ Live(igs)' = Live(igs)
        /\ igs'[starting].handle = igs[starting].handle /\ igs'[starting].ready
        /\ \A x \in IgsPtr : x # starting => igs'[x] = igs[x]
    BY <1>2, <1>3, <2>1, IgsSet
  <2>3. \A x \in Live(igs) : igs'[x].handle = igs[x].handle /\ igs'[x].ready
    BY <1>2, <2>2
  <2>4. /\ igs_list' \in Seq(IgsPtr) /\ Distinct(igs_list)'
        /\ Listed(igs_list)' = Listed(igs_list) \cup {starting}
    BY <1>2, <1>3, Pushed DEF ListsLive, InstTypeOK
  <2>5. Live(emf)' = Live(emf)
    BY <1>3 DEF Live
  <2>6. InstTypeOK'
    BY <1>1, <1>3, <2>2, <2>4 DEF InstTypeOK
  <2>7. Listed(igs_list)' \subseteq Live(igs)'
    BY <1>2, <2>2, <2>4 DEF ListsLive
  <2>8. ListsLive'
    BY <1>1, <2>4, <2>5, <2>7, EmfListsKept
  <2>9. Registered'
    BY <1>3, <2>2, <2>3, <2>5 DEF Registered
  <2>10. StartingAlone'
    BY <1>1, <2>2, <2>3 DEF StartingAlone
  <2>11. Ordered'
    BY <1>1, <1>3, <2>2, <2>3, <2>5 DEF Ordered, Registered
  <2> QED
    BY <1>1, <2>5, <2>6, <2>8, <2>9, <2>10, <2>11, KeptLists
<1>4. CASE igsc_free(starting) /\ UNCHANGED igs_list
  <2>1. /\ igs' \in [IgsPtr -> IgsInst \cup {NULL}]
        /\ Live(igs)' = Live(igs) \ {starting} /\ \A x \in Live(igs)' : igs'[x] = igs[x]
        /\ emf' \in [EmfPtr -> EmfInst \cup {NULL}] /\ Live(emf)' = Live(emf)
        /\ fault' \in {"none", "handle"}
        /\ Registered' /\ Ordered'
    BY <1>1, <1>2, <1>4, FreedFacts
  <2>2. InstTypeOK'
    BY <1>1, <1>4, <2>1 DEF InstTypeOK
  <2>3. Listed(igs_list)' \subseteq Live(igs)' /\ Distinct(igs_list)'
    BY <1>2, <1>4, <2>1 DEF ListsLive, Listed, Distinct
  <2>4. ListsLive'
    BY <1>1, <2>1, <2>3, EmfListsKept
  <2>5. StartingAlone'
    BY <1>1, <1>2, <2>1 DEF StartingAlone
  <2> QED
    BY <1>1, <2>1, <2>2, <2>4, <2>5, KeptLists
<1> QED
  BY <1>3, <1>4 DEF IgsReady

\* BR_DEL of IGS.
LEMMA IgsBrDelInv ==
  ASSUME InstInv, NEW b \in Bridge, IgsBrDel(b)
  PROVE  InstInv'
<1> USE InstAssumption DEF InstInv
<1> DEFINE q == igs_instance_find(b)
<1>1. q \in Live(igs) /\ q \in Listed(igs_list)
  BY Finds DEF IgsBrDel
<1>2. /\ igs_list' = Unlinked(igs_list, q) /\ igsc_free(q) /\ starting = NULL /\ fault = "none"
      /\ UNCHANGED <<dev, emf_list, emfc_list, emf_count, hooks_reg, igs_count, starting,
                     misuse>>
  BY DEF IgsBrDel, Idle
<1> HIDE DEF q
<1>3. /\ igs' \in [IgsPtr -> IgsInst \cup {NULL}]
      /\ Live(igs)' = Live(igs) \ {q} /\ \A x \in Live(igs)' : igs'[x] = igs[x]
      /\ emf' \in [EmfPtr -> EmfInst \cup {NULL}] /\ Live(emf)' = Live(emf)
      /\ fault' \in {"none", "handle"}
      /\ Registered' /\ Ordered'
  BY <1>1, <1>2, FreedFacts
<1>4. /\ igs_list' \in Seq(IgsPtr) /\ Distinct(igs_list)'
      /\ Listed(igs_list)' \subseteq Listed(igs_list) \ {q}
  BY <1>1, <1>2, UnlinkedFacts DEF ListsLive, InstTypeOK
<1>5. InstTypeOK'
  BY <1>2, <1>3, <1>4 DEF InstTypeOK
<1>6. Listed(igs_list)' \subseteq Live(igs)'
  BY <1>3, <1>4 DEF ListsLive
<1>7. ListsLive'
  BY <1>2, <1>3, <1>4, <1>6, EmfListsKept
<1>8. StartingAlone'
  BY <1>2, <1>3 DEF StartingAlone
<1> QED
  BY <1>2, <1>3, <1>5, <1>7, <1>8, KeptLists

\* A softirq enters or takes out an entry of a snooper, or meets a fault after a
\* misuse.
LEMMA EntriesInv ==
  ASSUME InstInv, NEW q \in Live(igs),
         igs' = igs \/ \E e \in BOOLEAN : igs' = [igs EXCEPT ![q].entries = e],
         fault' = fault \/ (misuse /\ fault' \in {"rtlist", "handle"}),
         UNCHANGED <<dev, evars, igs_list, igs_count, starting, misuse>>
  PROVE  InstInv'
<1> USE InstAssumption DEF InstInv
<1>1. UNCHANGED <<dev, emf, emf_list, emfc_list, emf_count, hooks_reg, igs_list, igs_count,
                  starting, misuse>>
  BY DEF evars
<1>2. /\ igs' \in [IgsPtr -> IgsInst \cup {NULL}] /\ Live(igs)' = Live(igs)
      /\ \A x \in Live(igs) : igs'[x].handle = igs[x].handle /\ igs'[x].ready = igs[x].ready
  <2>1. CASE UNCHANGED igs
    BY <2>1 DEF InstTypeOK, Live
  <2>2. ASSUME NEW e \in BOOLEAN, igs' = [igs EXCEPT ![q].entries = e]
        PROVE  /\ igs' \in [IgsPtr -> IgsInst \cup {NULL}] /\ Live(igs)' = Live(igs)
               /\ \A x \in Live(igs) :
                    igs'[x].handle = igs[x].handle /\ igs'[x].ready = igs[x].ready
    <3>1. igs[q].ready \in BOOLEAN
      BY LiveTyped DEF IgsInst
    <3> QED
      BY <2>2, <3>1, IgsSet, LiveTyped
  <2> QED
    BY <2>1, <2>2
<1>3. Live(emf)' = Live(emf)
  BY <1>1 DEF Live
<1>4. InstTypeOK'
  BY <1>1, <1>2 DEF InstTypeOK
<1>5. Registered'
  BY <1>1, <1>2, <1>3 DEF Registered
<1>6. StartingAlone'
  BY <1>1, <1>2 DEF StartingAlone, Listed
<1>7. Ordered'
  BY <1>1, <1>2, <1>3 DEF Ordered, Registered
<1> QED
  BY <1>1, <1>2, <1>3, <1>4, <1>5, <1>6, <1>7, KeptLists

\* Frames.
LEMMA FramesInv ==
  ASSUME InstInv, NEW p \in EmfPtr, NEW q \in IgsPtr, Report(p, q) \/ Query(p, q)
  PROVE  InstInv'
<1> USE InstAssumption DEF InstInv
<1>1. Reaches(p, q)
  BY DEF Report, Query
<1>2. p \in Live(emf) /\ emf[p].enable /\ emf[p].snooper = q /\ q # NULL /\ q \in Live(igs)
  BY <1>1 DEF Reaches, ListsLive, Registered
<1>3. ~misuse => igs[q].ready
  BY <1>2 DEF Ordered
<1>4. CASE Report(p, q)
  <2>1. /\ \E e \in BOOLEAN : igs' = [igs EXCEPT ![q].entries = e]
        /\ fault' = fault
        /\ UNCHANGED <<dev, evars, igs_list, igs_count, starting, misuse>>
    BY <1>4, Zenon DEF Report
  <2> QED
    BY <1>2, <2>1, EntriesInv, Zenon
<1>5. CASE Query(p, q)
  <2>1. \/ ~igs[q].ready /\ fault' = "rtlist" /\ UNCHANGED igs
        \/ igs' = [igs EXCEPT ![q].entries = TRUE] /\ UNCHANGED fault
    BY <1>5 DEF Query
  <2>2. igs' = igs \/ \E e \in BOOLEAN : igs' = [igs EXCEPT ![q].entries = e]
    BY <2>1, Zenon
  <2>3. fault' = fault \/ (misuse /\ fault' \in {"rtlist", "handle"})
    BY <1>3, <2>1
  <2>4. UNCHANGED <<dev, evars, igs_list, igs_count, starting, misuse>>
    BY <1>5, Zenon DEF Query
  <2> QED
    BY <1>2, <2>2, <2>3, <2>4, EntriesInv, Zenon
<1> QED
  BY <1>4, <1>5

\* Timers.
LEMMA TimerInv ==
  ASSUME InstInv, NEW q \in IgsPtr, Timer(q)
  PROVE  InstInv'
<1> USE InstAssumption DEF InstInv
<1>1. q \in Live(igs) /\ UNCHANGED <<dev, evars, igs_list, igs_count, starting, misuse>>
  BY DEF Timer, Live, InstTypeOK
<1>2. \E e \in BOOLEAN : igs' = [igs EXCEPT ![q].entries = e]
  BY DEF Timer
<1>3. fault' = fault \/ (misuse /\ fault' \in {"rtlist", "handle"})
  <2>1. ~misuse => emf[igs[q].handle] # NULL
    BY <1>1 DEF Ordered, Live
  <2>2. fault' = IF emf[igs[q].handle] = NULL THEN "handle" ELSE fault
    BY DEF Timer
  <2> QED
    BY <2>1, <2>2
<1> QED
  BY <1>1, <1>2, <1>3, EntriesInv, Zenon

-----------------------------------------------------------------------------
(***************************************************************************)
(* The theorems.                                                           *)
(***************************************************************************)

\* Nothing exists at the start.
LEMMA InitInv == InstInit => InstInv
<1> SUFFICES ASSUME InstInit PROVE InstInv
  OBVIOUS
<1> USE InstAssumption DEF InstInit
<1>1. Live(emf) = {} /\ Live(igs) = {}
  BY DEF Live
<1>2. \A i \in DOMAIN <<>> : FALSE
  OBVIOUS
<1>3. Listed(<<>>) = {}
  BY <1>2, Zenon DEF Listed
<1>4. Distinct(<<>>)
  BY <1>2, Zenon DEF Distinct
<1>5. InstTypeOK
  <2>1. emf \in [EmfPtr -> EmfInst \cup {NULL}] /\ igs \in [IgsPtr -> IgsInst \cup {NULL}]
    OBVIOUS
  <2>2. emf_list \in Seq(EmfPtr) /\ emfc_list \in Seq(EmfPtr) /\ igs_list \in Seq(IgsPtr)
    OBVIOUS
  <2>3. /\ dev \in [Bridge -> Dev] /\ emf_count \in Nat /\ igs_count \in Nat
        /\ hooks_reg \in {0, 1} /\ starting \in IgsPtr \cup {NULL}
        /\ misuse \in BOOLEAN /\ fault \in {"none", "rtlist", "handle"}
    OBVIOUS
  <2> QED
    BY <2>1, <2>2, <2>3 DEF InstTypeOK
<1>6. ListsLive
  BY <1>1, <1>3, <1>4 DEF ListsLive
<1>7. Registered /\ StartingAlone /\ Ordered
  BY <1>1 DEF Registered, StartingAlone, Ordered
<1>8. IsFiniteSet(Live(emf)) /\ CountCovers
  <2>1. IsFiniteSet({}) /\ Cardinality({}) = 0
    BY FS_EmptySet
  <2>2. IsFiniteSet(Live(emf)) /\ Cardinality(Live(emf)) = 0
    BY <1>1, <2>1
  <2>3. emf_count = 0 /\ EMF_MAX_INST \in Nat
    OBVIOUS
  <2> QED
    BY <2>2, <2>3 DEF CountCovers
<1> QED
  BY <1>5, <1>6, <1>7, <1>8 DEF InstInv

\* A step that changes at most the devices of the bridges.
LEMMA DevInv ==
  ASSUME InstInv, UNCHANGED <<evars, gvars, misuse, fault>>, dev' \in [Bridge -> Dev]
  PROVE  InstInv'
  BY DEF InstInv, evars, gvars, InstTypeOK, ListsLive, Registered, StartingAlone, Ordered,
         CountCovers, Live, Listed, Distinct

\* Every step keeps the invariant.
LEMMA NextInv == InstInv /\ [InstNext]_vars => InstInv'
<1> SUFFICES ASSUME InstInv, [InstNext]_vars PROVE InstInv'
  OBVIOUS
<1>1. CASE UNCHANGED vars
  BY <1>1, DevInv DEF vars, InstInv, InstTypeOK
<1>2. ASSUME NEW b \in Bridge, BridgeRenewed(b) PROVE InstInv'
  <2>1. UNCHANGED <<evars, gvars, misuse, fault>> /\ dev' \in [Bridge -> Dev]
    BY <1>2 DEF BridgeRenewed, InstInv, InstTypeOK
  <2> QED
    BY <2>1, DevInv
<1> QED
  BY <1>1, <1>2, EmfBrAddInv, EmfBrDelInv, EmfEnableInv, EmfDisableInv, IgsBrAddInv,
     IgsBrDelInv, IgsReadyInv, FramesInv, TimerInv DEF InstNext

\* The invariant holds in every state.
LEMMA InstInvariant == InstSpec => []InstInv
  BY InitInv, NextInv, PTL DEF InstSpec

\* Types; in particular emf_hooks_register() and emf_hooks_unregister() never
\* have the hooks in place twice, whatever fails.
THEOREM InstTypeCorrect == InstSpec => []InstTypeOK
<1>1. InstInv => InstTypeOK
  BY DEF InstInv
<1> QED
  BY <1>1, InstInvariant, PTL

\* emfc_igmp_snooper_register() and emfc_igmp_snooper_unregister() leave no EMF
\* instance with a snooper that igsc_exit() or a failing igsc_init() has freed,
\* for any number of instances and in any order of commands.
THEOREM SnoopersCorrect == InstSpec => []SnooperLives
<1>1. InstInv => SnooperLives
  BY DEF InstInv, Registered, SnooperLives
<1> QED
  BY <1>1, InstInvariant, PTL

\* emf_instance_del(), igs_instance_del() and emfc_exit() leave nothing freed on a
\* list, although the first two lose live instances.
THEOREM ListsCorrect == InstSpec => []ListsLive
<1>1. InstInv => ListsLive
  BY DEF InstInv
<1> QED
  BY <1>1, InstInvariant, PTL

\* Unless IGS is added where EMF is enabled or EMF deleted before IGS, neither
\* igsc_input() nor a timer nor igsc_exit() uses freed or uninitialised memory.
THEOREM OrderCorrect == InstSpec => []OrderSuffices
<1>1. InstInv => OrderSuffices
  BY DEF InstInv, Ordered, OrderSuffices
<1> QED
  BY <1>1, InstInvariant, PTL
=============================================================================
