---------------------------- MODULE Clients_proofs ----------------------------
(***************************************************************************)
(* The proofs of Clients.  They need no invariant of their own: that an    *)
(* entry of MongoDB is the stored form of what the in-memory database has  *)
(* (StoredInv of AccessControl_proofs) makes both databases list the same  *)
(* resources, Sorted has each of them once, and both cut the same stretch  *)
(* out of it (Cut), with the numbers of the caller and with those that     *)
(* arrive through HTTP.                                                    *)
(***************************************************************************)
EXTENDS Clients, AccessControl_proofs, FiniteSetTheorems, SequenceTheorems

-----------------------------------------------------------------------------
(* The order of the listings                                               *)

\* Every resource has one position in Order.
LEMMA PositionOfResource ==
    ASSUME NEW r \in Resources
    PROVE  Position[r] \in 1..Len(Order) /\ Order[Position[r]] = r
<1>1. DOMAIN Order = 1..Len(Order)
  BY OrderAssumption
<1>2. \E i \in DOMAIN Order : Order[i] = r
  BY OrderAssumption DEF Range
<1> QED
  BY <1>1, <1>2 DEF Position

LEMMA ResourcesAreFinite == IsFiniteSet(Resources)
<1>1. Len(Order) \in Nat
  BY OrderAssumption, LenProperties
<1>2. IsFiniteSet(1..Len(Order))
  BY <1>1, FS_Interval
<1>3. Position \in Injection(Resources, 1..Len(Order))
  <2>1. Position \in [Resources -> 1..Len(Order)]
    BY PositionOfResource DEF Position
  <2>2. \A r, o \in Resources : Position[r] = Position[o] => r = o
    BY PositionOfResource
  <2> QED
    BY <2>1, <2>2 DEF Injection, IsInjective
<1> QED
  BY <1>2, <1>3, FS_Injection

\* A resource that comes later has more before it.
LEMMA BeforeGrows ==
    ASSUME NEW resources \in SUBSET Resources, NEW r \in resources, NEW o \in resources,
           Position[r] < Position[o]
    PROVE  /\ Cardinality(Before(r, resources)) \in Nat
           /\ Cardinality(Before(r, resources)) < Cardinality(Before(o, resources))
<1>1. IsFiniteSet(resources)
  BY ResourcesAreFinite, FS_Subset
<1>2. IsFiniteSet(Before(r, resources)) /\ IsFiniteSet(Before(o, resources))
  BY <1>1, FS_Subset DEF Before
<1>3. \A x \in resources : Position[x] \in Int
  BY PositionOfResource
<1>4. Before(r, resources) \subseteq Before(o, resources)
  BY <1>3 DEF Before
<1>5. r \in Before(o, resources) /\ r \notin Before(r, resources)
  BY <1>3 DEF Before
<1>6. /\ Cardinality(Before(r, resources)) \in Nat
      /\ Cardinality(Before(o, resources)) \in Nat
  BY <1>2, FS_CardinalityType
<1>7. /\ Cardinality(Before(r, resources)) <= Cardinality(Before(o, resources))
      /\ Cardinality(Before(r, resources)) # Cardinality(Before(o, resources))
  BY <1>2, <1>4, <1>5, FS_Subset
<1> QED
  BY <1>6, <1>7

\* Sorted has each of the resources once.
LEMMA SortedProperties ==
    ASSUME NEW resources \in SUBSET Resources
    PROVE  /\ Cardinality(resources) \in Nat
           /\ Cardinality(resources) <= Len(Order)
           /\ Sorted(resources) \in Seq(resources)
           /\ Len(Sorted(resources)) = Cardinality(resources)
           /\ \A r \in resources : \E i \in 1..Cardinality(resources) : Sorted(resources)[i] = r
<1> DEFINE n == Cardinality(resources)
           rank == [r \in resources |-> Cardinality(Before(r, resources))]
<1>1. IsFiniteSet(resources) /\ n \in Nat
  BY ResourcesAreFinite, FS_Subset, FS_CardinalityType
<1>2. n <= Len(Order)
  <2>1. Len(Order) \in Nat
    BY OrderAssumption, LenProperties
  <2>2. IsFiniteSet(1..Len(Order)) /\ Cardinality(1..Len(Order)) = Len(Order)
    <3>1. ASSUME NEW k \in Nat
          PROVE  IsFiniteSet(1..k) /\ Cardinality(1..k) = k
      BY FS_Interval
    <3> QED
      BY <2>1, <3>1
  <2> DEFINE position == [r \in resources |-> Position[r]]
  <2>3. position \in Injection(resources, 1..Len(Order))
    <3>1. position \in [resources -> 1..Len(Order)]
      BY PositionOfResource
    <3>2. \A r, o \in resources : position[r] = position[o] => r = o
      BY PositionOfResource
    <3> QED
      BY <3>1, <3>2 DEF Injection, IsInjective
  <2> HIDE DEF position
  <2> QED
    BY <2>2, <2>3, FS_Injection
<1>3. \A r \in resources : rank[r] \in 0..(n - 1)
  <2> SUFFICES ASSUME NEW r \in resources
               PROVE  Cardinality(Before(r, resources)) \in 0..(n - 1)
    OBVIOUS
  <2>1. Position[r] \in Int
    BY PositionOfResource
  <2>2. Before(r, resources) \subseteq resources /\ r \notin Before(r, resources)
    BY <2>1 DEF Before
  <2>3. IsFiniteSet(Before(r, resources)) /\ Cardinality(Before(r, resources)) <= n
    BY <1>1, <2>2, FS_Subset
  <2>4. Cardinality(Before(r, resources)) # n
    BY <1>1, <2>2, FS_Subset
  <2>5. Cardinality(Before(r, resources)) \in Nat
    BY <2>3, FS_CardinalityType
  <2> QED
    BY <1>1, <2>3, <2>4, <2>5
<1>4. \A r, o \in resources : rank[r] = rank[o] => r = o
  <2> SUFFICES ASSUME NEW r \in resources, NEW o \in resources, r # o
               PROVE  Cardinality(Before(r, resources)) # Cardinality(Before(o, resources))
    OBVIOUS
  <2>1. Position[r] \in Int /\ Position[o] \in Int /\ Position[r] # Position[o]
    BY PositionOfResource
  <2>2. CASE Position[r] < Position[o]
    BY <2>2, BeforeGrows
  <2>3. CASE Position[o] < Position[r]
    BY <2>3, BeforeGrows
  <2> QED
    BY <2>1, <2>2, <2>3
<1>5. rank \in Injection(resources, 0..(n - 1))
  BY <1>3, <1>4 DEF Injection, IsInjective
<1>6. IsFiniteSet(0..(n - 1)) /\ Cardinality(0..(n - 1)) = n
  BY <1>1, FS_Interval
<1>7. rank \in Surjection(resources, 0..(n - 1))
  <2> HIDE DEF rank
  <2> QED
    BY <1>5, <1>6, FS_Injection
<1>8. \A i \in 1..n : \E r \in resources : Cardinality(Before(r, resources)) = i - 1
  <2> SUFFICES ASSUME NEW i \in 1..n
               PROVE  \E r \in resources : Cardinality(Before(r, resources)) = i - 1
    OBVIOUS
  <2>1. i - 1 \in 0..(n - 1)
    BY <1>1
  <2>2. \E r \in resources : rank[r] = i - 1
    BY <1>7, <2>1 DEF Surjection
  <2> QED
    BY <2>2
<1> DEFINE s == Sorted(resources)
<1>9. \A i \in 1..n : s[i] \in resources /\ Cardinality(Before(s[i], resources)) = i - 1
  BY <1>8 DEF Sorted
<1>10. s \in Seq(resources) /\ Len(s) = n
  <2>1. s = [i \in 1..n |-> s[i]]
    BY DEF Sorted
  <2> HIDE DEF s
  <2>2. s \in [1..n -> resources]
    BY <1>9, <2>1
  <2> QED
    BY <1>1, <2>2
<1>11. ASSUME NEW r \in resources
       PROVE  \E i \in 1..n : s[i] = r
  <2>1. rank[r] \in 0..(n - 1)
    BY <1>3
  <2>2. rank[r] + 1 \in 1..n
    BY <1>1, <2>1
  <2>3. s[rank[r] + 1] \in resources
    BY <1>9, <2>2
  <2>4. rank[s[rank[r] + 1]] = rank[r]
    BY <1>9, <2>1, <2>2, <2>3
  <2> QED
    BY <1>4, <2>2, <2>3, <2>4
<1> QED
  BY <1>1, <1>2, <1>10, <1>11

-----------------------------------------------------------------------------
(* Pages                                                                   *)

\* The smaller of two numbers.
LEMMA MinOfTwo ==
    ASSUME NEW a \in Int, NEW b \in Int
    PROVE  Min({a, b}) = IF a <= b THEN a ELSE b
<1> DEFINE m == IF a <= b THEN a ELSE b
<1>1. m \in {a, b} /\ \A y \in {a, b} : m <= y
  OBVIOUS
<1>2. \A x \in {a, b} : (\A y \in {a, b} : x <= y) => x = m
  OBVIOUS
<1> HIDE DEF m
<1>3. (CHOOSE x \in {a, b} : \A y \in {a, b} : x <= y) = m
  BY <1>1, <1>2
<1> QED
  BY <1>3 DEF Min, m

\* What both databases cut out of a listing: the elements after the first
\* skipped ones, no more than the limit.
Skipped(offset) == IF offset > 0 THEN offset ELSE 0
EndOfCut(list, limit, offset) ==
    IF limit > 0 /\ Skipped(offset) + limit <= Len(list) THEN Skipped(offset) + limit ELSE Len(list)
Cut(list, limit, offset) ==
    SubSeq(list, Skipped(offset) + 1, EndOfCut(list, limit, offset))

LEMMA CutProperties ==
    ASSUME NEW S, NEW list \in Seq(S), NEW limit \in Int, NEW offset \in Int
    PROVE  /\ Skipped(offset) \in Nat
           /\ EndOfCut(list, limit, offset) \in Nat
           /\ EndOfCut(list, limit, offset) <= Len(list)
           /\ Cut(list, limit, offset) \in Seq(S)
           /\ Len(Cut(list, limit, offset)) =
                IF Skipped(offset) < EndOfCut(list, limit, offset)
                THEN EndOfCut(list, limit, offset) - Skipped(offset) ELSE 0
           /\ \A i \in 1..Len(Cut(list, limit, offset)) :
                /\ Skipped(offset) + i \in 1..Len(list)
                /\ Cut(list, limit, offset)[i] = list[Skipped(offset) + i]
<1> DEFINE skip == Skipped(offset)
           last == EndOfCut(list, limit, offset)
<1>1. Len(list) \in Nat
  BY LenProperties
<1>2. skip \in Nat /\ last \in Nat /\ last <= Len(list)
  BY <1>1 DEF Skipped, EndOfCut
<1>3. \A i \in (skip + 1)..last : list[i] \in S
  BY <1>1, <1>2, ElementOfSeq
<1> HIDE DEF skip, last
<1>4. /\ SubSeq(list, skip + 1, last) \in Seq(S)
      /\ Len(SubSeq(list, skip + 1, last)) = IF skip + 1 <= last THEN last - (skip + 1) + 1 ELSE 0
      /\ \A i \in 1..(last - (skip + 1) + 1) :
           SubSeq(list, skip + 1, last)[i] = list[skip + 1 + i - 1]
  BY <1>2, <1>3, SubSeqProperties
<1>5. Cut(list, limit, offset) = SubSeq(list, skip + 1, last)
  BY DEF Cut, skip, last
<1>6. Len(Cut(list, limit, offset)) = IF skip < last THEN last - skip ELSE 0
  BY <1>2, <1>4, <1>5
<1>7. ASSUME NEW i \in 1..Len(Cut(list, limit, offset))
      PROVE  skip + i \in 1..Len(list) /\ Cut(list, limit, offset)[i] = list[skip + i]
  <2>1. i \in 1..(last - (skip + 1) + 1) /\ skip + 1 + i - 1 = skip + i
    BY <1>2, <1>6
  <2>2. skip + i \in 1..Len(list)
    BY <1>1, <1>2, <2>1
  <2> QED
    BY <1>4, <1>5, <2>1, <2>2
<1> QED
  BY <1>2, <1>4, <1>5, <1>6, <1>7 DEF skip, last

\* Of lists as long as each other the cuts are as long as each other.
LEMMA CutLengths ==
    ASSUME NEW S, NEW T, NEW a \in Seq(S), NEW b \in Seq(T), Len(a) = Len(b),
           NEW limit \in Int, NEW offset \in Int
    PROVE  Len(Cut(a, limit, offset)) = Len(Cut(b, limit, offset))
<1>1. EndOfCut(a, limit, offset) = EndOfCut(b, limit, offset)
  BY DEF EndOfCut
<1>2. Len(Cut(a, limit, offset)) =
        IF Skipped(offset) < EndOfCut(a, limit, offset)
        THEN EndOfCut(a, limit, offset) - Skipped(offset) ELSE 0
  BY CutProperties
<1>3. Len(Cut(b, limit, offset)) =
        IF Skipped(offset) < EndOfCut(b, limit, offset)
        THEN EndOfCut(b, limit, offset) - Skipped(offset) ELSE 0
  BY CutProperties
<1> QED
  BY <1>1, <1>2, <1>3

\* MongoDB's page is the cut, ...
LEMMA MongoPageIsCut ==
    ASSUME NEW resources \in SUBSET Resources, NEW options,
           options.limit \in Int, options.offset \in Int
    PROVE  MongoPage(resources, options) = Cut(Sorted(resources), options.limit, options.offset)
<1> DEFINE n == Len(Sorted(resources))
           skip == Skipped(options.offset)
           end == IF options.limit > 0 THEN skip + options.limit ELSE n
<1>1. n \in Nat
  BY SortedProperties
<1>2. skip \in Int /\ end \in Int
  BY <1>1 DEF Skipped
<1>3. Min({end, n}) = EndOfCut(Sorted(resources), options.limit, options.offset)
  <2>1. Min({end, n}) = IF end <= n THEN end ELSE n
    <3> HIDE DEF end, n
    <3> QED
      BY <1>1, <1>2, MinOfTwo
  <2> QED
    BY <1>1, <1>2, <2>1 DEF EndOfCut
<1> QED
  BY <1>3 DEF MongoPage, Cut, Skipped

\* ... and so is that of the in-memory database.
LEMMA LimitOffsetIsCut ==
    ASSUME NEW S, NEW list \in Seq(S), NEW limit \in Int, NEW offset \in Int
    PROVE  limitOffset(list, limit, offset) = Cut(list, limit, offset)
<1> DEFINE n == Len(list)
           skip == Skipped(offset)
           rest == IF offset > 0 THEN SubSeq(list, offset + 1, n) ELSE list
           end == IF limit > 0 /\ limit <= Len(rest) THEN limit ELSE Len(rest)
<1>1. n \in Nat /\ skip \in Nat
  BY LenProperties DEF Skipped
<1>2. /\ rest \in Seq(S)
      /\ Len(rest) = IF skip <= n THEN n - skip ELSE 0
      /\ \A i \in 1..Len(rest) : rest[i] = list[skip + i]
  <2>1. CASE offset > 0
    <3>1. \A i \in (offset + 1)..n : list[i] \in S
      BY <1>1, <2>1, ElementOfSeq
    <3>2. /\ SubSeq(list, offset + 1, n) \in Seq(S)
          /\ Len(SubSeq(list, offset + 1, n)) =
               IF offset + 1 <= n THEN n - (offset + 1) + 1 ELSE 0
          /\ \A i \in 1..(n - (offset + 1) + 1) :
               SubSeq(list, offset + 1, n)[i] = list[offset + 1 + i - 1]
      BY <1>1, <3>1, SubSeqProperties
    <3>3. rest = SubSeq(list, offset + 1, n) /\ skip = offset
      BY <2>1 DEF Skipped
    <3>4. \A i : i \in Int => offset + 1 + i - 1 = offset + i
      OBVIOUS
    <3> HIDE DEF rest, skip, n
    <3> QED
      BY <1>1, <2>1, <3>2, <3>3, <3>4
  <2>2. CASE ~(offset > 0)
    BY <1>1, <2>2 DEF Skipped
  <2> QED
    BY <2>1, <2>2
<1>3. Len(rest) \in Nat /\ end \in Nat /\ end <= Len(rest)
  <2> HIDE DEF rest
  <2>1. Len(rest) \in Nat
    BY <1>2, LenProperties
  <2> QED
    BY <2>1
<1>4. limitOffset(list, limit, offset) = SubSeq(rest, 1, end)
  <2>1. CASE limit > 0
    <3>1. Min({limit, Len(rest)}) = end
      <4> HIDE DEF rest
      <4> QED
        BY <1>3, <2>1, MinOfTwo
    <3> QED
      BY <2>1, <3>1 DEF limitOffset
  <2>2. CASE ~(limit > 0)
    <3>1. SubSeq(rest, 1, Len(rest)) = rest
      <4> HIDE DEF rest
      <4> QED
        BY <1>2, SubSeqFull
    <3> QED
      BY <2>2, <3>1 DEF limitOffset
  <2> QED
    BY <2>1, <2>2
<1> HIDE DEF rest, end
<1>5. \A i \in 1..end : rest[i] \in S
  BY <1>2, <1>3, ElementOfSeq
<1>6. /\ SubSeq(rest, 1, end) \in Seq(S)
      /\ Len(SubSeq(rest, 1, end)) = end
      /\ \A i \in 1..end : SubSeq(rest, 1, end)[i] = list[skip + i]
  <2>1. /\ SubSeq(rest, 1, end) \in Seq(S)
        /\ Len(SubSeq(rest, 1, end)) = IF 1 <= end THEN end - 1 + 1 ELSE 0
        /\ \A i \in 1..(end - 1 + 1) : SubSeq(rest, 1, end)[i] = rest[1 + i - 1]
    BY <1>3, <1>5, SubSeqProperties
  <2>2. \A i \in 1..end : i \in 1..Len(rest) /\ i \in 1..(end - 1 + 1) /\ 1 + i - 1 = i
    BY <1>3
  <2> QED
    BY <1>2, <1>3, <2>1, <2>2
<1>7. /\ Cut(list, limit, offset) \in Seq(S)
      /\ Len(Cut(list, limit, offset)) = end
      /\ \A i \in 1..end : Cut(list, limit, offset)[i] = list[skip + i]
  <2>1. end = IF skip < EndOfCut(list, limit, offset)
              THEN EndOfCut(list, limit, offset) - skip ELSE 0
    BY <1>1, <1>2, <1>3 DEF EndOfCut, end
  <2> QED
    BY <2>1, CutProperties
<1> QED
  BY <1>4, <1>6, <1>7, SeqEqual

\* Numbers that are not positive are all the same, so that the client may
\* leave them out.
LEMMA PageSurvivesQuery ==
    ASSUME NEW options, options.limit \in Int, options.offset \in Int, NEW query,
           query.limit = PageQuery(options).limit, query.offset = PageQuery(options).offset
    PROVE  /\ ListOptionsFromQuery(query).ids = NoIds
           /\ ListOptionsFromQuery(query).limit \in Int
           /\ ListOptionsFromQuery(query).offset \in Int
           /\ \A list : Cut(list, ListOptionsFromQuery(query).limit,
                             ListOptionsFromQuery(query).offset)
                       = Cut(list, options.limit, options.offset)
<1>1. /\ ListOptionsFromQuery(query).limit = IF options.limit > 0 THEN options.limit ELSE 0
      /\ ListOptionsFromQuery(query).offset = IF options.offset > 0 THEN options.offset ELSE 0
      /\ ListOptionsFromQuery(query).ids = NoIds
  BY UnsetAssumption DEF ListOptionsFromQuery, PageQuery
<1> DEFINE received == ListOptionsFromQuery(query)
<1>2. received.limit \in Int /\ received.offset \in Int
  BY <1>1
<1>3. Skipped(received.offset) = Skipped(options.offset) /\ Skipped(options.offset) \in Int
  BY <1>1 DEF Skipped
<1>4. received.limit > 0 <=> options.limit > 0
  BY <1>1
<1>5. options.limit > 0 => received.limit = options.limit
  BY <1>1
<1>6. ASSUME NEW list
      PROVE  EndOfCut(list, received.limit, received.offset)
               = EndOfCut(list, options.limit, options.offset)
  BY <1>3, <1>4, <1>5 DEF EndOfCut
<1> QED
  BY <1>1, <1>2, <1>3, <1>6 DEF Cut

-----------------------------------------------------------------------------
(* What the databases hold and list                                        *)

\* What checkPermissions finds among the resources.
Allowed(token, list) == {r \in DOMAIN mock : checkPerms(token, mock[r], list)}

LEMMA AllowedAlike ==
    ASSUME IInv, NEW token, NEW list \in SUBSET Permission
    PROVE  /\ Allowed(token, list) \subseteq DOMAIN mock
           /\ {r \in DOMAIN entries : checkPermissions(token, entries[r], list)}
                = Allowed(token, list)
<1>1. ASSUME NEW r \in DOMAIN mock
      PROVE  checkPermissions(token, entries[r], list) <=> checkPerms(token, mock[r], list)
  BY <1>1, SameDecision DEF IInv, TypeOK, StoredInv
<1> QED
  BY <1>1 DEF Allowed, IInv, StoredInv

\* A resource with well-formed permissions is an answer, ...
LEMMA AnswerType ==
    ASSUME NEW id \in Resources \cup Id, NEW perms, IsResourcePermissions(perms)
    PROVE  Resource(id, perms) \in Answer
<1> DEFINE all == UNION {[subjects -> SUBSET Permission] : subjects \in SUBSET Subject}
<1>1. perms \in all
  BY DEF IsResourcePermissions
<1> HIDE DEF all
<1>2. Answer = [id : Resources \cup Id, perms : all]
  BY DEF Answer, all
<1> QED
  BY <1>1, <1>2 DEF Resource

\* ... and both databases have those.
LEMMA ResourceIsAnswer ==
    ASSUME IInv, NEW r \in DOMAIN mock
    PROVE  /\ r \in Resources
           /\ \A id \in Resources \cup Id :
                /\ Resource(id, mock[r]) \in Answer
                /\ Resource(id, ToResource(entries[r])) \in Answer
<1>1. r \in Resources /\ IsResourcePermissions(mock[r])
  BY DEF IInv, TypeOK
<1>2. IsResourcePermissions(ToResource(entries[r]))
  BY <1>1, StoredType, ReadType DEF IInv, StoredInv
<1> QED
  BY <1>1, <1>2, AnswerType

\* The resources to a page of ids, read from MongoDB.
LEMMA MongoResourcesProperties ==
    ASSUME IInv, NEW ids \in Seq(DOMAIN mock)
    PROVE  /\ MongoResources(ids) \in Seq(Answer)
           /\ Len(MongoResources(ids)) = Len(ids)
           /\ \A i \in 1..Len(ids) :
                MongoResources(ids)[i] = Resource(ids[i], ToResource(entries[ids[i]]))
           /\ [i \in DOMAIN MongoResources(ids) |-> MongoResources(ids)[i].id] = ids
<1> DEFINE list == MongoResources(ids)
<1>1. Len(ids) \in Nat /\ DOMAIN ids = 1..Len(ids) /\ ids \in [1..Len(ids) -> DOMAIN mock]
  BY LenProperties
<1>2. /\ DOMAIN list = 1..Len(ids)
      /\ \A i \in 1..Len(ids) : list[i] = Resource(ids[i], ToResource(entries[ids[i]]))
      /\ list = [i \in 1..Len(ids) |-> list[i]]
  BY <1>1 DEF MongoResources
<1> HIDE DEF list
<1>3. list \in [1..Len(ids) -> Answer]
  BY <1>1, <1>2, ResourceIsAnswer
<1>4. list \in Seq(Answer) /\ Len(list) = Len(ids)
  BY <1>1, <1>3
<1>5. \A i \in 1..Len(ids) : list[i].id = ids[i]
  BY <1>2 DEF Resource
<1>6. [i \in DOMAIN list |-> list[i].id] = ids
  BY <1>1, <1>2, <1>5
<1> QED
  BY <1>2, <1>4, <1>6 DEF list

\* A page of the in-memory database is the page of ids with their resources.
LEMMA MockResourcesProperties ==
    ASSUME IInv, NEW resources \in SUBSET DOMAIN mock, NEW options,
           options.limit \in Int, options.offset \in Int,
           NEW ids, ids = Cut(Sorted(resources), options.limit, options.offset)
    PROVE  /\ MockResources(resources, options) \in Seq(Answer)
           /\ Len(MockResources(resources, options)) = Len(ids)
           /\ \A i \in 1..Len(ids) :
                MockResources(resources, options)[i] = Resource(ids[i], mock[ids[i]])
           /\ [i \in DOMAIN MockResources(resources, options) |->
                MockResources(resources, options)[i].id] = ids
<1> DEFINE sorted == Sorted(resources)
           n == Len(sorted)
           all == [i \in DOMAIN sorted |-> Resource(sorted[i], mock[sorted[i]])]
           list == MockResources(resources, options)
           skip == Skipped(options.offset)
<1>1. resources \in SUBSET Resources
  BY DEF IInv, TypeOK
<1>2. sorted \in Seq(resources)
  BY <1>1, SortedProperties
<1>3. n \in Nat /\ DOMAIN sorted = 1..n /\ sorted \in [1..n -> resources]
  BY <1>2, LenProperties
<1>4. /\ all = [i \in 1..n |-> all[i]]
      /\ \A i \in 1..n : all[i] = Resource(sorted[i], mock[sorted[i]])
  BY <1>3
<1>5. list = limitOffset(all, options.limit, options.offset)
  BY DEF MockResources
<1> HIDE DEF sorted, n, all, list
<1>6. all \in [1..n -> Answer]
  BY <1>3, <1>4, ResourceIsAnswer
<1>7. all \in Seq(Answer) /\ Len(all) = n
  BY <1>3, <1>6
<1>8. list = Cut(all, options.limit, options.offset)
  BY <1>5, <1>7, LimitOffsetIsCut
<1>10. /\ list \in Seq(Answer)
       /\ Len(list) = Len(ids)
       /\ \A i \in 1..Len(ids) : /\ skip + i \in 1..n
                                 /\ list[i] = all[skip + i]
                                 /\ ids[i] = sorted[skip + i]
  <2>1. ids = Cut(sorted, options.limit, options.offset)
    BY DEF sorted
  <2>2. Len(list) = Len(ids)
    BY <1>2, <1>7, <1>8, <2>1, CutLengths DEF n
  <2>3. list \in Seq(Answer)
    BY <1>7, <1>8, CutProperties
  <2>4. \A i \in 1..Len(list) : list[i] = all[skip + i]
    BY <1>7, <1>8, CutProperties
  <2>5. \A i \in 1..Len(ids) : skip + i \in 1..n /\ ids[i] = sorted[skip + i]
    BY <1>2, <2>1, CutProperties DEF n
  <2> QED
    BY <2>2, <2>3, <2>4, <2>5
<1>11. \A i \in 1..Len(ids) : list[i] = Resource(ids[i], mock[ids[i]])
  BY <1>4, <1>10
<1>12. ids \in Seq(resources)
  BY <1>2, CutProperties DEF sorted
<1>13. DOMAIN list = 1..Len(ids) /\ ids = [i \in 1..Len(ids) |-> ids[i]]
  BY <1>10, <1>12, LenProperties
<1>14. ASSUME NEW i \in 1..Len(ids)
       PROVE  list[i].id = ids[i]
  <2>1. list[i] = Resource(ids[i], mock[ids[i]])
    BY <1>11
  <2> QED
    BY <2>1 DEF Resource
<1>15. [i \in DOMAIN list |-> list[i].id] = ids
  BY <1>13, <1>14
<1> QED
  BY <1>10, <1>11, <1>15 DEF list

-----------------------------------------------------------------------------
(* What the controller lists on each database                              *)

LEMMA AccessCases ==
    ASSUME NEW token, NEW list
    PROVE  /\ CheckTopicDefaultPermission(token, list) \in {"granted", "denied", "unknown topic"}
           /\ CheckTopicDefaultPermission(token, list) = "unknown topic"
                <=> ~IsAdmin(token) /\ defaults = Unregistered
BY DEF CheckTopicDefaultPermission

\* The resources a listing is about.
Listed(token, list) ==
    IF CheckTopicDefaultPermission(token, list) = "granted" THEN DOMAIN mock
    ELSE Allowed(token, list)

LEMMA ListedType ==
    ASSUME IInv, NEW token, NEW list
    PROVE  /\ Listed(token, list) \subseteq DOMAIN mock
           /\ Listed(token, list) \in SUBSET Resources
BY DEF Listed, Allowed, IInv, TypeOK

\* The listing of ids that both clients should get.
ListedIds(token, options, list) ==
    IF CheckTopicDefaultPermission(token, list) = "unknown topic" THEN Refused
    ELSE Cut(Sorted(Listed(token, list)), options.limit, options.offset)

\* All ids, from either database.
LEMMA AdminListings ==
    ASSUME IInv, NEW options, options.limit \in Int, options.offset \in Int,
           options.ids = NoIds
    PROVE  /\ MongoAdminListResourceIds(options)
                = Cut(Sorted(DOMAIN mock), options.limit, options.offset)
           /\ MockAdminListResourceIds(options)
                = Cut(Sorted(DOMAIN mock), options.limit, options.offset)
           /\ MongoAdminListResources(options)
                = MongoResources(Cut(Sorted(DOMAIN mock), options.limit, options.offset))
           /\ MockAdminListResources(options) = MockResources(DOMAIN mock, options)
<1>1. DOMAIN mock \in SUBSET Resources /\ DOMAIN entries = DOMAIN mock
  BY DEF IInv, TypeOK, StoredInv
<1>2. \A r : Among(r, options)
  BY DEF Among
<1>3. {r \in DOMAIN entries : Among(r, options)} = DOMAIN mock
  BY <1>1, <1>2
<1>4. {r \in DOMAIN mock : Among(r, options)} = DOMAIN mock
  BY <1>2
<1>5. MongoPage(DOMAIN mock, options) = Cut(Sorted(DOMAIN mock), options.limit, options.offset)
  BY <1>1, MongoPageIsCut
<1>6. Sorted(DOMAIN mock) \in Seq(DOMAIN mock)
  BY <1>1, SortedProperties
<1>7. limitOffset(Sorted(DOMAIN mock), options.limit, options.offset)
        = Cut(Sorted(DOMAIN mock), options.limit, options.offset)
  BY <1>6, LimitOffsetIsCut
<1> QED
  BY <1>3, <1>4, <1>5, <1>7 DEF MongoAdminListResourceIds, MockAdminListResourceIds,
                               MongoAdminListResources, MockAdminListResources

\* Those a caller has the permissions of the list for.
LEMMA ListingsByPermissions ==
    ASSUME IInv, NEW token, NEW list \in SUBSET Permission, NEW options,
           options.limit \in Int, options.offset \in Int,
           NEW ids, ids = Cut(Sorted(Allowed(token, list)), options.limit, options.offset)
    PROVE  /\ MongoListResourcesByPermissions(token, options, list) = MongoResources(ids)
           /\ MongoListResourceIdsByPermissions(token, options, list) = ids
           /\ MockListResourcesByPermissions(token, options, list)
                = MockResources(Allowed(token, list), options)
           /\ MockListResourceIdsByPermissions(token, options, list) = ids
<1>1. Allowed(token, list) \in SUBSET DOMAIN mock /\ Allowed(token, list) \in SUBSET Resources
  BY DEF Allowed, IInv, TypeOK
<1>2. MongoPage(Allowed(token, list), options) = ids
  BY <1>1, MongoPageIsCut
<1>3. ids \in Seq(DOMAIN mock)
  <2>1. Sorted(Allowed(token, list)) \in Seq(Allowed(token, list))
    BY <1>1, SortedProperties
  <2>2. ids \in Seq(Allowed(token, list))
    BY <2>1, CutProperties
  <2> QED
    BY <1>1, <2>2, SeqMonotonic
<1>4. MongoListResourcesByPermissions(token, options, list) = MongoResources(ids)
  BY <1>2, AllowedAlike DEF MongoListResourcesByPermissions
<1>5. MongoListResourceIdsByPermissions(token, options, list) = ids
  BY <1>3, <1>4, MongoResourcesProperties DEF MongoListResourceIdsByPermissions
<1>6. MockListResourcesByPermissions(token, options, list)
        = MockResources(Allowed(token, list), options)
  BY DEF MockListResourcesByPermissions, Allowed
<1>7. MockListResourceIdsByPermissions(token, options, list) = ids
  BY <1>1, <1>6, MockResourcesProperties DEF MockListResourceIdsByPermissions
<1> QED
  BY <1>4, <1>5, <1>6, <1>7

\* The ids the controller lists on MongoDB and on the in-memory database.
LEMMA IdsAlike ==
    ASSUME IInv, NEW token, NEW list \in SUBSET Permission, NEW options,
           options.limit \in Int, options.offset \in Int, options.ids = NoIds
    PROVE  /\ Service!ListAccessibleResourceIds(token, options, list)
                = ListedIds(token, options, list)
           /\ TestClient!ListAccessibleResourceIds(token, options, list)
                = ListedIds(token, options, list)
<1> DEFINE access == CheckTopicDefaultPermission(token, list)
<1>1. CASE access = "granted"
  BY <1>1, AdminListings
     DEF Service!ListAccessibleResourceIds, TestClient!ListAccessibleResourceIds,
         ListedIds, Listed
<1>2. CASE access = "denied"
  BY <1>2, ListingsByPermissions
     DEF Service!ListAccessibleResourceIds, TestClient!ListAccessibleResourceIds,
         ListedIds, Listed
<1>3. CASE access = "unknown topic"
  BY <1>3 DEF Service!ListAccessibleResourceIds, TestClient!ListAccessibleResourceIds, ListedIds
<1> QED
  BY <1>1, <1>2, <1>3, AccessCases

\* The resources the controller lists on MongoDB and on the in-memory database.
LEMMA AdministratedAlike ==
    ASSUME IInv, NEW token, NEW options,
           options.limit \in Int, options.offset \in Int, options.ids = NoIds
    PROVE  /\ Service!ListResourcesWithAdminPermission(token, options)
                = IF CheckTopicDefaultPermission(token, {"a"}) = "unknown topic" THEN Refused
                  ELSE MongoResources(ListedIds(token, options, {"a"}))
           /\ TestClient!ListResourcesWithAdminPermission(token, options)
                = IF CheckTopicDefaultPermission(token, {"a"}) = "unknown topic" THEN Refused
                  ELSE MockResources(Listed(token, {"a"}), options)
<1> DEFINE access == CheckTopicDefaultPermission(token, {"a"})
<1>1. {"a"} \in SUBSET Permission
  BY DEF Permission
<1>2. CASE access = "granted"
  BY <1>2, AdminListings
     DEF Service!ListResourcesWithAdminPermission, TestClient!ListResourcesWithAdminPermission,
         ListedIds, Listed
<1>3. CASE access = "denied"
  BY <1>1, <1>3, ListingsByPermissions
     DEF Service!ListResourcesWithAdminPermission, TestClient!ListResourcesWithAdminPermission,
         ListedIds, Listed
<1>4. CASE access = "unknown topic"
  BY <1>4
     DEF Service!ListResourcesWithAdminPermission, TestClient!ListResourcesWithAdminPermission
<1> QED
  BY <1>2, <1>3, <1>4, AccessCases

\* The resource under another id.
LEMMA ResourceWithId ==
    ASSUME NEW r, NEW id, NEW perms
    PROVE  [Resource(r, perms) EXCEPT !.id = id] = Resource(id, perms)
BY DEF Resource

\* One resource, looked up by the id without modifier, is returned to those it
\* is listed for.
IsListed(token, r) ==
    CheckTopicDefaultPermission(token, {"a"}) # "unknown topic" /\ r \in Listed(token, {"a"})

LEMMA GetAlike ==
    ASSUME IInv, NEW token, NEW id, NEW r, r = SplitModifier(id)
    PROVE  /\ Service!GetResource(token, id)
                = IF IsListed(token, r) THEN Resource(id, ToResource(entries[r])) ELSE Refused
           /\ TestClient!GetResource(token, id)
                = IF IsListed(token, r) THEN Resource(id, mock[r]) ELSE Refused
<1> DEFINE access == CheckTopicDefaultPermission(token, {"a"})
           options == [checkPermission |-> access # "granted", permissions |-> {"a"}]
<1>1. {"a"} \in SUBSET Permission /\ DOMAIN entries = DOMAIN mock
  BY DEF Permission, IInv, StoredInv
<1>2. r \in DOMAIN mock => Resource(r, ToResource(entries[r])) # Refused
                           /\ Resource(r, mock[r]) # Refused
  BY ResourceIsAnswer, RefusedAssumption
<1>3. r \in DOMAIN mock => (checkPermissions(token, entries[r], {"a"}) <=> r \in Allowed(token, {"a"}))
  BY <1>1, AllowedAlike
<1>4. access # "unknown topic" =>
        /\ MongoGetResource(r, options, token)
             = IF IsListed(token, r) THEN Resource(r, ToResource(entries[r])) ELSE Refused
        /\ MockGetResource(r, options, token)
             = IF IsListed(token, r) THEN Resource(r, mock[r]) ELSE Refused
  <2>1. CASE access = "granted"
    <3>1. options.checkPermission = FALSE
      BY <2>1
    <3>2. IsListed(token, r) <=> r \in DOMAIN mock
      BY <2>1 DEF Listed, IsListed
    <3> QED
      BY <1>1, <3>1, <3>2 DEF MongoGetResource, MockGetResource
  <2>2. CASE access = "denied"
    <3>1. options.checkPermission = TRUE /\ options.permissions = {"a"}
      BY <2>2
    <3>2. IsListed(token, r) <=> r \in Allowed(token, {"a"})
      BY <2>2 DEF Listed, IsListed
    <3>3. r \in DOMAIN mock => (checkPerms(token, mock[r], {"a"}) <=> r \in Allowed(token, {"a"}))
      BY DEF Allowed
    <3>4. r \in Allowed(token, {"a"}) => r \in DOMAIN mock
      BY DEF Allowed
    <3> HIDE DEF options
    <3> QED
      BY <1>1, <1>3, <3>1, <3>2, <3>3, <3>4 DEF MongoGetResource, MockGetResource
  <2> QED
    BY <2>1, <2>2, AccessCases
<1>5. IsListed(token, r) => r \in DOMAIN mock
  BY ListedType DEF IsListed
<1>6. \A perms : [Resource(r, perms) EXCEPT !.id = id] = Resource(id, perms)
  BY ResourceWithId
<1>7. CASE access = "unknown topic"
  BY <1>7 DEF Service!GetResource, TestClient!GetResource, IsListed
<1>8. CASE access # "unknown topic"
  <2>1. /\ Service!GetResource(token, id)
             = Service!WithId(MongoGetResource(r, options, token), id)
        /\ TestClient!GetResource(token, id)
             = TestClient!WithId(MockGetResource(r, options, token), id)
    BY <1>8 DEF Service!GetResource, TestClient!GetResource
  <2> HIDE DEF options
  <2>2. CASE IsListed(token, r)
    BY <1>2, <1>4, <1>5, <1>6, <1>8, <2>1, <2>2 DEF Service!WithId, TestClient!WithId
  <2>3. CASE ~IsListed(token, r)
    BY <1>4, <1>8, <2>1, <2>3 DEF Service!WithId, TestClient!WithId
  <2> QED
    BY <2>2, <2>3
<1> QED
  BY <1>7, <1>8

-----------------------------------------------------------------------------
(* What arrives through HTTP                                               *)

\* An empty list reads as "r".
AskedFor(list) == IF list = {} THEN {"r"} ELSE list

LEMMA ListSurvivesQuery ==
    ASSUME NEW list \in SUBSET Permission, NEW query, query.permissions = Encode(list)
    PROVE  /\ PermissionsFromQuery(query) = AskedFor(list)
           /\ AskedFor(list) \in SUBSET Permission
BY UnsetAssumption DEF PermissionsFromQuery, Encode, AskedFor, Permission

LEMMA HttpListings ==
    ASSUME IInv, NEW token, NEW options, options.limit \in Int, options.offset \in Int
    PROVE  /\ \A list \in SUBSET Permission :
                HttpListAccessibleResourceIds(token, options, list)
                  = ListedIds(token, options, AskedFor(list))
           /\ HttpAdminListResourceIds(token, options)
                = IF IsAdmin(token) THEN Cut(Sorted(DOMAIN mock), options.limit, options.offset)
                  ELSE Refused
           /\ HttpListResourcesWithAdminPermission(token, options)
                = IF CheckTopicDefaultPermission(token, {"a"}) = "unknown topic" THEN Refused
                  ELSE MongoResources(ListedIds(token, options, {"a"}))
<1>1. ASSUME NEW list \in SUBSET Permission
      PROVE  HttpListAccessibleResourceIds(token, options, list)
               = ListedIds(token, options, AskedFor(list))
  <2> DEFINE page == PageQuery(options)
             query == [permissions |-> Encode(list), limit |-> page.limit, offset |-> page.offset]
             received == ListOptionsFromQuery(query)
  <2>1. /\ received.ids = NoIds /\ received.limit \in Int /\ received.offset \in Int
        /\ \A l : Cut(l, received.limit, received.offset) = Cut(l, options.limit, options.offset)
    <3>1. query.limit = page.limit /\ query.offset = page.offset
      OBVIOUS
    <3> HIDE DEF query
    <3> QED
      BY <3>1, PageSurvivesQuery
  <2>2. PermissionsFromQuery(query) = AskedFor(list) /\ AskedFor(list) \in SUBSET Permission
    <3>1. query.permissions = Encode(list)
      OBVIOUS
    <3> HIDE DEF query
    <3> QED
      BY <3>1, ListSurvivesQuery
  <2>3. HttpListAccessibleResourceIds(token, options, list)
          = Service!ListAccessibleResourceIds(token, received, PermissionsFromQuery(query))
    BY DEF HttpListAccessibleResourceIds, ListAccessibleResourceIdsEndpoint
  <2> HIDE DEF query, received
  <2>4. Service!ListAccessibleResourceIds(token, received, AskedFor(list))
          = ListedIds(token, received, AskedFor(list))
    BY <2>1, <2>2, IdsAlike
  <2>5. ListedIds(token, received, AskedFor(list)) = ListedIds(token, options, AskedFor(list))
    BY <2>1 DEF ListedIds
  <2> QED
    BY <2>2, <2>3, <2>4, <2>5
<1> DEFINE received == ListOptionsFromQuery(PageQuery(options))
<1>2. /\ received.ids = NoIds /\ received.limit \in Int /\ received.offset \in Int
      /\ \A l : Cut(l, received.limit, received.offset) = Cut(l, options.limit, options.offset)
  BY PageSurvivesQuery
<1>3. HttpAdminListResourceIds(token, options)
        = IF IsAdmin(token) THEN MongoAdminListResourceIds(received) ELSE Refused
  BY DEF HttpAdminListResourceIds, AdminListResourceIdsEndpoint, Service!AdminListResourceIds,
         Service!IsAdmin, IsAdmin
<1>4. HttpListResourcesWithAdminPermission(token, options)
        = Service!ListResourcesWithAdminPermission(token, received)
  BY DEF HttpListResourcesWithAdminPermission, ListResourcesWithAdminPermissionEndpoint
<1> HIDE DEF received
<1>5. MongoAdminListResourceIds(received) = Cut(Sorted(DOMAIN mock), options.limit, options.offset)
  BY <1>2, AdminListings
<1>6. Service!ListResourcesWithAdminPermission(token, received)
        = IF CheckTopicDefaultPermission(token, {"a"}) = "unknown topic" THEN Refused
          ELSE MongoResources(ListedIds(token, received, {"a"}))
  BY <1>2, AdministratedAlike
<1>7. ListedIds(token, received, {"a"}) = ListedIds(token, options, {"a"})
  BY <1>2 DEF ListedIds
<1> QED
  BY <1>1, <1>3, <1>4, <1>5, <1>6, <1>7

-----------------------------------------------------------------------------
\* What MongoDB does not keep grants nothing.
LEMMA SameResources ==
    ASSUME IInv, NEW r \in DOMAIN mock, NEW id \in Resources \cup Id
    PROVE  SameResource(Resource(id, ToResource(entries[r])), Resource(id, mock[r]))
<1>1. IsResourcePermissions(mock[r]) /\ entries[r] = setResourcePermissions(mock[r])
  BY DEF IInv, TypeOK, StoredInv
<1>2. Resource(id, ToResource(entries[r])) # Refused /\ Resource(id, mock[r]) # Refused
  BY ResourceIsAnswer, RefusedAssumption
<1>3. \A s \in Subject : Grants(ToResource(entries[r]), s) = Grants(mock[r], s)
  BY <1>1, RoundTrip
<1>4. ASSUME NEW perms
      PROVE  Resource(id, perms).id = id /\ Resource(id, perms).perms = perms
  BY DEF Resource
<1> QED
  BY <1>2, <1>3, <1>4 DEF SameResource

LEMMA ListingsInState == IInv => ListingsAgree
<1> SUFFICES ASSUME IInv, NEW token \in Tokens
             PROVE  /\ \A options \in ListOptions :
                         LET sent == [options EXCEPT !.ids = NoIds] IN
                         /\ HttpAdminListResourceIds(token, options)
                              = TestClient!AdminListResourceIds(token, sent)
                         /\ SameListing(HttpListResourcesWithAdminPermission(token, options),
                                        TestClient!ListResourcesWithAdminPermission(token, sent))
                    /\ \A options \in Pages, list \in Lists :
                         HttpListAccessibleResourceIds(token, options, list)
                           = TestClient!ListAccessibleResourceIds(token, options,
                                                                  IF list = {} THEN {"r"} ELSE list)
                    /\ \A id \in Id :
                         SameResource(HttpGetResource(token, id), TestClient!GetResource(token, id))
  BY DEF ListingsAgree
<1>1. ASSUME NEW options \in ListOptions, NEW sent, sent = [options EXCEPT !.ids = NoIds]
      PROVE  /\ HttpAdminListResourceIds(token, options)
                  = TestClient!AdminListResourceIds(token, sent)
             /\ SameListing(HttpListResourcesWithAdminPermission(token, options),
                            TestClient!ListResourcesWithAdminPermission(token, sent))
  <2>1. /\ options.limit \in Int /\ options.offset \in Int
        /\ sent.limit = options.limit /\ sent.offset = options.offset /\ sent.ids = NoIds
    <3>1. options.limit \in Numbers \cup {0} /\ options.offset \in Numbers \cup {0}
      BY DEF ListOptions
    <3>2. \A n \in Numbers \cup {0} : n \in Int
      BY NumbersAssumption
    <3>3. sent.limit = options.limit /\ sent.offset = options.offset /\ sent.ids = NoIds
      BY <1>1 DEF ListOptions
    <3> QED
      BY <3>1, <3>2, <3>3
  <2>2. HttpAdminListResourceIds(token, options) = TestClient!AdminListResourceIds(token, sent)
    BY <2>1, HttpListings, AdminListings
       DEF TestClient!AdminListResourceIds, TestClient!IsAdmin, IsAdmin
  <2>3. SameListing(HttpListResourcesWithAdminPermission(token, options),
                    TestClient!ListResourcesWithAdminPermission(token, sent))
    <3>1. CASE CheckTopicDefaultPermission(token, {"a"}) = "unknown topic"
      BY <2>1, <3>1, HttpListings, AdministratedAlike DEF SameListing
    <3>2. CASE CheckTopicDefaultPermission(token, {"a"}) # "unknown topic"
      <4> DEFINE listed == Listed(token, {"a"})
                 ids == Cut(Sorted(listed), options.limit, options.offset)
                 a == MongoResources(ids)
                 b == MockResources(listed, sent)
      <4>1. /\ HttpListResourcesWithAdminPermission(token, options) = a
            /\ TestClient!ListResourcesWithAdminPermission(token, sent) = b
        BY <2>1, <3>2, HttpListings, AdministratedAlike DEF ListedIds
      <4>2. listed \in SUBSET DOMAIN mock /\ listed \in SUBSET Resources
        BY ListedType
      <4> HIDE DEF listed
      <4>3. ids \in Seq(DOMAIN mock)
        <5>1. Sorted(listed) \in Seq(listed)
          BY <4>2, SortedProperties
        <5>2. ids \in Seq(listed)
          BY <2>1, <5>1, CutProperties
        <5> QED
          BY <4>2, <5>2, SeqMonotonic
      <4>4. /\ a \in Seq(Answer) /\ Len(a) = Len(ids)
            /\ \A i \in 1..Len(ids) : a[i] = Resource(ids[i], ToResource(entries[ids[i]]))
        BY <4>3, MongoResourcesProperties
      <4>5. /\ b \in Seq(Answer) /\ Len(b) = Len(ids)
            /\ \A i \in 1..Len(ids) : b[i] = Resource(ids[i], mock[ids[i]])
        <5>1. ids = Cut(Sorted(listed), options.limit, options.offset)
          OBVIOUS
        <5> HIDE DEF ids
        <5> QED
          BY <2>1, <4>2, <5>1, MockResourcesProperties
      <4> HIDE DEF ids, a, b
      <4>6. DOMAIN a = 1..Len(ids)
        BY <4>4, LenProperties
      <4>7. ASSUME NEW i \in DOMAIN a
            PROVE  SameResource(a[i], b[i])
        <5>1. ids[i] \in DOMAIN mock
          BY <4>3, <4>6, ElementOfSeq
        <5>2. ids[i] \in Resources
          BY <5>1, ResourceIsAnswer
        <5> QED
          BY <4>4, <4>5, <4>6, <5>1, <5>2, SameResources
      <4> QED
        BY <4>1, <4>4, <4>5, <4>7, RefusedAssumption DEF SameListing
    <3> QED
      BY <3>1, <3>2
  <2> QED
    BY <2>2, <2>3
<1>2. ASSUME NEW options \in Pages, NEW list \in Lists
      PROVE  HttpListAccessibleResourceIds(token, options, list)
               = TestClient!ListAccessibleResourceIds(token, options,
                                                      IF list = {} THEN {"r"} ELSE list)
  <2>1. options.limit \in Int /\ options.offset \in Int /\ options.ids = NoIds
    <3>1. /\ options.limit \in Numbers \cup {0} /\ options.offset \in Numbers \cup {0}
          /\ options.ids = NoIds
      BY DEF Pages
    <3>2. \A n \in Numbers \cup {0} : n \in Int
      BY NumbersAssumption
    <3> QED
      BY <3>1, <3>2
  <2>2. list \in SUBSET Permission /\ AskedFor(list) \in SUBSET Permission
    BY DEF Lists, AskedFor, Permission
  <2>3. HttpListAccessibleResourceIds(token, options, list)
          = ListedIds(token, options, AskedFor(list))
    BY <2>1, <2>2, HttpListings
  <2>4. TestClient!ListAccessibleResourceIds(token, options, AskedFor(list))
          = ListedIds(token, options, AskedFor(list))
    BY <2>1, <2>2, IdsAlike
  <2> QED
    BY <2>3, <2>4 DEF AskedFor
<1>3. ASSUME NEW id \in Id
      PROVE  SameResource(HttpGetResource(token, id), TestClient!GetResource(token, id))
  <2> DEFINE r == SplitModifier(id)
  <2>1. /\ HttpGetResource(token, id)
             = IF IsListed(token, r) THEN Resource(id, ToResource(entries[r])) ELSE Refused
        /\ TestClient!GetResource(token, id)
             = IF IsListed(token, r) THEN Resource(id, mock[r]) ELSE Refused
    BY GetAlike DEF HttpGetResource, GetResourceEndpoint
  <2>2. IsListed(token, r) => r \in DOMAIN mock
    BY ListedType DEF IsListed
  <2> HIDE DEF r
  <2>3. CASE IsListed(token, r)
    BY <2>1, <2>2, <2>3, SameResources
  <2>4. CASE ~IsListed(token, r)
    BY <2>1, <2>4 DEF SameResource
  <2> QED
    BY <2>3, <2>4
<1> QED
  BY <1>1, <1>2, <1>3

-----------------------------------------------------------------------------
(* Checks                                                                  *)

\* The in-memory database decides on one resource like the lists do.
LEMMA MockCheck ==
    ASSUME IInv, NEW r, NEW token, NEW list \in SUBSET Permission
    PROVE  MockCheckResourcePermissions(r, token, list)
             <=> Exists(r) /\ checkPermissions(token, entries[r], list)
<1> DEFINE options == [checkPermission |-> TRUE, permissions |-> list]
<1>1. options.checkPermission = TRUE /\ options.permissions = list
  OBVIOUS
<1> HIDE DEF options
<1>2. r \in DOMAIN mock => Resource(r, mock[r]) # Refused
  BY ResourceIsAnswer, RefusedAssumption
<1>3. DOMAIN entries = DOMAIN mock
  BY DEF IInv, StoredInv
<1>4. r \in DOMAIN mock =>
        (checkPermissions(token, entries[r], list) <=> checkPerms(token, mock[r], list))
  BY SameDecision DEF IInv, TypeOK, StoredInv
<1>5. MockGetResource(r, options, token) # Refused
        <=> r \in DOMAIN mock /\ checkPerms(token, mock[r], list)
  BY <1>1, <1>2 DEF MockGetResource
<1> QED
  BY <1>3, <1>4, <1>5 DEF MockCheckResourcePermissions, Exists, options

LEMMA TestClientDecides ==
    ASSUME IInv, NEW token, NEW id, NEW list \in SUBSET Permission
    PROVE  TestClientCheckPermission(token, id, list) <=> CheckPermission(token, id, list)
BY MockCheck DEF TestClientCheckPermission, CheckPermission

\* Many ids at once are decided on one by one; those that do not exist are
\* left out.
Decisions(token, ids, list) ==
    IF ~IsAdmin(token) /\ defaults = Unregistered THEN Refused
    ELSE [id \in {i \in ids : Exists(SplitModifier(i))} |-> CheckPermission(token, id, list)]

LEMMA ManyDecided ==
    ASSUME IInv, NEW token, NEW ids, NEW list \in SUBSET Permission
    PROVE  /\ CheckMultiplePermissions(token, ids, list) = Decisions(token, ids, list)
           /\ TestClientCheckMultiplePermissions(token, ids, list) = Decisions(token, ids, list)
<1> DEFINE access == CheckTopicDefaultPermission(token, list)
           asked == IF access = "granted" THEN {} ELSE list
           found == {i \in ids : Exists(SplitModifier(i))}
<1>1. asked \in SUBSET Permission
  OBVIOUS
<1>2. ASSUME NEW id \in found, access # "unknown topic"
      PROVE  checkPermissions(token, entries[SplitModifier(id)], asked)
               <=> CheckPermission(token, id, list)
  <2>1. CASE access = "granted"
    BY <2>1 DEF CheckPermission, checkPermissions
  <2>2. CASE access = "denied"
    BY <2>2 DEF CheckPermission
  <2> QED
    BY <1>2, <2>1, <2>2, AccessCases
<1>3. ASSUME NEW id \in found
      PROVE  /\ checkPermissions(token, entries[SplitModifier(id)], asked) \in BOOLEAN
             /\ MockCheckResourcePermissions(SplitModifier(id), token, asked) \in BOOLEAN
             /\ CheckPermission(token, id, list) \in BOOLEAN
  BY DEF checkPermissions, MockCheckResourcePermissions, CheckPermission
<1>4. ASSUME NEW id \in found
      PROVE  MockCheckResourcePermissions(SplitModifier(id), token, asked)
               <=> checkPermissions(token, entries[SplitModifier(id)], asked)
  BY <1>1, MockCheck
<1>5. {i \in ids : SplitModifier(i) \in DOMAIN mock} = found
  BY DEF Exists, IInv, StoredInv
<1>6. access = "unknown topic" <=> ~IsAdmin(token) /\ defaults = Unregistered
  BY AccessCases
<1>7. CheckMultiplePermissions(token, ids, list)
        = IF access = "unknown topic" THEN Refused
          ELSE [id \in found |-> checkPermissions(token, entries[SplitModifier(id)], asked)]
  BY DEF CheckMultiplePermissions
<1>8. TestClientCheckMultiplePermissions(token, ids, list)
        = IF access = "unknown topic" THEN Refused
          ELSE [id \in found |-> MockCheckResourcePermissions(SplitModifier(id), token, asked)]
  BY <1>5 DEF TestClientCheckMultiplePermissions, MockCheckMultipleResourcePermissions
<1>9. Decisions(token, ids, list)
        = IF access = "unknown topic" THEN Refused
          ELSE [id \in found |-> CheckPermission(token, id, list)]
  BY <1>6 DEF Decisions
<1> HIDE DEF asked, found, access
<1>10. access # "unknown topic" => \A id \in found :
         /\ checkPermissions(token, entries[SplitModifier(id)], asked)
              = CheckPermission(token, id, list)
         /\ MockCheckResourcePermissions(SplitModifier(id), token, asked)
              = CheckPermission(token, id, list)
  BY <1>2, <1>3, <1>4
<1> QED
  BY <1>7, <1>8, <1>9, <1>10

\* An answer for many ids is no error.
LEMMA DecisionsAreAnswer ==
    ASSUME NEW token, NEW ids \in SUBSET Id, NEW list
    PROVE  Decisions(token, ids, list) = Refused <=> ~IsAdmin(token) /\ defaults = Unregistered
<1> DEFINE found == {i \in ids : Exists(SplitModifier(i))}
           answer == [id \in found |-> CheckPermission(token, id, list)]
<1>1. \A id \in found : CheckPermission(token, id, list) \in BOOLEAN
  BY DEF CheckPermission
<1>2. answer \in [found -> BOOLEAN] /\ found \in SUBSET Id
  BY <1>1
<1>3. answer # Refused
  BY <1>2, RefusedAssumption
<1> QED
  BY <1>3 DEF Decisions

-----------------------------------------------------------------------------
(* Computed permissions                                                    *)

LEMMA WholeCut ==
    ASSUME NEW S, NEW list \in Seq(S)
    PROVE  Cut(list, 0, 0) = list
BY SubSeqFull DEF Cut, Skipped, EndOfCut

\* Without a limit the in-memory database lists every resource asked for.
LEMMA MockListsAll ==
    ASSUME IInv, NEW resources \in SUBSET DOMAIN mock, NEW options,
           options.limit = 0, options.offset = 0
    PROVE  ToSet(MockResources(resources, options)) = {Resource(r, mock[r]) : r \in resources}
<1> DEFINE ids == Sorted(resources)
           list == MockResources(resources, options)
<1>1. resources \in SUBSET Resources
  BY DEF IInv, TypeOK
<1>2. /\ ids \in Seq(resources)
      /\ \A r \in resources : \E i \in 1..Len(ids) : ids[i] = r
  BY <1>1, SortedProperties
<1>3. ids = Cut(Sorted(resources), options.limit, options.offset)
  BY <1>2, WholeCut
<1>4. options.limit \in Int /\ options.offset \in Int
  OBVIOUS
<1>5. /\ list \in Seq(Answer) /\ Len(list) = Len(ids)
      /\ \A i \in 1..Len(ids) : list[i] = Resource(ids[i], mock[ids[i]])
  BY <1>3, <1>4, MockResourcesProperties
<1> HIDE DEF ids, list
<1>6. DOMAIN list = 1..Len(ids)
  BY <1>5, LenProperties
<1>7. \A i \in 1..Len(ids) : ids[i] \in resources
  BY <1>2, ElementOfSeq
<1>8. ToSet(list) = {list[i] : i \in 1..Len(ids)}
  BY <1>6 DEF ToSet
<1>9. {list[i] : i \in 1..Len(ids)} = {Resource(r, mock[r]) : r \in resources}
  BY <1>2, <1>5, <1>7
<1> QED
  BY <1>8, <1>9 DEF list

LEMMA ComputedAlike ==
    ASSUME IInv, NEW token
    PROVE  HttpListComputedPermissions(token, Id) = TestClientListComputedPermissions(token, Id)
<1> DEFINE computed(resource) ==
             IF IsAdmin(token) THEN Permission
             ELSE ComputePermissionsMap(token, resource.perms, defaults)
           listed == {Resource(r, mock[r]) : r \in DOMAIN mock}
           shown(id) == UNION {computed(resource) : resource \in {x \in listed : Plain(x.id) = id}}
<1>1. CASE defaults = Unregistered
  BY <1>1 DEF HttpListComputedPermissions, QueryListComputedPermissionsEndpoint,
              ListComputedPermissions, TestClientListComputedPermissions
<1>2. CASE defaults # Unregistered
  <2> DEFINE wanted == {r \in Resources : Plain(r) \in Id}
             options == [NoOptions EXCEPT !.ids = wanted]
  <2>1. wanted = Resources
    BY DEF Plain, Id
  <2>2. options.limit = 0 /\ options.offset = 0 /\ options.ids = wanted
    BY DEF NoOptions
  <2>3. ToSet(MockAdminListResources(options)) = listed
    <3>1. DOMAIN mock \subseteq Resources
      BY DEF IInv, TypeOK
    <3>2. {r \in DOMAIN mock : Among(r, options)} = DOMAIN mock
      BY <2>1, <2>2, <3>1 DEF Among
    <3> HIDE DEF options
    <3> QED
      BY <2>2, <3>2, MockListsAll DEF MockAdminListResources
  <2>4. TestClientListComputedPermissions(token, Id) = [id \in Id |-> shown(id)]
    BY <1>2, <2>3 DEF TestClientListComputedPermissions
  <2>5. ASSUME NEW id \in Id
        PROVE  ListComputedPermissions(token, Id)[id] = shown(id)
    <3> DEFINE r == SplitModifier(id)
    <3>1. ListComputedPermissions(token, Id)[id]
            = IF id = Plain(r) /\ Exists(r)
                THEN IF IsAdmin(token) THEN Permission
                     ELSE ComputePermissionsMap(token, ToResource(entries[r]), defaults)
                ELSE {}
      BY <1>2 DEF ListComputedPermissions
    <3>2. \A o : /\ Resource(o, mock[o]).id = o
                 /\ Resource(o, mock[o]).perms = mock[o]
                 /\ SplitModifier(Plain(o)) = o
      BY DEF Resource, SplitModifier, Plain
    <3>3. DOMAIN entries = DOMAIN mock
      BY DEF IInv, StoredInv
    <3>4. CASE id = Plain(r) /\ Exists(r)
      <4>1. {x \in listed : Plain(x.id) = id} = {Resource(r, mock[r])}
        BY <3>2, <3>3, <3>4 DEF Exists
      <4>2. shown(id) = computed(Resource(r, mock[r]))
        BY <4>1
      <4>3. \A s : Grants(ToResource(entries[r]), s) = Grants(mock[r], s)
        BY <3>3, <3>4, RoundTrip DEF Exists, IInv, TypeOK, StoredInv
      <4>4. ComputePermissionsMap(token, ToResource(entries[r]), defaults)
              = ComputePermissionsMap(token, mock[r], defaults)
        BY <4>3 DEF ComputePermissionsMap
      <4> QED
        BY <3>1, <3>2, <3>4, <4>2, <4>4
    <3>5. CASE ~(id = Plain(r) /\ Exists(r))
      <4>1. {x \in listed : Plain(x.id) = id} = {}
        BY <3>2, <3>3, <3>5 DEF Exists
      <4>2. shown(id) = {}
        BY <4>1
      <4> QED
        BY <3>1, <3>5, <4>2
    <3> QED
      BY <3>4, <3>5
  <2>6. ListComputedPermissions(token, Id) = [id \in Id |-> ListComputedPermissions(token, Id)[id]]
    BY <1>2 DEF ListComputedPermissions
  <2> HIDE DEF shown
  <2> QED
    BY <2>4, <2>5, <2>6 DEF HttpListComputedPermissions, QueryListComputedPermissionsEndpoint
<1> QED
  BY <1>1, <1>2

LEMMA HttpChecks ==
    ASSUME IInv, NEW token, NEW list \in SUBSET Permission
    PROVE  /\ AskedFor(list) \in SUBSET Permission
           /\ \A id : HttpCheckPermission(token, id, list)
                       <=> CheckPermission(token, id, AskedFor(list))
           /\ \A ids : HttpCheckMultiplePermissions(token, ids, list)
                        = Decisions(token, Join(ids), AskedFor(list))
<1>1. AskedFor(list) \in SUBSET Permission
  BY DEF AskedFor, Permission
<1>2. ASSUME NEW id
      PROVE  HttpCheckPermission(token, id, list) <=> CheckPermission(token, id, AskedFor(list))
  <2> DEFINE query == [permissions |-> Encode(list)]
  <2>1. query.permissions = Encode(list)
    OBVIOUS
  <2> HIDE DEF query
  <2>2. PermissionsFromQuery(query) = AskedFor(list)
    BY <2>1, ListSurvivesQuery
  <2> QED
    BY <2>2 DEF HttpCheckPermission, CheckPermissionEndpoint, query
<1>3. ASSUME NEW ids
      PROVE  HttpCheckMultiplePermissions(token, ids, list)
               = Decisions(token, Join(ids), AskedFor(list))
  <2> DEFINE query == [permissions |-> Encode(list), ids |-> Join(ids)]
  <2>1. query.permissions = Encode(list) /\ query.ids = Join(ids)
    OBVIOUS
  <2>2. HttpCheckMultiplePermissions(token, ids, list)
          = CheckMultiplePermissions(token, query.ids, PermissionsFromQuery(query))
    BY DEF HttpCheckMultiplePermissions, CheckMultiplePermissionsEndpoint
  <2> HIDE DEF query
  <2>3. PermissionsFromQuery(query) = AskedFor(list)
    BY <2>1, ListSurvivesQuery
  <2> QED
    BY <1>1, <2>1, <2>2, <2>3, ManyDecided
<1> QED
  BY <1>1, <1>2, <1>3

LEMMA ChecksInState == IInv => ChecksAgree
<1> SUFFICES ASSUME IInv, NEW token \in Tokens, NEW list \in Lists
             PROVE  LET direct == CheckMultiplePermissions(token, Id, list)
                        many == HttpCheckMultiplePermissions(token, Id, list)
                        tested == TestClientCheckMultiplePermissions(token, Id, list)
                    IN /\ many = Refused <=> tested = Refused
                       /\ direct # Refused =>
                            direct = [id \in {i \in Id : Exists(SplitModifier(i))} |->
                                        CheckPermission(token, id, list)]
                       /\ \A id \in Id :
                            LET http == HttpCheckPermission(token, id, list)
                                test == TestClientCheckPermission(token, id, list)
                            IN /\ http => test
                               /\ list # {} => (test => http)
                               /\ many # Refused /\ Exists(SplitModifier(id)) /\ Parts[id] = {id} =>
                                    /\ many[id] = http
                                    /\ list # {} => tested[id] = http
  BY ComputedAlike DEF ChecksAgree
<1> DEFINE asked == AskedFor(list)
           many == HttpCheckMultiplePermissions(token, Id, list)
           tested == TestClientCheckMultiplePermissions(token, Id, list)
           unknown == ~IsAdmin(token) /\ defaults = Unregistered
<1>1. list \in SUBSET Permission /\ asked \in SUBSET Permission
  BY HttpChecks DEF Lists
<1>2. /\ CheckMultiplePermissions(token, Id, list) = Decisions(token, Id, list)
      /\ tested = Decisions(token, Id, list)
      /\ many = Decisions(token, Join(Id), asked)
  BY <1>1, ManyDecided, HttpChecks
<1>3. Join(Id) \in SUBSET Id
  BY PartsAssumption DEF Join
<1>4. (many = Refused <=> unknown) /\ (tested = Refused <=> unknown)
  BY <1>2, <1>3, DecisionsAreAnswer
<1>5. CheckMultiplePermissions(token, Id, list) # Refused =>
        CheckMultiplePermissions(token, Id, list)
          = [id \in {i \in Id : Exists(SplitModifier(i))} |-> CheckPermission(token, id, list)]
  BY <1>2 DEF Decisions
<1>6. ASSUME NEW id \in Id
      PROVE  /\ HttpCheckPermission(token, id, list) => TestClientCheckPermission(token, id, list)
             /\ list # {} => (TestClientCheckPermission(token, id, list)
                                => HttpCheckPermission(token, id, list))
  <2>1. HttpCheckPermission(token, id, list) <=> CheckPermission(token, id, asked)
    BY <1>1, HttpChecks
  <2>2. TestClientCheckPermission(token, id, list) <=> CheckPermission(token, id, list)
    BY <1>1, TestClientDecides
  <2>3. CASE list = {}
    <3>1. CheckPermission(token, id, asked) => IsAdmin(token) \/ defaults # Unregistered
      BY DEF CheckPermission, CheckTopicDefaultPermission
    <3>2. IsAdmin(token) \/ defaults # Unregistered => CheckPermission(token, id, list)
      BY <2>3 DEF CheckPermission, CheckTopicDefaultPermission, checkTopicDefaultPermission
    <3> QED
      BY <2>1, <2>2, <2>3, <3>1, <3>2
  <2>4. CASE list # {}
    BY <2>1, <2>2, <2>4 DEF AskedFor
  <2> QED
    BY <2>3, <2>4
<1>7. ASSUME NEW id \in Id, many # Refused, Exists(SplitModifier(id)), Parts[id] = {id}
      PROVE  /\ many[id] = HttpCheckPermission(token, id, list)
             /\ list # {} => tested[id] = HttpCheckPermission(token, id, list)
  <2>1. ~unknown
    BY <1>4, <1>7
  <2>2. id \in Join(Id)
    BY <1>7 DEF Join
  <2>3. many[id] = CheckPermission(token, id, asked)
    BY <1>2, <1>7, <2>1, <2>2 DEF Decisions
  <2>4. tested[id] = CheckPermission(token, id, list)
    BY <1>2, <1>7, <2>1 DEF Decisions
  <2>5. HttpCheckPermission(token, id, list) = CheckPermission(token, id, asked)
    <3>1. HttpCheckPermission(token, id, list) <=> CheckPermission(token, id, asked)
      BY <1>1, HttpChecks
    <3>2. /\ HttpCheckPermission(token, id, list) \in BOOLEAN
          /\ CheckPermission(token, id, asked) \in BOOLEAN
      BY DEF HttpCheckPermission, CheckPermissionEndpoint, CheckPermission
    <3> QED
      BY <3>1, <3>2
  <2>6. list # {} => asked = list
    BY DEF AskedFor
  <2> QED
    BY <2>3, <2>4, <2>5, <2>6
<1> QED
  BY <1>4, <1>5, <1>6, <1>7

-----------------------------------------------------------------------------
(* Page after page                                                         *)

\* FlattenSeq is what grows piece by piece: a function that obeys its equation
\* is the one it chooses, or there would be a first place where they differ.
LEMMA FlattenIs ==
    ASSUME NEW seqs, Len(seqs) \in Nat \ {0}, NEW T, NEW g \in [1..Len(seqs) -> T],
           \A i \in 1..Len(seqs) :
             g[i] = IF i = 1 THEN seqs[i] ELSE g[i - 1] \o seqs[i]
    PROVE  FlattenSeq(seqs) = g[Len(seqs)]
<1> DEFINE m == Len(seqs)
           Grows(h) == h = [i \in 1..m |-> IF i = 1 THEN seqs[i] ELSE h[i - 1] \o seqs[i]]
           flatten == CHOOSE h : Grows(h)
<1>1. Grows(g)
  <2>1. g = [i \in 1..m |-> g[i]]
    OBVIOUS
  <2> QED
    BY <2>1
<1>2. Grows(flatten)
  <2> HIDE DEF Grows
  <2> QED
    BY <1>1
<1>3. FlattenSeq(seqs) = flatten[m]
  BY DEF FlattenSeq
<1> HIDE DEF flatten
<1>4. ASSUME NEW i \in 1..m
      PROVE  /\ flatten[i] = IF i = 1 THEN seqs[i] ELSE flatten[i - 1] \o seqs[i]
             /\ g[i] = IF i = 1 THEN seqs[i] ELSE g[i - 1] \o seqs[i]
  BY <1>1, <1>2
<1> DEFINE differ == {i \in 1..m : flatten[i] # g[i]}
<1>5. ASSUME differ # {}
      PROVE  FALSE
  <2>1. IsWellFoundedOn(OpToRel(<, Nat), Nat)
    BY NatLessThanWellFounded
  <2>2. differ \subseteq Nat
    OBVIOUS
  <2>3. PICK i \in differ : \A j \in differ : ~(<<j, i>> \in OpToRel(<, Nat))
    BY <1>5, <2>1, <2>2, WFMin
  <2>4. \A j \in differ : ~(j < i)
    BY <2>2, <2>3 DEF OpToRel
  <2>5. i # 1 /\ flatten[i - 1] # g[i - 1]
    BY <1>4
  <2>6. i - 1 \in differ
    BY <2>5
  <2> QED
    BY <2>4, <2>6
<1>6. m \in 1..m
  OBVIOUS
<1> QED
  BY <1>3, <1>5, <1>6

\* The pages of a list, taken as long as it may take, are the list.
LEMMA PagesAreTheList ==
    ASSUME NEW S, NEW list \in Seq(S), NEW n \in Nat \ {0},
           NEW seqs, Len(seqs) \in Nat, Len(list) < Len(seqs),
           \A k \in 1..Len(seqs) : seqs[k] = Cut(list, n, n * (k - 1))
    PROVE  FlattenSeq(seqs) = list
<1> DEFINE m == Len(seqs)
           end(k) == IF n * k <= Len(list) THEN n * k ELSE Len(list)
           g == [k \in 1..m |-> SubSeq(list, 1, end(k))]
<1>1. Len(list) \in Nat /\ m \in Nat \ {0}
  BY LenProperties
<1>2. m \in 1..m
  BY <1>1
<1>3. ASSUME NEW k \in 1..m
      PROVE  /\ n * k \in Nat /\ n * (k - 1) \in Nat
             /\ n * k = n * (k - 1) + n
             /\ k <= n * k
  OBVIOUS
<1>4. ASSUME NEW k \in 1..m
      PROVE  /\ Skipped(n * (k - 1)) = n * (k - 1)
             /\ EndOfCut(list, n, n * (k - 1)) = end(k)
             /\ end(k) \in 0..Len(list)
  BY <1>1, <1>3 DEF Skipped, EndOfCut
<1>5. ASSUME NEW k \in 1..m
      PROVE  seqs[k] = SubSeq(list, n * (k - 1) + 1, end(k))
  BY <1>4 DEF Cut
<1>6. ASSUME NEW k \in 1..m
      PROVE  g[k] = IF k = 1 THEN seqs[k] ELSE g[k - 1] \o seqs[k]
  <2>1. CASE k = 1
    <3>1. n * (k - 1) + 1 = 1
      BY <2>1
    <3>2. g[k] = SubSeq(list, 1, end(k))
      OBVIOUS
    <3> QED
      BY <1>5, <2>1, <3>1, <3>2
  <2>2. CASE k # 1
    <3>1. k - 1 \in 1..m
      BY <2>2
    <3>2. g[k - 1] = SubSeq(list, 1, end(k - 1)) /\ g[k] = SubSeq(list, 1, end(k))
      BY <3>1
    <3>3. CASE n * (k - 1) <= Len(list)
      <4>1. end(k - 1) = n * (k - 1)
        BY <3>3
      <4>2. end(k - 1) \in 0..Len(list) /\ end(k) \in end(k - 1)..Len(list)
        BY <1>1, <1>3, <1>4, <3>1, <3>3
      <4> DEFINE a == end(k - 1)
                 b == end(k)
      <4> HIDE DEF a, b
      <4>3. SubSeq(list, 1, a) \o SubSeq(list, a + 1, b) = SubSeq(list, 1, b)
        <5>1. a \in (1 - 1)..Len(list) /\ b \in a..Len(list) /\ 1 \in 1..(Len(list) + 1)
          BY <1>1, <4>2 DEF a, b
        <5> QED
          BY <5>1, ConcatAdjacentSubSeq
      <4> QED
        BY <1>5, <2>2, <3>2, <4>1, <4>3 DEF a, b
    <3>4. CASE ~(n * (k - 1) <= Len(list))
      <4>1. end(k - 1) = Len(list) /\ end(k) = Len(list)
        BY <1>1, <1>3, <3>4
      <4>2. seqs[k] = << >>
        <5> DEFINE p == n * (k - 1)
        <5>1. p \in Int /\ Len(list) < p
          BY <1>1, <1>3, <3>4
        <5> HIDE DEF p
        <5>2. end(k) < p + 1 /\ end(k) \in Int /\ p + 1 \in Int
          BY <1>1, <4>1, <5>1
        <5> QED
          BY <1>5, <5>2, SubSeqEmpty DEF p
      <4>3. SubSeq(list, 1, Len(list)) = list
        BY SubSeqFull
      <4>4. list \o << >> = list
        BY ConcatEmptySeq
      <4> QED
        BY <2>2, <3>2, <4>1, <4>2, <4>3, <4>4
    <3> QED
      BY <3>3, <3>4
  <2> QED
    BY <2>1, <2>2
<1>7. g[m] = list
  <2>1. m \in 1..m /\ m <= n * m
    BY <1>1, <1>3
  <2>2. ~(n * m <= Len(list))
    <3> DEFINE p == n * m
    <3>1. p \in Int /\ m <= p
      BY <1>3, <2>1
    <3> HIDE DEF p
    <3>2. ~(p <= Len(list))
      BY <1>1, <3>1
    <3> QED
      BY <3>2 DEF p
  <2>3. end(m) = Len(list)
    BY <2>2
  <2> QED
    BY <2>1, <2>3, SubSeqFull
<1>8. g \in [1..m -> Seq(S)]
  <2>1. \A k \in 1..m : SubSeq(list, 1, end(k)) \in Seq(S)
    <3> SUFFICES ASSUME NEW k \in 1..m
                 PROVE  SubSeq(list, 1, end(k)) \in Seq(S)
      OBVIOUS
    <3>1. end(k) \in Int /\ \A i \in 1..end(k) : i \in 1..Len(list)
      BY <1>1, <1>4
    <3>2. \A i \in 1..end(k) : list[i] \in S
      BY <3>1, ElementOfSeq
    <3> HIDE DEF end
    <3> QED
      BY <3>1, <3>2, SubSeqProperties
  <2> QED
    BY <2>1
<1> HIDE DEF g
<1>9. \A k \in 1..m : g[k] = IF k = 1 THEN seqs[k] ELSE g[k - 1] \o seqs[k]
  BY <1>6
<1>10. /\ Len(seqs) \in Nat \ {0} /\ g \in [1..Len(seqs) -> Seq(S)]
       /\ \A i \in 1..Len(seqs) : g[i] = IF i = 1 THEN seqs[i] ELSE g[i - 1] \o seqs[i]
  BY <1>1, <1>8, <1>9
<1>11. FlattenSeq(seqs) = g[Len(seqs)]
  BY <1>10, FlattenIs
<1> QED
  BY <1>7, <1>11

\* The elements of Sorted.
LEMMA SortedRange ==
    ASSUME NEW resources \in SUBSET Resources
    PROVE  ToSet(Sorted(resources)) = resources
<1> DEFINE s == Sorted(resources)
<1>1. s \in Seq(resources) /\ \A r \in resources : \E i \in 1..Len(s) : s[i] = r
  BY SortedProperties
<1> HIDE DEF s
<1>2. DOMAIN s = 1..Len(s) /\ \A i \in 1..Len(s) : s[i] \in resources
  BY <1>1, LenProperties, ElementOfSeq
<1>3. ToSet(s) = resources
  BY <1>1, <1>2 DEF ToSet
<1> QED
  BY <1>3 DEF s

\* A listing is about what CheckPermission grants.
LEMMA ListedIsGranted ==
    ASSUME IInv, NEW token, NEW list \in SUBSET Permission,
           CheckTopicDefaultPermission(token, list) # "unknown topic"
    PROVE  Listed(token, list)
             = {r \in Resources : Exists(r) /\ CheckPermission(token, Plain(r), list)}
<1>1. DOMAIN entries = DOMAIN mock /\ DOMAIN mock \subseteq Resources
  BY DEF IInv, TypeOK, StoredInv
<1>2. \A r : SplitModifier(Plain(r)) = r
  BY DEF SplitModifier, Plain
<1>3. CASE CheckTopicDefaultPermission(token, list) = "granted"
  BY <1>1, <1>3 DEF Listed, Exists, CheckPermission
<1>4. CASE CheckTopicDefaultPermission(token, list) = "denied"
  <2>1. \A r : CheckPermission(token, Plain(r), list)
                <=> Exists(r) /\ checkPermissions(token, entries[r], list)
    BY <1>2, <1>4 DEF CheckPermission
  <2>2. Listed(token, list) = {r \in DOMAIN entries : checkPermissions(token, entries[r], list)}
    BY <1>4, AllowedAlike DEF Listed
  <2> QED
    BY <1>1, <2>1, <2>2 DEF Exists
<1> QED
  BY <1>3, <1>4, AccessCases

LEMMA PagesInState == IInv => PagesAreListing
<1> SUFFICES ASSUME IInv, NEW token \in Tokens, NEW list \in Lists, NEW n \in Numbers, n > 0,
                    HttpListAccessibleResourceIds(token, NoOptions, list) # Refused
             PROVE  LET page(k) == HttpListAccessibleResourceIds(
                                       token, [limit |-> n, offset |-> n * k, ids |-> NoIds], list)
                        all == HttpListAccessibleResourceIds(token, NoOptions, list)
                    IN /\ FlattenSeq([k \in 1..(Len(Order) + 1) |-> page(k - 1)]) = all
                       /\ ToSet(all) = {r \in Resources :
                                          Exists(r) /\ HttpCheckPermission(token, Plain(r), list)}
  BY DEF PagesAreListing
<1> DEFINE asked == AskedFor(list)
           page(k) == HttpListAccessibleResourceIds(
                          token, [limit |-> n, offset |-> n * k, ids |-> NoIds], list)
           all == HttpListAccessibleResourceIds(token, NoOptions, list)
           listed == Listed(token, asked)
<1>1. list \in SUBSET Permission /\ asked \in SUBSET Permission
  BY HttpChecks DEF Lists
<1>2. all = ListedIds(token, NoOptions, asked)
  <2>1. NoOptions.limit \in Int /\ NoOptions.offset \in Int
    BY DEF NoOptions
  <2> HIDE DEF asked, all
  <2>2. HttpListAccessibleResourceIds(token, NoOptions, list)
          = ListedIds(token, NoOptions, AskedFor(list))
    BY <1>1, <2>1, HttpListings
  <2> QED
    BY <2>2 DEF asked, all
<1>3. CheckTopicDefaultPermission(token, asked) # "unknown topic"
  BY <1>2 DEF ListedIds
<1>4. listed \in SUBSET Resources
  BY ListedType
<1>5. Sorted(listed) \in Seq(listed) /\ Len(Sorted(listed)) <= Len(Order)
  BY <1>4, SortedProperties
<1>6. all = Sorted(listed)
  <2>1. all = Cut(Sorted(listed), 0, 0)
    BY <1>2, <1>3 DEF ListedIds, NoOptions
  <2> QED
    BY <1>5, <2>1, WholeCut
<1>7. n \in Nat \ {0} /\ Len(Order) \in Nat
  BY NumbersAssumption, OrderAssumption, LenProperties
<1>8. ASSUME NEW k \in 1..(Len(Order) + 1)
      PROVE  page(k - 1) = Cut(Sorted(listed), n, n * (k - 1))
  <2> DEFINE options == [limit |-> n, offset |-> n * (k - 1), ids |-> NoIds]
  <2>1. n * (k - 1) \in Int
    BY <1>7
  <2>2. options.limit = n /\ options.offset = n * (k - 1)
    OBVIOUS
  <2>3. page(k - 1) = HttpListAccessibleResourceIds(token, options, list)
    OBVIOUS
  <2> HIDE DEF options, page
  <2>4. options.limit \in Int /\ options.offset \in Int
    BY <1>7, <2>1, <2>2
  <2>5. page(k - 1) = ListedIds(token, options, asked)
    BY <1>1, <2>3, <2>4, HttpListings
  <2> QED
    BY <1>3, <2>2, <2>5 DEF ListedIds
<1> DEFINE seqs == [k \in 1..(Len(Order) + 1) |-> page(k - 1)]
<1>9. /\ Len(seqs) = Len(Order) + 1
      /\ \A k \in 1..Len(seqs) : seqs[k] = Cut(Sorted(listed), n, n * (k - 1))
  <2> HIDE DEF page, listed
  <2>1. \A k \in 1..(Len(Order) + 1) : seqs[k] \in {page(i - 1) : i \in 1..(Len(Order) + 1)}
    OBVIOUS
  <2>2. seqs \in [1..(Len(Order) + 1) -> {page(i - 1) : i \in 1..(Len(Order) + 1)}]
    BY <2>1
  <2>3. \A k \in 1..(Len(Order) + 1) : seqs[k] = Cut(Sorted(listed), n, n * (k - 1))
    BY <1>8
  <2> HIDE DEF seqs
  <2>4. Len(seqs) = Len(Order) + 1
    BY <1>7, <2>2
  <2> QED
    BY <2>3, <2>4
<1>10. FlattenSeq(seqs) = all
  <2> HIDE DEF seqs, all, listed
  <2>1. Len(seqs) \in Nat /\ Len(Sorted(listed)) < Len(seqs)
    BY <1>5, <1>7, <1>9, LenProperties
  <2> QED
    BY <1>5, <1>6, <1>7, <1>9, <2>1, PagesAreTheList
<1>11. ToSet(all) = {r \in Resources : Exists(r) /\ HttpCheckPermission(token, Plain(r), list)}
  <2>1. ToSet(all) = listed
    BY <1>4, <1>6, SortedRange
  <2>2. listed = {r \in Resources : Exists(r) /\ CheckPermission(token, Plain(r), asked)}
    BY <1>1, <1>3, ListedIsGranted
  <2>3. \A id : HttpCheckPermission(token, id, list) <=> CheckPermission(token, id, asked)
    BY <1>1, HttpChecks
  <2> QED
    BY <2>1, <2>2, <2>3
<1> QED
  BY <1>10, <1>11

\* Without a limit MongoDB lists every resource asked for.
LEMMA MongoListsAll ==
    ASSUME IInv, NEW resources \in SUBSET DOMAIN mock
    PROVE  /\ MongoResources(Sorted(resources)) \in Seq(Answer)
           /\ ToSet(MongoResources(Sorted(resources)))
                = {Resource(r, ToResource(entries[r])) : r \in resources}
<1> DEFINE ids == Sorted(resources)
           list == MongoResources(ids)
<1>1. resources \in SUBSET Resources
  BY DEF IInv, TypeOK
<1>2. /\ ids \in Seq(resources)
      /\ \A r \in resources : \E i \in 1..Len(ids) : ids[i] = r
  BY <1>1, SortedProperties
<1>3. ids \in Seq(DOMAIN mock)
  BY <1>2, SeqMonotonic
<1> HIDE DEF ids
<1>4. /\ list \in Seq(Answer) /\ Len(list) = Len(ids)
      /\ \A i \in 1..Len(ids) : list[i] = Resource(ids[i], ToResource(entries[ids[i]]))
  BY <1>3, MongoResourcesProperties
<1> HIDE DEF list
<1>5. DOMAIN list = 1..Len(ids) /\ \A i \in 1..Len(ids) : ids[i] \in resources
  BY <1>2, <1>4, LenProperties, ElementOfSeq
<1>6. ToSet(list) = {list[i] : i \in 1..Len(ids)}
  BY <1>5 DEF ToSet
<1>7. {list[i] : i \in 1..Len(ids)} = {Resource(r, ToResource(entries[r])) : r \in resources}
  BY <1>2, <1>4, <1>5
<1> QED
  BY <1>4, <1>6, <1>7 DEF list, ids

LEMMA AdministratedInState == IInv => AdministratedCanBeRead
<1> SUFFICES ASSUME IInv, NEW token \in Tokens, NEW id \in Id
             PROVE  LET listed == HttpListResourcesWithAdminPermission(token, NoOptions)
                        got == HttpGetResource(token, id)
                    IN IF listed = Refused THEN got = Refused
                       ELSE {got} \ {Refused} =
                              {[resource EXCEPT !.id = id] :
                                 resource \in {other \in ToSet(listed) : other.id = SplitModifier(id)}}
  BY DEF AdministratedCanBeRead
<1> DEFINE r == SplitModifier(id)
           listed == HttpListResourcesWithAdminPermission(token, NoOptions)
           got == HttpGetResource(token, id)
           resources == Listed(token, {"a"})
           stored(o) == Resource(o, ToResource(entries[o]))
           shown == {other \in ToSet(listed) : other.id = r}
<1>1. NoOptions.limit = 0 /\ NoOptions.offset = 0
  BY DEF NoOptions
<1>2. listed = IF CheckTopicDefaultPermission(token, {"a"}) = "unknown topic" THEN Refused
               ELSE MongoResources(ListedIds(token, NoOptions, {"a"}))
  <2>1. NoOptions.limit \in Int /\ NoOptions.offset \in Int
    BY <1>1
  <2> QED
    BY <2>1, HttpListings
<1>3. got = IF IsListed(token, r) THEN Resource(id, ToResource(entries[r])) ELSE Refused
  BY GetAlike DEF HttpGetResource, GetResourceEndpoint
<1>4. resources \in SUBSET DOMAIN mock /\ resources \in SUBSET Resources
  BY ListedType
<1>5. CASE CheckTopicDefaultPermission(token, {"a"}) = "unknown topic"
  <2>1. listed = Refused /\ got = Refused
    BY <1>2, <1>3, <1>5 DEF IsListed
  <2> QED
    BY <2>1
<1>6. CASE CheckTopicDefaultPermission(token, {"a"}) # "unknown topic"
  <2>1. ListedIds(token, NoOptions, {"a"}) = Sorted(resources)
    <3>1. ListedIds(token, NoOptions, {"a"}) = Cut(Sorted(resources), 0, 0)
      BY <1>1, <1>6 DEF ListedIds
    <3>2. Sorted(resources) \in Seq(resources)
      BY <1>4, SortedProperties
    <3> QED
      BY <3>1, <3>2, WholeCut
  <2>2. listed \in Seq(Answer) /\ ToSet(listed) = {stored(o) : o \in resources}
    BY <1>2, <1>4, <1>6, <2>1, MongoListsAll
  <2>3. listed # Refused
    BY <2>2, RefusedAssumption
  <2>4. IsListed(token, r) <=> r \in resources
    BY <1>6 DEF IsListed
  <2>5. \A o : stored(o).id = o
    BY DEF Resource
  <2>6. {got} \ {Refused} = {[resource EXCEPT !.id = id] : resource \in shown}
    <3>1. CASE r \in resources
      <4>1. shown = {stored(r)}
        BY <2>2, <2>5, <3>1
      <4>2. {[resource EXCEPT !.id = id] : resource \in shown} = {[stored(r) EXCEPT !.id = id]}
        BY <4>1
      <4>3. [stored(r) EXCEPT !.id = id] = Resource(id, ToResource(entries[r]))
        BY ResourceWithId
      <4>4. got = Resource(id, ToResource(entries[r])) /\ got # Refused
        BY <1>3, <1>4, <2>4, <3>1, ResourceIsAnswer, RefusedAssumption
      <4> QED
        BY <4>2, <4>3, <4>4
    <3>2. CASE r \notin resources
      <4>1. shown = {}
        BY <2>2, <2>5, <3>2
      <4>2. got = Refused
        BY <1>3, <2>4, <3>2
      <4> QED
        BY <4>1, <4>2
    <3> QED
      BY <3>1, <3>2
  <2> QED
    BY <2>3, <2>6
<1> QED
  BY <1>5, <1>6

-----------------------------------------------------------------------------
(***************************************************************************)
(* Checks through HTTP and MongoDB decide like those of the test client,   *)
(* one by one and many at once, in every state writes can lead to          *)
(* (client.go:121-158, check.go:42-166).                                   *)
(***************************************************************************)
THEOREM ClientsCheckAlike == Spec => []ChecksAgree
BY Invariance, ChecksInState, PTL

(***************************************************************************)
(* Every page of a listing is the same through both clients, if the test   *)
(* client is asked for what HTTP asks for: no Ids, and "r" for an empty    *)
(* list of permissions (client.go:164-228, mongo/list.go, mock.go:81-218). *)
(***************************************************************************)
THEOREM ClientsListAlike == Spec => []ListingsAgree
BY Invariance, ListingsInState, PTL

(***************************************************************************)
(* The pages put together are the whole listing, and that has what a check *)
(* grants (mongo/list.go:55-199).                                          *)
(***************************************************************************)
THEOREM PagesAreComplete == Spec => []PagesAreListing
BY Invariance, PagesInState, PTL

(***************************************************************************)
(* What a caller may administrate is listed for it and can be read, under  *)
(* every id it has (resource.go, GetResource).                             *)
(***************************************************************************)
THEOREM AdministratedIsReadable == Spec => []AdministratedCanBeRead
BY Invariance, AdministratedInState, PTL
===============================================================================
