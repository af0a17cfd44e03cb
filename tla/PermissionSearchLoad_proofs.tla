---------------------- MODULE PermissionSearchLoad_proofs ----------------------
(***************************************************************************)
(* Theorems about PermissionSearchLoad: for any resources, rights, page    *)
(* limit and export of permission-search.                                  *)
(***************************************************************************)
EXTENDS PermissionSearchLoad, SequenceTheorems, TLAPS

Paging == At("elements") \/ At("store")

\* Where the page at an offset ends.
PageEnd(offset) ==
    IF offset + PageLimit < Len(source) THEN offset + PageLimit ELSE Len(source)

\* How many elements of the source the load has left behind.
Handled ==
    IF At("fetch") THEN load.offset
    ELSE IF Paging THEN PageEnd(load.offset) - Len(load.list)
    ELSE Len(source)

(***************************************************************************)
(* What is left of the page is the part of the source that follows what    *)
(* has been handled, and the last page is the one that is not full.        *)
(***************************************************************************)
PageInv ==
    ~moved /\ (At("fetch") \/ Paging) =>
        /\ load.offset <= Len(source)
        /\ Paging =>
             /\ Len(load.list) <= PageEnd(load.offset) - load.offset
             /\ \A j \in 1..Len(load.list) : load.list[j] = source[Handled + j]
             /\ load.last <=> PageEnd(load.offset) - load.offset < PageLimit

\* Every right the element names is there.
Covers(perms, e) ==
    \A s \in DOMAIN Converted(e) : Grants(perms, s) = Converted(e)[s]

(***************************************************************************)
(* What is about to be stored has the rights of its element, and without   *)
(* overwrite it is for a resource that is unknown, but for what another    *)
(* request has stored since the load has looked it up.                     *)
(***************************************************************************)
StoreInv ==
    At("store") =>
        /\ load.list # <<>>
        /\ ~load.req.dryRun
        /\ \/ load.req.overwrite
           \/ Head(load.list).id \notin DOMAIN entries
           \/ Head(load.list).id \in raced
        /\ Covers(load.resource, Head(load.list))

\* An element the load has left behind.
Settled(e) ==
    \/ e.id \in touched
    \/ /\ e.id \in DOMAIN entries
       /\ \/ e.id \in before /\ ~load.req.overwrite
          \/ Covers(ToResource(entries[e.id]), e)

LoadsRights == (Running \/ At("done")) /\ ~load.req.dryRun /\ ~moved

SettledInv == LoadsRights => \A i \in 1..Handled : Settled(source[i])

(***************************************************************************)
(* A resource that is new since the load began comes from an element left  *)
(* behind: the next element is not known for the load's own sake.          *)
(***************************************************************************)
NewInv ==
    LoadsRights =>
        \A r \in DOMAIN entries :
            r \in before \cup touched \/ \E i \in 1..Handled : source[i].id = r

LoadInv == PageInv /\ StoreInv /\ SettledInv /\ NewInv
IInv == TypeOK /\ LoadInv

-----------------------------------------------------------------------------
(* Elements, permissions and entries                                       *)

LEMMA ElementFacts ==
    ASSUME NEW e \in Element
    PROVE  /\ e.id \in Resources
           /\ DOMAIN e.user_rights \subseteq Users
           /\ \A u \in DOMAIN e.user_rights : e.user_rights[u] \subseteq Permission
           /\ DOMAIN e.group_rights \subseteq Roles
           /\ \A g \in DOMAIN e.group_rights : e.group_rights[g] \subseteq Permission
<1>1. e.id \in Resources /\ e.user_rights \in Rights(Users) /\ e.group_rights \in Rights(Roles)
  BY DEF Element
<1>2. PICK U \in SUBSET Users : e.user_rights \in [U -> SUBSET Permission]
  BY <1>1 DEF Rights
<1>3. PICK G \in SUBSET Roles : e.group_rights \in [G -> SUBSET Permission]
  BY <1>1 DEF Rights
<1> QED
  BY <1>1, <1>2, <1>3

\* What an element names is converted one to one.
LEMMA ConvertedRights ==
    ASSUME NEW e \in Element
    PROVE  /\ IsResourcePermissions(Converted(e))
           /\ \A u \in DOMAIN e.user_rights :
                /\ <<"user", u>> \in DOMAIN Converted(e)
                /\ Converted(e)[<<"user", u>>] = e.user_rights[u]
           /\ \A g \in DOMAIN e.group_rights :
                /\ <<"role", g>> \in DOMAIN Converted(e)
                /\ Converted(e)[<<"role", g>>] = e.group_rights[g]
<1> DEFINE Named == ({"user"} \X DOMAIN e.user_rights) \cup ({"role"} \X DOMAIN e.group_rights)
<1>1. DOMAIN Converted(e) = Named
  BY DEF Converted
<1>2. Named \subseteq Subject
  BY ElementFacts DEF Subject, RoleSubjects
<1>3. ASSUME NEW s \in Named PROVE Converted(e)[s] \subseteq Permission
  <2>1. CASE s[1] = "user"
    BY <2>1, ElementFacts DEF Converted
  <2>2. CASE s[1] # "user"
    BY <2>2, ElementFacts DEF Converted
  <2> QED
    BY <2>1, <2>2
<1>4. IsResourcePermissions(Converted(e))
  BY <1>1, <1>2, <1>3 DEF IsResourcePermissions, Converted
<1>5. ASSUME NEW u \in DOMAIN e.user_rights
      PROVE  <<"user", u>> \in Named /\ Converted(e)[<<"user", u>>] = e.user_rights[u]
  BY DEF Converted
<1>6. ASSUME NEW g \in DOMAIN e.group_rights
      PROVE  <<"role", g>> \in Named /\ Converted(e)[<<"role", g>>] = e.group_rights[g]
  BY DEF Converted
<1> QED
  BY <1>1, <1>4, <1>5, <1>6

LEMMA StoredType ==
    ASSUME NEW perms, IsResourcePermissions(perms)
    PROVE  setResourcePermissions(perms) \in PermissionsEntry
BY DEF IsResourcePermissions, setResourcePermissions, PermissionsEntry

LEMMA ReadType ==
    ASSUME NEW entry \in PermissionsEntry
    PROVE  IsResourcePermissions(ToResource(entry))
BY DEF PermissionsEntry, ToResource, IsResourcePermissions

\* Storing and reading back changes no grant.
LEMMA RoundTrip ==
    ASSUME NEW perms, IsResourcePermissions(perms), NEW s
    PROVE  Grants(ToResource(setResourcePermissions(perms)), s) = Grants(perms, s)
<1> DEFINE entry == setResourcePermissions(perms)
           read == ToResource(entry)
<1>1. \A p \in Permission : s \in entry[p] <=> p \in Grants(perms, s)
  BY DEF setResourcePermissions, Grants
<1>2. Grants(perms, s) \subseteq Permission
  BY DEF Grants, IsResourcePermissions
<1>3. CASE s \in DOMAIN read
  <2>1. Grants(read, s) = {p \in Permission : s \in entry[p]}
    BY <1>3 DEF Grants, ToResource
  <2> QED
    BY <2>1, <1>1, <1>2
<1>4. CASE s \notin DOMAIN read
  <2>1. \A p \in Permission : s \notin entry[p]
    BY <1>4 DEF ToResource
  <2> QED
    BY <2>1, <1>1, <1>2, <1>4 DEF Grants
<1> QED
  BY <1>3, <1>4

\* What is stored covers the elements that the request covers.
LEMMA CoveredIsStored ==
    ASSUME NEW perms, IsResourcePermissions(perms), NEW e, Covers(perms, e)
    PROVE  Covers(ToResource(setResourcePermissions(perms)), e)
BY RoundTrip DEF Covers

\* The merge keeps the stored rights well-formed and has all of the element.
LEMMA MergedRights ==
    ASSUME TypeOK, NEW e \in Element
    PROVE  IsResourcePermissions(Merged(e)) /\ Covers(Merged(e), e)
<1> DEFINE old == IF e.id \in DOMAIN entries THEN ToResource(entries[e.id]) ELSE NoPermissions
           new == Converted(e)
<1>1. IsResourcePermissions(old)
  <2>1. CASE e.id \in DOMAIN entries
    <3>1. entries[e.id] \in PermissionsEntry
      BY <2>1 DEF TypeOK, IsCollection
    <3> QED
      BY <2>1, <3>1, ReadType
  <2>2. CASE e.id \notin DOMAIN entries
    BY <2>2 DEF NoPermissions, IsResourcePermissions
  <2> QED
    BY <2>1, <2>2
<1>2. IsResourcePermissions(new)
  BY ConvertedRights
<1>3. Merged(e) = [s \in DOMAIN old \cup DOMAIN new |-> IF s \in DOMAIN new THEN new[s] ELSE old[s]]
  BY DEF Merged
<1> HIDE DEF old, new
<1>4. IsResourcePermissions(Merged(e))
  BY <1>1, <1>2, <1>3 DEF IsResourcePermissions
<1>5. \A s \in DOMAIN new : Grants(Merged(e), s) = new[s]
  BY <1>3 DEF Grants
<1> QED
  BY <1>4, <1>5 DEF Covers, new

LEMMA WithType ==
    ASSUME IsCollection(entries), NEW r \in Resources, NEW entry \in PermissionsEntry
    PROVE  IsCollection(With(entries, r, entry))
BY DEF IsCollection, With

LEMMA WithoutType ==
    ASSUME IsCollection(entries), NEW r
    PROVE  IsCollection(Without(entries, r))
BY DEF IsCollection, Without

-----------------------------------------------------------------------------
(* Sources and pages                                                       *)

LEMMA PartOfSource ==
    ASSUME NEW list, IsSource(list), NEW m \in Nat \ {0}, NEW n \in Nat, n <= Len(list)
    PROVE  /\ IsSource(SubSeq(list, m, n))
           /\ Len(SubSeq(list, m, n)) = IF m <= n THEN n - m + 1 ELSE 0
           /\ \A i \in 1..Len(SubSeq(list, m, n)) : SubSeq(list, m, n)[i] = list[m + i - 1]
<1> DEFINE part == SubSeq(list, m, n)
<1>1. list \in Seq(Element) /\ Len(list) \in Nat
  BY LenProperties DEF IsSource
<1>2. \A i \in m..n : list[i] \in Element
  BY <1>1, ElementOfSeq
<1>3. /\ part \in Seq(Element)
      /\ Len(part) = IF m <= n THEN n - m + 1 ELSE 0
      /\ \A i \in 1..(n - m + 1) : part[i] = list[m + i - 1]
  BY <1>2, SubSeqProperties
<1> HIDE DEF part
<1>4. \A i \in 1..Len(part) : part[i] = list[m + i - 1] /\ m + i - 1 \in 1..Len(list)
  BY <1>1, <1>3
<1>5. ASSUME NEW i \in 1..Len(part), NEW j \in 1..Len(part), part[i].id = part[j].id
      PROVE  i = j
  <2>1. m + i - 1 = m + j - 1
    BY <1>4, <1>5 DEF IsSource
  <2> QED
    BY <2>1, <1>3
<1> QED
  BY <1>3, <1>4, <1>5 DEF IsSource, part

LEMMA RestOfSource ==
    ASSUME NEW list, IsSource(list), list # <<>>
    PROVE  /\ IsSource(Tail(list))
           /\ Len(list) \in Nat \ {0}
           /\ Len(Tail(list)) = Len(list) - 1
           /\ \A i \in 1..Len(Tail(list)) : Tail(list)[i] = list[i + 1]
           /\ Head(list) = list[1]
           /\ Head(list) \in Element
<1>1. list \in Seq(Element)
  BY DEF IsSource
<1>2. /\ Head(list) \in Element
      /\ Tail(list) \in Seq(Element)
      /\ Len(Tail(list)) = Len(list) - 1
      /\ \A i \in 1..Len(Tail(list)) : Tail(list)[i] = list[i + 1]
  BY <1>1, HeadTailProperties
<1>3. Len(list) \in Nat \ {0}
  BY <1>1, EmptySeq
<1>4. Head(list) = list[1]
  OBVIOUS
<1>5. ASSUME NEW i \in 1..Len(Tail(list)), NEW j \in 1..Len(Tail(list)),
             Tail(list)[i].id = Tail(list)[j].id
      PROVE  i = j
  <2>1. i + 1 \in 1..Len(list) /\ j + 1 \in 1..Len(list)
    BY <1>2, <1>3
  <2>2. list[i + 1].id = list[j + 1].id
    BY <1>2, <1>5
  <2>3. i + 1 = j + 1
    BY <2>1, <2>2 DEF IsSource
  <2> QED
    BY <2>3
<1> QED
  BY <1>2, <1>3, <1>4, <1>5 DEF IsSource

LEMMA PageFacts ==
    ASSUME TypeOK, NEW offset \in Nat
    PROVE  /\ IsSource(Page(offset))
           /\ Len(Page(offset)) \in Nat
           /\ Len(Page(offset)) <= PageLimit
           /\ offset <= Len(source) =>
                /\ Len(Page(offset)) = PageEnd(offset) - offset
                /\ \A j \in 1..Len(Page(offset)) : Page(offset)[j] = source[offset + j]
<1>1. IsSource(source) /\ Len(source) \in Nat /\ PageLimit \in Nat \ {0}
  BY PageLimitAssumption, LenProperties DEF TypeOK, IsSource
<1>2. PageEnd(offset) \in Nat /\ PageEnd(offset) <= Len(source)
  BY <1>1 DEF PageEnd
<1>3. Page(offset) = SubSeq(source, offset + 1, PageEnd(offset))
  BY DEF Page, PageEnd
<1>4. /\ IsSource(Page(offset))
      /\ Len(Page(offset)) =
           IF offset + 1 <= PageEnd(offset) THEN PageEnd(offset) - (offset + 1) + 1 ELSE 0
      /\ \A i \in 1..Len(Page(offset)) : Page(offset)[i] = source[(offset + 1) + i - 1]
  <2>1. offset + 1 \in Nat \ {0}
    OBVIOUS
  <2> QED
    BY <1>1, <1>2, <1>3, <2>1, PartOfSource
<1>5. Len(Page(offset)) \in Nat /\ Len(Page(offset)) <= PageLimit
  BY <1>1, <1>2, <1>4 DEF PageEnd
<1>6. ASSUME offset <= Len(source)
      PROVE  Len(Page(offset)) = PageEnd(offset) - offset
  BY <1>1, <1>2, <1>4, <1>6 DEF PageEnd
<1>7. \A j \in 1..Len(Page(offset)) : Page(offset)[j] = source[offset + j]
  BY <1>4, <1>5
<1> QED
  BY <1>4, <1>5, <1>6, <1>7

LEMMA SourceWithout ==
    ASSUME NEW list, IsSource(list), NEW i \in 1..Len(list)
    PROVE  IsSource(SubSeq(list, 1, i - 1) \o SubSeq(list, i + 1, Len(list)))
<1> DEFINE front == SubSeq(list, 1, i - 1)
           back == SubSeq(list, i + 1, Len(list))
           both == front \o back
           old(k) == IF k <= Len(front) THEN k ELSE k + 1
<1>1. Len(list) \in Nat
  BY LenProperties DEF IsSource
<1>2. /\ IsSource(front)
      /\ Len(front) = i - 1
      /\ \A k \in 1..Len(front) : front[k] = list[k]
  <2>1. i - 1 \in Nat /\ i - 1 <= Len(list)
    BY <1>1
  <2>2. /\ IsSource(front)
        /\ Len(front) = IF 1 <= i - 1 THEN i - 1 - 1 + 1 ELSE 0
        /\ \A k \in 1..Len(front) : front[k] = list[1 + k - 1]
    BY <2>1, PartOfSource
  <2> QED
    BY <2>1, <2>2
<1>3. /\ IsSource(back)
      /\ Len(back) = Len(list) - i
      /\ \A k \in 1..Len(back) : back[k] = list[i + k]
  <2>1. i + 1 \in Nat \ {0}
    OBVIOUS
  <2>2. /\ IsSource(back)
        /\ Len(back) = IF i + 1 <= Len(list) THEN Len(list) - (i + 1) + 1 ELSE 0
        /\ \A k \in 1..Len(back) : back[k] = list[(i + 1) + k - 1]
    BY <2>1, <1>1, PartOfSource
  <2> QED
    BY <1>1, <2>2
<1> HIDE DEF front, back
<1>4. /\ both \in Seq(Element)
      /\ Len(both) = Len(front) + Len(back)
      /\ \A k \in 1..(Len(front) + Len(back)) :
           both[k] = IF k <= Len(front) THEN front[k] ELSE back[k - Len(front)]
  <2>1. front \in Seq(Element) /\ back \in Seq(Element)
    BY <1>2, <1>3 DEF IsSource
  <2> QED
    BY <2>1, ConcatProperties
<1> HIDE DEF both
<1>5. ASSUME NEW k \in 1..Len(both)
      PROVE  both[k] = list[old(k)] /\ old(k) \in 1..Len(list)
  BY <1>1, <1>2, <1>3, <1>4
<1>6. ASSUME NEW k \in 1..Len(both), NEW l \in 1..Len(both), both[k].id = both[l].id
      PROVE  k = l
  <2>1. old(k) = old(l)
    BY <1>5, <1>6 DEF IsSource
  <2> QED
    BY <1>1, <1>2, <2>1
<1> QED
  BY <1>4, <1>6 DEF IsSource, both, front, back

LEMMA SourceWith ==
    ASSUME NEW list, IsSource(list), NEW i \in 0..Len(list), NEW e \in Element,
           \A k \in DOMAIN list : list[k].id # e.id
    PROVE  IsSource(Append(SubSeq(list, 1, i), e) \o SubSeq(list, i + 1, Len(list)))
<1> DEFINE front == SubSeq(list, 1, i)
           longer == Append(front, e)
           back == SubSeq(list, i + 1, Len(list))
           both == longer \o back
           old(k) == IF k <= i THEN k ELSE k - 1
<1>1. list \in Seq(Element) /\ Len(list) \in Nat /\ DOMAIN list = 1..Len(list)
  BY LenProperties DEF IsSource
<1>2. /\ IsSource(front)
      /\ Len(front) = i
      /\ \A k \in 1..i : front[k] = list[k]
  <2>1. i \in Nat /\ i <= Len(list)
    BY <1>1
  <2>2. /\ IsSource(front)
        /\ Len(front) = IF 1 <= i THEN i - 1 + 1 ELSE 0
        /\ \A k \in 1..Len(front) : front[k] = list[1 + k - 1]
    BY <2>1, PartOfSource
  <2> QED
    BY <2>1, <2>2
<1>3. /\ IsSource(back)
      /\ Len(back) = Len(list) - i
      /\ \A k \in 1..Len(back) : back[k] = list[i + k]
  <2>1. i \in Nat /\ i <= Len(list) /\ i + 1 \in Nat \ {0}
    BY <1>1
  <2>2. /\ IsSource(back)
        /\ Len(back) = IF i + 1 <= Len(list) THEN Len(list) - (i + 1) + 1 ELSE 0
        /\ \A k \in 1..Len(back) : back[k] = list[(i + 1) + k - 1]
    BY <2>1, <1>1, PartOfSource
  <2> HIDE DEF back
  <2>3. Len(back) = Len(list) - i
    <3>1. CASE i + 1 <= Len(list)
      <4>1. Len(list) - (i + 1) + 1 = Len(list) - i
        BY <1>1, <2>1
      <4> QED
        BY <2>2, <3>1, <4>1
    <3>2. CASE ~(i + 1 <= Len(list))
      <4>1. \A m, n \in Nat : m <= n /\ ~(m + 1 <= n) => n - m = 0
        OBVIOUS
      <4>2. Len(list) - i = 0
        BY <1>1, <2>1, <3>2, <4>1
      <4> QED
        BY <2>2, <3>2, <4>2
    <3> QED
      BY <3>1, <3>2
  <2>4. ASSUME NEW k \in 1..Len(back)
        PROVE  back[k] = list[i + k]
    <3>1. (i + 1) + k - 1 = i + k
      BY <1>1, <2>1, <2>3
    <3> QED
      BY <2>2, <3>1
  <2> QED
    BY <2>2, <2>3, <2>4
<1> HIDE DEF front, back
<1>4. /\ longer \in Seq(Element)
      /\ Len(longer) = i + 1
      /\ \A k \in 1..i : longer[k] = list[k]
      /\ longer[i + 1] = e
  <2>1. front \in Seq(Element)
    BY <1>2 DEF IsSource
  <2>2. /\ longer \in Seq(Element)
        /\ Len(longer) = Len(front) + 1
        /\ \A k \in 1..Len(front) : longer[k] = front[k]
        /\ longer[Len(front) + 1] = e
    BY <2>1, AppendProperties
  <2> QED
    BY <1>2, <2>2
<1> HIDE DEF longer
<1>5. /\ both \in Seq(Element)
      /\ Len(both) = Len(longer) + Len(back)
      /\ \A k \in 1..(Len(longer) + Len(back)) :
           both[k] = IF k <= Len(longer) THEN longer[k] ELSE back[k - Len(longer)]
  <2>1. longer \in Seq(Element) /\ back \in Seq(Element)
    BY <1>3, <1>4 DEF IsSource
  <2> QED
    BY <2>1, ConcatProperties
<1> HIDE DEF both
<1>6. ASSUME NEW k \in 1..Len(both), k # i + 1
      PROVE  both[k] = list[old(k)] /\ old(k) \in 1..Len(list)
  BY <1>1, <1>3, <1>4, <1>5, <1>6
<1>7. both[i + 1] = e
  BY <1>1, <1>3, <1>4, <1>5
<1>8. ASSUME NEW k \in 1..Len(both), k # i + 1
      PROVE  both[k].id # both[i + 1].id
  BY <1>1, <1>6, <1>7, <1>8
<1>9. ASSUME NEW k \in 1..Len(both), NEW l \in 1..Len(both), both[k].id = both[l].id
      PROVE  k = l
  <2>1. CASE k # i + 1 /\ l # i + 1
    <3>1. old(k) = old(l)
      BY <1>6, <1>9, <2>1 DEF IsSource
    <3> QED
      BY <1>1, <1>5, <2>1, <3>1
  <2>2. CASE k = i + 1 \/ l = i + 1
    BY <1>8, <1>9, <2>2
  <2> QED
    BY <2>1, <2>2
<1> QED
  BY <1>5, <1>9 DEF IsSource, both, longer, front, back

-----------------------------------------------------------------------------
(* Type correctness                                                        *)

LEMMA EmptyList == IsSource(<<>>) /\ Len(<<>>) = 0
BY EmptySeq DEF IsSource

LEMMA LoadState ==
    ASSUME TypeOK, Running
    PROVE  load # NoLoad /\ IsLoad(load)
BY DEF TypeOK, Running, At

LEMMA StoredHead ==
    ASSUME TypeOK, At("store"), load.list # <<>>
    PROVE  IsCollection(With(entries, Head(load.list).id, setResourcePermissions(load.resource)))
<1>1. IsLoad(load)
  BY DEF TypeOK, At
<1>2. Head(load.list).id \in Resources
  BY <1>1, RestOfSource, ElementFacts DEF IsLoad
<1>3. setResourcePermissions(load.resource) \in PermissionsEntry
  BY <1>1, StoredType DEF IsLoad
<1> QED
  BY <1>2, <1>3, WithType DEF TypeOK

LEMMA InitType == Init => TypeOK
BY SourcesAssumption DEF Init, TypeOK, IsCollection, Empty, PermissionsEntry

LEMMA LoadType ==
    ASSUME TypeOK, NEW req \in Requests, Load(req)
    PROVE  TypeOK'
<1>1. IsLoad(load')
  BY EmptyList, PageLimitAssumption DEF Load, IsLoad, IsResourcePermissions, NoPermissions
<1> QED
  BY <1>1 DEF TypeOK, IsCollection, Load

LEMMA FetchType ==
    ASSUME TypeOK, FetchPage
    PROVE  TypeOK'
<1>1. load # NoLoad /\ IsLoad(load)
  BY DEF FetchPage, TypeOK, At
<1>2. /\ load' = [load EXCEPT !.pc = "elements", !.list = Page(load.offset),
                     !.last = Len(Page(load.offset)) < PageLimit]
      /\ UNCHANGED <<entries, source, history>>
  BY DEF FetchPage
<1>3. IsSource(Page(load.offset)) /\ Len(Page(load.offset)) <= PageLimit
  BY <1>1, PageFacts DEF IsLoad
<1>4. IsLoad(load')
  BY <1>1, <1>2, <1>3 DEF IsLoad
<1> QED
  BY <1>2, <1>4 DEF TypeOK, history

LEMMA NextElementType ==
    ASSUME TypeOK, IsLoad(load), load.list # <<>>
    PROVE  IsLoad(NextElement)
<1>1. /\ IsSource(Tail(load.list))
      /\ Len(Tail(load.list)) = Len(load.list) - 1
      /\ Len(load.list) \in Nat
  BY RestOfSource DEF IsLoad
<1>2. Len(Tail(load.list)) <= PageLimit
  BY <1>1, PageLimitAssumption DEF IsLoad
<1>3. IsResourcePermissions(NoPermissions)
  BY DEF IsResourcePermissions, NoPermissions
<1> QED
  BY <1>1, <1>2, <1>3 DEF IsLoad, NextElement

LEMMA ReadElementType ==
    ASSUME TypeOK, ReadElement
    PROVE  TypeOK'
<1>1. load # NoLoad /\ IsLoad(load) /\ load.list # <<>>
  BY DEF ReadElement, TypeOK, At
<1>2. IsResourcePermissions(Merged(Head(load.list)))
  BY <1>1, RestOfSource, MergedRights DEF IsLoad
<1>3. \/ load' = NextElement
      \/ load' = [load EXCEPT !.pc = "store", !.resource = Merged(Head(load.list))]
  BY DEF ReadElement
<1>4. IsLoad([load EXCEPT !.pc = "store", !.resource = Merged(Head(load.list))])
  BY <1>1, <1>2 DEF IsLoad
<1>5. IsLoad(load')
  BY <1>1, <1>3, <1>4, NextElementType
<1> QED
  BY <1>5 DEF TypeOK, ReadElement, history

LEMMA StoreType ==
    ASSUME TypeOK, StoreInv, StoreElement
    PROVE  TypeOK'
<1>1. load # NoLoad /\ IsLoad(load) /\ load.list # <<>> /\ At("store")
  BY DEF StoreElement, StoreInv, TypeOK, At
<1>2. IsLoad(load')
  BY <1>1, NextElementType DEF StoreElement
<1>3. IsCollection(entries')
  BY <1>1, StoredHead DEF StoreElement
<1> QED
  BY <1>2, <1>3 DEF TypeOK, StoreElement

LEMMA PageEndsType ==
    ASSUME TypeOK, PageEnds
    PROVE  TypeOK'
<1>1. load # NoLoad /\ IsLoad(load)
  BY DEF PageEnds, TypeOK, At
<1>2. IsLoad([load EXCEPT !.pc = "done"])
  BY <1>1 DEF IsLoad
<1>3. IsLoad([load EXCEPT !.pc = "fetch", !.offset = load.offset + PageLimit])
  BY <1>1, PageLimitAssumption DEF IsLoad
<1>4. IsLoad(load')
  BY <1>2, <1>3 DEF PageEnds
<1> QED
  BY <1>4 DEF TypeOK, PageEnds, history

LEMMA FailsType ==
    ASSUME TypeOK, StoreInv, LoadFails
    PROVE  TypeOK'
<1>1. CASE UNCHANGED entries
  BY <1>1 DEF TypeOK, LoadFails
<1>2. CASE /\ At("store")
           /\ entries' = With(entries, Head(load.list).id, setResourcePermissions(load.resource))
  <2>1. IsCollection(entries')
    BY <1>2, StoredHead DEF StoreInv
  <2> QED
    BY <2>1 DEF TypeOK, LoadFails
<1> QED
  BY <1>1, <1>2 DEF LoadFails

LEMMA SetPermissionType ==
    ASSUME TypeOK, NEW r \in Resources, NEW perms \in Inputs, SetPermission(r, perms)
    PROVE  TypeOK'
<1>1. setResourcePermissions(perms) \in PermissionsEntry
  BY LoadInputsAssumption, StoredType
<1>2. IsCollection(entries')
  BY <1>1, WithType DEF TypeOK, SetPermission
<1> QED
  BY <1>2 DEF TypeOK, SetPermission

LEMMA RemoveResourceType ==
    ASSUME TypeOK, NEW r \in Resources, RemoveResource(r)
    PROVE  TypeOK'
BY WithoutType DEF TypeOK, RemoveResource

LEMMA SourceRemoveType ==
    ASSUME TypeOK, NEW i \in 1..Len(source), SourceRemove(i)
    PROVE  TypeOK'
<1>1. IsSource(source')
  BY SourceWithout DEF TypeOK, SourceRemove
<1> QED
  BY <1>1 DEF TypeOK, SourceRemove

LEMMA SourceAddType ==
    ASSUME TypeOK, NEW i \in 0..Len(source), NEW e \in Additions, SourceAdd(i, e)
    PROVE  TypeOK'
<1>1. e \in Element
  BY AdditionsAssumption
<1>2. IsSource(source')
  BY <1>1, SourceWith DEF TypeOK, SourceAdd
<1> QED
  BY <1>2 DEF TypeOK, SourceAdd

-----------------------------------------------------------------------------
(* The steps of the load                                                   *)

LEMMA NoLoadInv ==
    ASSUME load' = NoLoad
    PROVE  LoadInv'
BY DEF LoadInv, PageInv, StoreInv, SettledInv, NewInv, LoadsRights, Running, Paging, At

\* Where a load that is there stands.
LEMMA NextPc ==
    ASSUME load' # NoLoad
    PROVE  \A pc : At(pc)' <=> load'.pc = pc
BY DEF At

\* A step that stores nothing and leaves the same elements behind.
LEMMA SameHandled ==
    ASSUME SettledInv, NewInv, Running,
           UNCHANGED <<entries, source, before, touched, moved>>,
           load'.req = load.req,
           ~moved => Handled' = Handled
    PROVE  SettledInv' /\ NewInv'
<1>1. ASSUME LoadsRights'
      PROVE  LoadsRights /\ Handled' = Handled
  BY <1>1 DEF LoadsRights
<1>2. SettledInv'
  <2>1. ASSUME LoadsRights', NEW i \in 1..Handled
        PROVE  Settled(source[i])'
    BY <2>1, <1>1 DEF SettledInv, Settled
  <2> QED
    BY <2>1, <1>1 DEF SettledInv
<1>3. NewInv'
  BY <1>1 DEF NewInv
<1> QED
  BY <1>2, <1>3

LEMMA LoadKeeps ==
    ASSUME TypeOK, NEW req \in Requests, Load(req)
    PROVE  LoadInv'
<1> SUFFICES ASSUME load' # NoLoad PROVE LoadInv'
  BY NoLoadInv
<1>1. /\ load'.pc = "fetch" /\ load'.offset = 0
      /\ before' = DOMAIN entries /\ entries' = entries /\ source' = source
  BY DEF Load
<1>2. At("fetch")' /\ ~At("elements")' /\ ~At("store")' /\ Handled' = 0
  BY <1>1, NextPc DEF Handled
<1>3. Len(source) \in Nat
  BY LenProperties DEF TypeOK, IsSource
<1>4. PageInv' /\ StoreInv'
  BY <1>1, <1>2, <1>3 DEF PageInv, StoreInv, Paging
<1>5. SettledInv' /\ NewInv'
  BY <1>1, <1>2 DEF SettledInv, NewInv
<1> QED
  BY <1>4, <1>5 DEF LoadInv

LEMMA FetchKeeps ==
    ASSUME TypeOK, LoadInv, FetchPage
    PROVE  LoadInv'
<1> SUFFICES ASSUME load' # NoLoad PROVE LoadInv'
  BY NoLoadInv
<1>1. load # NoLoad /\ IsLoad(load) /\ At("fetch") /\ Running
  BY DEF FetchPage, TypeOK, At, Running
<1>2. /\ load'.req = load.req
      /\ load'.pc = "elements"
      /\ load'.offset = load.offset
      /\ load'.list = Page(load.offset)
      /\ load'.last = (Len(Page(load.offset)) < PageLimit)
      /\ UNCHANGED <<entries, source, before, touched, moved>>
  BY <1>1 DEF FetchPage, IsLoad, history
<1>3. ~At("fetch")' /\ At("elements")' /\ ~At("store")'
  BY <1>2, NextPc
<1>4. load.offset \in Nat /\ Len(source) \in Nat
  BY <1>1, LenProperties DEF IsLoad, TypeOK, IsSource
<1>5. /\ Len(Page(load.offset)) \in Nat
      /\ load.offset <= Len(source) =>
           /\ Len(Page(load.offset)) = PageEnd(load.offset) - load.offset
           /\ \A j \in 1..Len(Page(load.offset)) :
                Page(load.offset)[j] = source[load.offset + j]
  BY <1>4, PageFacts
<1>6. PageEnd(load.offset) \in Nat /\ PageEnd(load.offset)' = PageEnd(load.offset)
  BY <1>2, <1>4, PageLimitAssumption DEF PageEnd
<1>7. ~moved => load.offset <= Len(source)
  BY <1>1 DEF LoadInv, PageInv
<1>8. Handled' = PageEnd(load.offset) - Len(Page(load.offset)) /\ Handled = load.offset
  BY <1>1, <1>2, <1>3, <1>6 DEF Handled, Paging
<1>9. ~moved => Handled' = Handled
  BY <1>4, <1>5, <1>6, <1>7, <1>8
<1>10. PageInv'
  <2> SUFFICES ASSUME ~moved
               PROVE  /\ load'.offset <= Len(source')
                      /\ Len(load'.list) <= PageEnd(load.offset)' - load'.offset
                      /\ \A j \in 1..Len(load'.list) : load'.list[j] = source'[Handled' + j]
                      /\ load'.last <=> PageEnd(load.offset)' - load'.offset < PageLimit
    BY <1>2 DEF PageInv
  <2>1. load'.offset <= Len(source')
    BY <1>2, <1>7
  <2>2. Len(load'.list) = PageEnd(load.offset)' - load'.offset
    BY <1>2, <1>5, <1>6, <1>7
  <2>3. \A j \in 1..Len(load'.list) : load'.list[j] = source'[Handled' + j]
    BY <1>2, <1>5, <1>7, <1>8, <1>9
  <2>4. load'.last <=> PageEnd(load.offset)' - load'.offset < PageLimit
    BY <1>2, <2>2
  <2> QED
    BY <1>4, <1>6, <1>5, <1>2, <2>1, <2>2, <2>3, <2>4
<1>11. StoreInv'
  BY <1>3 DEF StoreInv
<1>12. SettledInv' /\ NewInv'
  BY <1>1, <1>2, <1>9, SameHandled DEF LoadInv
<1> QED
  BY <1>10, <1>11, <1>12 DEF LoadInv

LEMMA PageEndsKeeps ==
    ASSUME TypeOK, LoadInv, PageEnds
    PROVE  LoadInv'
<1> SUFFICES ASSUME load' # NoLoad PROVE LoadInv'
  BY NoLoadInv
<1>1. /\ load # NoLoad /\ IsLoad(load)
      /\ ~At("fetch") /\ At("elements") /\ Running /\ load.list = <<>>
  BY DEF PageEnds, TypeOK, At, Running
<1>2. load'.req = load.req /\ UNCHANGED <<entries, source, before, touched, moved>>
  BY <1>1 DEF PageEnds, IsLoad, history
<1>3. load.offset \in Nat /\ Len(source) \in Nat /\ PageLimit \in Nat \ {0}
  BY <1>1, LenProperties, PageLimitAssumption DEF IsLoad, TypeOK, IsSource
<1>4. Handled = PageEnd(load.offset) - 0
  BY <1>1, EmptyList DEF Handled, Paging
<1>5. /\ load.last /\ ~moved => Handled = Len(source)
      /\ ~load.last /\ ~moved =>
           Handled = load.offset + PageLimit /\ load.offset + PageLimit <= Len(source)
  BY <1>1, <1>3, <1>4 DEF LoadInv, PageInv, Paging, PageEnd
<1>6. CASE load.last
  <2>1. load'.pc = "done"
    BY <1>1, <1>6 DEF PageEnds, IsLoad
  <2>2. ~At("fetch")' /\ ~At("elements")' /\ ~At("store")'
    BY <2>1, NextPc
  <2>3. Handled' = Len(source)
    BY <1>2, <2>2 DEF Handled, Paging
  <2>4. PageInv' /\ StoreInv'
    BY <2>2 DEF PageInv, StoreInv, Paging
  <2>5. SettledInv' /\ NewInv'
    BY <1>1, <1>2, <1>5, <1>6, <2>3, SameHandled DEF LoadInv
  <2> QED
    BY <2>4, <2>5 DEF LoadInv
<1>7. CASE ~load.last
  <2>1. load'.pc = "fetch" /\ load'.offset = load.offset + PageLimit
    BY <1>1, <1>7 DEF PageEnds, IsLoad
  <2>2. At("fetch")' /\ ~At("elements")' /\ ~At("store")'
    BY <2>1, NextPc
  <2>3. Handled' = load.offset + PageLimit
    BY <2>1, <2>2 DEF Handled
  <2>4. PageInv' /\ StoreInv'
    BY <1>2, <1>5, <1>7, <2>1, <2>2 DEF PageInv, StoreInv, Paging
  <2>5. SettledInv' /\ NewInv'
    BY <1>1, <1>2, <1>5, <1>7, <2>3, SameHandled DEF LoadInv
  <2> QED
    BY <2>4, <2>5 DEF LoadInv
<1> QED
  BY <1>6, <1>7

\* The element at the head of the page is the next one of the source, and
\* when the page goes on it is the one more that is left behind.
LEMMA NextOfSource ==
    ASSUME TypeOK, PageInv, Paging, load.list # <<>>, ~moved
    PROVE  /\ Handled \in Nat
           /\ Handled + 1 \in 1..Len(source)
           /\ Head(load.list) = source[Handled + 1]
           /\ \A i \in 1..Handled : source[i].id # Head(load.list).id
<1>1. IsLoad(load) /\ ~At("fetch")
  BY DEF TypeOK, Paging, At
<1>2. load.offset \in Nat /\ Len(source) \in Nat /\ PageEnd(load.offset) \in Nat
  BY <1>1, LenProperties, PageLimitAssumption DEF IsLoad, TypeOK, IsSource, PageEnd
<1>3. Len(load.list) \in Nat \ {0} /\ Head(load.list) = load.list[1]
  BY <1>1, RestOfSource DEF IsLoad
<1>4. /\ load.offset <= Len(source)
      /\ Len(load.list) <= PageEnd(load.offset) - load.offset
      /\ \A j \in 1..Len(load.list) : load.list[j] = source[Handled + j]
  BY DEF PageInv
<1>5. Handled = PageEnd(load.offset) - Len(load.list)
  BY <1>1 DEF Handled
<1>6. Handled \in Nat /\ Handled + 1 \in 1..Len(source)
  <2>1. PageEnd(load.offset) <= Len(source)
    BY <1>2, PageLimitAssumption DEF PageEnd
  <2> QED
    BY <1>2, <1>3, <1>4, <1>5, <2>1
<1>7. Head(load.list) = source[Handled + 1]
  BY <1>3, <1>4
<1>8. ASSUME NEW i \in 1..Handled, source[i].id = Head(load.list).id
      PROVE  FALSE
  <2>1. i \in 1..Len(source) /\ i # Handled + 1
    BY <1>2, <1>6
  <2> QED
    BY <2>1, <1>6, <1>7, <1>8 DEF TypeOK, IsSource
<1> QED
  BY <1>6, <1>7, <1>8

LEMMA Advance ==
    ASSUME TypeOK, PageInv, Paging, load.list # <<>>, load' # NoLoad,
           load' = NextElement, UNCHANGED <<source, moved>>
    PROVE  /\ load'.req = load.req
           /\ Running'
           /\ ~At("store")'
           /\ PageInv'
           /\ ~moved => Handled' = Handled + 1
<1>1. IsLoad(load) /\ ~At("fetch")
  BY DEF TypeOK, Paging, At
<1>2. /\ load'.req = load.req
      /\ load'.pc = "elements"
      /\ load'.offset = load.offset
      /\ load'.list = Tail(load.list)
      /\ load'.last = load.last
  BY <1>1 DEF NextElement, IsLoad
<1>3. ~At("fetch")' /\ At("elements")' /\ ~At("store")'
  BY <1>2, NextPc
<1>4. load.offset \in Nat /\ Len(source) \in Nat /\ PageEnd(load.offset) \in Nat
  BY <1>1, LenProperties, PageLimitAssumption DEF IsLoad, TypeOK, IsSource, PageEnd
<1>5. /\ Len(load.list) \in Nat \ {0}
      /\ Len(Tail(load.list)) = Len(load.list) - 1
      /\ \A i \in 1..Len(Tail(load.list)) : Tail(load.list)[i] = load.list[i + 1]
  BY <1>1, RestOfSource DEF IsLoad
<1>6. PageEnd(load.offset)' = PageEnd(load.offset)
  BY <1>2 DEF PageEnd
<1>7. /\ Handled = PageEnd(load.offset) - Len(load.list)
      /\ Handled' = PageEnd(load.offset) - (Len(load.list) - 1)
  BY <1>1, <1>2, <1>3, <1>5, <1>6 DEF Handled, Paging
<1>8. Handled' = Handled + 1 /\ Handled \in Int
  BY <1>4, <1>5, <1>7
<1>9. PageInv'
  <2> SUFFICES ASSUME ~moved
               PROVE  /\ load'.offset <= Len(source')
                      /\ Len(load'.list) <= PageEnd(load.offset)' - load'.offset
                      /\ \A j \in 1..Len(load'.list) : load'.list[j] = source'[Handled' + j]
                      /\ load'.last <=> PageEnd(load.offset)' - load'.offset < PageLimit
    BY DEF PageInv
  <2>1. /\ load.offset <= Len(source)
        /\ Len(load.list) <= PageEnd(load.offset) - load.offset
        /\ \A j \in 1..Len(load.list) : load.list[j] = source[Handled + j]
        /\ load.last <=> PageEnd(load.offset) - load.offset < PageLimit
    BY DEF PageInv
  <2>2. Len(load'.list) <= PageEnd(load.offset)' - load'.offset
    BY <1>2, <1>4, <1>5, <1>6, <2>1
  <2>3. ASSUME NEW j \in 1..Len(Tail(load.list))
        PROVE  Tail(load.list)[j] = source[(Handled + 1) + j]
    <3>1. j + 1 \in 1..Len(load.list) /\ Handled + (j + 1) = (Handled + 1) + j
      BY <1>5, <1>8
    <3> QED
      BY <3>1, <1>5, <2>1
  <2>4. load'.last <=> PageEnd(load.offset)' - load'.offset < PageLimit
    BY <1>2, <1>6, <2>1
  <2> QED
    BY <1>2, <1>8, <2>1, <2>2, <2>3, <2>4
<1> QED
  BY <1>2, <1>3, <1>8, <1>9 DEF Running

LEMMA ReadKeeps ==
    ASSUME TypeOK, LoadInv, ReadElement
    PROVE  LoadInv'
<1> SUFFICES ASSUME load' # NoLoad PROVE LoadInv'
  BY NoLoadInv
<1> DEFINE e == Head(load.list)
<1>1. /\ load # NoLoad /\ IsLoad(load) /\ load.list # <<>>
      /\ ~At("fetch") /\ At("elements") /\ Paging /\ Running
      /\ UNCHANGED <<entries, source, before, touched, moved>>
  BY DEF ReadElement, TypeOK, At, Running, Paging, history
<1>2. CASE load.req.dryRun \/ (e.id \in DOMAIN entries /\ ~load.req.overwrite)
  <2>1. load' = NextElement
    BY <1>2 DEF ReadElement
  <2>2. /\ load'.req = load.req /\ Running' /\ ~At("store")' /\ PageInv'
        /\ ~moved => Handled' = Handled + 1
    BY <1>1, <2>1, Advance DEF LoadInv
  <2>3. ASSUME LoadsRights'
        PROVE  /\ LoadsRights
               /\ Handled \in Nat /\ Handled' = Handled + 1
               /\ e = source[Handled + 1]
               /\ \A i \in 1..Handled : source[i].id # e.id
    BY <1>1, <2>2, <2>3, NextOfSource DEF LoadsRights, LoadInv
  <2>4. SettledInv'
    <3>1. ASSUME LoadsRights' PROVE Settled(e)
      <4>1. e.id \in DOMAIN entries /\ ~load.req.overwrite
        BY <1>2, <2>3, <3>1 DEF LoadsRights
      <4>2. e.id \in before \cup touched
        BY <2>3, <3>1, <4>1 DEF LoadInv, NewInv
      <4> QED
        BY <4>1, <4>2 DEF Settled
    <3>2. ASSUME LoadsRights', NEW i \in 1..(Handled + 1)
          PROVE  Settled(source[i])
      BY <2>3, <3>1, <3>2 DEF LoadInv, SettledInv
    <3> QED
      BY <1>1, <2>2, <2>3, <3>2 DEF SettledInv, Settled
  <2>5. NewInv'
    <3>1. ASSUME LoadsRights', NEW r \in DOMAIN entries, r \notin before \cup touched
          PROVE  \E i \in 1..(Handled + 1) : source[i].id = r
      <4>1. PICK i \in 1..Handled : source[i].id = r
        BY <2>3, <3>1 DEF LoadInv, NewInv
      <4>2. i \in 1..(Handled + 1)
        BY <2>3, <3>1
      <4> QED
        BY <4>1, <4>2
    <3> QED
      BY <1>1, <2>3, <3>1 DEF NewInv
  <2>6. StoreInv'
    BY <2>2 DEF StoreInv
  <2> QED
    BY <2>2, <2>4, <2>5, <2>6 DEF LoadInv
<1>3. CASE ~(load.req.dryRun \/ (e.id \in DOMAIN entries /\ ~load.req.overwrite))
  <2>1. load' = [load EXCEPT !.pc = "store", !.resource = Merged(e)]
    BY <1>3 DEF ReadElement
  <2>2. /\ load'.req = load.req
        /\ load'.pc = "store"
        /\ load'.offset = load.offset
        /\ load'.list = load.list
        /\ load'.last = load.last
        /\ load'.resource = Merged(e)
    BY <1>1, <2>1 DEF IsLoad
  <2>3. ~At("fetch")' /\ ~At("elements")' /\ At("store")'
    BY <2>2, NextPc
  <2>4. PageEnd(load.offset)' = PageEnd(load.offset) /\ Handled' = Handled
    BY <1>1, <2>2, <2>3 DEF PageEnd, Handled, Paging
  <2>5. PageInv'
    BY <1>1, <2>2, <2>3, <2>4 DEF LoadInv, PageInv
  <2>6. e \in Element
    BY <1>1, RestOfSource DEF IsLoad
  <2>7. Covers(Merged(e), e)
    BY <2>6, MergedRights
  <2>8. StoreInv'
    <3>1. Covers(load.resource, Head(load.list))'
      BY <2>2, <2>7 DEF Covers
    <3> QED
      BY <1>1, <1>3, <2>2, <3>1 DEF StoreInv
  <2>9. SettledInv' /\ NewInv'
    BY <1>1, <2>2, <2>4, SameHandled DEF LoadInv
  <2> QED
    BY <2>5, <2>8, <2>9 DEF LoadInv
<1> QED
  BY <1>2, <1>3

\* The element that is stored.
LEMMA StoredElement ==
    ASSUME TypeOK, LoadInv, StoreElement
    PROVE  /\ load # NoLoad /\ IsLoad(load) /\ Running /\ Paging
           /\ load.list # <<>> /\ ~load.req.dryRun
           /\ Head(load.list) \in Element
           /\ DOMAIN entries' = DOMAIN entries \cup {Head(load.list).id}
           /\ Covers(ToResource(entries'[Head(load.list).id]), Head(load.list))
           /\ \A r \in DOMAIN entries : r # Head(load.list).id => entries'[r] = entries[r]
           /\ UNCHANGED <<source, before, touched, moved>>
<1>1. /\ load # NoLoad /\ IsLoad(load) /\ Running /\ Paging
      /\ load.list # <<>> /\ ~load.req.dryRun
      /\ Covers(load.resource, Head(load.list))
  BY DEF StoreElement, TypeOK, At, Running, Paging, LoadInv, StoreInv
<1>2. Head(load.list) \in Element
  BY <1>1, RestOfSource DEF IsLoad
<1>3. entries' = With(entries, Head(load.list).id, setResourcePermissions(load.resource))
  BY DEF StoreElement
<1>4. Covers(ToResource(setResourcePermissions(load.resource)), Head(load.list))
  BY <1>1, CoveredIsStored DEF IsLoad
<1>5. /\ DOMAIN entries' = DOMAIN entries \cup {Head(load.list).id}
      /\ entries'[Head(load.list).id] = setResourcePermissions(load.resource)
      /\ \A r \in DOMAIN entries : r # Head(load.list).id => entries'[r] = entries[r]
  BY <1>3 DEF With
<1> QED
  BY <1>1, <1>2, <1>4, <1>5 DEF StoreElement

LEMMA StoreKeeps ==
    ASSUME TypeOK, LoadInv, StoreElement
    PROVE  LoadInv'
<1> SUFFICES ASSUME load' # NoLoad PROVE LoadInv'
  BY NoLoadInv
<1> DEFINE e == Head(load.list)
<1>1. /\ load # NoLoad /\ IsLoad(load) /\ Running /\ Paging
      /\ load.list # <<>> /\ ~load.req.dryRun
      /\ e \in Element
      /\ DOMAIN entries' = DOMAIN entries \cup {e.id}
      /\ Covers(ToResource(entries'[e.id]), e)
      /\ \A r \in DOMAIN entries : r # e.id => entries'[r] = entries[r]
      /\ UNCHANGED <<source, before, touched, moved>>
  BY StoredElement
<1>2. load' = NextElement
  BY DEF StoreElement
<1>3. /\ load'.req = load.req /\ Running' /\ ~At("store")' /\ PageInv'
      /\ ~moved => Handled' = Handled + 1
  BY <1>1, <1>2, Advance DEF LoadInv
<1>4. ASSUME ~moved
      PROVE  /\ LoadsRights
             /\ Handled \in Nat /\ Handled' = Handled + 1
             /\ e = source[Handled + 1]
             /\ \A i \in 1..Handled : source[i].id # e.id
  BY <1>1, <1>3, <1>4, NextOfSource DEF LoadsRights, LoadInv
<1>5. SettledInv'
  <2> SUFFICES ASSUME ~moved, NEW i \in 1..(Handled + 1)
               PROVE  Settled(source[i])'
    BY <1>1, <1>4 DEF SettledInv, LoadsRights
  <2>1. CASE i = Handled + 1
    <3>1. source[i] = e /\ source'[i] = e
      BY <1>1, <1>4, <2>1
    <3>2. e.id \in DOMAIN entries' /\ Covers(ToResource(entries'[e.id]), e)
      BY <1>1
    <3> HIDE DEF e
    <3>3. Covers(ToResource(entries[source[i].id]), source[i])'
      BY <3>1, <3>2 DEF Covers
    <3> QED
      BY <3>1, <3>2, <3>3 DEF Settled
  <2>2. CASE i # Handled + 1
    <3>1. i \in 1..Handled
      BY <1>4, <2>2
    <3>2. Settled(source[i]) /\ source[i].id # e.id
      BY <1>4, <3>1 DEF LoadInv, SettledInv
    <3>3. source[i].id \in DOMAIN entries =>
            source[i].id \in DOMAIN entries' /\ entries'[source[i].id] = entries[source[i].id]
      BY <1>1, <3>2
    <3> QED
      BY <1>1, <1>3, <3>2, <3>3 DEF Settled, Covers
  <2> QED
    BY <2>1, <2>2
<1>6. NewInv'
  <2> SUFFICES ASSUME ~moved, NEW r \in DOMAIN entries', r \notin before \cup touched
               PROVE  \E i \in 1..(Handled + 1) : source[i].id = r
    BY <1>1, <1>4 DEF NewInv, LoadsRights
  <2>1. CASE r = e.id
    BY <1>4, <2>1
  <2>2. CASE r # e.id
    <3>1. PICK i \in 1..Handled : source[i].id = r
      BY <1>1, <1>4, <2>2 DEF LoadInv, NewInv
    <3>2. i \in 1..(Handled + 1)
      BY <1>4
    <3> QED
      BY <3>1, <3>2
  <2> QED
    BY <2>1, <2>2
<1>7. StoreInv'
  BY <1>3 DEF StoreInv
<1> QED
  BY <1>3, <1>5, <1>6, <1>7 DEF LoadInv

-----------------------------------------------------------------------------
(* The steps of others                                                     *)

\* A request that touches a resource only.
LEMMA OthersKeep ==
    ASSUME TypeOK, LoadInv, NEW r \in Resources,
           UNCHANGED <<source, load, moved>>,
           before' = before \ {r}, touched' = touched \cup {r}, raced \subseteq raced',
           At("store") /\ r \in DOMAIN entries' => r \in raced' \/ r \in DOMAIN entries,
           \A k : k # r =>
               /\ k \in DOMAIN entries' <=> k \in DOMAIN entries
               /\ k \in DOMAIN entries => entries'[k] = entries[k]
    PROVE  LoadInv'
<1>1. /\ \A pc : At(pc)' <=> At(pc)
      /\ \A o : PageEnd(o)' = PageEnd(o)
  BY DEF At, PageEnd
<1>2. Handled' = Handled /\ (Paging' <=> Paging) /\ (LoadsRights' <=> LoadsRights)
      /\ (Running' <=> Running)
  BY <1>1 DEF Handled, Paging, LoadsRights, Running, At, PageEnd
<1>3. PageInv'
  BY <1>1, <1>2 DEF LoadInv, PageInv, PageEnd
<1>4. StoreInv'
  BY <1>1 DEF LoadInv, StoreInv, Covers
<1>5. SettledInv'
  <2> SUFFICES ASSUME LoadsRights, NEW i \in 1..Handled
               PROVE  Settled(source[i])'
    BY <1>2 DEF SettledInv
  <2>1. Settled(source[i])
    BY DEF LoadInv, SettledInv
  <2> QED
    BY <2>1 DEF Settled, Covers
<1>6. NewInv'
  BY <1>2 DEF LoadInv, NewInv
<1> QED
  BY <1>3, <1>4, <1>5, <1>6 DEF LoadInv

LEMMA SetPermissionKeeps ==
    ASSUME TypeOK, LoadInv, NEW r \in Resources, NEW perms \in Inputs, SetPermission(r, perms)
    PROVE  LoadInv'
<1>1. \A k : k # r =>
          /\ k \in DOMAIN entries' <=> k \in DOMAIN entries
          /\ k \in DOMAIN entries => entries'[k] = entries[k]
  BY DEF SetPermission, With
<1> QED
  BY <1>1, OthersKeep DEF SetPermission

LEMMA RemoveResourceKeeps ==
    ASSUME TypeOK, LoadInv, NEW r \in Resources, RemoveResource(r)
    PROVE  LoadInv'
<1>1. \A k : k # r =>
          /\ k \in DOMAIN entries' <=> k \in DOMAIN entries
          /\ k \in DOMAIN entries => entries'[k] = entries[k]
  BY DEF RemoveResource, Without
<1> QED
  BY <1>1, OthersKeep DEF RemoveResource

\* Permission-search changes under the load.
LEMMA SourceKeeps ==
    ASSUME LoadInv, moved', UNCHANGED <<entries, load, before, touched, raced>>
    PROVE  LoadInv'
<1>1. PageInv' /\ SettledInv' /\ NewInv'
  BY DEF PageInv, SettledInv, NewInv, LoadsRights
<1>2. StoreInv'
  BY DEF LoadInv, StoreInv, Covers, At
<1> QED
  BY <1>1, <1>2 DEF LoadInv

-----------------------------------------------------------------------------
(* All together                                                            *)

LEMMA InitInv == Init => IInv
<1> SUFFICES ASSUME Init PROVE IInv
  OBVIOUS
<1>1. \A pc : ~At(pc)
  BY DEF Init, At
<1>2. LoadInv
  BY <1>1 DEF LoadInv, PageInv, StoreInv, SettledInv, NewInv, LoadsRights, Running,
              Paging
<1> QED
  BY <1>2, InitType DEF IInv

LEMMA NextInv == IInv /\ [Next]_vars => IInv'
<1> SUFFICES ASSUME TypeOK, LoadInv, [Next]_vars
             PROVE  TypeOK' /\ LoadInv'
  BY DEF IInv
<1>1. ASSUME NEW req \in Requests, Load(req)
      PROVE  TypeOK' /\ LoadInv'
  BY <1>1, LoadType, LoadKeeps
<1>2. CASE FetchPage
  BY <1>2, FetchType, FetchKeeps
<1>3. CASE ReadElement
  BY <1>3, ReadElementType, ReadKeeps
<1>4. CASE StoreElement
  BY <1>4, StoreType, StoreKeeps DEF LoadInv
<1>5. CASE PageEnds
  BY <1>5, PageEndsType, PageEndsKeeps
<1>6. CASE LoadFails
  <2>1. load' = NoLoad
    BY <1>6 DEF LoadFails
  <2> QED
    BY <1>6, <2>1, FailsType, NoLoadInv DEF LoadInv
<1>7. ASSUME NEW r \in Resources, NEW perms \in Inputs, SetPermission(r, perms)
      PROVE  TypeOK' /\ LoadInv'
  BY <1>7, SetPermissionType, SetPermissionKeeps
<1>8. ASSUME NEW r \in Resources, RemoveResource(r)
      PROVE  TypeOK' /\ LoadInv'
  BY <1>8, RemoveResourceType, RemoveResourceKeeps
<1>9. ASSUME NEW i \in 1..Len(source), SourceRemove(i)
      PROVE  TypeOK' /\ LoadInv'
  BY <1>9, SourceRemoveType, SourceKeeps DEF SourceRemove
<1>10. ASSUME NEW i \in 0..Len(source), NEW e \in Additions, SourceAdd(i, e)
       PROVE  TypeOK' /\ LoadInv'
  BY <1>10, SourceAddType, SourceKeeps DEF SourceAdd
<1>11. CASE UNCHANGED vars
  <2>1. UNCHANGED <<entries, source, load, before, touched, raced, moved>>
    BY <1>11 DEF vars
  <2>2. TypeOK'
    BY <2>1 DEF TypeOK
  <2>3. \A pc : At(pc)' <=> At(pc)
    BY <2>1 DEF At
  <2>4. /\ Handled' = Handled
        /\ Paging' <=> Paging
        /\ Running' <=> Running
    BY <2>1, <2>3 DEF Handled, Paging, Running, PageEnd
  <2>5. LoadInv'
    <3>1. PageInv'
      BY <2>1, <2>3, <2>4 DEF LoadInv, PageInv, PageEnd
    <3>2. StoreInv'
      BY <2>1, <2>3 DEF LoadInv, StoreInv, Covers
    <3>3. LoadsRights' <=> LoadsRights
      BY <2>1, <2>3, <2>4 DEF LoadsRights
    <3>4. SettledInv'
      BY <2>1, <2>4, <3>3 DEF LoadInv, SettledInv, Settled, Covers
    <3>5. NewInv'
      BY <2>1, <2>4, <3>3 DEF LoadInv, NewInv
    <3> QED
      BY <3>1, <3>2, <3>4, <3>5 DEF LoadInv
  <2> QED
    BY <2>2, <2>5
<1> QED
  BY <1>1, <1>2, <1>3, <1>4, <1>5, <1>6, <1>7, <1>8, <1>9, <1>10, <1>11
     DEF Next, LoadStep

LEMMA Invariance == Spec => []IInv
BY InitInv, NextInv, PTL DEF Spec

-----------------------------------------------------------------------------
(* What follows from it in every state                                     *)

\* A load that is done has left every element behind.
LEMMA DoneSettled ==
    ASSUME IInv, At("done"), ~load.req.dryRun, ~moved, NEW i \in DOMAIN source
    PROVE  Settled(source[i]) /\ source[i] \in Element
<1>1. source \in Seq(Element)
  BY DEF IInv, TypeOK, IsSource
<1>2. i \in 1..Len(source) /\ source[i] \in Element
  BY <1>1, LenProperties, ElementOfSeq
<1>3. Handled = Len(source) /\ LoadsRights
  BY DEF Handled, Paging, LoadsRights, At
<1> QED
  BY <1>2, <1>3 DEF IInv, LoadInv, SettledInv

LEMMA CompleteInState == IInv => LoadIsComplete
BY DoneSettled DEF LoadIsComplete, Settled

LEMMA ExportedInState == IInv => LoadedAsExported
<1> SUFFICES ASSUME IInv, At("done"), ~load.req.dryRun, ~moved, NEW i \in DOMAIN source,
                    source[i].id \notin touched,
                    source[i].id \in before => load.req.overwrite
             PROVE  LET e == source[i] IN
                    /\ \A u \in DOMAIN e.user_rights :
                         Grants(ToResource(entries[e.id]), <<"user", u>>) = e.user_rights[u]
                    /\ \A g \in DOMAIN e.group_rights :
                         Grants(ToResource(entries[e.id]), <<"role", g>>) = e.group_rights[g]
  BY DEF LoadedAsExported
<1>1. source[i] \in Element /\ Covers(ToResource(entries[source[i].id]), source[i])
  BY DoneSettled DEF Settled
<1> QED
  BY <1>1, ConvertedRights DEF Covers

\* What a store of the load may change.
LEMMA StoreSparesKnown ==
    ASSUME IInv, At("store"),
           entries' = With(entries, Head(load.list).id, setResourcePermissions(load.resource))
    PROVE  /\ ~load.req.dryRun
           /\ ~load.req.overwrite =>
                \A r \in DOMAIN entries \ raced :
                    r \in DOMAIN entries' /\ entries'[r] = entries[r]
BY DEF IInv, LoadInv, StoreInv, With

LEMMA NextSparesKnown ==
    ASSUME IInv, Next, Running, load' # load
    PROVE  /\ load.req.dryRun => entries' = entries
           /\ ~load.req.overwrite =>
                \A r \in DOMAIN entries \ raced :
                    r \in DOMAIN entries' /\ entries'[r] = entries[r]
<1>1. CASE FetchPage \/ ReadElement \/ PageEnds
  BY <1>1 DEF FetchPage, ReadElement, PageEnds
<1>2. CASE StoreElement
  BY <1>2, StoreSparesKnown DEF StoreElement
<1>3. CASE LoadFails
  <2>1. CASE UNCHANGED entries
    BY <2>1
  <2>2. CASE /\ At("store")
             /\ entries' = With(entries, Head(load.list).id,
                               setResourcePermissions(load.resource))
    BY <2>2, StoreSparesKnown
  <2> QED
    BY <1>3, <2>1, <2>2 DEF LoadFails
<1>4. CASE \E req \in Requests : Load(req)
  BY <1>4 DEF Load
<1>5. CASE \/ \E r \in Resources, perms \in Inputs : SetPermission(r, perms)
           \/ \E r \in Resources : RemoveResource(r)
           \/ \E i \in 1..Len(source) : SourceRemove(i)
           \/ \E i \in 0..Len(source), e \in Additions : SourceAdd(i, e)
  BY <1>5 DEF SetPermission, RemoveResource, SourceRemove, SourceAdd
<1> QED
  BY <1>1, <1>2, <1>3, <1>4, <1>5 DEF Next, LoadStep

-----------------------------------------------------------------------------
(***************************************************************************)
(* Type correctness: pages are cut to the limit, and the rights that are   *)
(* merged and stored are well-formed.                                      *)
(***************************************************************************)
THEOREM TypeCorrect == Spec => []TypeOK
BY Invariance, PTL DEF IInv

(***************************************************************************)
(* A load that answers 200 has stored every resource permission-search     *)
(* had, unless the export has changed meanwhile or another request has     *)
(* changed the resource.                                                   *)
(***************************************************************************)
THEOREM LoadMissesNothing == Spec => []LoadIsComplete
BY Invariance, CompleteInState, PTL

(***************************************************************************)
(* What such a load has stored grants every user and group (as role) what  *)
(* permission-search granted it.                                           *)
(***************************************************************************)
THEOREM LoadKeepsRights == Spec => []LoadedAsExported
BY Invariance, ExportedInState, PTL

(***************************************************************************)
(* A load without overwrite changes nothing that is stored, but for what   *)
(* another request stores between its look-up of that resource and its     *)
(* store; a dry run changes nothing.                                       *)
(***************************************************************************)
THEOREM LoadSparesKnown == Spec => KnownAreKept
<1>1. ASSUME IInv, [Next]_vars, Running, load' # load
      PROVE  /\ load.req.dryRun => entries' = entries
             /\ ~load.req.overwrite =>
                  \A r \in DOMAIN entries \ raced :
                      r \in DOMAIN entries' /\ entries'[r] = entries[r]
  BY <1>1, NextSparesKnown DEF vars
<1>2. IInv /\ [Next]_vars =>
        [Running /\ load' # load =>
           /\ load.req.dryRun => entries' = entries
           /\ ~load.req.overwrite =>
                \A r \in DOMAIN entries \ raced :
                    r \in DOMAIN entries' /\ entries'[r] = entries[r]]_vars
  BY <1>1
<1> QED
  BY <1>2, Invariance, PTL DEF Spec, KnownAreKept
===============================================================================
