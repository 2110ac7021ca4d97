---------------------------- MODULE CatalogProofs ---------------------------
(***************************************************************************)
(* Proofs about Catalog, for any gallery limit and any number of requests  *)
(* and images: the invariant Ind, the bound of the gallery, the references *)
(* to a product, and what edits and gallery requests may do.               *)
(***************************************************************************)
EXTENDS Catalog, FiniteSetTheorems, TLAPS

\* Positions are an injection into 0 .. Limit - 1, which bounds the gallery.
LEMMA Bounded == ASSUME TypeOK, PositionsDiffer PROVE GalleryBounded
<1> DEFINE p == [i \in Present |-> position[i]]
<1>1. p \in Injection(Present, 0 .. Limit - 1)
  BY LimitAssumption DEF Injection, IsInjective, TypeOK, PositionsDiffer, Present, Unused, Gone
<1>2. IsFiniteSet(0 .. Limit - 1) /\ Cardinality(0 .. Limit - 1) = Limit
  BY FS_Interval, LimitAssumption
<1>3. QED BY <1>1, <1>2, FS_Injection DEF GalleryBounded

\* Ranks among finitely many images stay below their number, and differ.
LEMMA Ranks ==
  ASSUME NEW S \in SUBSET Images, IsFiniteSet(S), \A j \in S : position[j] \in Int
  PROVE  /\ \A i \in S : Rank(i, S) \in 0 .. Cardinality(S) - 1
         /\ \A i, k \in S : position[i] < position[k] => Rank(i, S) < Rank(k, S)
<1> DEFINE Below(i) == {j \in S : position[j] < position[i]}
<1>1. \A i \in S : IsFiniteSet(Below(i)) /\ Cardinality(Below(i)) \in Nat
  BY FS_Subset, FS_CardinalityType
<1>2. ASSUME NEW i \in S PROVE Rank(i, S) \in 0 .. Cardinality(S) - 1
  <2>1. Below(i) # S BY <1>2
  <2>2. Cardinality(S) \in Nat BY FS_CardinalityType
  <2>3. Cardinality(Below(i)) <= Cardinality(S) /\ Cardinality(Below(i)) # Cardinality(S)
    BY <2>1, FS_Subset
  <2>4. QED BY <1>1, <1>2, <2>2, <2>3 DEF Rank
<1>3. ASSUME NEW i \in S, NEW k \in S, position[i] < position[k] PROVE Rank(i, S) < Rank(k, S)
  <2>1. Below(i) \in SUBSET Below(k) BY <1>3
  <2>2. Below(i) # Below(k) BY <1>3
  <2>3. Cardinality(Below(i)) <= Cardinality(Below(k))
        /\ Cardinality(Below(i)) # Cardinality(Below(k))
    BY <1>1, <2>1, <2>2, FS_Subset
  <2>4. QED BY <1>1, <1>3, <2>3 DEF Rank
<1>4. QED BY <1>2, <1>3

LEMMA IdleAgrees == Idle \in Request /\ RequestAgrees(Idle)
<1>1. Idle \in Request BY DEF Idle, Request
<1>2. IsFiniteSet(Idle.list) /\ Cardinality(Idle.list) <= Limit
  BY FS_EmptySet, LimitAssumption DEF Idle
<1>3. QED BY <1>1, <1>2 DEF Idle, RequestAgrees

----------------------------------------------------------------------------
LEMMA InitInd == Init => Ind
<1> SUFFICES ASSUME Init PROVE Ind OBVIOUS
<1>1. \A r \in Requests : RequestAgrees(req[r])
  BY IdleAgrees DEF Init
<1>2. product \in Product
  <2>1. PICK a \in BOOLEAN, i \in Images \cup {NoImage} :
          product = [exists |-> TRUE, active |-> a, archived |-> FALSE, used |-> FALSE,
                     primary |-> i, revision |-> 0]
    BY DEF Init
  <2>2. QED BY <2>1 DEF Product
<1>3. position \in [Images -> {Unused, Gone} \cup 0 .. Limit - 1]
  BY LimitAssumption DEF Init, Unused, Gone
<1>4. req \in [Requests -> Request] BY IdleAgrees DEF Init
<1>5. PositionsDiffer BY DEF Init, PositionsDiffer, Present, Unused
<1>6. surface = FALSE /\ product.exists BY DEF Init
<1>7. QED BY <1>1, <1>2, <1>3, <1>4, <1>5, <1>6 DEF Ind, TypeOK, References

\* Steps that only read: one request learns something.
LEMMA Reading ==
  ASSUME Ind, NEW r \in Requests, NEW q \in Request, RequestAgrees(q),
         req' = [req EXCEPT ![r] = q], UNCHANGED <<product, position, surface>>
  PROVE  Ind'
<1>1. TypeOK' BY DEF Ind, TypeOK
<1>2. \A s \in Requests : RequestAgrees(req[s])'
  BY DEF Ind, TypeOK, RequestAgrees
<1>3. PositionsDiffer' /\ References' /\ (surface => product.used)'
  BY DEF Ind, PositionsDiffer, References, Unreferenced, Present
<1>4. QED BY <1>1, <1>2, <1>3 DEF Ind

\* Steps that write: at most one request ends, and an archived flag changes
\* only with the revision.
LEMMA OthersAgree ==
  ASSUME Ind, product' \in Product,
         req' \in [Requests -> Request],
         \A s \in Requests : req'[s] = req[s] \/ req'[s] = Idle,
         product'.revision >= product.revision,
         product'.revision > product.revision \/ product'.archived = product.archived
  PROVE  \A s \in Requests : RequestAgrees(req[s])'
<1> SUFFICES ASSUME NEW s \in Requests PROVE RequestAgrees(req[s])' OBVIOUS
<1>0. product \in Product /\ req[s] \in Request BY DEF Ind, TypeOK
<1>1. CASE req'[s] = req[s]
  <2>1. RequestAgrees(req[s]) BY DEF Ind
  <2>2. req[s].revision \in Nat /\ product.revision \in Nat /\ product'.revision \in Nat
    BY <1>0 DEF Product, Request
  <2>3. req[s].pc = "edit" => req[s].revision <= product.revision
    BY <2>1 DEF RequestAgrees
  <2>4. req[s].pc = "edit" /\ req[s].revision = product'.revision => ~product'.archived
    <3>1. CASE product'.revision > product.revision BY <2>2, <2>3, <3>1
    <3>2. CASE product'.revision = product.revision
      <4>1. product'.archived = product.archived BY <2>2, <3>2
      <4>2. QED BY <2>1, <3>2, <4>1, Zenon DEF RequestAgrees
    <3>3. QED BY <2>2, <3>1, <3>2
  <2>5. req[s].pc = "edit" => req[s].revision <= product'.revision BY <2>2, <2>3
  <2>6. QED BY <1>1, <2>1, <2>4, <2>5, Zenon DEF RequestAgrees
<1>2. CASE req'[s] = Idle
  BY <1>2, FS_EmptySet, LimitAssumption DEF RequestAgrees, Idle
<1>3. QED BY <1>1, <1>2

LEMMA Revision ==
  ASSUME NEW changed \in Product, product \in Product, Revised(changed)
  PROVE  /\ product' \in Product
         /\ product'.revision = product.revision + 1
         /\ product'.exists = changed.exists /\ product'.active = changed.active
         /\ product'.archived = changed.archived /\ product'.used = changed.used
         /\ product'.primary = changed.primary
  BY DEF Product, Revised

LEMMA Ended ==
  ASSUME TypeOK, NEW r \in Requests, NEW pc, Ends(r, pc)
  PROVE  /\ req[r].pc = pc
         /\ req' \in [Requests -> Request]
         /\ \A s \in Requests : req'[s] = req[s] \/ req'[s] = Idle
  BY IdleAgrees DEF Ends, Goes, TypeOK

LEMMA SomeRoom == 0 <= Limit /\ 0 < Limit
  BY LimitAssumption

LEMMA NothingListed ==
  ASSUME NEW q \in Request, q.list = {}, q.pc # "remove",
         q.pc = "set primary" => q.image \in Images,
         q.pc = "edit" => q.revision = product.revision /\ product.revision \in Nat
                          /\ ~product.archived
  PROVE  RequestAgrees(q)
<1>1. IsFiniteSet(q.list) /\ Cardinality(q.list) = 0 BY FS_EmptySet
<1>2. q.pc = "edit" => q.revision <= product.revision OBVIOUS
<1>4. Cardinality(q.list) <= Limit /\ Cardinality(q.list) < Limit BY <1>1, SomeRoom, Zenon
<1>5. QED BY <1>1, <1>2, <1>4 DEF RequestAgrees

LEMMA BeginStep ==
  ASSUME Ind, NEW r \in Requests, NEW q \in Request, Begin(r, q), RequestAgrees(q),
         UNCHANGED <<product, position, surface>>
  PROVE  Ind'
  BY Reading DEF Begin

LEMMA ReadSteps ==
  ASSUME Ind, NEW r \in Requests,
         \/ AttachRead(r) \/ AttachList(r) \/ PrimaryFind(r) \/ RemoveRead(r) \/ RemoveList(r)
         \/ EditCheck(r) \/ DeleteCheck(r) \/ SubmitRead(r) \/ SubmitImage(r) \/ RequestLost(r)
  PROVE  Ind'
<1> USE DEF Ind
<1>0. /\ product \in Product /\ req[r] \in Request /\ RequestAgrees(req[r])
      /\ product.primary \in Images \cup {NoImage} /\ product.revision \in Nat
  BY DEF TypeOK, Product
<1>b. Present \in SUBSET Images /\ IsFiniteSet(Present) /\ Cardinality(Present) <= Limit
      /\ Cardinality(Present) \in Nat
  BY Bounded, FS_CardinalityType DEF GalleryBounded, Present
<1>1. CASE AttachRead(r)
  <2> DEFINE q == [Idle EXCEPT !.pc = "attach images", !.primary = product.primary]
  <2>1. q \in Request /\ q.list = {} /\ q.pc = "attach images" BY <1>0 DEF Idle, Request
  <2>2. RequestAgrees(q) BY <2>1, NothingListed
  <2>3. QED BY <1>1, <2>1, <2>2, BeginStep DEF AttachRead
<1>2. CASE AttachList(r)
  <2> DEFINE q == [req[r] EXCEPT !.pc = "attach", !.list = Present]
  <2>1. q \in Request /\ q.list = Present /\ q.pc = "attach" BY <1>0, <1>b DEF Request
  <2>2. RequestAgrees(q) BY <1>2, <1>b, <2>1 DEF RequestAgrees, AttachList
  <2>3. QED BY <1>2, <2>1, <2>2, Reading DEF AttachList, Goes
<1>3. CASE PrimaryFind(r)
  <2>1. PICK i \in Present : Begin(r, [Idle EXCEPT !.pc = "set primary", !.image = i])
    BY <1>3 DEF PrimaryFind
  <2> DEFINE q == [Idle EXCEPT !.pc = "set primary", !.image = i]
  <2>2. q \in Request /\ q.list = {} /\ q.pc = "set primary" /\ q.image \in Images
    BY <1>b DEF Idle, Request
  <2>3. RequestAgrees(q) BY <2>2, NothingListed
  <2>4. QED BY <1>3, <2>1, <2>2, <2>3, BeginStep DEF PrimaryFind
<1>4. CASE RemoveRead(r)
  <2> DEFINE q == [Idle EXCEPT !.pc = "remove images", !.primary = product.primary]
  <2>1. q \in Request /\ q.list = {} /\ q.pc = "remove images" BY <1>0 DEF Idle, Request
  <2>2. RequestAgrees(q) BY <2>1, NothingListed
  <2>3. QED BY <1>4, <2>1, <2>2, BeginStep DEF RemoveRead
<1>5. CASE RemoveList(r)
  <2>1. PICK i \in Present :
          Goes(r, "remove images", [req[r] EXCEPT !.pc = "remove", !.list = Present, !.image = i])
    BY <1>5 DEF RemoveList
  <2> DEFINE q == [req[r] EXCEPT !.pc = "remove", !.list = Present, !.image = i]
  <2>2. q \in Request /\ q.list = Present /\ q.pc = "remove" /\ q.image = i
    BY <1>0, <1>b DEF Request
  <2>3. RequestAgrees(q) BY <1>b, <2>1, <2>2 DEF RequestAgrees
  <2>4. QED BY <1>5, <2>1, <2>2, <2>3, Reading DEF RemoveList, Goes
<1>6. CASE EditCheck(r)
  <2> DEFINE q == [Idle EXCEPT !.pc = "edit", !.revision = product.revision]
  <2>1. /\ q \in Request /\ q.list = {} /\ q.pc = "edit" /\ q.revision = product.revision
    BY <1>0 DEF Idle, Request
  <2>2. RequestAgrees(q) BY <1>0, <1>6, <2>1, NothingListed DEF EditCheck
  <2>3. QED BY <1>6, <2>1, <2>2, BeginStep DEF EditCheck
<1>7. CASE DeleteCheck(r)
  <2> DEFINE q == [Idle EXCEPT !.pc = "delete", !.revision = product.revision]
  <2>1. q \in Request /\ q.list = {} /\ q.pc = "delete" BY <1>0 DEF Idle, Request
  <2>2. RequestAgrees(q) BY <2>1, NothingListed
  <2>3. QED BY <1>7, <2>1, <2>2, BeginStep DEF DeleteCheck
<1>8. CASE SubmitRead(r)
  <2> DEFINE q == [Idle EXCEPT !.pc = "submit image", !.primary = product.primary]
  <2>1. q \in Request /\ q.list = {} /\ q.pc = "submit image" BY <1>0 DEF Idle, Request
  <2>2. RequestAgrees(q) BY <2>1, NothingListed
  <2>3. QED BY <1>8, <2>1, <2>2, BeginStep DEF SubmitRead
<1>9. CASE SubmitImage(r)
  <2> DEFINE q == [req[r] EXCEPT !.pc = "submit"]
  <2>1. q \in Request /\ q.list = req[r].list /\ q.pc = "submit" BY <1>0 DEF Request
  <2>2. RequestAgrees(q) BY <1>0, <2>1 DEF RequestAgrees
  <2>3. QED BY <1>9, <2>1, <2>2, Reading DEF SubmitImage, Goes
<1>10. CASE RequestLost(r)
  BY <1>10, IdleAgrees, Reading DEF RequestLost
<1>11. QED BY <1>1, <1>2, <1>3, <1>4, <1>5, <1>6, <1>7, <1>8, <1>9, <1>10

----------------------------------------------------------------------------
(* The steps that write, each with what it disturbs.                       *)

LEMMA AttachStep == ASSUME Ind, NEW r \in Requests, AttachCommit(r) PROVE Ind'
<1>0. /\ TypeOK /\ PositionsDiffer /\ References /\ (surface => product.used)
      /\ \A s \in Requests : RequestAgrees(req[s])
  BY DEF Ind
<1> DEFINE p == Cardinality(req[r].list)
<1>1. /\ req[r] \in Request /\ req[r].pc = "attach" /\ RequestAgrees(req[r])
      /\ req' \in [Requests -> Request]
      /\ \A s \in Requests : req'[s] = req[s] \/ req'[s] = Idle
  BY <1>0, Ended DEF AttachCommit, TypeOK
<1>2. p \in 0 .. Limit - 1
  <2>1. IsFiniteSet(req[r].list) /\ p < Limit BY <1>1 DEF RequestAgrees
  <2>2. p \in Nat BY <2>1, FS_CardinalityType
  <2>3. QED BY <2>1, <2>2, LimitAssumption
<1>3. PICK i \in Images :
        /\ position[i] = Unused
        /\ position' = [position EXCEPT ![i] = p]
        /\ IF req[r].primary = NoImage THEN Revised([product EXCEPT !.primary = i])
           ELSE UNCHANGED product
  BY DEF AttachCommit
<1>4. /\ product \in Product /\ product' \in Product
      /\ product'.revision >= product.revision /\ product'.archived = product.archived
      /\ product'.exists = product.exists /\ product'.used = product.used
  <2> DEFINE c == [product EXCEPT !.primary = i]
  <2>1. product \in Product BY <1>0 DEF TypeOK
  <2>2. /\ c \in Product /\ c.revision = product.revision /\ c.archived = product.archived
        /\ c.exists = product.exists /\ c.used = product.used
    BY <2>1 DEF Product
  <2>3. product.revision \in Nat BY <2>1 DEF Product
  <2> HIDE DEF c
  <2>4. CASE req[r].primary = NoImage
    <3>1. Revised(c) BY <1>3, <2>4 DEF c
    <3>2. QED BY <2>1, <2>2, <2>3, <3>1, Revision
  <2>5. CASE req[r].primary # NoImage BY <1>3, <2>1, <2>3, <2>5
  <2>6. QED BY <2>4, <2>5
<1>5. \A s \in Requests : RequestAgrees(req[s])' BY <1>1, <1>4, OthersAgree
<1>6. position' \in [Images -> {Unused, Gone} \cup 0 .. Limit - 1]
  BY <1>0, <1>2, <1>3 DEF TypeOK
<1>7. PositionsDiffer'
  BY <1>0, <1>2, <1>3 DEF TypeOK, PositionsDiffer, Present, AttachCommit, PositionFree, Unused
<1>8. surface' = surface /\ product.exists BY DEF AttachCommit
<1>9. References' /\ (surface => product.used)'
  BY <1>0, <1>4, <1>8 DEF References
<1>10. QED BY <1>0, <1>1, <1>4, <1>5, <1>6, <1>7, <1>8, <1>9 DEF TypeOK, Ind

LEMMA RemoveStep == ASSUME Ind, NEW r \in Requests, RemoveCommit(r) PROVE Ind'
<1>0. /\ TypeOK /\ PositionsDiffer /\ References /\ (surface => product.used)
      /\ \A s \in Requests : RequestAgrees(req[s])
  BY DEF Ind
<1> DEFINE image == req[r].image
           list == req[r].list
           rest == list \ {image}
           rank == [i \in rest |-> Rank(i, rest)]
<1>1. /\ req[r] \in Request /\ req[r].pc = "remove" /\ RequestAgrees(req[r])
      /\ req' \in [Requests -> Request]
      /\ \A s \in Requests : req'[s] = req[s] \/ req'[s] = Idle
  BY <1>0, Ended DEF RemoveCommit, TypeOK
<1>2. /\ rest \in SUBSET Images /\ image \in list /\ list \subseteq Present
      /\ image \in Images /\ IsFiniteSet(rest) /\ Cardinality(rest) < Limit
      /\ Cardinality(rest) \in Nat
  <2>1. image \in list /\ IsFiniteSet(list) /\ Cardinality(list) <= Limit
    BY <1>1 DEF RequestAgrees
  <2>2. Cardinality(rest) = Cardinality(list) - 1 /\ IsFiniteSet(rest)
    BY <2>1, FS_RemoveElement
  <2>3. Cardinality(rest) \in Nat /\ Cardinality(list) \in Nat BY <2>1, <2>2, FS_CardinalityType
  <2>4. Cardinality(rest) < Limit BY <2>1, <2>2, <2>3, LimitAssumption
  <2>5. list \subseteq Present BY DEF RemoveCommit
  <2>6. QED BY <2>1, <2>2, <2>3, <2>4, <2>5 DEF Present
<1>3. \A j \in Images : position[j] \in Int BY <1>0, LimitAssumption DEF TypeOK, Unused, Gone
<1>4. /\ \A i \in rest : rank[i] \in 0 .. Cardinality(rest) - 1
      /\ \A i, k \in rest : position[i] < position[k] => rank[i] < rank[k]
  BY <1>2, <1>3, Ranks
<1>5. \A j \in Images : position'[j] = IF j = image THEN Gone
                                       ELSE IF j \in rest THEN rank[j]
                                       ELSE position[j]
  BY DEF RemoveCommit
<1>6. position' \in [Images -> {Unused, Gone} \cup 0 .. Limit - 1]
  <2>1. \A j \in Images : position'[j] \in {Unused, Gone} \cup 0 .. Limit - 1
    <3> SUFFICES ASSUME NEW j \in Images
                 PROVE  position'[j] \in {Unused, Gone} \cup 0 .. Limit - 1
      OBVIOUS
    <3> HIDE DEF rank, rest, list, image
    <3>1. CASE j = image BY <1>5, <3>1
    <3>2. CASE j # image /\ j \in rest BY <1>2, <1>4, <1>5, <3>2, LimitAssumption
    <3>3. CASE j # image /\ j \notin rest BY <1>0, <1>5, <3>3 DEF TypeOK
    <3>4. QED BY <3>1, <3>2, <3>3
  <2>2. position' = [j \in Images |-> position'[j]] BY DEF RemoveCommit
  <2>3. QED BY <2>1, <2>2
<1>7. \A j \in Present \ list : position[j] >= Cardinality(rest) BY DEF RemoveCommit
<1>8. PositionsDiffer'
  <2> HIDE DEF rank, rest, list, image
  <2> SUFFICES ASSUME NEW j \in Images, NEW k \in Images, j # k,
                      position'[j] >= 0, position'[k] >= 0
               PROVE  position'[j] # position'[k]
    BY DEF PositionsDiffer, Present
  <2>1. j # image /\ k # image BY <1>5 DEF Gone
  <2>2. j \in Present /\ k \in Present /\ position[j] # position[k]
    BY <1>0, <1>2, <1>5, <2>1 DEF rest, Present, PositionsDiffer
  <2>3. CASE j \in rest /\ k \in rest
    <3>1. position[j] < position[k] \/ position[k] < position[j] BY <1>3, <2>2
    <3>2. rank[j] \in Int /\ rank[k] \in Int BY <1>2, <1>4, <2>3
    <3>3. rank[j] # rank[k] BY <1>4, <2>3, <3>1, <3>2
    <3>4. QED BY <1>5, <2>1, <2>3, <3>3
  <2>4. CASE j \in rest /\ k \notin rest
    BY <1>2, <1>4, <1>5, <1>7, <2>1, <2>2, <2>4, <1>3 DEF rest
  <2>5. CASE j \notin rest /\ k \in rest
    BY <1>2, <1>4, <1>5, <1>7, <2>1, <2>2, <2>5, <1>3 DEF rest
  <2>6. CASE j \notin rest /\ k \notin rest BY <1>5, <2>1, <2>2, <2>6
  <2>7. QED BY <2>3, <2>4, <2>5, <2>6
<1>9. /\ product \in Product /\ product' \in Product
      /\ product'.revision >= product.revision /\ product'.archived = product.archived
      /\ product'.exists = product.exists /\ product'.used = product.used
  <2>1. PICK next \in Images \cup {NoImage} : Revised([product EXCEPT !.primary = next])
    BY <1>1, <1>2 DEF RemoveCommit, FirstOf, Request
  <2> DEFINE c == [product EXCEPT !.primary = next]
  <2>2. product \in Product BY <1>0 DEF TypeOK
  <2>3. /\ c \in Product /\ c.revision = product.revision /\ c.archived = product.archived
        /\ c.exists = product.exists /\ c.used = product.used
    BY <2>2 DEF Product
  <2>4. product.revision \in Nat BY <2>2 DEF Product
  <2> HIDE DEF c
  <2>5. Revised(c) BY <2>1 DEF c
  <2>6. QED BY <2>2, <2>3, <2>4, <2>5, Revision
<1>10. \A s \in Requests : RequestAgrees(req[s])' BY <1>1, <1>9, OthersAgree
<1>11. product.exists BY <1>0, <1>2 DEF References, Unreferenced
<1>12. surface' = surface BY DEF RemoveCommit
<1>13. References' /\ (surface => product.used)' BY <1>0, <1>9, <1>11, <1>12 DEF References
<1>14. QED BY <1>0, <1>1, <1>6, <1>8, <1>9, <1>10, <1>12, <1>13 DEF TypeOK, Ind

\* Steps that leave the images alone and change the product's row.
LEMMA ProductWritten ==
  ASSUME Ind, product' \in Product, position' = position, surface' \in BOOLEAN,
         req' \in [Requests -> Request],
         \A s \in Requests : req'[s] = req[s] \/ req'[s] = Idle,
         product'.revision >= product.revision,
         product'.revision > product.revision \/ product'.archived = product.archived,
         product'.exists \/ (Unreferenced /\ surface' = surface),
         surface' => product'.used
  PROVE  Ind'
<1>1. TypeOK' BY DEF Ind, TypeOK
<1>2. PositionsDiffer' BY DEF Ind, PositionsDiffer, Present
<1>3. \A s \in Requests : RequestAgrees(req[s])' BY OthersAgree
<1>4. References'
  <2>1. CASE product'.exists BY <2>1 DEF References
  <2>2. CASE Unreferenced /\ surface' = surface
    BY <2>2 DEF References, Unreferenced, Present
  <2>3. QED BY <2>1, <2>2
<1>5. QED BY <1>1, <1>2, <1>3, <1>4 DEF Ind

LEMMA RevisedStep ==
  ASSUME Ind, NEW changed \in Product, Revised(changed), product.exists, changed.exists,
         changed.used = product.used, position' = position, surface' = surface,
         req' \in [Requests -> Request],
         \A s \in Requests : req'[s] = req[s] \/ req'[s] = Idle
  PROVE  Ind'
<1>1. product \in Product /\ surface \in BOOLEAN BY DEF Ind, TypeOK
<1>2. product.revision \in Nat BY <1>1 DEF Product
<1>3. /\ product' \in Product /\ product'.revision = product.revision + 1
      /\ product'.exists = changed.exists /\ product'.used = changed.used
  BY <1>1, Revision
<1>4. product'.revision >= product.revision /\ product'.revision > product.revision
  BY <1>2, <1>3
<1>5. (surface => product.used) BY DEF Ind
<1>6. (surface' => product'.used) /\ product'.exists BY <1>3, <1>5, Zenon
<1>7. QED BY <1>1, <1>3, <1>4, <1>6, ProductWritten

LEMMA WriteSteps ==
  ASSUME Ind, NEW r \in Requests,
         \/ PrimaryWrite(r) \/ EditCommit(r) \/ Archive(r) \/ Restore(r)
         \/ DeleteCommit(r) \/ SubmitCommit(r)
  PROVE  Ind'
<1>0. /\ TypeOK /\ product \in Product /\ RequestAgrees(req[r])
      /\ req \in [Requests -> Request] /\ surface \in BOOLEAN
  BY DEF Ind, TypeOK
<1>1. CASE PrimaryWrite(r)
  <2> DEFINE c == [product EXCEPT !.primary = req[r].image]
  <2>1. Ends(r, "set primary") /\ product.exists /\ Revised(c) /\ UNCHANGED <<position, surface>>
    BY <1>1 DEF PrimaryWrite
  <2>2. req[r].image \in Images BY <1>0, <2>1 DEF RequestAgrees, Ends, Goes
  <2>3. c \in Product /\ c.exists = product.exists /\ c.used = product.used
    BY <1>0, <2>2 DEF Product
  <2> HIDE DEF c
  <2>4. QED BY <1>0, <2>1, <2>3, Ended, RevisedStep
<1>2. CASE EditCommit(r)
  BY <1>0, <1>2, Ended, RevisedStep DEF EditCommit
<1>3. CASE Archive(r)
  <2> DEFINE c == [product EXCEPT !.archived = TRUE, !.active = FALSE]
  <2>1. product.exists /\ Revised(c) /\ UNCHANGED <<position, surface, req>>
    BY <1>3 DEF Archive
  <2>2. c \in Product /\ c.exists = product.exists /\ c.used = product.used BY <1>0 DEF Product
  <2> HIDE DEF c
  <2>3. QED BY <1>0, <2>1, <2>2, RevisedStep
<1>4. CASE Restore(r)
  <2> DEFINE c == [product EXCEPT !.archived = FALSE, !.active = FALSE]
  <2>1. product.exists /\ Revised(c) /\ UNCHANGED <<position, surface, req>>
    BY <1>4 DEF Restore
  <2>2. c \in Product /\ c.exists = product.exists /\ c.used = product.used BY <1>0 DEF Product
  <2> HIDE DEF c
  <2>3. QED BY <1>0, <2>1, <2>2, RevisedStep
<1>5. CASE DeleteCommit(r)
  <2>1. /\ Ends(r, "delete") /\ Unreferenced /\ UNCHANGED <<position, surface>>
        /\ product' = [product EXCEPT !.exists = FALSE]
    BY <1>5 DEF DeleteCommit
  <2>2. /\ product' \in Product /\ product'.revision = product.revision
        /\ product'.archived = product.archived /\ product'.used = product.used
    BY <1>0, <2>1 DEF Product
  <2>3. product'.revision >= product.revision BY <1>0, <2>2 DEF Product
  <2>4. surface => product.used BY DEF Ind
  <2>5. surface' => product'.used BY <2>1, <2>2, <2>4, Zenon
  <2>6. QED BY <1>0, <2>1, <2>2, <2>3, <2>5, Ended, ProductWritten
<1>6. CASE SubmitCommit(r)
  <2>1. /\ Ends(r, "submit") /\ product.exists /\ surface' = TRUE /\ UNCHANGED position
        /\ product' = [product EXCEPT !.used = TRUE]
    BY <1>6 DEF SubmitCommit
  <2>2. /\ product' \in Product /\ product'.revision = product.revision
        /\ product'.archived = product.archived /\ product'.exists = product.exists
        /\ product'.used
    BY <1>0, <2>1 DEF Product
  <2>3. product'.revision >= product.revision BY <1>0, <2>2 DEF Product
  <2>4. QED BY <1>0, <2>1, <2>2, <2>3, Ended, ProductWritten
<1>7. QED BY <1>1, <1>2, <1>3, <1>4, <1>5, <1>6

LEMMA NextInd == Ind /\ [Next]_vars => Ind'
<1> SUFFICES ASSUME Ind, [Next]_vars PROVE Ind' OBVIOUS
<1>1. ASSUME NEW r \in Requests, GalleryStep(r) PROVE Ind'
  BY <1>1, ReadSteps, AttachStep, RemoveStep, WriteSteps DEF GalleryStep
<1>2. ASSUME NEW r \in Requests, ProductStep(r) PROVE Ind'
  BY <1>2, ReadSteps, WriteSteps DEF ProductStep
<1>3. ASSUME NEW r \in Requests, RequestLost(r) PROVE Ind'
  BY <1>3, ReadSteps
<1>4. CASE UNCHANGED vars
  BY <1>4 DEF vars, Ind, TypeOK, PositionsDiffer, RequestAgrees, References, Unreferenced, Present
<1>5. QED BY <1>1, <1>2, <1>3, <1>4 DEF Next

----------------------------------------------------------------------------
\* Ind is an invariant of the specification: unique positions below the limit,
\* what requests under way know, and references that hold.
THEOREM CatalogInvariant == Spec => []Ind
<1>1. QED BY InitInd, NextInd, PTL DEF Spec

\* A gallery never has more than Limit images, however many attachments have
\* counted it below the limit.
THEOREM GalleryStaysBounded == Spec => []GalleryBounded
<1>1. Ind => GalleryBounded BY Bounded DEF Ind
<1>2. QED BY <1>1, CatalogInvariant, PTL

\* A product that an attempt refers to is never deleted.
THEOREM UsedProductsStay == Spec => []UsedNeverDeleted
<1>1. Ind => UsedNeverDeleted
  BY DEF Ind, TypeOK, References, Unreferenced, UsedNeverDeleted
<1>2. QED BY <1>1, CatalogInvariant, PTL

\* An archived product is not edited.
THEOREM ArchivedStaysAsItIs == Spec => ArchivedReadOnly
<1>1. ASSUME Ind, NEW r \in Requests, EditCommit(r) PROVE ~product.archived
  <2>1. req[r].pc = "edit" /\ req[r].revision = product.revision
    BY <1>1 DEF EditCommit, Ends, Goes
  <2>2. RequestAgrees(req[r]) BY <1>1 DEF Ind
  <2>3. QED BY <2>1, <2>2 DEF RequestAgrees
<1>2. Ind => [\A r \in Requests : EditCommit(r) => ~product.archived]_vars BY <1>1
<1>3. QED BY <1>2, CatalogInvariant, PTL DEF ArchivedReadOnly

LEMMA RightAttach ==
  ASSUME Ind, NEW r \in Requests, AttachCommit(r), Current(r), GalleryRight
  PROVE  GalleryRight'
<1> DEFINE n == Cardinality(Present)
<1>1. TypeOK /\ product \in Product BY DEF Ind, TypeOK
<1>2. IsFiniteSet(Present) /\ n \in Nat
  BY <1>1, Bounded, FS_CardinalityType DEF Ind, GalleryBounded
<1>3. req[r].list = Present /\ req[r].primary = product.primary
  BY DEF Current, AttachCommit, Ends, Goes
<1>4. PICK i \in Images :
        /\ position[i] = Unused
        /\ position' = [position EXCEPT ![i] = n]
        /\ IF product.primary = NoImage THEN Revised([product EXCEPT !.primary = i])
           ELSE UNCHANGED product
  BY <1>3 DEF AttachCommit
<1>5. Present' = Present \cup {i} /\ i \notin Present
  BY <1>1, <1>2, <1>4 DEF TypeOK, Present, Unused
<1>6. Cardinality(Present') = n + 1 BY <1>2, <1>5, FS_AddElement
<1>7. ASSUME NEW j \in Present' PROVE position'[j] < n + 1
  <2>1. CASE j = i BY <1>1, <1>2, <1>4, <2>1 DEF TypeOK
  <2>2. CASE j # i
    <3>1. j \in Present /\ position'[j] = position[j] BY <1>1, <1>4, <1>5, <1>7, <2>2 DEF TypeOK
    <3>2. position[j] < n BY <3>1 DEF GalleryRight
    <3>3. position[j] \in Int BY <1>1, <3>1, LimitAssumption DEF TypeOK, Present, Unused, Gone
    <3>4. QED BY <1>2, <3>1, <3>2, <3>3
  <2>3. QED BY <2>1, <2>2
<1>8. product'.primary \in Present'
  <2>1. CASE product.primary = NoImage
    <3> DEFINE c == [product EXCEPT !.primary = i]
    <3>1. c \in Product /\ c.primary = i BY <1>1 DEF Product
    <3>2. Revised(c) BY <1>4, <2>1
    <3> HIDE DEF c
    <3>3. QED BY <1>1, <1>5, <3>1, <3>2, Revision
  <2>2. CASE product.primary # NoImage
    BY <1>4, <1>5, <2>2 DEF GalleryRight
  <2>3. QED BY <2>1, <2>2
<1>9. QED BY <1>6, <1>7, <1>8 DEF GalleryRight

LEMMA RightRemove ==
  ASSUME Ind, NEW r \in Requests, RemoveCommit(r), Current(r), GalleryRight
  PROVE  GalleryRight'
<1> DEFINE image == req[r].image
           rest == Present \ {image}
<1>1. TypeOK /\ product \in Product /\ RequestAgrees(req[r]) BY DEF Ind, TypeOK
<1>2. req[r].list = Present /\ req[r].primary = product.primary /\ image \in Present
  BY <1>1 DEF Current, RequestAgrees, RemoveCommit, Ends, Goes
<1>3. IsFiniteSet(Present) /\ IsFiniteSet(rest) /\ Cardinality(rest) \in Nat
  BY <1>1, Bounded, FS_RemoveElement, FS_CardinalityType DEF Ind, GalleryBounded
<1>4. \A j \in Images : position'[j] = IF j = image THEN Gone
                                       ELSE IF j \in rest THEN Rank(j, rest) ELSE position[j]
  BY <1>2 DEF RemoveCommit
<1>5. \A j \in rest : Rank(j, rest) \in 0 .. Cardinality(rest) - 1
  <2>1. \A j \in rest : position[j] \in Int
    BY <1>1, LimitAssumption DEF TypeOK, Present, Unused, Gone
  <2>2. QED BY <1>3, <2>1, Ranks DEF Present
<1>6. Present' = rest
  <2>1. ASSUME NEW j \in Images PROVE position'[j] >= 0 <=> j \in rest
    <3> DEFINE k == Rank(j, rest)
    <3>1. j \in rest => k \in 0 .. Cardinality(rest) - 1 BY <1>5
    <3>2. position'[j] = IF j = image THEN Gone ELSE IF j \in rest THEN k ELSE position[j]
      BY <1>4
    <3>3. j \in rest <=> position[j] >= 0 /\ j # image BY DEF Present
    <3> HIDE DEF k, rest, image
    <3>4. QED BY <1>3, <3>1, <3>2, <3>3 DEF Gone
  <2>2. QED BY <2>1 DEF Present
<1>7. ASSUME NEW j \in rest PROVE position'[j] < Cardinality(rest)
  <2> DEFINE k == Rank(j, rest)
  <2>1. k \in 0 .. Cardinality(rest) - 1 BY <1>5
  <2>2. position'[j] = k BY <1>4 DEF Present
  <2> HIDE DEF k, rest
  <2>3. QED BY <1>3, <2>1, <2>2
<1>8. PICK next \in (IF product.primary = image THEN FirstOf(rest) ELSE {product.primary}) :
        Revised([product EXCEPT !.primary = next])
  BY <1>2 DEF RemoveCommit
<1>9. next \in (IF rest = {} THEN {NoImage} ELSE rest)
  <2>1. CASE product.primary = image BY <1>8, <2>1 DEF FirstOf
  <2>2. CASE product.primary # image
    <3>1. product.primary \in Present BY <1>2 DEF GalleryRight
    <3>2. QED BY <1>8, <2>2, <3>1
  <2>3. QED BY <2>1, <2>2
<1>10. product'.primary = next
  <2> DEFINE c == [product EXCEPT !.primary = next]
  <2>1. next \in Images \cup {NoImage} BY <1>9 DEF Present
  <2>2. c \in Product /\ c.primary = next BY <1>1, <2>1 DEF Product
  <2>3. Revised(c) BY <1>8
  <2> HIDE DEF c
  <2>4. QED BY <1>1, <2>2, <2>3, Revision
<1>11. QED BY <1>6, <1>7, <1>9, <1>10 DEF GalleryRight

LEMMA RightPrimary ==
  ASSUME Ind, NEW r \in Requests, PrimaryWrite(r), Current(r), GalleryRight
  PROVE  GalleryRight'
<1> DEFINE c == [product EXCEPT !.primary = req[r].image]
<1>1. product \in Product /\ req[r].image \in Present /\ position' = position /\ Revised(c)
  BY DEF Ind, TypeOK, Current, PrimaryWrite, Ends, Goes
<1>2. c \in Product /\ c.primary = req[r].image BY <1>1 DEF Product, Present
<1> HIDE DEF c
<1>3. product'.primary = req[r].image BY <1>1, <1>2, Revision
<1>4. QED BY <1>1, <1>3 DEF GalleryRight, Present

\* A gallery request whose reads still hold when it writes leaves the gallery
\* without a gap and with its primary image.
THEOREM OnlyStaleReadsHarm == Spec => CurrentCommitsKeepGallery
<1>1. ASSUME Ind, NEW r \in Requests, AttachCommit(r) \/ PrimaryWrite(r) \/ RemoveCommit(r),
             Current(r), GalleryRight
      PROVE  GalleryRight'
  BY <1>1, RightAttach, RightPrimary, RightRemove
<1>2. Ind => [\A r \in Requests :
                (AttachCommit(r) \/ PrimaryWrite(r) \/ RemoveCommit(r)) /\ Current(r)
                  /\ GalleryRight => GalleryRight']_vars
  BY <1>1
<1>3. QED BY <1>2, CatalogInvariant, PTL DEF CurrentCommitsKeepGallery

=============================================================================
