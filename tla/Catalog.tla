------------------------------- MODULE Catalog ------------------------------
(***************************************************************************)
(* One product: its row, its gallery of images, the requests that change   *)
(* them, and the attempts that refer to the product.  The gallery reads    *)
(* the product and its images with two statements and writes in a later    *)
(* one, and nothing is locked in between; what keeps a gallery together    *)
(* are unique indexes, foreign keys and the revision of the product.       *)
(***************************************************************************)
EXTENDS Integers, FiniteSets

CONSTANTS
  Images,       \* identifiers for ProductImage rows, each given out once
  Requests,     \* requests that may be under way together
  Limit,        \* images a gallery may have (10 in the code)
  MaxRevision,  \* bound: the revision at which the product is left alone
  NoImage       \* the null of primaryImageId

ASSUME LimitAssumption == Limit \in Nat /\ Limit > 0
ASSUME RevisionAssumption == MaxRevision \in Nat
ASSUME NoImageAssumption == NoImage \notin Images

VARIABLES
  product,   \* the Product row
  position,  \* the position of each ProductImage row, or Unused, or Gone
  surface,   \* whether an AttemptSurface row refers to the product
  req        \* what each request has read, and the statement it comes to next

vars == <<product, position, surface, req>>

Unused == -1    \* no row has had this identifier
Gone == -2      \* the row was deleted

Product == [exists : BOOLEAN, active : BOOLEAN, archived : BOOLEAN, used : BOOLEAN,
            primary : Images \cup {NoImage}, revision : Nat]

Request == [pc : {"idle", "attach images", "attach", "remove images", "remove", "set primary",
                  "edit", "delete", "submit image", "submit"},
            image : Images \cup {NoImage}, primary : Images \cup {NoImage},
            list : SUBSET Images, revision : Nat]
Idle == [pc |-> "idle", image |-> NoImage, primary |-> NoImage, list |-> {}, revision |-> 0]

Present == {i \in Images : position[i] >= 0}

\* A product as POST /products creates it, or as the seed script does.  No route activates one.
Init ==
  /\ \/ /\ position = [i \in Images |-> Unused]
        /\ product = [exists |-> TRUE, active |-> FALSE, archived |-> FALSE, used |-> FALSE,
                      primary |-> NoImage, revision |-> 0]
     \/ \E i \in Images :
          /\ position = [j \in Images |-> IF j = i THEN 0 ELSE Unused]
          /\ product = [exists |-> TRUE, active |-> TRUE, archived |-> FALSE, used |-> FALSE,
                        primary |-> i, revision |-> 0]
  /\ surface = FALSE
  /\ req = [r \in Requests |-> Idle]

Begin(r, request) == req[r].pc = "idle" /\ req' = [req EXCEPT ![r] = request]
Goes(r, pc, request) == req[r].pc = pc /\ req' = [req EXCEPT ![r] = request]
Ends(r, pc) == Goes(r, pc, Idle)

\* The product changed in some fields, with the next revision.
Revised(changed) ==
  /\ product.revision < MaxRevision
  /\ product' = [changed EXCEPT !.revision = product.revision + 1]

----------------------------------------------------------------------------
(* Faulty variants of the definitions below, never part of Next: put in    *)
(* place of the original, each must make TLC refute a property.            *)

PositionAnyway(p) == TRUE          \* no unique index on the position

UnreferencedByImages == Present = {}   \* no foreign key from AttemptSurface

ArchiveQuietly(r) ==               \* without the increment of the revision
  /\ req[r].pc = "idle"
  /\ product.exists
  /\ product' = [product EXCEPT !.archived = TRUE, !.active = FALSE]
  /\ UNCHANGED <<position, surface, req>>

FirstOfAll(S) ==                   \* the images before the deletion
  {i \in Present : \A j \in Present : position[i] <= position[j]}

AttachListUnlimited(r) ==          \* without the check of the limit
  /\ Goes(r, "attach images", [req[r] EXCEPT !.pc = "attach", !.list = Present])
  /\ UNCHANGED <<product, position, surface>>

----------------------------------------------------------------------------
\* The foreign keys of ProductImage and AttemptSurface restrict the deletion of a product.
Unreferenced == Present = {} /\ ~surface

\* The unique index on product and position.
PositionFree(p) == \A i \in Present : position[i] # p

Rank(i, S) == Cardinality({j \in S : position[j] < position[i]})

\* The first image by position, or null.
FirstOf(S) == IF S = {} THEN {NoImage} ELSE {i \in S : \A j \in S : position[i] <= position[j]}

----------------------------------------------------------------------------
(* The gallery.                                                            *)

\* attach: the product, which must not be archived.
AttachRead(r) ==
  /\ product.exists /\ ~product.archived
  /\ Begin(r, [Idle EXCEPT !.pc = "attach images", !.primary = product.primary])
  /\ UNCHANGED <<product, position, surface>>

\* attach: the images of the product, by a statement of its own.
AttachList(r) ==
  /\ Cardinality(Present) < Limit
  /\ Goes(r, "attach images", [req[r] EXCEPT !.pc = "attach", !.list = Present])
  /\ UNCHANGED <<product, position, surface>>

\* attach: the insert after the images that were read; the image becomes the
\* primary one if none was read.
AttachCommit(r) ==
  LET p == Cardinality(req[r].list) IN
  /\ Ends(r, "attach")
  /\ product.exists
  /\ PositionFree(p)
  /\ \E i \in Images :
       /\ position[i] = Unused
       /\ position' = [position EXCEPT ![i] = p]
       /\ IF req[r].primary = NoImage THEN Revised([product EXCEPT !.primary = i])
          ELSE UNCHANGED product
  /\ UNCHANGED surface

\* setPrimary: two statements without a transaction.
PrimaryFind(r) ==
  /\ \E i \in Present : Begin(r, [Idle EXCEPT !.pc = "set primary", !.image = i])
  /\ UNCHANGED <<product, position, surface>>

PrimaryWrite(r) ==
  /\ Ends(r, "set primary")
  /\ product.exists
  /\ Revised([product EXCEPT !.primary = req[r].image])
  /\ UNCHANGED <<position, surface>>

RemoveRead(r) ==
  /\ product.exists
  /\ Begin(r, [Idle EXCEPT !.pc = "remove images", !.primary = product.primary])
  /\ UNCHANGED <<product, position, surface>>

RemoveList(r) ==
  /\ \E i \in Present :
       Goes(r, "remove images", [req[r] EXCEPT !.pc = "remove", !.list = Present, !.image = i])
  /\ UNCHANGED <<product, position, surface>>

\* remove: the deletion, the new positions of the other images that were read,
\* and the primary image, all of which may have changed since.  A row that is
\* gone or a position that is taken ends the transaction.
RemoveCommit(r) ==
  LET image == req[r].image
      rest == req[r].list \ {image}
  IN
  /\ Ends(r, "remove")
  /\ req[r].list \subseteq Present
  /\ \A i \in Present \ req[r].list : position[i] >= Cardinality(rest)
  /\ position' = [i \in Images |-> IF i = image THEN Gone
                                   ELSE IF i \in rest THEN Rank(i, rest)
                                   ELSE position[i]]
  /\ \E next \in (IF req[r].primary = image THEN FirstOf(rest) ELSE {req[r].primary}) :
       Revised([product EXCEPT !.primary = next])
  /\ UNCHANGED surface

----------------------------------------------------------------------------
(* The product.                                                            *)

\* update: the product is read to refuse an archived one.  Only a form with
\* its present revision can still pass the conditional update.
EditCheck(r) ==
  /\ product.exists /\ ~product.archived
  /\ Begin(r, [Idle EXCEPT !.pc = "edit", !.revision = product.revision])
  /\ UNCHANGED <<product, position, surface>>

EditCommit(r) ==
  /\ Ends(r, "edit")
  /\ product.exists /\ product.revision = req[r].revision
  /\ Revised(product)
  /\ UNCHANGED <<position, surface>>

\* archive and restore are one conditional update each, on a form that is up to date.
Archive(r) ==
  /\ req[r].pc = "idle"
  /\ product.exists
  /\ Revised([product EXCEPT !.archived = TRUE, !.active = FALSE])
  /\ UNCHANGED <<position, surface, req>>

Restore(r) ==
  /\ req[r].pc = "idle"
  /\ product.exists
  /\ Revised([product EXCEPT !.archived = FALSE, !.active = FALSE])
  /\ UNCHANGED <<position, surface, req>>

\* remove: everVisualized is read, and the deletion names the revision.
DeleteCheck(r) ==
  /\ product.exists /\ ~product.used
  /\ Begin(r, [Idle EXCEPT !.pc = "delete", !.revision = product.revision])
  /\ UNCHANGED <<product, position, surface>>

DeleteCommit(r) ==
  /\ Ends(r, "delete")
  /\ product.exists /\ product.revision = req[r].revision
  /\ Unreferenced
  /\ product' = [product EXCEPT !.exists = FALSE]
  /\ UNCHANGED <<position, surface>>

----------------------------------------------------------------------------
(* A submission that selects the product (AttemptService.submit).          *)

SubmitRead(r) ==
  /\ product.exists /\ product.active /\ ~product.archived /\ product.primary # NoImage
  /\ Begin(r, [Idle EXCEPT !.pc = "submit image", !.primary = product.primary])
  /\ UNCHANGED <<product, position, surface>>

SubmitImage(r) ==
  /\ req[r].primary \in Present
  /\ Goes(r, "submit image", [req[r] EXCEPT !.pc = "submit"])
  /\ UNCHANGED <<product, position, surface>>

\* The surface and the mark on the product, which keeps its revision.
SubmitCommit(r) ==
  /\ Ends(r, "submit")
  /\ product.exists
  /\ surface' = TRUE
  /\ product' = [product EXCEPT !.used = TRUE]
  /\ UNCHANGED position

----------------------------------------------------------------------------
\* A refusal, a conflict, a database error or the end of the API.
RequestLost(r) ==
  /\ req[r].pc # "idle"
  /\ req' = [req EXCEPT ![r] = Idle]
  /\ UNCHANGED <<product, position, surface>>

GalleryStep(r) ==
  \/ AttachRead(r) \/ AttachList(r) \/ AttachCommit(r)
  \/ PrimaryFind(r) \/ PrimaryWrite(r)
  \/ RemoveRead(r) \/ RemoveList(r) \/ RemoveCommit(r)

ProductStep(r) ==
  \/ EditCheck(r) \/ EditCommit(r) \/ Archive(r) \/ Restore(r)
  \/ DeleteCheck(r) \/ DeleteCommit(r)
  \/ SubmitRead(r) \/ SubmitImage(r) \/ SubmitCommit(r)

Next == \E r \in Requests : GalleryStep(r) \/ ProductStep(r) \/ RequestLost(r)

Spec == Init /\ [][Next]_vars

----------------------------------------------------------------------------
(* Properties.                                                             *)

TypeOK ==
  /\ product \in Product
  /\ position \in [Images -> {Unused, Gone} \cup 0 .. Limit - 1]
  /\ surface \in BOOLEAN
  /\ req \in [Requests -> Request]

PositionsDiffer == \A i, j \in Present : i # j => position[i] # position[j]

\* What a request q has read of the gallery, and an editor of the revision.
RequestAgrees(q) ==
  /\ IsFiniteSet(q.list) /\ Cardinality(q.list) <= Limit
  /\ q.pc = "attach" => Cardinality(q.list) < Limit
  /\ q.pc = "remove" => q.image \in q.list
  /\ q.pc = "set primary" => q.image \in Images
  /\ q.pc = "edit" => q.revision <= product.revision
  /\ q.pc = "edit" /\ q.revision = product.revision => ~product.archived

\* Rows that refer to the product have it.
References == ~product.exists => Unreferenced

\* The inductive invariant: the types, the unique positions, what requests
\* under way know, and the references.
Ind ==
  /\ TypeOK
  /\ PositionsDiffer
  /\ \A r \in Requests : RequestAgrees(req[r])
  /\ References
  /\ surface => product.used

\* A gallery never has more than Limit images, although attachments count
\* them long before they insert: positions are unique and stay below Limit.
GalleryBounded == IsFiniteSet(Present) /\ Cardinality(Present) <= Limit

\* A product that an attempt refers to is never deleted, although everVisualized
\* is read before the deletion and a submission leaves the revision as it is.
UsedNeverDeleted == surface => product.exists /\ product.used

\* An archived product is not edited: archivedAt is read in one statement and
\* the update is a later one, which names a revision that archiving has raised.
ArchivedReadOnly == [][\A r \in Requests : EditCommit(r) => ~product.archived]_vars

\* Positions from 0 without a gap, and a primary image if and only if there is one.
GalleryRight ==
  /\ \A i \in Present : position[i] < Cardinality(Present)
  /\ product.primary \in (IF Present = {} THEN {NoImage} ELSE Present)

\* What the request has read still holds.
Current(r) ==
  IF req[r].pc = "set primary" THEN req[r].image \in Present
  ELSE req[r].list = Present /\ req[r].primary = product.primary

\* "A nonempty gallery MUST have exactly one primary image" (spec.md, FR-019):
\* attaching, removing and choosing the primary image keep the gallery right
\* unless another request has changed it since it was read.
CurrentCommitsKeepGallery ==
  [][\A r \in Requests :
       (AttachCommit(r) \/ PrimaryWrite(r) \/ RemoveCommit(r)) /\ Current(r) /\ GalleryRight
         => GalleryRight']_vars
============================================================================
