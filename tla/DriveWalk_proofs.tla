--------------------------- MODULE DriveWalk_proofs ---------------------------
(***************************************************************************)
(* What a walk finds and yields, for any Drive, any number of edits and any   *)
(* size of page.                                                            *)
(*                                                                         *)
(* FindsWhatStays is about the end of a walk only.  On the way, an item that  *)
(* stays in a folder whose turn came is seen, or on the page at hand, or its  *)
(* folder still has pages to come (Covered); and a folder that was seen has   *)
(* had its turn or waits for it (Ordered).                                    *)
(*                                                                         *)
(* UndisturbedWalkIsListing is about walks nothing is edited during: until    *)
(* the end such a walk is below Root and has handed on what Drive states      *)
(* (AsListed); that it got everything at the end is FindsWhatStays again,     *)
(* with the whole hierarchy staying, as what is below Root is the least set   *)
(* of items that contains it and their entries.                              *)
(***************************************************************************)
EXTENDS DriveWalk, DriveAccess_proofs, SequenceTheorems

OnPage == DOMAIN walk.page

Elements(queue) == {queue[k] : k \in DOMAIN queue}

Waiting == Elements(walk.pending)

\* ListsFoldersOnce, of any list of folders and any folders listed before.
OnceEach(queue, before) ==
    \A k \in DOMAIN queue :
        /\ queue[k] \notin before
        /\ \A l \in DOMAIN queue : queue[k] = queue[l] => k = l

Paged ==
    /\ walk.step = "walking" => Root \in walk.seen \cup OnPage
    /\ OnPage \cap walk.seen = {}
    /\ walk.returned \subseteq walk.seen \cup OnPage
    /\ walk.more => walk.folder \in walk.visited

Ordered ==
    /\ ListsFoldersOnce
    /\ walk.seen \cap Folders = walk.visited \cup Waiting

Covered ==
    \A e \in stays :
        e[2] \in walk.visited =>
            \/ walk.errors
            \/ e[1] \in walk.seen \cup OnPage
            \/ walk.more /\ e[2] = walk.folder

Handed ==
    walk.step # "failed" => \A i \in walk.seen :
        i \in Documents \/ walk.kind = "resources" => i \in walk.result.active

AtEnd ==
    Complete =>
        /\ Root \in walk.seen
        /\ OnPage = {} /\ ~walk.more /\ walk.pending = <<>>

IsStated ==
    /\ walk.step = "idle" => OnPage = {} /\ walk.result.active = {}
    /\ Underway => Stated(drive) \subseteq stated
    /\ \A i \in OnPage : \A f \in walk.page[i] : <<i, f>> \in stated
    /\ YieldsWhatWasStated

\* A walk nobody disturbed: what it holds is below the root, and what it read
\* is what Drive states.
AsListed ==
    /\ stays = Hierarchy(drive)
    /\ walk.seen \cup OnPage \subseteq Reached(Hierarchy(drive), {Root})
    /\ \A i \in OnPage : walk.page[i] = drive.parents[i]
    /\ \A i \in walk.result.active :
          /\ walk.result.parents[i] = Listed.parents[i]
          /\ walk.result.acl[i] = Listed.acl[i]
          /\ i \in walk.result.failed <=> i \in Listed.failed

Undisturbed ==
    /\ begun <= edits
    /\ walk.result.failed \subseteq walk.result.active
    /\ walk.step # "failed" => walk.result.active \subseteq walk.seen
    /\ edits = begun /\ walk.step \notin {"idle", "failed"} => AsListed

WalkInv == TypeOK /\ Paged /\ Ordered /\ Covered /\ Handed /\ AtEnd /\ IsStated

-----------------------------------------------------------------------------
(* Types.                                                                  *)

LEMMA BegunType ==
    ASSUME NEW kind \in Kinds
    PROVE  Begun(kind) \in WalkRecords
  <1>1. NoPage \in Pages
    <2>1. NoPage \in [{} -> SUBSET Folders]
      BY DEF NoPage
    <2> QED
      BY <2>1 DEF Pages
  <1>2. <<Root>> \in Seq(Folders) /\ Root \in Items
    BY AccessAssumption DEF Items
  <1> QED
    BY <1>1, <1>2, NothingType, AccessAssumption DEF Begun, WalkRecords

LEMMA PageType ==
    ASSUME NEW S \in SUBSET Items, NEW p, p \in [S -> SUBSET Folders]
    PROVE  p \in Pages
  BY DEF Pages

LEMMA PageDomain ==
    ASSUME NEW p \in Pages
    PROVE  DOMAIN p \subseteq Items /\ \A i \in DOMAIN p : p[i] \in SUBSET Folders
  BY DEF Pages

LEMMA AskingType ==
    ASSUME walk \in WalkRecords, walk.more \/ walk.pending # <<>>
    PROVE  /\ Asking \in WalkRecords
           /\ Asking.more
           /\ Asking.kind = walk.kind /\ Asking.step = walk.step
           /\ Asking.page = walk.page /\ Asking.seen = walk.seen
           /\ Asking.result = walk.result
           /\ Asking.errors = walk.errors /\ Asking.capped = walk.capped
  <1>1. CASE walk.more
    BY <1>1 DEF Asking
  <1>2. CASE ~walk.more
    <2>1. walk.pending \in Seq(Folders) /\ walk.pending # <<>>
      BY <1>2 DEF WalkRecords
    <2>2. Head(walk.pending) \in Folders /\ Tail(walk.pending) \in Seq(Folders)
      BY <2>1, HeadTailProperties
    <2> QED
      BY <1>2, <2>2 DEF Asking, Opened, WalkRecords
  <1> QED
    BY <1>1, <1>2

LEMMA FetchType ==
    ASSUME TypeOK, FetchPage
    PROVE  TypeOK'
  <1>1. PICK w \in {Asking} :
           \E page \in SUBSET Children(w.folder), more \in BOOLEAN :
              walk' = [w EXCEPT !.page = [i \in Unseen(page) |-> drive.parents[i]],
                                !.returned = @ \cup page, !.more = more]
    BY DEF FetchPage
  <1>2. PICK page \in SUBSET Children(w.folder), more \in BOOLEAN :
              walk' = [w EXCEPT !.page = [i \in Unseen(page) |-> drive.parents[i]],
                                !.returned = @ \cup page, !.more = more]
    BY <1>1
  <1>3. w \in WalkRecords
    BY AskingType DEF FetchPage, TypeOK
  <1>4. page \subseteq Items /\ Unseen(page) \subseteq Items
    BY DEF Children, Unseen
  <1>5. [i \in Unseen(page) |-> drive.parents[i]] \in Pages
    <2>1. \A i \in Items : drive.parents[i] \in SUBSET Folders
      BY DEF TypeOK, Drives
    <2>2. [i \in Unseen(page) |-> drive.parents[i]] \in [Unseen(page) -> SUBSET Folders]
      BY <1>4, <2>1
    <2> QED
      BY <1>4, <2>2, PageType
  <1>6. walk' \in WalkRecords
    BY <1>2, <1>3, <1>4, <1>5 DEF WalkRecords
  <1> QED
    BY <1>6 DEF FetchPage, TypeOK, driveVars, ghosts

LEMMA EntryType ==
    ASSUME TypeOK, NEW i \in OnPage
    PROVE  WithEntry(i) \in Listings
  <1>1. i \in Items /\ walk.page[i] \in SUBSET Folders
    BY PageDomain DEF OnPage, TypeOK, WalkRecords
  <1>2. ListedAcl(drive, i) \in SUBSET Permission /\ AclWhenUnreadable \in SUBSET Permission
    BY <1>1, ListedAclType DEF TypeOK, AclWhenUnreadable
  <1>3. walk.result \in Listings
    BY DEF TypeOK, WalkRecords
  <1> QED
    BY <1>1, <1>2, <1>3 DEF WithEntry, Listings

LEMMA TakeType ==
    ASSUME TypeOK, NEW i \in Items, TakeEntry(i)
    PROVE  TypeOK'
  <1>1. PICK result \in {walk.result, WithEntry(i)}, enough \in BOOLEAN :
           walk' = [walk EXCEPT
               !.page = [j \in (DOMAIN @) \ {i} |-> @[j]],
               !.seen = @ \cup {i},
               !.pending = IF i \in Folders THEN Append(@, i) ELSE @,
               !.result = result,
               !.capped = enough,
               !.step = IF enough THEN "done" ELSE @]
    BY DEF TakeEntry, SampledEnough
  <1>2. result \in Listings
    BY EntryType DEF TakeEntry, OnPage, TypeOK, WalkRecords
  <1>3. [j \in (DOMAIN walk.page) \ {i} |-> walk.page[j]] \in Pages
    <2>1. (DOMAIN walk.page) \ {i} \in SUBSET Items
      BY PageDomain DEF TypeOK, WalkRecords
    <2>2. [j \in (DOMAIN walk.page) \ {i} |-> walk.page[j]]
              \in [(DOMAIN walk.page) \ {i} -> SUBSET Folders]
      BY PageDomain DEF TypeOK, WalkRecords
    <2> QED
      BY <2>1, <2>2, PageType
  <1>4. i \in Folders => Append(walk.pending, i) \in Seq(Folders)
    BY DEF TypeOK, WalkRecords
  <1>5. walk' \in WalkRecords
    BY <1>1, <1>2, <1>3, <1>4 DEF TypeOK, WalkRecords
  <1> QED
    BY <1>5 DEF TakeEntry, TypeOK, driveVars, ghosts

LEMMA NextType ==
    ASSUME TypeOK, [Next]_vars
    PROVE  TypeOK'
  <1>1. CASE Edit
    <2>1. DriveType'
      BY <1>1, DriveNextType DEF Edit, TypeOK, DriveType
    <2>2. Stated(drive') \subseteq Tuples
      BY <2>1, StatedType DEF DriveType
    <2> QED
      BY <1>1, <2>1, <2>2 DEF Edit, TypeOK, DriveType
  <1>2. CASE BeginWalk
    <2>1. PICK kind \in Kinds :
             walk' = IF kind = "resources"
                     THEN [Begun(kind) EXCEPT !.pending = <<>>, !.seen = {},
                              !.page = [i \in {Root} |-> drive.parents[i]]]
                     ELSE Begun(kind)
      BY <1>2 DEF BeginWalk
    <2>2. [i \in {Root} |-> drive.parents[i]] \in Pages
      <3>1. [i \in {Root} |-> drive.parents[i]] \in [{Root} -> SUBSET Folders]
        BY AccessAssumption DEF TypeOK, Drives, Items
      <3> QED
        BY <3>1, PageType, AccessAssumption DEF Items
    <2>3. walk' \in WalkRecords
      <3>1. Begun(kind) \in WalkRecords
        BY BegunType
      <3>2. [Begun(kind) EXCEPT !.pending = <<>>, !.seen = {},
                 !.page = [i \in {Root} |-> drive.parents[i]]] \in WalkRecords
        BY <2>2, <3>1, EmptySeq DEF WalkRecords
      <3> QED
        BY <2>1, <3>1, <3>2
    <2>4. Stated(drive) \subseteq Tuples /\ Hierarchy(drive) \subseteq Items \X Folders
      BY StatedType DEF TypeOK, Hierarchy
    <2> QED
      BY <1>2, <2>3, <2>4 DEF BeginWalk, TypeOK, driveVars
  <1>3. CASE FetchPage
    BY <1>3, FetchType
  <1>4. CASE ListingFails
    <2>1. Asking \in WalkRecords /\ Begun(walk.kind) \in WalkRecords
      BY <1>4, AskingType, BegunType DEF ListingFails, TypeOK, WalkRecords
    <2>2. walk' \in {[Asking EXCEPT !.more = FALSE, !.errors = TRUE],
                     [Begun(walk.kind) EXCEPT !.step = "failed"]}
      BY <1>4 DEF ListingFails
    <2>3. [Asking EXCEPT !.more = FALSE, !.errors = TRUE] \in WalkRecords
      BY <2>1 DEF WalkRecords
    <2>4. [Begun(walk.kind) EXCEPT !.step = "failed"] \in WalkRecords
      BY <2>1 DEF WalkRecords
    <2>5. walk' \in WalkRecords
      BY <2>2, <2>3, <2>4
    <2> QED
      BY <1>4, <2>5 DEF ListingFails, TypeOK, driveVars, ghosts
  <1>5. CASE \E i \in Items : TakeEntry(i)
    BY <1>5, TakeType
  <1>6. CASE EndWalk
    <2>1. walk' \in WalkRecords
      BY <1>6 DEF EndWalk, TypeOK, WalkRecords
    <2> QED
      BY <1>6, <2>1 DEF EndWalk, TypeOK, driveVars, ghosts
  <1>7. CASE RootFails
    <2>1. PICK kind \in Kinds : walk' = [Begun(kind) EXCEPT !.step = "failed"]
      BY <1>7 DEF RootFails
    <2>2. walk' \in WalkRecords
      BY <2>1, BegunType DEF WalkRecords
    <2> QED
      BY <1>7, <2>2 DEF RootFails, TypeOK, driveVars, ghosts
  <1>8. CASE UNCHANGED vars
    BY <1>8 DEF vars, driveVars, ghosts, TypeOK
  <1> QED
    BY <1>1, <1>2, <1>3, <1>4, <1>5, <1>6, <1>7, <1>8 DEF Next, WalkStep

LEMMA InitInv == WalkInit => WalkInv
  <1> SUFFICES ASSUME WalkInit PROVE WalkInv
    OBVIOUS
  <1>1. /\ Begun("files") \in WalkRecords
        /\ walk = [Begun("files") EXCEPT !.step = "idle"]
    BY BegunType DEF WalkInit, Kinds
  <1>2. TypeOK
    <2>1. DriveType
      BY DriveInitType DEF WalkInit
    <2>2. walk \in WalkRecords
      BY <1>1 DEF WalkRecords
    <2> QED
      BY <2>1, <2>2, AccessAssumption DEF WalkInit, TypeOK, DriveType
  <1>3. /\ walk.step = "idle" /\ walk.pending = <<Root>> /\ walk.seen = {Root}
        /\ walk.visited = {} /\ walk.returned = {} /\ OnPage = {} /\ ~walk.more
        /\ walk.result.active = {} /\ walk.kind = "files"
    BY <1>1 DEF Begun, OnPage, NoPage, Nothing
  <1>4. Root \in Folders /\ Root \notin Documents
    BY AccessAssumption
  <1>5. Waiting = {Root} /\ ListsFoldersOnce
    BY <1>3 DEF Waiting, Elements, ListsFoldersOnce
  <1> QED
    BY <1>2, <1>3, <1>4, <1>5 DEF WalkInv, WalkInit, Paged, Ordered, Covered, Handed,
       AtEnd, Complete, IsStated, Underway, YieldsWhatWasStated

-----------------------------------------------------------------------------
(* The list of folders that wait.                                          *)

LEMMA Popped ==
    ASSUME NEW S, NEW q \in Seq(S), q # <<>>, NEW before, OnceEach(q, before)
    PROVE  /\ OnceEach(Tail(q), before \cup {Head(q)})
           /\ Elements(q) = Elements(Tail(q)) \cup {Head(q)}
  <1>1. /\ Tail(q) \in Seq(S) /\ Len(Tail(q)) = Len(q) - 1
        /\ \A k \in 1..Len(Tail(q)) : Tail(q)[k] = q[k + 1]
    BY HeadTailProperties
  <1>2. Len(q) \in Nat \ {0} /\ DOMAIN q = 1..Len(q) /\ Head(q) = q[1]
    BY EmptySeq, LenProperties
  <1>3. DOMAIN Tail(q) = 1..(Len(q) - 1)
    BY <1>1, LenProperties
  <1>4. Elements(q) = Elements(Tail(q)) \cup {Head(q)}
    <2>1. \A k \in DOMAIN q : k = 1 \/ (k - 1 \in DOMAIN Tail(q) /\ Tail(q)[k - 1] = q[k])
      BY <1>1, <1>2, <1>3
    <2>2. \A k \in DOMAIN Tail(q) : k + 1 \in DOMAIN q /\ Tail(q)[k] = q[k + 1]
      BY <1>1, <1>2, <1>3
    <2>3. 1 \in DOMAIN q
      BY <1>2
    <2>4. ASSUME NEW x \in Elements(q)
          PROVE  x \in Elements(Tail(q)) \cup {Head(q)}
      <3>1. PICK k \in DOMAIN q : x = q[k]
        BY <2>4 DEF Elements
      <3> QED
        BY <1>2, <2>1, <3>1 DEF Elements
    <2>5. ASSUME NEW x \in Elements(Tail(q))
          PROVE  x \in Elements(q)
      BY <2>2, <2>5 DEF Elements
    <2>6. Head(q) \in Elements(q)
      BY <1>2, <2>3 DEF Elements
    <2> QED
      BY <2>4, <2>5, <2>6
  <1>5. OnceEach(Tail(q), before \cup {Head(q)})
    <2> SUFFICES ASSUME NEW k \in DOMAIN Tail(q)
                 PROVE  /\ Tail(q)[k] \notin before \cup {Head(q)}
                        /\ \A l \in DOMAIN Tail(q) : Tail(q)[k] = Tail(q)[l] => k = l
      BY DEF OnceEach
    <2>1. k + 1 \in DOMAIN q /\ 1 \in DOMAIN q /\ k + 1 # 1 /\ Tail(q)[k] = q[k + 1]
      BY <1>1, <1>2, <1>3
    <2>2. ASSUME NEW l \in DOMAIN Tail(q), Tail(q)[k] = Tail(q)[l]
          PROVE  k = l
      <3>1. l + 1 \in DOMAIN q /\ Tail(q)[l] = q[l + 1]
        BY <1>1, <1>2, <1>3
      <3>2. k + 1 = l + 1
        BY <2>1, <2>2, <3>1 DEF OnceEach
      <3>3. k \in Int /\ l \in Int
        BY <1>3
      <3> QED
        BY <3>2, <3>3
    <2> QED
      BY <1>2, <2>1, <2>2 DEF OnceEach
  <1> QED
    BY <1>4, <1>5

LEMMA Appended ==
    ASSUME NEW S, NEW q \in Seq(S), NEW e \in S, NEW before, OnceEach(q, before),
           e \notin before \cup Elements(q)
    PROVE  /\ OnceEach(Append(q, e), before)
           /\ Elements(Append(q, e)) = Elements(q) \cup {e}
  <1>1. /\ Append(q, e) \in Seq(S) /\ Len(Append(q, e)) = Len(q) + 1
        /\ \A k \in 1..Len(q) : Append(q, e)[k] = q[k]
        /\ Append(q, e)[Len(q) + 1] = e
    BY AppendProperties
  <1>2. Len(q) \in Nat /\ DOMAIN q = 1..Len(q)
    BY LenProperties
  <1>3. DOMAIN Append(q, e) = 1..(Len(q) + 1)
    BY <1>1, LenProperties
  <1>4. \A k \in DOMAIN Append(q, e) :
           \/ k \in DOMAIN q /\ Append(q, e)[k] = q[k]
           \/ k = Len(q) + 1 /\ Append(q, e)[k] = e
    BY <1>1, <1>2, <1>3
  <1>5. DOMAIN Append(q, e) = DOMAIN q \cup {Len(q) + 1}
    BY <1>2, <1>3
  <1>6. Elements(Append(q, e)) = Elements(q) \cup {e}
    <2>1. \A k \in DOMAIN q : k \in DOMAIN Append(q, e) /\ Append(q, e)[k] = q[k]
      BY <1>1, <1>2, <1>5
    <2> QED
      BY <1>1, <1>4, <1>5, <2>1 DEF Elements
  <1>7. \A k \in DOMAIN q : q[k] # e
    BY DEF Elements
  <1>8. OnceEach(Append(q, e), before)
    BY <1>4, <1>7 DEF OnceEach
  <1> QED
    BY <1>6, <1>8

-----------------------------------------------------------------------------
(* Each action keeps the invariant.                                        *)

LEMMA EditInv ==
    ASSUME WalkInv, Edit
    PROVE  WalkInv'
  <1>1. TypeOK'
    BY NextType DEF WalkInv, Next
  <1>2. UNCHANGED walk /\ stays' \subseteq stays
    BY DEF Edit
  <1>3. IsStated'
    <2>1. walk.step = "idle" \/ Underway
      BY DEF Edit
    <2>2. CASE walk.step = "idle"
      BY <1>2, <2>2 DEF WalkInv, IsStated, OnPage, Underway, YieldsWhatWasStated
    <2>3. CASE Underway
      <3>1. stated' = stated \cup Stated(drive')
        BY <2>3 DEF Edit
      <3> QED
        BY <1>2, <3>1 DEF WalkInv, IsStated, OnPage, Underway, YieldsWhatWasStated
    <2> QED
      BY <2>1, <2>2, <2>3
  <1>4. (Paged /\ Ordered /\ Covered /\ Handed /\ AtEnd)'
    BY <1>2 DEF WalkInv, Paged, Ordered, Covered, Handed, AtEnd, Complete, OnPage,
       Waiting, ListsFoldersOnce
  <1> QED
    BY <1>1, <1>3, <1>4 DEF WalkInv

LEMMA BeginInv ==
    ASSUME WalkInv, BeginWalk
    PROVE  WalkInv'
  <1>1. TypeOK'
    BY NextType DEF WalkInv, Next
  <1>2. PICK kind \in Kinds :
           walk' = IF kind = "resources"
                   THEN [Begun(kind) EXCEPT !.pending = <<>>, !.seen = {},
                            !.page = [i \in {Root} |-> drive.parents[i]]]
                   ELSE Begun(kind)
    BY DEF BeginWalk
  <1>3. /\ walk'.kind = kind /\ walk'.step = "walking" /\ walk'.visited = {}
        /\ walk'.returned = {} /\ ~walk'.more /\ walk'.result.active = {}
    BY <1>2 DEF Begun, Nothing
  <1>4. CASE kind = "resources"
    <2>1. /\ walk'.pending = <<>> /\ walk'.seen = {} /\ OnPage' = {Root}
          /\ walk'.page[Root] = drive.parents[Root]
      BY <1>2, <1>4 DEF Begun, OnPage
    <2>2. Waiting' = {}
      BY <2>1 DEF Waiting, Elements
    <2>3. \A f \in drive.parents[Root] : <<Root, f>> \in stated'
      <3>1. Root \in Items /\ drive.parents[Root] \in SUBSET Folders
        BY AccessAssumption DEF WalkInv, TypeOK, Drives, Items
      <3> QED
        BY <3>1, ParentIsStated DEF BeginWalk
    <2> QED
      BY <1>1, <1>3, <2>1, <2>2, <2>3 DEF WalkInv, BeginWalk, Paged, Ordered, Covered,
         Handed, AtEnd, Complete, IsStated, Underway, YieldsWhatWasStated,
         ListsFoldersOnce, driveVars
  <1>5. CASE kind # "resources"
    <2>1. walk'.pending = <<Root>> /\ walk'.seen = {Root} /\ OnPage' = {}
      BY <1>2, <1>5 DEF Begun, OnPage, NoPage
    <2>2. Waiting' = {Root} /\ ListsFoldersOnce'
      BY <1>3, <2>1 DEF Waiting, Elements, ListsFoldersOnce
    <2>3. Root \in Folders /\ Root \notin Documents
      BY AccessAssumption
    <2> QED
      BY <1>1, <1>3, <1>5, <2>1, <2>2, <2>3 DEF WalkInv, BeginWalk, Paged, Ordered,
         Covered, Handed, AtEnd, Complete, IsStated, Underway, YieldsWhatWasStated,
         driveVars
  <1> QED
    BY <1>4, <1>5

\* The folder whose page is asked for has had its turn.
LEMMA AskingInv ==
    ASSUME WalkInv, PageConsumed, walk.more \/ walk.pending # <<>>
    PROVE  /\ Asking \in WalkRecords
           /\ OnceEach(Asking.pending, Asking.visited)
           /\ walk.seen \cap Folders = Asking.visited \cup Elements(Asking.pending)
           /\ Asking.folder \in Asking.visited
           /\ Asking.returned \subseteq walk.seen
           /\ \A e \in stays : e[2] \in Asking.visited =>
                 walk.errors \/ e[1] \in walk.seen \/ e[2] = Asking.folder
  <1>1. walk \in WalkRecords /\ OnPage = {}
    BY DEF WalkInv, TypeOK, PageConsumed, OnPage
  <1>2. OnceEach(walk.pending, walk.visited)
    BY DEF WalkInv, Ordered, ListsFoldersOnce, OnceEach
  <1>3. CASE walk.more
    BY <1>1, <1>2, <1>3 DEF Asking, WalkInv, Ordered, Paged, Covered, Waiting
  <1>4. CASE ~walk.more
    <2>1. walk.pending \in Seq(Folders) /\ walk.pending # <<>>
      BY <1>1, <1>4 DEF WalkRecords
    <2>2. /\ Asking.pending = Tail(walk.pending) /\ Asking.folder = Head(walk.pending)
          /\ Asking.visited = walk.visited \cup {Head(walk.pending)}
          /\ Asking.returned = {}
      BY <1>1, <1>4 DEF Asking, Opened, WalkRecords
    <2>3. /\ OnceEach(Tail(walk.pending), walk.visited \cup {Head(walk.pending)})
          /\ Elements(walk.pending)
                = Elements(Tail(walk.pending)) \cup {Head(walk.pending)}
      BY <1>2, <2>1, Popped
    <2>4. walk.seen \cap Folders = Asking.visited \cup Elements(Asking.pending)
      BY <2>2, <2>3 DEF WalkInv, Ordered, Waiting
    <2>5. \A e \in stays : e[2] \in Asking.visited =>
             walk.errors \/ e[1] \in walk.seen \/ e[2] = Asking.folder
      BY <1>1, <1>4, <2>2 DEF WalkInv, Covered
    <2> QED
      BY <1>1, <2>2, <2>3, <2>4, <2>5, AskingType
         DEF PageConsumed
  <1> QED
    BY <1>3, <1>4

LEMMA FetchInv ==
    ASSUME WalkInv, FetchPage
    PROVE  WalkInv'
  <1>1. TypeOK'
    BY NextType DEF WalkInv, Next, WalkStep
  <1>2. PICK w \in {Asking} :
           \E page \in SUBSET Children(w.folder), more \in BOOLEAN :
              /\ LastPage(w, page, more)
              /\ walk' = [w EXCEPT !.page = [i \in Unseen(page) |-> drive.parents[i]],
                                   !.returned = @ \cup page, !.more = more]
    BY DEF FetchPage
  <1>3. PICK page \in SUBSET Children(w.folder), more \in BOOLEAN :
              /\ LastPage(w, page, more)
              /\ walk' = [w EXCEPT !.page = [i \in Unseen(page) |-> drive.parents[i]],
                                   !.returned = @ \cup page, !.more = more]
    BY <1>2
  <1>4. PageConsumed /\ (walk.more \/ walk.pending # <<>>) /\ walk.step = "walking"
        /\ UNCHANGED <<drive, stays, stated>>
    BY DEF FetchPage, PageConsumed, Underway, driveVars, ghosts
  <1>5. w = Asking /\ w \in WalkRecords
    BY <1>2, <1>4, AskingInv
  <1>6. /\ walk'.page = [i \in Unseen(page) |-> drive.parents[i]]
        /\ walk'.returned = w.returned \cup page /\ walk'.more = more
        /\ walk'.pending = w.pending /\ walk'.visited = w.visited
        /\ walk'.folder = w.folder
    BY <1>3, <1>5 DEF WalkRecords
  <1>7. /\ walk'.kind = walk.kind /\ walk'.step = walk.step /\ walk'.seen = walk.seen
        /\ walk'.result = walk.result /\ walk'.errors = walk.errors
        /\ walk'.capped = walk.capped
    <2>1. /\ w.kind = walk.kind /\ w.step = walk.step /\ w.seen = walk.seen
          /\ w.result = walk.result /\ w.errors = walk.errors /\ w.capped = walk.capped
      BY <1>4, <1>5, AskingType DEF WalkInv, TypeOK
    <2> QED
      BY <1>3, <1>5, <2>1 DEF WalkRecords
  <1>8. OnPage' = page \ walk.seen /\ OnPage = {}
    BY <1>4, <1>6 DEF OnPage, Unseen, PageConsumed
  <1>9. Paged'
    <2>1. w.returned \subseteq walk.seen /\ w.folder \in w.visited
      BY <1>4, <1>5, AskingInv
    <2>2. Root \in walk.seen
      BY <1>4, <1>8 DEF WalkInv, Paged
    <2> QED
      BY <1>6, <1>7, <1>8, <2>1, <2>2 DEF Paged
  <1>10. Ordered'
    <2>1. /\ OnceEach(w.pending, w.visited)
          /\ walk.seen \cap Folders = w.visited \cup Elements(w.pending)
      BY <1>4, <1>5, AskingInv
    <2> QED
      BY <1>6, <1>7, <2>1 DEF Ordered, Waiting, ListsFoldersOnce, OnceEach
  <1>11. Covered'
    <2> SUFFICES ASSUME NEW e \in stays, e[2] \in w.visited, ~walk.errors,
                        ~(more /\ e[2] = w.folder)
                 PROVE  e[1] \in walk.seen \cup (page \ walk.seen)
      BY <1>4, <1>6, <1>7, <1>8 DEF Covered
    <2>1. e[1] \in walk.seen \/ e[2] = w.folder
      BY <1>4, <1>5, AskingInv
    <2>2. CASE e[2] = w.folder
      <3>1. Staying(w.folder) \subseteq w.returned \cup page
        BY <1>3, <2>2 DEF LastPage
      <3>2. e[1] \in Staying(w.folder)
        BY <2>2 DEF Staying
      <3>3. w.returned \subseteq walk.seen
        BY <1>4, <1>5, AskingInv
      <3> QED
        BY <3>1, <3>2, <3>3
    <2> QED
      BY <2>1, <2>2
  <1>12. IsStated'
    <2>1. \A i \in OnPage' : \A f \in walk'.page[i] : <<i, f>> \in stated
      <3> SUFFICES ASSUME NEW i \in OnPage', NEW f \in walk'.page[i]
                   PROVE  <<i, f>> \in stated
        OBVIOUS
      <3>1. i \in Unseen(page) /\ i \in Items /\ f \in drive.parents[i]
        BY <1>6, <1>8 DEF Unseen, OnPage, Children
      <3>2. f \in Folders
        BY <3>1 DEF WalkInv, TypeOK, Drives
      <3> QED
        BY <1>4, <3>1, <3>2, ParentIsStated DEF WalkInv, IsStated, Underway
    <2> QED
      BY <1>4, <1>7, <2>1 DEF WalkInv, IsStated, Underway, YieldsWhatWasStated
  <1>13. Handed' /\ AtEnd'
    BY <1>4, <1>7 DEF WalkInv, Handed, AtEnd, Complete
  <1> QED
    BY <1>1, <1>9, <1>10, <1>11, <1>12, <1>13 DEF WalkInv

\* A walk that failed has dropped what it had.
LEMMA FailedInv ==
    ASSUME WalkInv, TypeOK', NEW kind \in Kinds,
           walk' = [Begun(kind) EXCEPT !.step = "failed"], UNCHANGED <<stays, stated>>
    PROVE  WalkInv'
  <1>1. /\ walk'.step = "failed" /\ walk'.pending = <<Root>> /\ walk'.seen = {Root}
        /\ walk'.visited = {} /\ walk'.returned = {} /\ OnPage' = {} /\ ~walk'.more
        /\ walk'.result.active = {}
    BY DEF Begun, OnPage, NoPage, Nothing
  <1>2. Waiting' = {Root} /\ ListsFoldersOnce' /\ Root \in Folders
    BY <1>1, AccessAssumption DEF Waiting, Elements, ListsFoldersOnce
  <1> QED
    BY <1>1, <1>2 DEF WalkInv, Paged, Ordered, Covered, Handed, AtEnd,
       Complete, IsStated, Underway, YieldsWhatWasStated

LEMMA FailsInv ==
    ASSUME WalkInv, ListingFails
    PROVE  WalkInv'
  <1>1. TypeOK'
    BY NextType DEF WalkInv, Next, WalkStep
  <1>2. PageConsumed /\ (walk.more \/ walk.pending # <<>>) /\ walk.step = "walking"
        /\ UNCHANGED <<drive, stays, stated>> /\ OnPage = {}
    BY DEF ListingFails, PageConsumed, Underway, driveVars, ghosts, OnPage
  <1>3. CASE walk.kind = "check"
    <2>1. walk' = [Asking EXCEPT !.more = FALSE, !.errors = TRUE]
      BY <1>3 DEF ListingFails
    <2>2. Asking \in WalkRecords
      BY <1>2, AskingInv
    <2>3. /\ walk'.errors /\ ~walk'.more
          /\ walk'.returned = Asking.returned /\ walk'.pending = Asking.pending
          /\ walk'.visited = Asking.visited
      BY <2>1, <2>2 DEF WalkRecords
    <2>4. /\ walk'.kind = walk.kind /\ walk'.step = walk.step
          /\ walk'.seen = walk.seen /\ walk'.page = walk.page
          /\ walk'.result = walk.result
      <3>1. /\ Asking.kind = walk.kind /\ Asking.step = walk.step
            /\ Asking.seen = walk.seen /\ Asking.page = walk.page
            /\ Asking.result = walk.result
        BY <1>2, AskingType DEF WalkInv, TypeOK
      <3> QED
        BY <2>1, <2>2, <3>1 DEF WalkRecords
    <2>5. Paged'
      <3>1. Asking.returned \subseteq walk.seen
        BY <1>2, AskingInv
      <3> QED
        BY <1>2, <2>3, <2>4, <3>1 DEF WalkInv, Paged, OnPage
    <2>6. Ordered'
      <3>1. /\ OnceEach(Asking.pending, Asking.visited)
            /\ walk.seen \cap Folders = Asking.visited \cup Elements(Asking.pending)
        BY <1>2, AskingInv
      <3> QED
        BY <2>3, <2>4, <3>1 DEF Ordered, Waiting, ListsFoldersOnce, OnceEach
    <2>7. IsStated'
      BY <1>2, <2>4 DEF WalkInv, IsStated, Underway, OnPage, YieldsWhatWasStated
    <2> QED
      BY <1>1, <1>2, <2>3, <2>4, <2>5, <2>6, <2>7
         DEF WalkInv, Covered, Handed, AtEnd, Complete
  <1>4. CASE walk.kind # "check"
    <2>1. walk' = [Begun(walk.kind) EXCEPT !.step = "failed"] /\ walk.kind \in Kinds
      BY <1>4 DEF ListingFails, WalkInv, TypeOK, WalkRecords
    <2> QED
      BY <1>1, <1>2, <2>1, FailedInv
  <1> QED
    BY <1>3, <1>4

LEMMA TakeInv ==
    ASSUME WalkInv, NEW i \in Items, TakeEntry(i)
    PROVE  WalkInv'
  <1> DEFINE wanted == i \in Documents \/ walk.kind = "resources"
             result == IF wanted THEN WithEntry(i) ELSE walk.result
  <1>1. TypeOK'
    BY NextType DEF WalkInv, Next, WalkStep
  <1>2. walk \in WalkRecords /\ walk.step = "walking" /\ i \in OnPage /\ i \notin walk.seen
        /\ UNCHANGED <<drive, stays, stated>>
    BY DEF TakeEntry, WalkInv, TypeOK, Underway, OnPage, Paged, driveVars, ghosts
  <1>3. PICK enough \in BOOLEAN :
           walk' = [walk EXCEPT
               !.page = [j \in (DOMAIN @) \ {i} |-> @[j]],
               !.seen = @ \cup {i},
               !.pending = IF i \in Folders THEN Append(@, i) ELSE @,
               !.result = result,
               !.capped = enough,
               !.step = IF enough THEN "done" ELSE @]
    BY DEF TakeEntry, SampledEnough
  <1> HIDE DEF result
  <1>4. /\ walk'.page = [j \in (DOMAIN walk.page) \ {i} |-> walk.page[j]]
        /\ walk'.seen = walk.seen \cup {i}
        /\ walk'.pending = IF i \in Folders THEN Append(walk.pending, i) ELSE walk.pending
        /\ walk'.result = result /\ walk'.capped = enough
        /\ walk'.step = IF enough THEN "done" ELSE "walking"
        /\ walk'.kind = walk.kind /\ walk'.visited = walk.visited
        /\ walk'.returned = walk.returned /\ walk'.more = walk.more
        /\ walk'.folder = walk.folder /\ walk'.errors = walk.errors
    BY <1>2, <1>3 DEF WalkRecords
  <1>5. OnPage' = OnPage \ {i} /\ \A j \in OnPage' : walk'.page[j] = walk.page[j]
    BY <1>4 DEF OnPage
  <1>6. Paged'
    BY <1>2, <1>4, <1>5 DEF WalkInv, Paged
  <1>7. Ordered'
    <2>1. OnceEach(walk.pending, walk.visited)
      BY DEF WalkInv, Ordered, ListsFoldersOnce, OnceEach
    <2>2. CASE i \in Folders
      <3>1. walk.pending \in Seq(Folders) /\ i \notin walk.visited \cup Elements(walk.pending)
        BY <1>2, <2>2 DEF WalkRecords, WalkInv, Ordered, Waiting
      <3>2. /\ OnceEach(Append(walk.pending, i), walk.visited)
            /\ Elements(Append(walk.pending, i)) = Elements(walk.pending) \cup {i}
        BY <2>1, <2>2, <3>1, Appended
      <3>3. walk'.pending = Append(walk.pending, i)
        BY <1>4, <2>2
      <3>4. ListsFoldersOnce'
        BY <1>4, <3>2, <3>3 DEF ListsFoldersOnce, OnceEach
      <3>5. walk'.seen \cap Folders = walk'.visited \cup Waiting'
        BY <1>4, <2>2, <3>2, <3>3 DEF WalkInv, Ordered, Waiting
      <3> QED
        BY <3>4, <3>5 DEF Ordered
    <2>3. CASE i \notin Folders
      BY <1>4, <2>3 DEF WalkInv, Ordered, Waiting, ListsFoldersOnce
    <2> QED
      BY <2>2, <2>3
  <1>8. Covered'
    BY <1>2, <1>4, <1>5 DEF WalkInv, Covered
  <1>9. walk.result \in Listings /\ ListedAcl(drive, i) \in SUBSET Permission
        /\ drive \in Drives
    BY <1>2, ListedAclType DEF WalkRecords, WalkInv, TypeOK
  <1>10. ASSUME wanted
         PROVE  Handed' /\ YieldsWhatWasStated'
    <2>1. result = WithEntry(i)
      BY <1>10 DEF result
    <2>2. /\ result.active = walk.result.active \cup {i}
          /\ result.parents[i] = walk.page[i]
          /\ result.acl[i] \in {{}, ListedAcl(drive, i)}
          /\ \A j \in Items \ {i} : /\ result.parents[j] = walk.result.parents[j]
                                    /\ result.acl[j] = walk.result.acl[j]
      BY <1>9, <2>1 DEF WithEntry, AclWhenUnreadable, Listings
    <2>3. Handed'
      BY <1>2, <1>4, <2>2 DEF WalkInv, Handed
    <2>4. YieldsWhatWasStated'
      <3> SUFFICES ASSUME NEW j \in result.active
                   PROVE  /\ \A f \in result.parents[j] : <<j, f>> \in stated
                          /\ \A p \in result.acl[j] :
                                ~p.deleted /\ p.who # Refused => <<j, p.who>> \in stated
        BY <1>2, <1>4 DEF YieldsWhatWasStated
      <3>1. CASE j = i
        <4>1. \A f \in walk.page[i] : <<i, f>> \in stated
          BY <1>2 DEF WalkInv, IsStated
        <4>2. \A p \in ListedAcl(drive, i) :
                 ~p.deleted /\ p.who # Refused => <<i, p.who>> \in stated
          BY <1>2, ListedIsStated DEF WalkInv, IsStated, Underway
        <4> QED
          BY <2>2, <3>1, <4>1, <4>2
      <3>2. CASE j # i
        <4>1. j \in walk.result.active /\ j \in Items
          BY <1>9, <2>2, <3>2 DEF Listings
        <4> QED
          BY <2>2, <3>2, <4>1 DEF WalkInv, IsStated, YieldsWhatWasStated
      <3> QED
        BY <3>1, <3>2
    <2> QED
      BY <2>3, <2>4
  <1>11. ASSUME ~wanted
         PROVE  Handed' /\ YieldsWhatWasStated'
    <2>1. walk'.result = walk.result
      BY <1>4, <1>11 DEF result
    <2> QED
      BY <1>2, <1>4, <1>11, <2>1 DEF WalkInv, Handed, IsStated, YieldsWhatWasStated
  <1>12. Handed' /\ YieldsWhatWasStated'
    BY <1>10, <1>11
  <1>13. IsStated' /\ AtEnd'
    BY <1>2, <1>4, <1>5, <1>12 DEF WalkInv, IsStated, AtEnd, Complete, Underway
  <1> QED
    BY <1>1, <1>6, <1>7, <1>8, <1>12, <1>13 DEF WalkInv

LEMMA EndInv ==
    ASSUME WalkInv, EndWalk
    PROVE  WalkInv'
  <1>1. TypeOK'
    BY NextType DEF WalkInv, Next, WalkStep
  <1>2. /\ walk \in WalkRecords /\ walk' = [walk EXCEPT !.step = "done"]
        /\ walk.step = "walking" /\ OnPage = {} /\ ~walk.more /\ walk.pending = <<>>
        /\ UNCHANGED <<drive, stays, stated>>
    BY DEF EndWalk, WalkInv, TypeOK, PageConsumed, Underway, OnPage, driveVars, ghosts
  <1>3. /\ walk'.step = "done" /\ walk'.kind = walk.kind /\ walk'.pending = walk.pending
        /\ walk'.seen = walk.seen /\ walk'.visited = walk.visited
        /\ walk'.folder = walk.folder /\ walk'.returned = walk.returned
        /\ walk'.page = walk.page /\ walk'.more = walk.more
        /\ walk'.result = walk.result /\ walk'.errors = walk.errors
    BY <1>2 DEF WalkRecords
  <1>4. OnPage' = OnPage /\ Waiting' = Waiting
    BY <1>3 DEF OnPage, Waiting
  <1> QED
    BY <1>1, <1>2, <1>3, <1>4 DEF WalkInv, Paged, Ordered, Covered, Handed, AtEnd,
       Complete, IsStated, Underway, YieldsWhatWasStated, ListsFoldersOnce

LEMMA NextInv == WalkInv /\ [Next]_vars => WalkInv'
  <1> SUFFICES ASSUME WalkInv, [Next]_vars PROVE WalkInv'
    OBVIOUS
  <1>1. CASE Edit
    BY <1>1, EditInv
  <1>2. CASE BeginWalk
    BY <1>2, BeginInv
  <1>3. CASE FetchPage
    BY <1>3, FetchInv
  <1>4. CASE ListingFails
    BY <1>4, FailsInv
  <1>5. CASE \E i \in Items : TakeEntry(i)
    BY <1>5, TakeInv
  <1>6. CASE EndWalk
    BY <1>6, EndInv
  <1>7. CASE RootFails
    <2>1. TypeOK'
      BY <1>7, NextType DEF WalkInv, Next
    <2> QED
      BY <1>7, <2>1, FailedInv DEF RootFails, ghosts
  <1>8. CASE UNCHANGED vars
    BY <1>8 DEF vars, driveVars, ghosts, WalkInv, TypeOK, Paged, Ordered, Covered,
       Handed, AtEnd, Complete, IsStated, Underway, OnPage, Waiting,
       YieldsWhatWasStated, ListsFoldersOnce
  <1> QED
    BY <1>1, <1>2, <1>3, <1>4, <1>5, <1>6, <1>7, <1>8 DEF Next, WalkStep

LEMMA Invariance == Spec => []WalkInv
  BY InitInv, NextInv, PTL DEF Spec

-----------------------------------------------------------------------------
(* A walk nobody disturbs.                                                 *)

\* The root is below itself, and what is in a folder below it is below it.
LEMMA BelowRoot ==
    ASSUME DriveType
    PROVE  /\ \A e \in Hierarchy(drive) : e[1] \in Nodes
           /\ {Root} \in SUBSET Nodes
           /\ Root \in Reached(Hierarchy(drive), {Root})
           /\ \A i \in Items, f \in Folders :
                 f \in drive.parents[i] /\ f \in Reached(Hierarchy(drive), {Root})
                    => i \in Reached(Hierarchy(drive), {Root})
  <1>1. /\ \A e \in Hierarchy(drive) : e[1] \in Nodes
        /\ {Root} \in SUBSET Nodes
    BY AccessAssumption DEF Hierarchy, Nodes, Items
  <1>2. \A i \in Items, f \in Folders :
           f \in drive.parents[i] => <<i, f>> \in Hierarchy(drive)
    BY DEF Hierarchy
  <1>3. /\ Root \in Reached(Hierarchy(drive), {Root})
        /\ \A e \in Hierarchy(drive) : e[2] \in Reached(Hierarchy(drive), {Root})
              => e[1] \in Reached(Hierarchy(drive), {Root})
    BY <1>1, ReachedFacts DEF IsClosed
  <1> QED
    BY <1>1, <1>2, <1>3

\* After an edit under way nothing is claimed any more.
LEMMA UndisturbedEdit ==
    ASSUME WalkInv, Undisturbed, Edit
    PROVE  Undisturbed'
  <1>1. edits' = edits + 1 /\ begun' = begun /\ walk' = walk
    BY DEF Edit, DriveNext, Share, Move, ChangeGroup, DeleteAccount, LoseSight, Counted
  <1>2. edits \in Nat /\ begun \in Nat
    BY AccessAssumption DEF WalkInv, TypeOK
  <1>3. begun' <= edits' /\ edits' # begun'
    BY <1>1, <1>2 DEF Undisturbed
  <1> QED
    BY <1>1, <1>3 DEF Undisturbed

\* A walk that begins has listed nothing.
LEMMA UndisturbedBegin ==
    ASSUME WalkInv, Undisturbed, BeginWalk
    PROVE  Undisturbed'
  <1>1. PICK kind \in Kinds :
           walk' = IF kind = "resources"
                   THEN [Begun(kind) EXCEPT !.pending = <<>>, !.seen = {},
                            !.page = [i \in {Root} |-> drive.parents[i]]]
                   ELSE Begun(kind)
    BY DEF BeginWalk
  <1>2. /\ walk'.result = Nothing /\ walk'.seen \cup OnPage' = {Root}
        /\ \A i \in OnPage' : walk'.page[i] = drive.parents[i]
    <2>1. CASE kind = "resources"
      BY <1>1, <2>1 DEF Begun, OnPage
    <2>2. CASE kind # "resources"
      BY <1>1, <2>2 DEF Begun, OnPage, NoPage
    <2> QED
      BY <2>1, <2>2
  <1>3. /\ drive' = drive /\ stays' = Hierarchy(drive) /\ begun' = edits' /\ edits' \in Nat
    BY AccessAssumption DEF BeginWalk, driveVars, WalkInv, TypeOK
  <1>4. Root \in Reached(Hierarchy(drive), {Root})
    BY BelowRoot DEF WalkInv, TypeOK, DriveType
  <1> QED
    BY <1>2, <1>3, <1>4 DEF Undisturbed, AsListed, Nothing

\* A page is of a folder that was reached.
LEMMA UndisturbedFetch ==
    ASSUME WalkInv, Undisturbed, FetchPage
    PROVE  Undisturbed'
  <1>1. PICK w \in {Asking} :
           \E page \in SUBSET Children(w.folder), more \in BOOLEAN :
              walk' = [w EXCEPT !.page = [i \in Unseen(page) |-> drive.parents[i]],
                                !.returned = @ \cup page, !.more = more]
    BY DEF FetchPage
  <1>2. PICK page \in SUBSET Children(w.folder), more \in BOOLEAN :
              walk' = [w EXCEPT !.page = [i \in Unseen(page) |-> drive.parents[i]],
                                !.returned = @ \cup page, !.more = more]
    BY <1>1
  <1>3. /\ PageConsumed /\ (walk.more \/ walk.pending # <<>>) /\ walk.step = "walking"
        /\ UNCHANGED <<drive, edits, stays, begun>>
    BY DEF FetchPage, PageConsumed, Underway, driveVars, ghosts
  <1>4. w = Asking /\ w \in WalkRecords
    BY <1>1, <1>3, AskingInv
  <1>5. /\ walk'.page = [i \in Unseen(page) |-> drive.parents[i]]
        /\ walk'.step = walk.step /\ walk'.seen = walk.seen /\ walk'.result = walk.result
    <2>1. w.step = walk.step /\ w.seen = walk.seen /\ w.result = walk.result
      BY <1>3, <1>4, AskingType DEF WalkInv, TypeOK
    <2> QED
      BY <1>2, <1>4, <2>1 DEF WalkRecords
  <1>6. ASSUME edits = begun PROVE AsListed'
    <2>1. AsListed
      BY <1>3, <1>6 DEF Undisturbed
    <2>2. w.folder \in Folders /\ w.folder \in walk.seen
      BY <1>3, <1>4, AskingInv
    <2>3. ASSUME NEW i \in page PROVE i \in Reached(Hierarchy(drive), {Root})
      <3>1. i \in Items /\ w.folder \in drive.parents[i]
        BY DEF Children
      <3>2. w.folder \in Reached(Hierarchy(drive), {Root})
        BY <2>1, <2>2 DEF AsListed
      <3> QED
        BY <2>2, <3>1, <3>2, BelowRoot DEF WalkInv, TypeOK, DriveType
    <2>4. OnPage' \subseteq page /\ \A i \in OnPage' : walk'.page[i] = drive.parents[i]
      BY <1>5 DEF OnPage, Unseen
    <2>5. Listed' = Listed
      BY <1>3 DEF Listed
    <2> QED
      BY <1>3, <1>5, <2>1, <2>3, <2>4, <2>5 DEF AsListed
  <1> QED
    BY <1>3, <1>5, <1>6 DEF Undisturbed

\* A failed request is noted by a check and ends any other walk.
LEMMA UndisturbedFails ==
    ASSUME WalkInv, Undisturbed, ListingFails
    PROVE  Undisturbed'
  <1>1. /\ PageConsumed /\ (walk.more \/ walk.pending # <<>>) /\ walk.step = "walking"
        /\ UNCHANGED <<drive, edits, stays, begun>>
    BY DEF ListingFails, PageConsumed, Underway, driveVars, ghosts
  <1>2. CASE walk.kind = "check"
    <2>1. walk' = [Asking EXCEPT !.more = FALSE, !.errors = TRUE]
      BY <1>2 DEF ListingFails
    <2>2. /\ Asking \in WalkRecords /\ Asking.step = walk.step /\ Asking.seen = walk.seen
          /\ Asking.page = walk.page /\ Asking.result = walk.result
      BY <1>1, AskingType DEF WalkInv, TypeOK
    <2>3. /\ walk'.step = walk.step /\ walk'.seen = walk.seen /\ walk'.page = walk.page
          /\ walk'.result = walk.result
      BY <2>1, <2>2 DEF WalkRecords
    <2> QED
      BY <1>1, <2>3 DEF Undisturbed, AsListed, Listed, OnPage
  <1>3. CASE walk.kind # "check"
    <2>1. walk'.step = "failed" /\ walk'.result = Nothing
      BY <1>3 DEF ListingFails, Begun
    <2> QED
      BY <1>1, <2>1 DEF Undisturbed, Nothing
  <1> QED
    BY <1>2, <1>3

\* An entry taken from a page is handed on as Drive states it, and waits its
\* turn if it is a folder.
LEMMA UndisturbedTake ==
    ASSUME WalkInv, Undisturbed, NEW i \in Items, TakeEntry(i)
    PROVE  Undisturbed'
  <1> DEFINE wanted == i \in Documents \/ walk.kind = "resources"
             result == IF wanted THEN WithEntry(i) ELSE walk.result
  <1>1. /\ walk \in WalkRecords /\ walk.step = "walking" /\ i \in OnPage /\ i \notin walk.seen
        /\ UNCHANGED <<drive, edits, stays, begun>>
    BY DEF TakeEntry, WalkInv, TypeOK, Underway, OnPage, Paged, driveVars, ghosts
  <1>2. PICK enough \in BOOLEAN :
           walk' = [walk EXCEPT
               !.page = [j \in (DOMAIN @) \ {i} |-> @[j]],
               !.seen = @ \cup {i},
               !.pending = IF i \in Folders THEN Append(@, i) ELSE @,
               !.result = result,
               !.capped = enough,
               !.step = IF enough THEN "done" ELSE @]
    BY DEF TakeEntry, SampledEnough
  <1> HIDE DEF result
  <1>3. /\ walk'.page = [j \in (DOMAIN walk.page) \ {i} |-> walk.page[j]]
        /\ walk'.seen = walk.seen \cup {i} /\ walk'.result = result
    BY <1>1, <1>2 DEF WalkRecords
  <1>4. OnPage' = OnPage \ {i} /\ \A j \in OnPage' : walk'.page[j] = walk.page[j]
    BY <1>3 DEF OnPage
  <1>5. walk.result \in Listings /\ drive \in Drives /\ Listed' = Listed
    BY <1>1 DEF WalkRecords, WalkInv, TypeOK, Listed
  <1>6. i \notin walk.result.active /\ i \notin walk.result.failed
        /\ walk.result.failed \subseteq walk.result.active
        /\ walk.result.active \subseteq walk.seen
    BY <1>1 DEF Undisturbed
  <1>7. ASSUME wanted
        PROVE  /\ result.active = walk.result.active \cup {i}
               /\ result.parents[i] = walk.page[i] /\ result.acl[i] = Listed.acl[i]
               /\ result.failed \subseteq walk.result.failed \cup {i}
               /\ i \in result.failed <=> i \in Listed.failed
               /\ \A j \in Items \ {i} :
                     /\ result.parents[j] = walk.result.parents[j]
                     /\ result.acl[j] = walk.result.acl[j]
                     /\ j \in result.failed <=> j \in walk.result.failed
    <2>1. result = WithEntry(i)
      BY <1>7 DEF result
    <2>2. Listed.acl[i] = IF i \in drive.unreadable THEN {} ELSE ListedAcl(drive, i)
      BY DEF Listed, ListPermissionResources
    <2> QED
      BY <1>5, <1>6, <2>1, <2>2, ListedIs DEF WithEntry, AclWhenUnreadable, Listings
  <1>8. /\ result.failed \subseteq result.active
        /\ result.active \subseteq walk.seen \cup {i}
    <2>1. CASE wanted
      BY <1>6, <1>7, <2>1
    <2>2. CASE ~wanted
      BY <1>6, <2>2 DEF result
    <2> QED
      BY <2>1, <2>2
  <1>9. ASSUME edits = begun PROVE AsListed'
    <2>1. AsListed
      BY <1>1, <1>9 DEF Undisturbed
    <2>2. \A j \in result.active :
             /\ result.parents[j] = Listed.parents[j]
             /\ result.acl[j] = Listed.acl[j]
             /\ j \in result.failed <=> j \in Listed.failed
      <3>1. CASE wanted
        <4>1. walk.page[i] = Listed.parents[i]
          BY <1>1, <2>1, ListedIs DEF AsListed
        <4> SUFFICES ASSUME NEW j \in result.active
                     PROVE  /\ result.parents[j] = Listed.parents[j]
                            /\ result.acl[j] = Listed.acl[j]
                            /\ j \in result.failed <=> j \in Listed.failed
          OBVIOUS
        <4>2. CASE j = i
          BY <1>7, <3>1, <4>1, <4>2
        <4>3. CASE j # i
          <5>1. j \in walk.result.active /\ j \in Items \ {i}
            BY <1>5, <1>7, <3>1, <4>3 DEF Listings
          <5> QED
            BY <1>7, <2>1, <3>1, <5>1 DEF AsListed
        <4> QED
          BY <4>2, <4>3
      <3>2. CASE ~wanted
        BY <2>1, <3>2 DEF result, AsListed
      <3> QED
        BY <3>1, <3>2
    <2> QED
      BY <1>1, <1>3, <1>4, <1>5, <2>1, <2>2 DEF AsListed
  <1> QED
    BY <1>1, <1>3, <1>8, <1>9 DEF Undisturbed

\* The end changes no more than the step.
LEMMA UndisturbedEnd ==
    ASSUME WalkInv, Undisturbed, EndWalk
    PROVE  Undisturbed'
  <1>1. /\ walk \in WalkRecords /\ walk' = [walk EXCEPT !.step = "done"]
        /\ walk.step = "walking" /\ UNCHANGED <<drive, edits, stays, begun>>
    BY DEF EndWalk, WalkInv, TypeOK, PageConsumed, Underway, driveVars, ghosts
  <1>2. /\ walk'.seen = walk.seen /\ walk'.page = walk.page /\ walk'.result = walk.result
    BY <1>1 DEF WalkRecords
  <1> QED
    BY <1>1, <1>2 DEF Undisturbed, AsListed, Listed, OnPage

\* Undisturbed holds throughout.
LEMMA UndisturbedInvariance == Spec => []Undisturbed
  <1>1. WalkInit => Undisturbed
    <2> SUFFICES ASSUME WalkInit PROVE Undisturbed
      OBVIOUS
    <2>1. walk.step = "idle" /\ walk.result = Nothing /\ begun = 0 /\ edits = 0
      BY DEF WalkInit, DriveInit, Begun
    <2> QED
      BY <2>1 DEF Undisturbed, Nothing
  <1>2. WalkInv /\ Undisturbed /\ [Next]_vars => Undisturbed'
    <2> SUFFICES ASSUME WalkInv, Undisturbed, [Next]_vars PROVE Undisturbed'
      OBVIOUS
    <2>1. CASE UNCHANGED vars
      BY <2>1 DEF vars, driveVars, ghosts, Undisturbed, AsListed, Listed, OnPage
    <2>2. CASE RootFails
      <3>1. walk'.step = "failed" /\ walk'.result = Nothing
        BY <2>2 DEF RootFails, Begun
      <3> QED
        BY <2>2, <3>1 DEF RootFails, driveVars, ghosts, Undisturbed, Nothing
    <2> QED
      BY <2>1, <2>2, UndisturbedEdit, UndisturbedBegin, UndisturbedFetch, UndisturbedFails,
         UndisturbedTake, UndisturbedEnd DEF Next, WalkStep
  <1> QED
    BY <1>1, <1>2, Invariance, PTL DEF Spec

-----------------------------------------------------------------------------
(* The theorems.                                                           *)

\* Walks hold what WalkRecords says, whatever Drive holds.
THEOREM WalkTypes == Spec => []TypeOK
  <1>1. WalkInv => TypeOK
    BY DEF WalkInv
  <1> QED
    BY <1>1, Invariance, PTL

\* A complete walk found every item that stayed, throughout the walk, in a
\* folder the walk found: neither paging nor moves, circles and folders met
\* twice hide it from list_files or list_permission_resources.
THEOREM WhatStaysIsFound == Spec => []FindsWhatStays
  <1>1. WalkInv => FindsWhatStays
    <2> SUFFICES ASSUME WalkInv, Complete PROVE
            Found(Root) /\ \A e \in stays : Found(e[2]) => Found(e[1])
      BY DEF FindsWhatStays
    <2>1. /\ Root \in walk.seen /\ OnPage = {} /\ ~walk.more /\ walk.pending = <<>>
          /\ walk.step # "failed" /\ ~walk.errors
      BY DEF WalkInv, AtEnd, Complete
    <2>2. \A i \in walk.seen : Found(i)
      BY <2>1 DEF WalkInv, Handed, Found
    <2>3. walk.seen \cap Folders = walk.visited
      BY <2>1 DEF WalkInv, Ordered, Waiting, Elements
    <2>4. ASSUME NEW e \in stays, Found(e[2])
          PROVE  Found(e[1])
      <3>1. e[2] \in Folders /\ e[2] \in walk.seen
        BY <2>4 DEF WalkInv, TypeOK, Found
      <3>2. e[1] \in walk.seen
        BY <2>1, <2>3, <3>1 DEF WalkInv, Covered
      <3> QED
        BY <2>2, <3>2
    <2> QED
      BY <2>1, <2>2, <2>4
  <1> QED
    BY <1>1, Invariance, PTL

\* Whatever a walk hands to its caller, Drive stated while the walk was under
\* way: no parent or principal of one entry is handed out with another.
THEOREM WhatIsYieldedWasStated == Spec => []YieldsWhatWasStated
  <1>1. WalkInv => YieldsWhatWasStated
    BY DEF WalkInv, IsStated
  <1> QED
    BY <1>1, Invariance, PTL

\* A folder waits at most once, and never again after its turn, so that a walk
\* makes finitely many requests in a finite Drive.
THEOREM FoldersAreListedOnce == Spec => []ListsFoldersOnce
  <1>1. WalkInv => ListsFoldersOnce
    BY DEF WalkInv, Ordered
  <1> QED
    BY <1>1, Invariance, PTL

\* Without edits meanwhile, the requests of a permission run add up to the
\* listing that the permission run and the view properties work with.
THEOREM UndisturbedWalks == Spec => []UndisturbedWalkIsListing
  <1>1. WalkInv /\ FindsWhatStays /\ Undisturbed => UndisturbedWalkIsListing
    <2> SUFFICES ASSUME WalkInv, FindsWhatStays, Undisturbed, Complete,
                        walk.kind = "resources", edits = begun
                 PROVE  /\ walk.result.active = Listed.active
                        /\ AsListed
      BY DEF UndisturbedWalkIsListing, AsListed
    <2>1. AsListed /\ walk.result.active \subseteq walk.seen
      BY DEF Undisturbed, Complete
    <2>2. walk.result.active = walk.seen
      BY <2>1 DEF WalkInv, Handed, Complete
    <2>3. /\ Root \in walk.seen
          /\ \A e \in Hierarchy(drive) : e[2] \in walk.seen => e[1] \in walk.seen
      BY <2>1, <2>2 DEF FindsWhatStays, Found, AsListed
    <2>4. Reached(Hierarchy(drive), {Root}) \subseteq walk.seen
      BY <2>3, BelowRoot, ReachedIsLeast DEF WalkInv, TypeOK, DriveType
    <2>5. walk.seen \subseteq Items
      BY DEF WalkInv, TypeOK, WalkRecords
    <2> QED
      BY <2>1, <2>2, <2>4, <2>5, ListedIs DEF AsListed
  <1> QED
    BY <1>1, Invariance, WhatStaysIsFound, UndisturbedInvariance, PTL

\* Whatever is shared, nested, moved or deleted: the relationships planned from
\* one listing let a user view exactly the enabled documents that Drive lets
\* the user view.
THEOREM ViewsAreDriveAccess == Spec => []ViewIsDriveAccess
  <1>1. WalkInv => ViewIsDriveAccess
    BY ViewHolds DEF WalkInv, TypeOK, DriveType
  <1> QED
    BY <1>1, Invariance, PTL

\* No document is left out without one of the stated reasons.
THEOREM NothingLeftOut == Spec => []LeftOutForAReason
  <1>1. WalkInv => LeftOutForAReason
    BY LeftOutHolds DEF WalkInv, TypeOK, DriveType
  <1> QED
    BY <1>1, Invariance, PTL

=============================================================================
